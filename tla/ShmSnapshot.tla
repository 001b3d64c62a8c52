---------------------------- MODULE ShmSnapshot ----------------------------
(***************************************************************************)
(* What the shared-memory export promises: the daemon publishes whole      *)
(* updates one after the other, and each successful read of a client       *)
(* returns the latest one.  When the daemon is restarted, all clients are  *)
(* without that guarantee until they begin a read under the new one.       *)
(***************************************************************************)
EXTENDS Naturals

CONSTANTS Readers,
          Last,   \* bound on the number of updates
          Value,  \* Value[n] is what update n looks like to a client
          Blank   \* what gps_open() puts in the client's structure

VARIABLES latest,  \* number of the update last published
          unsafe,  \* the clients without the guarantee
          got      \* what each client read last

vars == <<latest, unsafe, got>>

Init ==
    /\ latest = 0
    /\ unsafe = Readers
    /\ got = [r \in Readers |-> Blank]

\* An update that the daemon did not live to finish is never seen.
Publish ==
    /\ latest' \in (latest + 1)..Last
    /\ UNCHANGED <<unsafe, got>>

Begin(r) ==
    /\ unsafe' = unsafe \ {r}
    /\ UNCHANGED <<latest, got>>

Deliver(r) ==
    /\ r \notin unsafe
    /\ got' = [got EXCEPT ![r] = Value[latest]]
    /\ UNCHANGED <<latest, unsafe>>

Restart ==
    /\ unsafe' = Readers
    /\ UNCHANGED <<latest, got>>

\* Whatever a client finds, the others and the daemon do not notice.
DeliverAnything(r) ==
    /\ r \in unsafe
    /\ \A other \in Readers \ {r} : got'[other] = got[other]
    /\ UNCHANGED <<latest, unsafe>>

Next ==
    \/ Publish \/ Restart
    \/ \E r \in Readers : Begin(r) \/ Deliver(r) \/ DeliverAnything(r)

Spec == Init /\ [][Next]_vars
=============================================================================
