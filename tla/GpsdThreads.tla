----------------------------- MODULE GpsdThreads -----------------------------
(***************************************************************************)
(* GpsdDaemon with the PPS threads beside its main thread.  After each     *)
(* edge that counts a thread calls context.pps_hook, that is               *)
(* ship_pps_drift_message(), which writes to the watchers of the device    *)
(* and detaches those that do not take the message.  detach_client() runs  *)
(* there without a lock (report_mutex covers the write alone) on the same  *)
(* subscribers[] and the same all_fds as the main thread's.                *)
(*                                                                         *)
(* The thread is cut at every access to what it shares; the main thread at *)
(* the steps of GpsdDaemon, before or after which an access of another     *)
(* thread falls.  FD_CLR() is a load and a store of a word that holds all  *)
(* the descriptors.  A thread of a device whose slot has changed hands     *)
(* meanwhile, or one that outlives its device, is another of Threads.      *)
(***************************************************************************)
EXTENDS GpsdDaemon

CONSTANT Threads   \* the PPS threads

VARIABLES
    thread,    \* where each of them is in the hook, and what it has loaded
    disturbed  \* history: a thread has detached a client in the middle of
               \* something, or the main thread has not waited for it to end

allVars == <<vars, thread, disturbed>>

\* between edges | in notify_watchers() | at the places of detach_client() where it
\* tests and closes sub->fd, loads and stores all_fds, and frees the slot
Places == {"edge", "notify", "close", "load", "store", "free"}

Idling == [at |-> "edge", dev |-> 1, sub |-> 0, fd |-> NoFd, set |-> {}]

\* Threads past close().
Detaching == {t \in Threads : thread[t].at \in {"load", "store", "free"}}

Client(t) == subs[thread[t].sub]
Proceeds(t, place) == thread' = [thread EXCEPT ![t].at = place]

\* The main thread is between the copy of all_fds and pselect(), or handles a request
\* of the client that t is about to close, or another thread detaches a client.
Untimely(t) ==
    \/ pc = "pselect"
    \/ pc = "request" /\ First(thread[t].sub)
    \/ Detaching # {}

-----------------------------------------------------------------------------
(* ship_pps_drift_message() *)

\* An edge of the line of an open device: notify_watchers().
HookStart(t, s) ==
    /\ thread[t].at = "edge"
    /\ Open(s)
    /\ thread' = [thread EXCEPT ![t] = [Idling EXCEPT !.at = "notify", !.dev = s]]
    /\ UNCHANGED <<vars, disturbed>>

\* The next watcher that throttled_write() finds gone.
HookWriteFails(t, i) ==
    /\ thread[t].at = "notify"
    /\ i > thread[t].sub
    /\ Active(i) /\ Subscribed(i, thread[t].dev)
    /\ thread' = [thread EXCEPT ![t].at = "close", ![t].sub = i]
    /\ UNCHANGED <<vars, disturbed>>

HookEnd(t) ==
    /\ thread[t].at = "notify"
    /\ thread' = [thread EXCEPT ![t] = Idling]
    /\ UNCHANGED <<vars, disturbed>>

\* detach_client() on a slot that has been freed already.
HookGone(t) ==
    /\ thread[t].at = "close"
    /\ Client(t).fd = NoFd
    /\ Proceeds(t, "notify")
    /\ UNCHANGED <<vars, disturbed>>

\* close(sub->fd)
HookClose(t) ==
    /\ thread[t].at = "close"
    /\ Client(t).fd # NoFd
    /\ opened' = opened \ {Client(t).fd}
    /\ Proceeds(t, "load")
    /\ disturbed' = (disturbed \/ Untimely(t))
    /\ UNCHANGED <<devices, subs, all_fds, rfds, control_fds, leaked, calls, pc, todo, rousing,
                   naming>>

\* FD_CLR(sub->fd, &all_fds): the word is loaded,
HookLoad(t) ==
    /\ thread[t].at = "load"
    /\ thread' = [thread EXCEPT ![t].at = "store", ![t].fd = Client(t).fd, ![t].set = all_fds]
    /\ UNCHANGED <<vars, disturbed>>

\* and stored.  An update made in between is lost, or loses this one, or neither.
HookStore(t) ==
    /\ thread[t].at = "store"
    /\ LET fd == thread[t].fd
           set == thread[t].set
       IN  /\ all_fds' \in {all_fds \ {fd}}
                            \cup IF all_fds = set THEN {} ELSE {set \ {fd}, all_fds}
           /\ thread' = [thread EXCEPT ![t].at = "free", ![t].fd = NoFd, ![t].set = {}]
    /\ UNCHANGED <<devices, subs, rfds, control_fds, opened, leaked, calls, pc, todo, rousing,
                   naming, disturbed>>

\* Mutant of Freed: the policy of the client stays in the slot.
FreedPolicyStays(i) == [subs EXCEPT ![i].fd = NoFd, ![i].active = None]

Freed(i) == [subs EXCEPT ![i] = NoClient]

\* The slot, its policy included.
HookFree(t) ==
    /\ thread[t].at = "free"
    /\ subs' = Freed(thread[t].sub)
    /\ Proceeds(t, "notify")
    /\ UNCHANGED <<devices, all_fds, rfds, control_fds, opened, leaked, calls, pc, todo, rousing,
                   naming, disturbed>>

-----------------------------------------------------------------------------

ThreadStep(t) ==
    /\ pc \notin {"exit", "crash"}
    /\ \/ \E s \in Slots : HookStart(t, s)
       \/ \E i \in Subs : HookWriteFails(t, i)
       \/ HookEnd(t) \/ HookGone(t) \/ HookClose(t) \/ HookLoad(t) \/ HookStore(t) \/ HookFree(t)

\* The main thread, while no thread is in detach_client() or beside one that is.
Beside(step) ==
    /\ step
    /\ disturbed' = (disturbed \/ Detaching # {})
    /\ UNCHANGED thread

ThreadInit ==
    /\ Init
    /\ thread = [t \in Threads |-> Idling]
    /\ disturbed = FALSE

\* That time passes disturbs nothing.
MainStep ==
    /\ UNCHANGED thread
    /\ \/ Beside(Loop)
       \/ Tick /\ UNCHANGED disturbed

ThreadNext ==
    \/ MainStep
    \/ \E t \in Threads : ThreadStep(t)

\* A daemon that is not restarted, and one that may get SIGHUP.
ThreadSpec == ThreadInit /\ [][ThreadNext]_allVars
ThreadHupSpec == ThreadInit /\ [][ThreadNext \/ Beside(Hangup)]_allVars

-----------------------------------------------------------------------------
(* Properties *)

\* No thread is in detach_client(), and none has been there at a bad moment.
Calm == ~disturbed /\ Detaching = {}

\* The tables agree on the descriptors while the detaching of a client falls between
\* two steps of the main thread, or beside its wait in pselect(): detach_client(),
\* accept() and gpsd_close() give descriptors back and reuse them, each with one owner.
OneOwnerBetween == Calm => OneOwner

\* Every open descriptor has an owner, and no owner's is closed, on the same condition.
NoDescriptorLostBetween == Calm => NoDescriptorLost

\* Every client and every open device is waited on, on the same condition.
EveryoneIsHeardBetween == Calm => EveryoneIsHeard

\* A free slot holds no policy, on the same condition.
FreeSlotsAreCleanBetween == Calm => FreeSlotsAreClean

\* pselect() is not given a closed descriptor, on the same condition, which excludes
\* a client closed between the copy of all_fds and the call.
SelectSetValidBetween == Calm => SelectSetValid

=============================================================================
