----------------------------- MODULE ShmExport -----------------------------
(***************************************************************************)
(* The shared-memory export of gpsd: shm_update() (shmexport.c) publishes  *)
(* the state of a device in a System V segment, gps_shm_read()             *)
(* (libgps_shm.c) copies it out in any number of client processes.  There  *)
(* is no lock: two bookends around the data tell a reader that a write     *)
(* overlapped its copy.                                                    *)
(*                                                                         *)
(* One action per access of shared memory: the barrier() calls of the code *)
(* keep the accesses in program order.  A memcpy() copies word by word, in *)
(* any order.  Data is abstracted to the number of the update it belongs   *)
(* to; 0 is what the zeroed segment that shmget() creates contains.        *)
(***************************************************************************)
EXTENDS Integers

CONSTANTS Readers,     \* client processes attached to the segment
          Words,       \* the words of struct gps_data_t
          FdWord,      \* the one that holds gps_fd
          MaxUpdates,  \* bound on the updates exported, over all daemons
          MaxRestarts  \* bound on the number of restarts of the daemon

ASSUME ShmAssumption ==
    /\ FdWord \in Words
    /\ MaxUpdates \in Nat
    /\ MaxRestarts \in Nat

VARIABLES
    bookend1, bookend2,  \* first and last member of struct shmexport_t
    gpsdata,             \* the words between them
    tick,                \* the static counter of shm_update()
    daemonPc,            \* where the daemon is in shm_update(), or "down"
    daemonTodo,          \* words its memcpy() has not copied yet
    updates,             \* updates begun so far, by all daemons
    life,                \* which daemon process is or was last running
    stamp,               \* history: which daemon process last stored bookend1, 0 if none
    published,           \* history: the update it stored bookend1 for
    mainloop,            \* the clients that run gps_mainloop(); the others poll gps_read()
    clientPc,            \* where each client is
    clientTick,          \* PRIVATE(gpsdata)->tick
    before,              \* the bookend1 it has read
    began,               \* the value of stamp at that moment
    todo,                \* words its memcpy() has not copied yet
    noclobber,           \* the private copy being filled
    delivered            \* its struct gps_data_t, and the lives it was read in

segment == <<bookend1, bookend2, gpsdata, stamp, published>>
daemonVars == <<tick, daemonPc, daemonTodo, updates, life>>
clientVars == <<mainloop, clientPc, clientTick, before, began, todo, noclobber, delivered>>
vars == <<segment, daemonVars, clientVars>>

SHM_PSEUDO_FD == -1

\* What update n looks like once it is published: the descriptor of the daemon
\* has been replaced by the constant that clients dispatch on.
Image(n) == [w \in Words |-> IF w = FdWord THEN SHM_PSEUDO_FD ELSE n]

Zeroed == [w \in Words |-> 0]

-----------------------------------------------------------------------------
(* The daemon *)

\* Mutants of NextTick: the counter runs the wrong way; it is one bit wide.
NextTickDown == tick - 1
NextTickNarrow == (tick + 1) % 2

NextTick == tick + 1

\* Mutant of ClosingTick: the first bookend gets the tick of the update before.
ClosingTickOld == tick - 1

ClosingTick == tick

\* shm_update() clobbers the second bookend first.
BeginUpdate ==
    /\ daemonPc = "idle"
    /\ updates < MaxUpdates
    /\ tick' = NextTick
    /\ bookend2' = NextTick
    /\ updates' = updates + 1
    /\ daemonTodo' = Words
    /\ daemonPc' = "copy"
    /\ UNCHANGED <<bookend1, gpsdata, stamp, published, life, clientVars>>

\* One word of the memcpy(); the gps_fd it copies is the daemon's own.
CopyIn(w) ==
    /\ daemonPc = "copy"
    /\ w \in daemonTodo
    /\ gpsdata' = [gpsdata EXCEPT ![w] = updates]
    /\ daemonTodo' = daemonTodo \ {w}
    /\ daemonPc' = IF daemonTodo = {w} THEN "fd" ELSE "copy"
    /\ UNCHANGED <<bookend1, bookend2, stamp, published, tick, updates, life, clientVars>>

StorePseudoFd ==
    /\ daemonPc = "fd"
    /\ gpsdata' = [gpsdata EXCEPT ![FdWord] = SHM_PSEUDO_FD]
    /\ daemonPc' = "close"
    /\ UNCHANGED <<bookend1, bookend2, stamp, published, tick, daemonTodo, updates, life, clientVars>>

EndUpdate ==
    /\ daemonPc = "close"
    /\ bookend1' = ClosingTick
    /\ stamp' = life
    /\ published' = updates
    /\ daemonPc' = "idle"
    /\ UNCHANGED <<bookend2, gpsdata, tick, daemonTodo, updates, life, clientVars>>

\* The daemon is killed, or exits: shm_release() only detaches the segment.
Stop ==
    /\ daemonPc # "down"
    /\ daemonPc' = "down"
    /\ UNCHANGED <<segment, tick, daemonTodo, updates, life, clientVars>>

\* shm_acquire() in a new process attaches the segment the old one left; the
\* static tick starts from 0 again.
Restart ==
    /\ daemonPc = "down"
    /\ life <= MaxRestarts
    /\ life' = life + 1
    /\ tick' = 0
    /\ daemonPc' = "idle"
    /\ UNCHANGED <<segment, daemonTodo, updates, clientVars>>

-----------------------------------------------------------------------------
(* A client *)

\* gps_shm_waiting(): a newer, complete update ends the wait at once, the
\* timeout ends it in any case, and either way the answer is true.
Waiting(r) ==
    /\ clientPc[r] = "idle"
    /\ clientPc' = [clientPc EXCEPT ![r] = "ready"]
    /\ UNCHANGED <<segment, daemonVars, mainloop, clientTick, before, began, todo, noclobber, delivered>>

\* gps_read() calls gps_shm_read() if gps_fd is -1 (BAD_SOCKET), and takes the
\* connection for a socket otherwise; gps_shm_mainloop() does not look.
DispatchToSocket(r) ==
    /\ clientPc[r] = "ready"
    /\ r \notin mainloop
    /\ delivered[r].data[FdWord] # SHM_PSEUDO_FD
    /\ clientPc' = [clientPc EXCEPT ![r] = "socket"]
    /\ UNCHANGED <<segment, daemonVars, mainloop, clientTick, before, began, todo, noclobber, delivered>>

ReadBefore(r) ==
    /\ clientPc[r] = "ready"
    /\ r \in mainloop \/ delivered[r].data[FdWord] = SHM_PSEUDO_FD
    /\ before' = [before EXCEPT ![r] = bookend1]
    /\ began' = [began EXCEPT ![r] = stamp]
    /\ todo' = [todo EXCEPT ![r] = Words]
    /\ clientPc' = [clientPc EXCEPT ![r] = "copy"]
    /\ UNCHANGED <<segment, daemonVars, mainloop, clientTick, noclobber, delivered>>

CopyOut(r, w) ==
    /\ clientPc[r] = "copy"
    /\ w \in todo[r]
    /\ noclobber' = [noclobber EXCEPT ![r][w] = gpsdata[w]]
    /\ todo' = [todo EXCEPT ![r] = @ \ {w}]
    /\ clientPc' = [clientPc EXCEPT ![r] = IF todo[r] = {w} THEN "check" ELSE "copy"]
    /\ UNCHANGED <<segment, daemonVars, mainloop, clientTick, before, began, delivered>>

\* Mutant of BookendsAgree: the second bookend is not looked at.
BookendsIgnored(r) == TRUE

BookendsAgree(r) == before[r] = bookend2

\* The bookends differ: no data this time.
Reject(r) ==
    /\ clientPc[r] = "check"
    /\ ~BookendsAgree(r)
    /\ clientPc' = [clientPc EXCEPT ![r] = "idle"]
    /\ UNCHANGED <<segment, daemonVars, mainloop, clientTick, before, began, todo, noclobber, delivered>>

Accept(r) ==
    /\ clientPc[r] = "check"
    /\ BookendsAgree(r)
    /\ delivered' = [delivered EXCEPT ![r] =
                        [data |-> noclobber[r], began |-> began[r], ended |-> life]]
    /\ clientTick' = [clientTick EXCEPT ![r] = bookend2]
    /\ clientPc' = [clientPc EXCEPT ![r] = "idle"]
    /\ UNCHANGED <<segment, daemonVars, mainloop, before, began, todo, noclobber>>

-----------------------------------------------------------------------------

\* gps_shm_open() sets gps_fd and leaves the malloc()ed tick as it is.
Init ==
    /\ bookend1 = 0 /\ bookend2 = 0
    /\ gpsdata = Zeroed
    /\ stamp = 0
    /\ published = 0
    /\ tick = 0
    /\ daemonPc = "idle"
    /\ daemonTodo = {}
    /\ updates = 0
    /\ life = 1
    /\ mainloop \in SUBSET Readers
    /\ clientPc = [r \in Readers |-> "idle"]
    /\ clientTick \in [Readers -> {0, MaxUpdates}]
    /\ before = [r \in Readers |-> 0]
    /\ began = [r \in Readers |-> 0]
    /\ todo = [r \in Readers |-> {}]
    /\ noclobber = [r \in Readers |-> Zeroed]
    /\ delivered = [r \in Readers |->
                        [data |-> Image(0), began |-> 0, ended |-> 1]]

DaemonStep == BeginUpdate \/ (\E w \in Words : CopyIn(w)) \/ StorePseudoFd \/ EndUpdate

ClientStep(r) ==
    \/ Waiting(r) \/ DispatchToSocket(r) \/ ReadBefore(r)
    \/ \E w \in Words : CopyOut(r, w)
    \/ Reject(r) \/ Accept(r)

Next == DaemonStep \/ Stop \/ Restart \/ \E r \in Readers : ClientStep(r)

Spec == Init /\ [][Next]_vars

\* A client loops on gps_waiting() and gps_read(), and the kernel schedules it.
\* Nothing is assumed of the daemon: it may be killed at any time.
FairSpec == Spec /\ \A r \in Readers : WF_vars(ClientStep(r))

-----------------------------------------------------------------------------
(* Properties *)

\* Every variable has its type; the counters never run below 0.
TypeOK ==
    /\ bookend1 \in Nat /\ bookend2 \in Nat /\ tick \in Nat
    /\ gpsdata \in [Words -> Int]
    /\ daemonPc \in {"idle", "copy", "fd", "close", "down"}
    /\ daemonTodo \subseteq Words
    /\ updates \in Nat
    /\ life \in Nat /\ stamp \in Nat /\ published \in Nat
    /\ mainloop \subseteq Readers
    /\ clientPc \in [Readers -> {"idle", "ready", "copy", "check", "socket"}]
    /\ clientTick \in [Readers -> Nat]
    /\ before \in [Readers -> Nat]
    /\ began \in [Readers -> Nat]
    /\ todo \in [Readers -> SUBSET Words]
    /\ noclobber \in [Readers -> [Words -> Int]]
    /\ delivered \in [Readers -> [data : [Words -> Int], began : Nat, ended : Nat]]

\* What a client has read is one whole update, never a mixture of two and never
\* the daemon's own descriptor, provided the daemon that closed the update the
\* client saw first is the one still running when it checks the second bookend.
NoTornRead ==
    \A r \in Readers :
        delivered[r].began = delivered[r].ended =>
            \E n \in 1..updates : delivered[r].data = Image(n)

\* In one life of the daemon a client never goes back to an older update.
ReadsAdvance ==
    [][\A r \in Readers :
        delivered'[r] # delivered[r] /\ delivered[r].began = delivered'[r].ended
            => clientTick'[r] >= clientTick[r]]_vars

\* When a daemon falls silent after completing an update, every client that runs
\* gps_mainloop() ends up with that update.
ClientsCatchUp ==
    <>[](daemonPc = "idle" /\ stamp = life) => <>[](\A r \in mainloop : delivered[r].data = gpsdata)

\* To its clients the segment is a register that holds whole updates; only a read
\* that a restart of the daemon overlaps is without a guarantee.
Snapshot == INSTANCE ShmSnapshot WITH
    Last <- MaxUpdates,
    Value <- [n \in 0..MaxUpdates |-> IF n = 0 THEN Zeroed ELSE Image(n)],
    Blank <- Image(0),
    latest <- published,
    unsafe <- {r \in Readers : began[r] # life},
    got <- [r \in Readers |-> delivered[r].data]

\* Every step of the daemon, of gps_shm_read() and of a restart is a step of that
\* register, or none.
ImplementsSnapshot == Snapshot!Spec
=============================================================================
