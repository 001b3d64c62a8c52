---------------------------- MODULE NtpSegments ----------------------------
(***************************************************************************)
(* The shared-memory segments through which gpsd hands the time to ntpd    *)
(* (ntpshm.c), and the threads that watch the PPS line of the receivers.   *)
(*                                                                         *)
(* A device of the pool takes two segments when it is added, one for the   *)
(* time in its messages and one for its pulses, and a thread for the       *)
(* pulses.  The segments are marked in shmTimeInuse; closing the device    *)
(* clears the marks, and the thread of a device that turns out to have no  *)
(* handshake lines clears one of them too.  The numbers stay in the        *)
(* device: only gpsd_init(), for the next device of that slot, resets      *)
(* them.  One flag stops all the threads, and nothing resets it.           *)
(*                                                                         *)
(* The event loop is one thread; what it does to the pool is GpsdDaemon.   *)
(* The contents of the segments are NtpSample.                             *)
(***************************************************************************)
EXTENDS Integers, FiniteSets

CONSTANTS
    MaxDevices,   \* MAXDEVICES, slots of devices[]
    NTPSHMSEGS,   \* number of segments
    Attached,     \* those that ntpshm_init() could attach: all for root, 2 and 3 otherwise
    Pps,          \* shmTimePPS: the daemon runs with -n
    MaxAdds       \* bound: how many devices are added in a run

ASSUME NtpSegmentsAssumption ==
    /\ MaxDevices \in Nat \ {0}
    /\ NTPSHMSEGS \in Nat
    /\ Attached \subseteq 0..(NTPSHMSEGS - 1)
    /\ Pps \in BOOLEAN
    /\ MaxAdds \in Nat

Slots == 1..MaxDevices
Threads == 1..MaxAdds
Segments == 0..(NTPSHMSEGS - 1)
None == -1

VARIABLES
    devices,   \* what the pool knows of each slot
    inuse,     \* shmTimeInuse: the segments marked
    stop,      \* gpsd_ppsmonitor_stop
    threads,   \* the threads created so far
    adds,      \* devices added so far
    released   \* history: a mark has been cleared

vars == <<devices, inuse, stop, threads, adds, released>>

NoDevice == [added |-> FALSE, open |-> FALSE, lines |-> FALSE, shmindex |-> None, shmTimeP |-> None]

NoThread == [slot |-> None, at |-> "none", late |-> 0]

-----------------------------------------------------------------------------
(* Segments *)

\* Mutant of Free: marks are not looked at.
FreeAnyway(marked) == Attached

Free(marked) == Attached \ marked

\* ntpshm_alloc(): the first attached segment that is not marked.
Alloc(marked) ==
    IF Free(marked) = {} THEN None
    ELSE CHOOSE seg \in Free(marked) : \A other \in Free(marked) : seg <= other

\* ntpshm_free(): any number within range is unmarked, whoever has it now.
Unmarked(marked, numbers) == marked \ numbers

-----------------------------------------------------------------------------
(* The event loop *)

\* gpsd_add_device(): gpsd_init() and ntpd_link_activate().  The first segment is
\* for the messages, the second for the pulses, which get a thread.
Add(s) ==
    /\ ~devices[s].added
    /\ \A t \in Slots : t < s => devices[t].added
    /\ adds < MaxAdds
    /\ adds' = adds + 1
    /\ LET coarse == Alloc(inuse)
           pulse == IF Pps /\ coarse # None THEN Alloc(inuse \cup {coarse}) ELSE None
       IN  /\ \E lines \in BOOLEAN :
                 devices' = [devices EXCEPT ![s] = [added |-> TRUE, open |-> FALSE, lines |-> lines,
                                                    shmindex |-> coarse, shmTimeP |-> pulse]]
           /\ inuse' = inuse \cup ({coarse, pulse} \ {None})
           /\ threads' = IF pulse = None THEN threads
                         ELSE [threads EXCEPT ![adds'] = [slot |-> s, at |-> "awaiting", late |-> 0]]
    /\ UNCHANGED <<stop, released>>

\* gpsd_activate() succeeds, at once with -n or when a client wants the device.
Open(s) ==
    /\ devices[s].added /\ ~devices[s].open
    /\ devices' = [devices EXCEPT ![s].open = TRUE]
    /\ UNCHANGED <<inuse, stop, threads, adds, released>>

\* Mutant of StopOnClose: the threads are not told.
StopNever(d) == FALSE

StopOnClose(d) == Pps /\ d.shmTimeP # None

\* deactivate_device() on device d: ntpd_link_deactivate() before the close.
Deactivated(d) == [d EXCEPT !.open = FALSE]

Unlink(d) ==
    LET mine == {d.shmindex} \cup (IF Pps THEN {d.shmTimeP} ELSE {})
    IN  /\ inuse' = Unmarked(inuse, mine)
        /\ stop' = (stop \/ StopOnClose(d))
        /\ released' = (released \/ mine \cap Segments # {})

\* The device is closed: a failed read, nobody needs it, and so on.
Close(s) ==
    /\ devices[s].open
    /\ devices' = [devices EXCEPT ![s] = Deactivated(@)]
    /\ Unlink(devices[s])
    /\ UNCHANGED <<threads, adds>>

\* "-" on the control socket: deactivate_device(), which does nothing to the
\* segments of a device that is not open, and free_device().
Remove(s) ==
    /\ devices[s].added
    /\ devices' = [devices EXCEPT ![s] = [Deactivated(@) EXCEPT !.added = FALSE]]
    /\ IF devices[s].open THEN Unlink(devices[s]) ELSE UNCHANGED <<inuse, stop, released>>
    /\ UNCHANGED <<threads, adds>>

\* SIGHUP: gpsd_wrap() closes the devices without touching the segments.
Hangup ==
    /\ devices' = [s \in Slots |-> Deactivated(devices[s])]
    /\ UNCHANGED <<inuse, stop, threads, adds, released>>

-----------------------------------------------------------------------------
(* gpsd_ppsmonitor() *)

Device(t) == devices[threads[t].slot]

Moves(t, from, to) ==
    /\ threads[t].at = from
    /\ threads' = [threads EXCEPT ![t].at = to]

\* The device of the slot has become active and has handshake lines.
Activated(t) ==
    /\ Moves(t, "awaiting", "test")
    /\ Device(t).open /\ Device(t).lines
    /\ UNCHANGED <<devices, inuse, stop, adds, released>>

\* It has none: the thread gives up the segment for pulses and ends.
Unsuited(t) ==
    /\ Moves(t, "awaiting", "ended")
    /\ Device(t).open /\ ~Device(t).lines
    /\ inuse' = Unmarked(inuse, {Device(t).shmTimeP})
    /\ released' = (released \/ Device(t).shmTimeP # None)
    /\ UNCHANGED <<devices, stop, adds>>

\* Mutant of Heeded: the flag is not tested.
Unheeded == FALSE

Heeded == stop

\* The head of the loop.
Test(t) ==
    /\ Moves(t, "test", IF Heeded THEN "ended" ELSE "waiting")
    /\ UNCHANGED <<devices, inuse, stop, adds, released>>

\* ioctl(TIOCMIWAIT) returns: the line has changed, or the descriptor is bad.
LineChanges(t) ==
    /\ Moves(t, "waiting", "timing")
    /\ UNCHANGED <<devices, inuse, stop, adds, released>>

LineFails(t) ==
    /\ \E from \in {"waiting", "timing"} : Moves(t, from, "ended")
    /\ UNCHANGED <<devices, inuse, stop, adds, released>>

\* The edge is no pulse, or there is no fix, or the time is not to be shipped.
Reject(t) ==
    /\ Moves(t, "timing", "test")
    /\ UNCHANGED <<devices, inuse, stop, adds, released>>

\* ntpshm_pps(): the pulse is written to whatever segment the device has a number of.
\* The call of the daemon's pps_hook that follows touches nothing here: it is
\* HookStart of GpsdThreads.
Pulse(t) ==
    /\ threads[t].at = "timing"
    /\ threads' = [threads EXCEPT ![t] = [slot |-> @.slot, at |-> "test",
                                          late |-> IF stop THEN @.late + 1 ELSE @.late]]
    /\ UNCHANGED <<devices, inuse, stop, adds, released>>

-----------------------------------------------------------------------------

Init ==
    /\ devices = [s \in Slots |-> NoDevice]
    /\ inuse = {}
    /\ stop = FALSE
    /\ threads = [t \in Threads |-> NoThread]
    /\ adds = 0
    /\ released = FALSE

LoopStep == Hangup \/ \E s \in Slots : Add(s) \/ Open(s) \/ Close(s) \/ Remove(s)

ThreadStep(t) ==
    Activated(t) \/ Unsuited(t) \/ Test(t) \/ LineChanges(t) \/ LineFails(t) \/ Reject(t) \/ Pulse(t)

Next == LoopStep \/ \E t \in Threads : ThreadStep(t)

Spec == Init /\ [][Next]_vars

\* The threads are scheduled, and a line that is waited on changes again or is
\* hung up.
FairSpec == Spec /\ \A t \in Threads : WF_vars(ThreadStep(t))

-----------------------------------------------------------------------------
(* Properties *)

Number == Segments \cup {None}

\* Slots hold segment numbers or none, threads are at a step of the monitor.
TypeOK ==
    /\ devices \in [Slots -> [added : BOOLEAN, open : BOOLEAN, lines : BOOLEAN,
                              shmindex : Number, shmTimeP : Number]]
    /\ inuse \subseteq Segments
    /\ stop \in BOOLEAN /\ released \in BOOLEAN
    /\ threads \in [Threads -> [slot : Slots \cup {None}, late : Nat,
                        at : {"none", "awaiting", "test", "waiting", "timing", "ended"}]]
    /\ adds \in 0..MaxAdds

Held(s) == {devices[s].shmindex, devices[s].shmTimeP} \ {None}
Pool == {s \in Slots : devices[s].added}

\* "For each GPS module gpsd controls, it will use the attached ntpshm segments in
\* pairs (for coarse clock and pps source, respectively)": no two open devices
\* report the time through the same segment.
SegmentsAreExclusive ==
    \A s, t \in Pool : s # t /\ devices[s].open /\ devices[t].open => Held(s) \cap Held(t) = {}

\* Until the first segment is given back, whatever is added, opened, removed and
\* restarted: a segment has one device, serves one purpose in it, and is marked.
UndisturbedSegmentsAreExclusive ==
    ~released =>
        /\ \A s, t \in Pool : s # t => Held(s) \cap Held(t) = {}
        /\ \A s \in Pool : /\ Held(s) \subseteq inuse
                           /\ devices[s].shmTimeP # None => devices[s].shmindex < devices[s].shmTimeP

\* "cleanly terminate PPS thread": after the flag is set a thread writes one more
\* pulse at the most, the one it was about to write.
OneLatePulse == \A t \in Threads : threads[t].late <= 1

\* Every thread that watches a line ends after the flag is set.
StoppedThreadsEnd ==
    \A t \in Threads : (stop /\ threads[t].at \in {"test", "waiting", "timing"}) ~> threads[t].at = "ended"
=============================================================================
