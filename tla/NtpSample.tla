----------------------------- MODULE NtpSample -----------------------------
(***************************************************************************)
(* How one device reports the time to ntpd (ntpshm.c).  The main loop puts *)
(* the time in the receiver's messages, and when they came, in one         *)
(* segment: ntpshm_put().  The PPS thread waits for the edges of a         *)
(* handshake line, decides which of them start a second, takes the second  *)
(* from the segment of the main loop, and puts it in the other segment:    *)
(* ntpshm_pps().  ntpd polls both.  Nothing is locked: a count before and  *)
(* after the data, and a flag, are the "mode 1" protocol.                  *)
(*                                                                         *)
(* One action per access of shared memory, in program order; the seconds   *)
(* and the microseconds of a time are one field.  The unit of time is a    *)
(* tenth of a second; Tick goes to the next moment at which the receiver   *)
(* does something.  Which segments a device has is NtpSegments.            *)
(***************************************************************************)
EXTENDS Integers, Sequences, FiniteSets

CONSTANTS
    Shapes,       \* the pulses the receiver may give
    Phases,       \* the times of its fixes, within a second
    Delay,        \* how long after the fix its report arrives
    FixesWanted,  \* fixes in a row before the thread trusts the line: 4 in the code
    Begin, End,   \* bounds: when the run begins and ends
    MaxUnread,    \* bound: how many reports wait to be read
    MaxBehind,    \* bound: how many of the three may be held up at the same time
    MaxMishaps    \* bound: how many reports are lost or without a fix

ASSUME NtpSampleAssumption ==
    /\ Shapes \subseteq {"short", "inverted", "square", "half", "hidden"}
    /\ Delay \in 1..9 /\ Phases \subseteq 0..9
    /\ FixesWanted \in Nat \ {0}
    /\ Begin \in Nat /\ End \in Nat /\ Begin > 20
    /\ MaxUnread \in Nat /\ MaxBehind \in Nat /\ MaxMishaps \in Nat

VARIABLES
    now,      \* the clock of the computer, which is right
    shape,    \* the pulse
    unread,   \* the times of the fixes in the reports that wait to be read
    segment,  \* struct shmTime of both units
    mishaps,  \* reports lost or without a fix so far
    puts,     \* history: the last two samples put in each unit, the latest first
    late,     \* history: the report that the time in the segment of the main loop is
              \* from was read when the second of its fix was over
    loop,     \* the main loop: its place in ntpshm_put(), what it puts, and
              \* last_fixtime, ship_to_ntpd and fixcnt of the session
    thread,   \* the PPS thread: its place, the edge, what it remembers of earlier ones
    seen,     \* history: how many edges in a row the thread has been waiting for
    ntpd      \* the driver of one unit in the reader

vars == <<now, shape, unread, mishaps, segment, puts, late, loop, thread, seen, ntpd>>

Units == {"coarse", "pulse"}
Second == 10

\* The time of the receiver and of the computer.
Sample(clock, receive) == [clock |-> clock, receive |-> receive]
Zeroed == Sample(0, 0)

\* It was received in the second that it tells.
InTime(sample) == sample.clock \div Second = sample.receive \div Second

-----------------------------------------------------------------------------
(* The receiver *)

\* When, in two seconds, the line rises and falls.
Rises == [short |-> {0, 10}, inverted |-> {1, 11}, square |-> {0, 10}, half |-> {0}, hidden |-> {}]
Falls == [short |-> {1, 11}, inverted |-> {0, 10}, square |-> {5, 15}, half |-> {10}, hidden |-> {}]

\* So many edges in a row the thread must have seen before its judgement is relied on.
Settled == 2

\* A pulse can be over before the line is read.
Unseen == IF shape = "hidden" THEN {0, 10} ELSE {}

IsEdge(t) == t % 20 \in Rises[shape] \cup Falls[shape] \cup Unseen

\* ioctl(TIOCMGET): how the line has been since its last edge.
Line ==
    LET Ago(times) == {d \in 0..19 : (now + 20 - d) % 20 \in times}
    IN  IF \E up \in Ago(Rises[shape]) : \A down \in Ago(Falls[shape]) : up < down THEN 1 ELSE 0

IsReport(t) == \E phase \in Phases : (t - Delay) % Second = phase

NextTime ==
    CHOOSE t \in (now + 1)..(now + 10) :
        /\ IsEdge(t) \/ IsReport(t)
        /\ \A u \in (now + 1)..(t - 1) : ~IsEdge(u) /\ ~IsReport(u)

\* Who has not finished with what happened before: the loop, the thread, ntpd.
Behind ==
    {p \in 1..3 : <<loop.at # "done" \/ unread # {}, thread.at # "waiting", ntpd.at # "idle">>[p]}

\* Time goes on, whoever has not read or stored something yet.  A report comes or is
\* lost; an edge wakes the thread if it is waiting.
Tick ==
    /\ NextTime <= End
    /\ Cardinality(Behind) <= MaxBehind
    /\ now' = NextTime
    /\ \/ /\ IsReport(NextTime) /\ Cardinality(unread) < MaxUnread
          /\ unread' = unread \cup {NextTime - Delay}
          /\ UNCHANGED mishaps
       \/ /\ IsReport(NextTime) /\ mishaps < MaxMishaps
          /\ mishaps' = mishaps + 1
          /\ UNCHANGED unread
       \/ /\ ~IsReport(NextTime)
          /\ UNCHANGED <<unread, mishaps>>
    /\ IF ~IsEdge(NextTime) THEN UNCHANGED <<thread, seen>>
       ELSE IF thread.at = "waiting"
       THEN /\ thread' = [thread EXCEPT !.at = "awake", !.edge = NextTime, !.overtaken = FALSE]
            /\ seen' = IF seen < Settled THEN seen + 1 ELSE Settled
       ELSE /\ seen' = 0
            /\ UNCHANGED thread
    /\ UNCHANGED <<shape, segment, puts, late, loop, ntpd>>

-----------------------------------------------------------------------------
(* The protocol of the writers *)

\* Mutant of After: the second count comes before the data.
AfterEarly ==
    [valid |-> "count", count |-> "recount", recount |-> "clock", clock |-> "receive",
     receive |-> "revalid", revalid |-> "done"]

\* What follows each store.
After ==
    [valid |-> "count", count |-> "clock", clock |-> "receive", receive |-> "recount",
     recount |-> "revalid", revalid |-> "done"]

\* Where the thread is between an edge and its first store.
Judging == {"awake", "read receive", "read clock"}

Stores == {"valid", "count", "clock", "receive", "recount", "revalid"}

Counted(count) == count + 1

\* One store to a segment.
Stored(shm, at, sample) ==
    [valid |-> IF at = "valid" THEN FALSE ELSE IF at = "revalid" THEN TRUE ELSE shm.valid,
     count |-> IF at \in {"count", "recount"} THEN Counted(shm.count) ELSE shm.count,
     clock |-> IF at = "clock" THEN sample.clock ELSE shm.clock,
     receive |-> IF at = "receive" THEN sample.receive ELSE shm.receive]

Noted(unit, at, sample) ==
    IF at = "count" THEN [puts EXCEPT ![unit] = <<sample, @[1]>>] ELSE puts

-----------------------------------------------------------------------------
(* The main loop *)

\* Mutant of NewSecond: a second is put again.
NewSecondAlways(fix) == TRUE

\* "skipping duplicate second"
NewSecond(fix) == segment["coarse"].clock \div Second # fix \div Second

\* The next report is read: with a fix or without.  Its time is good enough for ntpd
\* (ship_to_ntpd) if there were enough fixes before, as in the NMEA driver.  The clock
\* is read before the first store, and however long the report has waited.
Report ==
    /\ loop.at = "done"
    /\ \E time \in unread, fix \in BOOLEAN :
          LET ship == loop.fixcnt = FixesWanted
              new == ship /\ time # loop.last
              put == new /\ NewSecond(time)
          IN  /\ \A other \in unread : time <= other
              /\ unread' = unread \ {time}
              /\ ~fix => mishaps < MaxMishaps
              /\ mishaps' = IF fix THEN mishaps ELSE mishaps + 1
              /\ loop' = [at |-> IF put THEN "valid" ELSE "done",
                          sample |-> IF put THEN Sample(time, now) ELSE loop.sample,
                          last |-> IF new THEN time ELSE loop.last,
                          ship |-> ship,
                          fixcnt |-> IF ~fix THEN 0 ELSE IF ship THEN FixesWanted ELSE loop.fixcnt + 1]
    /\ UNCHANGED <<now, shape, segment, puts, late, thread, seen, ntpd>>

\* ntpshm_put()
Put ==
    /\ loop.at \in Stores
    /\ segment' = [segment EXCEPT !["coarse"] = Stored(@, loop.at, loop.sample)]
    /\ puts' = Noted("coarse", loop.at, loop.sample)
    /\ late' = IF loop.at = "clock" THEN ~InTime(loop.sample) ELSE late
    /\ loop' = [loop EXCEPT !.at = After[@], !.sample = IF loop.at = "revalid" THEN Zeroed ELSE @]
    /\ thread' = IF loop.at = "clock" /\ thread.at \in Judging
                 THEN [thread EXCEPT !.overtaken = TRUE] ELSE thread
    /\ UNCHANGED <<now, shape, unread, mishaps, seen, ntpd>>

-----------------------------------------------------------------------------
(* gpsd_ppsmonitor() *)

\* What is made of an edge: the time since the last edge to the same state and
\* since the last to the other one.
StartsSecond(cycle, duration, state) ==
    \/ cycle = 2 /\ duration < 1
    \/ cycle = 10 /\ (duration = 0 \/ duration > 5 \/ (duration = 5 /\ state = 1))
    \/ cycle = 20 /\ duration = 10

\* The line is read and the edge is judged.  An edge that leaves the line as it was
\* is one of a pulse nobody saw, or strange.
Detect ==
    /\ thread.at = "awake"
    /\ LET cycle == thread.edge - thread.pulse[Line]
           same == thread.state = Line
           strange == same /\ cycle # 10
           duration == IF same THEN 0 ELSE thread.edge - thread.pulse[1 - Line]
           ok == ~strange /\ loop.fixcnt = FixesWanted /\ StartsSecond(cycle, duration, Line) /\ loop.ship
       IN  thread' = [thread EXCEPT !.at = IF ok THEN "read receive" ELSE "waiting", !.state = Line,
                                    !.pulse[Line] = thread.edge]
    /\ UNCHANGED <<now, shape, unread, mishaps, segment, puts, late, loop, seen, ntpd>>

\* Mutant of Current: the age of the message is not looked at.
CurrentAnyway(receive) == TRUE

Current(receive) == thread.edge - receive \in 0..Second

\* ntpshm_pps(): is there a message of the last second?
ReadReceive ==
    /\ thread.at = "read receive"
    /\ thread' = [thread EXCEPT !.at = IF Current(segment["coarse"].receive) THEN "read clock" ELSE "waiting"]
    /\ UNCHANGED <<now, shape, unread, mishaps, segment, puts, late, loop, seen, ntpd>>

\* Then this is the second after.
ReadClock ==
    /\ thread.at = "read clock"
    /\ LET sample == Sample(Second * (segment["coarse"].clock \div Second + 1), thread.edge)
       IN  thread' = [thread EXCEPT !.at = "valid", !.sample = sample]
    /\ UNCHANGED <<now, shape, unread, mishaps, segment, puts, late, loop, seen, ntpd>>

PutPulse ==
    /\ thread.at \in Stores
    /\ segment' = [segment EXCEPT !["pulse"] = Stored(@, thread.at, thread.sample)]
    /\ puts' = Noted("pulse", thread.at, thread.sample)
    /\ thread' = [thread EXCEPT !.at = IF @ = "revalid" THEN "waiting" ELSE After[@],
                                !.sample = IF thread.at = "revalid" THEN Zeroed ELSE @]
    /\ UNCHANGED <<now, shape, unread, mishaps, late, loop, seen, ntpd>>

-----------------------------------------------------------------------------
(* ntpd, as the comment in ntpshm_put() has it *)

Poll ==
    /\ ntpd.at = "idle" /\ segment[ntpd.unit].valid
    /\ ntpd' = [ntpd EXCEPT !.at = "count"]
    /\ UNCHANGED <<now, shape, unread, mishaps, segment, puts, late, loop, thread, seen>>

ReadsCount ==
    /\ ntpd.at = "count"
    /\ ntpd' = [ntpd EXCEPT !.at = "clock", !.count = segment[ntpd.unit].count]
    /\ UNCHANGED <<now, shape, unread, mishaps, segment, puts, late, loop, thread, seen>>

ReadsValues ==
    /\ \/ /\ ntpd.at = "clock"
          /\ ntpd' = [ntpd EXCEPT !.at = "receive", !.sample.clock = segment[ntpd.unit].clock]
       \/ /\ ntpd.at = "receive"
          /\ ntpd' = [ntpd EXCEPT !.at = "recount", !.sample.receive = segment[ntpd.unit].receive]
    /\ UNCHANGED <<now, shape, unread, mishaps, segment, puts, late, loop, thread, seen>>

ReadsCountAgain ==
    /\ ntpd.at = "recount"
    /\ ntpd' = [ntpd EXCEPT !.at = IF segment[ntpd.unit].count = ntpd.count THEN "use" ELSE "clear"]
    /\ UNCHANGED <<now, shape, unread, mishaps, segment, puts, late, loop, thread, seen>>

ClearsValid ==
    /\ ntpd.at \in {"use", "clear"}
    /\ segment' = [segment EXCEPT ![ntpd.unit].valid = FALSE]
    /\ ntpd' = [ntpd EXCEPT !.at = "idle", !.count = 0, !.sample = Zeroed]
    /\ UNCHANGED <<now, shape, unread, mishaps, puts, late, loop, thread, seen>>

-----------------------------------------------------------------------------

\* The segments have been cleared by ntpshm_alloc().  pulse[] starts at 0, a time
\* long past.
Init ==
    /\ now = Begin
    /\ shape \in Shapes
    /\ unread = {} /\ mishaps = 0 /\ late = FALSE
    /\ segment = [u \in Units |-> [valid |-> FALSE, count |-> 0, clock |-> 0, receive |-> 0]]
    /\ puts = [u \in Units |-> <<Zeroed, Zeroed>>]
    /\ loop = [at |-> "done", sample |-> Zeroed, last |-> 0, ship |-> FALSE, fixcnt |-> 0]
    /\ thread = [at |-> "waiting", edge |-> 0, state |-> -1, pulse |-> [s \in 0..1 |-> 0],
                 sample |-> Zeroed, overtaken |-> FALSE]
    /\ seen = 0
    /\ \E unit \in Units : ntpd = [at |-> "idle", unit |-> unit, count |-> 0, sample |-> Zeroed]

LoopStep == Report \/ Put
ThreadStep == Detect \/ ReadReceive \/ ReadClock \/ PutPulse
NtpdStep == Poll \/ ReadsCount \/ ReadsValues \/ ReadsCountAgain \/ ClearsValid

Next == Tick \/ LoopStep \/ ThreadStep \/ NtpdStep

Spec == Init /\ [][Next]_vars

-----------------------------------------------------------------------------
(* Properties *)

\* Times and counts are numbers, everybody is at a step of its own.
TypeOK ==
    /\ now \in Nat /\ now >= Begin /\ unread \subseteq Nat /\ mishaps \in 0..MaxMishaps /\ seen \in 0..Settled
    /\ late \in BOOLEAN /\ shape \in Shapes
    /\ segment \in [Units -> [valid : BOOLEAN, count : Nat, clock : Nat, receive : Nat]]
    /\ puts \in [Units -> [clock : Nat, receive : Nat] \X [clock : Nat, receive : Nat]]
    /\ loop \in [at : Stores \cup {"done"}, sample : [clock : Nat, receive : Nat], last : Nat,
                 ship : BOOLEAN, fixcnt : 0..FixesWanted]
    /\ thread \in [at : Stores \cup Judging \cup {"waiting"}, edge : Nat, state : {-1, 0, 1},
                   pulse : [0..1 -> Nat], sample : [clock : Nat, receive : Nat], overtaken : BOOLEAN]
    /\ ntpd \in [at : {"idle", "count", "clock", "receive", "recount", "use", "clear"}, unit : Units,
                 count : Nat, sample : [clock : Nat, receive : Nat]]

\* The thread makes the sample of an edge, none of the last two of which it missed.
Labels == thread.at = "read clock" /\ thread'.at = "valid" /\ seen = Settled

\* A pulse is reported with the second it starts, whatever the shape of the line and
\* whichever reports were lost, if the thread saw the last edges, the main loop stored
\* no new time since this one, and the report of the time it had stored last was read
\* before the second of its fix was over.
LabelIsRight ==
    [][Labels /\ ~thread.overtaken /\ ~late => thread'.sample.clock = thread'.sample.receive]_vars

\* A sample that ntpd uses is the last one that was put, whole, if no put was under
\* way when it read the count; otherwise it is at worst made of that one and the one
\* before.
SampleSpansOnePut ==
    [][ntpd.at = "recount" /\ ntpd'.at = "use" =>
        LET candidates == IF ntpd.count % 2 = 0 THEN {1} ELSE {1, 2}
        IN  \A field \in {"clock", "receive"} :
                \E i \in candidates : ntpd.sample[field] = puts[ntpd.unit][i][field]]_vars

\* The main loop gives ntpd one sample of a second, however many fixes it has.
OneSamplePerSecond ==
    LET put == puts["coarse"]
    IN  put[1] # Zeroed => put[2].clock \div Second < put[1].clock \div Second
=============================================================================
