------------------------- MODULE NtpSegments_proofs -------------------------
(***************************************************************************)
(* Proofs about NtpSegments, for any number of slots, segments and devices *)
(* added.                                                                  *)
(***************************************************************************)
EXTENDS NtpSegments, WellFoundedInduction, TLAPS

Steps == {"none", "awaiting", "test", "waiting", "timing", "ended"}

DeviceRecord == [added : BOOLEAN, open : BOOLEAN, lines : BOOLEAN, shmindex : Number, shmTimeP : Number]

ThreadRecord == [slot : Slots \cup {None}, late : Nat, at : Steps]

\* A thread that has been created watches a slot; one that has written a pulse too
\* late is on its way to the end.
ThreadInv ==
    \A t \in Threads :
        /\ threads[t].at # "none" => threads[t].slot \in Slots
        /\ threads[t].late \in {0, 1}
        /\ threads[t].late = 1 => stop /\ threads[t].at \in {"test", "ended"}

IInv == TypeOK /\ ThreadInv /\ UndisturbedSegmentsAreExclusive

LEMMA TypeMeans ==
    TypeOK <=> /\ devices \in [Slots -> DeviceRecord]
               /\ inuse \subseteq Segments
               /\ stop \in BOOLEAN /\ released \in BOOLEAN
               /\ threads \in [Threads -> ThreadRecord]
               /\ adds \in 0..MaxAdds
  BY DEF TypeOK, DeviceRecord, ThreadRecord, Steps

\* A set of numbers that is not empty has a least member.
LEMMA LeastMember ==
    ASSUME NEW S, S \subseteq Nat, S # {}
    PROVE  \E x \in S : \A y \in S : x <= y
  <1> DEFINE less == OpToRel(<, Nat)
  <1>1. IsWellFoundedOn(less, Nat)
    BY NatLessThanWellFounded
  <1>2. ASSUME NEW x \in Nat, NEW y \in Nat PROVE <<y, x>> \in less <=> y < x
    BY DEF OpToRel
  <1> HIDE DEF less
  <1>3. \E x \in S : \A y \in S : ~(<<y, x>> \in less)
    BY <1>1, WFMin
  <1>4. PICK x \in S : \A y \in S : ~(<<y, x>> \in less)
    BY <1>3
  <1>5. ASSUME NEW y \in S PROVE x <= y
    <2>1. x \in Nat /\ y \in Nat
      OBVIOUS
    <2>2. ~(y < x)
      BY <1>2, <1>4, <2>1
    <2> QED
      BY <2>1, <2>2
  <1> QED
    BY <1>5

LEMMA NoneIsNoSegment == None \notin Segments /\ Segments \subseteq Int
  BY NtpSegmentsAssumption DEF None, Segments

\* The search finds the first segment that is attached and not marked, if any.
LEMMA AllocIsFirst ==
    ASSUME NEW marked
    PROVE  \/ Alloc(marked) = None /\ Free(marked) = {}
           \/ /\ Alloc(marked) \in Free(marked) /\ Alloc(marked) \in Segments
              /\ \A other \in Free(marked) : Alloc(marked) <= other
  <1>1. Free(marked) \subseteq Segments /\ Free(marked) \in SUBSET Nat
    <2>1. Attached \subseteq Segments /\ Segments \subseteq Nat
      BY NtpSegmentsAssumption DEF Segments
    <2> QED
      BY <2>1 DEF Free
  <1>2. CASE Free(marked) = {}
    BY <1>2 DEF Alloc
  <1>3. CASE Free(marked) # {}
    <2>1. \E seg \in Free(marked) : \A other \in Free(marked) : seg <= other
      BY <1>1, <1>3, LeastMember
    <2> QED
      BY <1>1, <1>3, <2>1 DEF Alloc
  <1> QED
    BY <1>2, <1>3

LEMMA InitIInv == Init => IInv
  <1> SUFFICES ASSUME Init PROVE IInv
    OBVIOUS
  <1>1. NoDevice \in DeviceRecord /\ NoThread \in ThreadRecord
    BY DEF NoDevice, NoThread, DeviceRecord, ThreadRecord, Number, Steps
  <1>2. TypeOK
    <2>1. devices \in [Slots -> DeviceRecord] /\ threads \in [Threads -> ThreadRecord]
      BY <1>1 DEF Init
    <2>2. inuse \subseteq Segments /\ stop \in BOOLEAN /\ released \in BOOLEAN
      BY DEF Init
    <2>3. adds \in 0..MaxAdds
      BY NtpSegmentsAssumption DEF Init
    <2> QED
      BY <2>1, <2>2, <2>3, TypeMeans
  <1>3. ThreadInv
    BY DEF Init, ThreadInv, NoThread
  <1>4. UndisturbedSegmentsAreExclusive
    BY DEF Init, UndisturbedSegmentsAreExclusive, Pool, NoDevice
  <1> QED
    BY <1>2, <1>3, <1>4 DEF IInv

-----------------------------------------------------------------------------
(* The event loop *)

LEMMA AddKeeps ==
    ASSUME IInv, NEW s \in Slots, Add(s)
    PROVE  IInv'
  <1> DEFINE coarse == Alloc(inuse)
             pulse == IF Pps /\ coarse # None THEN Alloc(inuse \cup {coarse}) ELSE None
             t == adds + 1
  <1>0. /\ devices \in [Slots -> DeviceRecord] /\ inuse \subseteq Segments
        /\ stop \in BOOLEAN /\ released \in BOOLEAN
        /\ threads \in [Threads -> ThreadRecord] /\ adds \in 0..MaxAdds
    BY TypeMeans DEF IInv
  <1>1. coarse \in Number /\ coarse \notin inuse
    BY <1>0, AllocIsFirst, NoneIsNoSegment, ZenonT(30) DEF Number, Free
  <1>2. pulse \in Number /\ pulse \notin inuse /\ (pulse # None => coarse < pulse)
    <2>1. CASE Pps /\ coarse # None
      <3>1. \/ pulse = None
            \/ pulse \in Free(inuse \cup {coarse}) /\ pulse \in Segments
        BY <2>1, AllocIsFirst
      <3>2. ASSUME pulse \in Free(inuse \cup {coarse}), pulse \in Segments PROVE coarse < pulse
        <4>1. pulse \in Free(inuse) /\ pulse # coarse
          BY <3>2 DEF Free
        <4>2. coarse <= pulse /\ coarse \in Segments
          BY <2>1, <4>1, AllocIsFirst
        <4> HIDE DEF pulse, coarse
        <4> QED
          BY <3>2, <4>1, <4>2, NoneIsNoSegment
      <3> HIDE DEF pulse
      <3> QED
        BY <1>0, <3>1, <3>2, NoneIsNoSegment DEF Number, Free
    <2>2. CASE ~(Pps /\ coarse # None)
      BY <1>0, <2>2, NoneIsNoSegment DEF Number
    <2> QED
      BY <2>1, <2>2
  <1>3. PICK lines \in BOOLEAN :
          devices' = [devices EXCEPT ![s] = [added |-> TRUE, open |-> FALSE, lines |-> lines,
                                             shmindex |-> coarse, shmTimeP |-> pulse]]
    BY DEF Add
  <1> DEFINE new == [added |-> TRUE, open |-> FALSE, lines |-> lines, shmindex |-> coarse, shmTimeP |-> pulse]
  <1>4. devices' = [devices EXCEPT ![s] = new]
    BY <1>3
  <1>5. /\ inuse' = inuse \cup ({coarse, pulse} \ {None}) /\ adds < MaxAdds /\ adds' = t
        /\ threads' = threads \/ threads' = [threads EXCEPT ![t] = [slot |-> s, at |-> "awaiting", late |-> 0]]
        /\ UNCHANGED <<stop, released>> /\ ~devices[s].added
    BY DEF Add
  <1> HIDE DEF coarse, pulse
  <1>6. TypeOK'
    <2>1. new \in DeviceRecord
      BY <1>1, <1>2 DEF DeviceRecord
    <2>2. inuse' \subseteq Segments
      BY <1>0, <1>1, <1>2, <1>5 DEF Number
    <2>3. [slot |-> s, at |-> "awaiting", late |-> 0] \in ThreadRecord
      BY DEF ThreadRecord, Steps
    <2>4. t \in 0..MaxAdds
      BY <1>0, <1>5, NtpSegmentsAssumption
    <2> HIDE DEF new
    <2>5. devices' \in [Slots -> DeviceRecord]
      BY <1>0, <1>4, <2>1
    <2>6. threads' \in [Threads -> ThreadRecord]
      BY <1>0, <1>5, <2>3
    <2> QED
      BY <1>0, <1>5, <2>2, <2>4, <2>5, <2>6 DEF TypeOK, DeviceRecord, ThreadRecord, Steps
  <1>7. ThreadInv'
    <2>1. \A u \in Threads : \/ threads'[u] = threads[u]
                             \/ threads'[u] = [slot |-> s, at |-> "awaiting", late |-> 0]
      BY <1>0, <1>5
    <2> QED
      BY <1>5, <2>1 DEF IInv, ThreadInv
  <1>8. UndisturbedSegmentsAreExclusive'
    <2> SUFFICES ASSUME ~released
                 PROVE  /\ \A p, q \in Pool' : p # q => Held(p)' \cap Held(q)' = {}
                        /\ \A p \in Pool' : /\ Held(p)' \subseteq inuse'
                                            /\ devices'[p].shmTimeP # None =>
                                                  devices'[p].shmindex < devices'[p].shmTimeP
      BY <1>5 DEF UndisturbedSegmentsAreExclusive
    <2>1. devices'[s] = new /\ Held(s)' = {coarse, pulse} \ {None}
      BY <1>0, <1>4 DEF Held
    <2>2. ASSUME NEW p \in Pool', p # s
          PROVE  /\ p \in Pool /\ devices'[p] = devices[p] /\ Held(p)' = Held(p)
                 /\ Held(p) \subseteq inuse
                 /\ devices[p].shmTimeP # None => devices[p].shmindex < devices[p].shmTimeP
      <3>1. p \in Slots /\ devices'[p] = devices[p]
        BY <1>0, <1>4, <2>2 DEF Pool
      <3>2. p \in Pool /\ Held(p)' = Held(p)
        BY <2>2, <3>1 DEF Pool, Held
      <3> QED
        BY <3>1, <3>2 DEF IInv, UndisturbedSegmentsAreExclusive
    <2>3. Held(s)' \cap inuse = {} /\ Held(s)' \subseteq inuse'
      BY <1>1, <1>2, <1>5, <2>1
    <2>4. \A p, q \in Pool' : p # q => Held(p)' \cap Held(q)' = {}
      <3>1. SUFFICES ASSUME NEW p \in Pool', NEW q \in Pool', p # q
                     PROVE  Held(p)' \cap Held(q)' = {}
        OBVIOUS
      <3>2. CASE p # s /\ q # s
        <4>1. p \in Pool /\ q \in Pool /\ Held(p)' = Held(p) /\ Held(q)' = Held(q)
          BY <2>2, <3>2
        <4> QED
          BY <3>1, <4>1 DEF IInv, UndisturbedSegmentsAreExclusive
      <3>3. CASE p = s \/ q = s
        BY <2>2, <2>3, <3>1, <3>3
      <3> QED
        BY <3>2, <3>3
    <2>5. ASSUME NEW p \in Pool'
          PROVE  /\ Held(p)' \subseteq inuse'
                 /\ devices'[p].shmTimeP # None => devices'[p].shmindex < devices'[p].shmTimeP
      <3>1. CASE p = s
        BY <1>2, <2>1, <2>3, <3>1
      <3>2. CASE p # s
        BY <1>5, <2>2, <3>2
      <3> QED
        BY <3>1, <3>2
    <2> QED
      BY <2>4, <2>5
  <1> QED
    BY <1>6, <1>7, <1>8 DEF IInv

\* Devices may lose what they have, and segments be given back, which is remembered.
LEMMA LosingKeepsExclusive ==
    ASSUME TypeOK, UndisturbedSegmentsAreExclusive,
           \A s \in Slots : /\ devices'[s].added => devices[s].added
                            /\ devices'[s].shmindex = devices[s].shmindex
                            /\ devices'[s].shmTimeP = devices[s].shmTimeP,
           released' \/ (released' = released /\ inuse \subseteq inuse'), released => released'
    PROVE  UndisturbedSegmentsAreExclusive'
  <1>1. \A s \in Pool' : s \in Pool /\ Held(s)' = Held(s)
                         /\ devices'[s].shmindex = devices[s].shmindex
                         /\ devices'[s].shmTimeP = devices[s].shmTimeP
    BY DEF Pool, Held
  <1>2. CASE released'
    BY <1>2 DEF UndisturbedSegmentsAreExclusive
  <1>3. CASE ~released'
    <2>1. ~released /\ inuse \subseteq inuse'
      BY <1>3
    <2> QED
      BY <1>1, <2>1 DEF UndisturbedSegmentsAreExclusive
  <1> QED
    BY <1>2, <1>3

LEMMA LoopKeeps ==
    ASSUME IInv, NEW s \in Slots, Open(s) \/ Close(s) \/ Remove(s) \/ Hangup
    PROVE  IInv'
  <1>0. /\ devices \in [Slots -> DeviceRecord] /\ inuse \subseteq Segments
        /\ stop \in BOOLEAN /\ released \in BOOLEAN
        /\ threads \in [Threads -> ThreadRecord] /\ adds \in 0..MaxAdds
    BY TypeMeans DEF IInv
  <1>1. UNCHANGED <<threads, adds>>
    BY DEF Open, Close, Remove, Hangup
  <1>2. devices' \in [Slots -> DeviceRecord]
        /\ \A q \in Slots : /\ devices'[q].added => devices[q].added
                            /\ devices'[q].shmindex = devices[q].shmindex
                            /\ devices'[q].shmTimeP = devices[q].shmTimeP
    <2>1. CASE Open(s)
      BY <1>0, <2>1 DEF Open, DeviceRecord
    <2>2. CASE Close(s)
      BY <1>0, <2>2 DEF Close, Deactivated, DeviceRecord
    <2>3. CASE Remove(s)
      BY <1>0, <2>3 DEF Remove, Deactivated, DeviceRecord
    <2>4. CASE Hangup
      BY <1>0, <2>4 DEF Hangup, Deactivated, DeviceRecord
    <2> QED
      BY <2>1, <2>2, <2>3, <2>4
  <1>3. /\ inuse' \subseteq Segments /\ stop' \in BOOLEAN /\ released' \in BOOLEAN
        /\ stop => stop'
        /\ released' \/ (released' = released /\ inuse \subseteq inuse')
        /\ released => released'
    <2>1. CASE UNCHANGED <<inuse, stop, released>>
      BY <1>0, <2>1
    <2>2. CASE Unlink(devices[s])
      <3> DEFINE mine == {devices[s].shmindex} \cup (IF Pps THEN {devices[s].shmTimeP} ELSE {})
      <3>1. /\ inuse' = inuse \ mine
            /\ stop' = (stop \/ StopOnClose(devices[s]))
            /\ released' = (released \/ mine \cap Segments # {})
        BY <2>2 DEF Unlink, Unmarked
      <3> HIDE DEF mine
      <3>2. stop' \in BOOLEAN /\ (stop => stop')
        BY <1>0, <3>1
      <3>3. released' \in BOOLEAN /\ (released => released')
        BY <1>0, <3>1
      <3>4. CASE mine \cap Segments # {}
        BY <1>0, <3>1, <3>2, <3>3, <3>4
      <3>5. CASE mine \cap Segments = {}
        <4>1. inuse' = inuse
          BY <1>0, <3>1, <3>5
        <4>2. released' = released
          BY <1>0, <3>1, <3>5
        <4> QED
          BY <1>0, <3>2, <4>1, <4>2
      <3> QED
        BY <3>4, <3>5
    <2> QED
      BY <2>1, <2>2 DEF Open, Close, Remove, Hangup
  <1>4. TypeOK'
    BY <1>0, <1>1, <1>2, <1>3 DEF TypeOK, DeviceRecord, ThreadRecord, Steps
  <1>5. ThreadInv'
    BY <1>1, <1>3 DEF IInv, ThreadInv
  <1>6. UndisturbedSegmentsAreExclusive'
    BY <1>2, <1>3, LosingKeepsExclusive DEF IInv
  <1> QED
    BY <1>4, <1>5, <1>6 DEF IInv

-----------------------------------------------------------------------------
(* The threads *)

LEMMA ThreadKeeps ==
    ASSUME IInv, NEW t \in Threads, ThreadStep(t)
    PROVE  IInv'
  <1>0. /\ devices \in [Slots -> DeviceRecord] /\ inuse \subseteq Segments
        /\ stop \in BOOLEAN /\ released \in BOOLEAN
        /\ threads \in [Threads -> ThreadRecord] /\ adds \in 0..MaxAdds
    BY TypeMeans DEF IInv
  <1>1. UNCHANGED <<devices, stop, adds>>
    BY DEF ThreadStep, Activated, Unsuited, Test, LineChanges, LineFails, Reject, Pulse
  <1>2. \E next \in ThreadRecord :
           /\ threads' = [threads EXCEPT ![t] = next]
           /\ next.slot = threads[t].slot /\ threads[t].at # "none"
           /\ next.late \in {0, 1}
           /\ next.late = 1 => stop /\ next.at \in {"test", "ended"}
    <2>0. threads[t] \in ThreadRecord
      BY <1>0
    <2>1. ASSUME NEW from \in Steps, NEW to \in Steps, Moves(t, from, to), from # "none",
                 from \in {"test", "ended"} => to = "ended" \/ ~stop
          PROVE  /\ threads' = [threads EXCEPT ![t] = [threads[t] EXCEPT !.at = to]]
                 /\ [threads[t] EXCEPT !.at = to] \in ThreadRecord
                 /\ threads[t].at # "none" /\ threads[t].late \in {0, 1}
                 /\ threads[t].late = 1 => stop /\ to \in {"test", "ended"}
      BY <2>0, <2>1 DEF Moves, ThreadRecord, IInv, ThreadInv
    <2>2. CASE \/ Activated(t) \/ Unsuited(t) \/ Test(t) \/ LineChanges(t) \/ LineFails(t) \/ Reject(t)
      <3>1. \E from \in Steps, to \in Steps :
               Moves(t, from, to) /\ from # "none" /\ (from \in {"test", "ended"} => to = "ended" \/ ~stop)
        <4>1. {"awaiting", "test", "waiting", "timing", "ended"} \subseteq Steps
          BY DEF Steps
        <4>2. CASE Activated(t)
          BY <4>1, <4>2 DEF Activated
        <4>3. CASE Unsuited(t)
          BY <4>1, <4>3 DEF Unsuited
        <4>4. CASE Test(t)
          <5>1. Moves(t, "test", "ended") \/ (Moves(t, "test", "waiting") /\ ~stop)
            BY <4>4 DEF Test, Heeded
          <5> QED
            BY <4>1, <5>1
        <4>5. CASE LineChanges(t)
          BY <4>1, <4>5 DEF LineChanges
        <4>6. CASE LineFails(t)
          BY <4>1, <4>6 DEF LineFails
        <4>7. CASE Reject(t)
          BY <4>1, <4>7 DEF Reject
        <4> QED
          BY <2>2, <4>2, <4>3, <4>4, <4>5, <4>6, <4>7
      <3>2. PICK from \in Steps, to \in Steps :
               Moves(t, from, to) /\ from # "none" /\ (from \in {"test", "ended"} => to = "ended" \/ ~stop)
        BY <3>1
      <3> DEFINE next == [threads[t] EXCEPT !.at = to]
      <3>3. /\ threads' = [threads EXCEPT ![t] = next] /\ next \in ThreadRecord
            /\ threads[t].at # "none" /\ threads[t].late \in {0, 1}
            /\ threads[t].late = 1 => stop /\ to \in {"test", "ended"}
        BY <2>1, <3>2
      <3>4. next.slot = threads[t].slot /\ next.late = threads[t].late /\ next.at = to
        BY <2>0 DEF ThreadRecord
      <3> HIDE DEF next
      <3> QED
        BY <3>3, <3>4
    <2>3. CASE Pulse(t)
      <3> DEFINE next == [slot |-> threads[t].slot, at |-> "test", late |-> IF stop THEN 1 ELSE 0]
      <3>1. threads[t].at = "timing" /\ threads[t].late = 0
        BY <2>3 DEF Pulse, IInv, ThreadInv
      <3>2. threads' = [threads EXCEPT ![t] = next]
        <4>1. threads' = [threads EXCEPT ![t] = [slot |-> threads[t].slot, at |-> "test",
                                                 late |-> IF stop THEN threads[t].late + 1 ELSE threads[t].late]]
          BY <1>0, <2>3 DEF Pulse
        <4> QED
          BY <3>1, <4>1
      <3>3. next \in ThreadRecord
        BY <2>0 DEF ThreadRecord, Steps
      <3>4. next.slot = threads[t].slot /\ next.late \in {0, 1} /\ (next.late = 1 => stop) /\ next.at = "test"
        OBVIOUS
      <3> HIDE DEF next
      <3> QED
        BY <3>1, <3>2, <3>3, <3>4
    <2> QED
      BY <2>2, <2>3 DEF ThreadStep
  <1>3. PICK next \in ThreadRecord :
           /\ threads' = [threads EXCEPT ![t] = next]
           /\ next.slot = threads[t].slot /\ threads[t].at # "none"
           /\ next.late \in {0, 1}
           /\ next.late = 1 => stop /\ next.at \in {"test", "ended"}
    BY <1>2
  <1>4. ThreadInv'
    BY <1>0, <1>1, <1>3 DEF IInv, ThreadInv
  <1>5. /\ inuse' \subseteq Segments /\ released' \in BOOLEAN
        /\ released' \/ (released' = released /\ inuse \subseteq inuse')
        /\ released => released'
    <2>1. CASE UNCHANGED <<inuse, released>>
      BY <1>0, <2>1
    <2>2. CASE Unsuited(t)
      <3>1. inuse' = inuse \ {Device(t).shmTimeP} /\ released' = (released \/ Device(t).shmTimeP # None)
        BY <2>2 DEF Unsuited, Unmarked
      <3>2. released' \in BOOLEAN /\ (released => released')
        BY <1>0, <3>1
      <3>3. CASE Device(t).shmTimeP # None
        BY <1>0, <3>1, <3>2, <3>3
      <3>4. CASE Device(t).shmTimeP = None
        <4>1. inuse' = inuse
          BY <1>0, <3>1, <3>4, NoneIsNoSegment
        <4>2. released' = released
          BY <1>0, <3>1, <3>4
        <4> QED
          BY <1>0, <3>2, <4>1, <4>2
      <3> QED
        BY <3>3, <3>4
    <2> QED
      BY <2>1, <2>2 DEF ThreadStep, Activated, Test, LineChanges, LineFails, Reject, Pulse
  <1>8. threads' \in [Threads -> ThreadRecord]
    BY <1>0, <1>3
  <1>6. TypeOK'
    BY <1>0, <1>1, <1>5, <1>8 DEF TypeOK, DeviceRecord, ThreadRecord, Steps
  <1>7. UndisturbedSegmentsAreExclusive'
    BY <1>1, <1>5, LosingKeepsExclusive DEF IInv
  <1> QED
    BY <1>4, <1>6, <1>7 DEF IInv

LEMMA StepIInv == IInv /\ [Next]_vars => IInv'
  <1> SUFFICES ASSUME IInv, [Next]_vars PROVE IInv'
    OBVIOUS
  <1>1. ASSUME NEW s \in Slots, Add(s) \/ Open(s) \/ Close(s) \/ Remove(s) PROVE IInv'
    BY <1>1, AddKeeps, LoopKeeps
  <1>2. CASE Hangup
    <2>1. 1 \in Slots
      BY NtpSegmentsAssumption DEF Slots
    <2> QED
      BY <1>2, <2>1, LoopKeeps
  <1>3. ASSUME NEW t \in Threads, ThreadStep(t) PROVE IInv'
    BY <1>3, ThreadKeeps
  <1>4. CASE UNCHANGED vars
    BY <1>4 DEF vars, IInv, TypeOK, ThreadInv, UndisturbedSegmentsAreExclusive, Pool, Held
  <1> QED
    BY <1>1, <1>2, <1>3, <1>4 DEF Next, LoopStep

LEMMA Inductive == Spec => []IInv
  BY InitIInv, StepIInv, PTL DEF Spec

\* Slots hold segment numbers or none, threads are at a step of the monitor.
THEOREM TypeCorrect == Spec => []TypeOK
  <1>1. IInv => TypeOK
    BY DEF IInv
  <1> QED
    BY <1>1, Inductive, PTL

\* Until the first segment is given back no two devices of the pool have a segment in
\* common, for any number of devices and segments (ntpd_link_activate()).
THEOREM ExclusiveSegments == Spec => []UndisturbedSegmentsAreExclusive
  <1>1. IInv => UndisturbedSegmentsAreExclusive
    BY DEF IInv
  <1> QED
    BY <1>1, Inductive, PTL

\* A thread writes one pulse at the most after it has been told to stop.
THEOREM LatePulses == Spec => []OneLatePulse
  <1>1. IInv => OneLatePulse
    BY DEF IInv, ThreadInv, OneLatePulse
  <1> QED
    BY <1>1, Inductive, PTL
=============================================================================
