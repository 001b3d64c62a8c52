-------------------------- MODULE NtpSample_proofs --------------------------
(***************************************************************************)
(* Proofs about NtpSample: what ntpd can make of the segments, for any     *)
(* pulses and reports and any time of the run.                             *)
(***************************************************************************)
EXTENDS NtpSample, WellFoundedInduction, TLAPS

Samples == [clock : Nat, receive : Nat]
Shm == [valid : BOOLEAN, count : Nat, clock : Nat, receive : Nat]
Loop == [at : Stores \cup {"done"}, sample : Samples, last : Nat, ship : BOOLEAN, fixcnt : 0..FixesWanted]
Thread == [at : Stores \cup Judging \cup {"waiting"}, edge : Nat, state : {-1, 0, 1},
           pulse : [0..1 -> Nat], sample : Samples, overtaken : BOOLEAN]
Reader == [at : {"idle", "count", "clock", "receive", "recount", "use", "clear"}, unit : Units,
           count : Nat, sample : Samples]

LEMMA TypeMeans ==
    TypeOK <=> /\ now \in Nat /\ now >= Begin /\ unread \subseteq Nat /\ late \in BOOLEAN
               /\ mishaps \in 0..MaxMishaps /\ seen \in 0..Settled /\ shape \in Shapes
               /\ segment \in [Units -> Shm]
               /\ puts \in [Units -> Samples \X Samples]
               /\ loop \in Loop /\ thread \in Thread /\ ntpd \in Reader
  BY DEF TypeOK, Samples, Shm, Loop, Thread, Reader

-----------------------------------------------------------------------------
(* Time *)

\* A set of numbers that is not empty has a least member.
LEMMA LeastMember ==
    ASSUME NEW S, S \subseteq Nat, S # {}
    PROVE  \E x \in S : \A y \in S : x <= y
  <1> DEFINE less == OpToRel(<, Nat)
  <1>1. IsWellFoundedOn(less, Nat)
    BY NatLessThanWellFounded
  <1>2. ASSUME NEW x \in Nat, NEW y \in Nat PROVE <<y, x>> \in less <=> y < x
    BY DEF OpToRel
  <1> HIDE DEF less
  <1>3. \E x \in S : \A y \in S : ~(<<y, x>> \in less)
    BY <1>1, WFMin
  <1>4. PICK x \in S : \A y \in S : ~(<<y, x>> \in less)
    BY <1>3
  <1>5. ASSUME NEW y \in S PROVE x <= y
    <2>1. x \in Nat /\ y \in Nat
      OBVIOUS
    <2>2. ~(y < x)
      BY <1>2, <1>4, <2>1
    <2> QED
      BY <2>1, <2>2
  <1> QED
    BY <1>5

\* Every pulse has an edge in every second.
LEMMA EdgeEverySecond ==
    ASSUME now \in Nat, shape \in Shapes
    PROVE  \E t \in (now + 1)..(now + 10) : IsEdge(t)
  <1>1. \A r \in 0..1 : \E t \in (now + 1)..(now + 10) : t % 20 = r \/ t % 20 = r + 10
    <2> TAKE r \in 0..1
    <2> DEFINE t == now + 10 - ((now + 10 - r) % 10)
    <2>1. t \in (now + 1)..(now + 10)
      OBVIOUS
    <2>2. t % 20 = r \/ t % 20 = r + 10
      OBVIOUS
    <2> QED
      BY <2>1, <2>2
  <1>2. shape \in {"short", "inverted", "square", "half", "hidden"}
    BY NtpSampleAssumption
  <1>3. {0, 10} \subseteq Rises[shape] \cup Falls[shape] \cup Unseen
        \/ {1, 11} \subseteq Rises[shape] \cup Falls[shape] \cup Unseen
    BY <1>2 DEF Rises, Falls, Unseen
  <1>4. 0 \in 0..1 /\ 1 \in 0..1 /\ 0 + 10 = 10 /\ 1 + 10 = 11
    OBVIOUS
  <1>5. CASE {0, 10} \subseteq Rises[shape] \cup Falls[shape] \cup Unseen
    <2>1. PICK t \in (now + 1)..(now + 10) : t % 20 = 0 \/ t % 20 = 10
      BY <1>1, <1>4
    <2> QED
      BY <1>5, <2>1 DEF IsEdge
  <1>6. CASE {1, 11} \subseteq Rises[shape] \cup Falls[shape] \cup Unseen
    <2>1. PICK t \in (now + 1)..(now + 10) : t % 20 = 1 \/ t % 20 = 11
      BY <1>1, <1>4
    <2> QED
      BY <1>6, <2>1 DEF IsEdge
  <1> QED
    BY <1>3, <1>5, <1>6

\* Tick goes on to the next edge or report and passes none.
LEMMA TimeGoesOn ==
    ASSUME now \in Nat, shape \in Shapes
    PROVE  /\ NextTime \in Nat /\ NextTime > now
           /\ IsEdge(NextTime) \/ IsReport(NextTime)
           /\ \A u \in (now + 1)..(NextTime - 1) : ~IsEdge(u)
  <1> DEFINE due == {t \in (now + 1)..(now + 10) : IsEdge(t) \/ IsReport(t)}
  <1>1. due # {}
    BY EdgeEverySecond
  <1>2. due \subseteq Nat
    OBVIOUS
  <1> HIDE DEF due
  <1>3. PICK t \in due : \A u \in due : t <= u
    BY <1>1, <1>2, LeastMember
  <1>4. /\ t \in (now + 1)..(now + 10) /\ (IsEdge(t) \/ IsReport(t))
        /\ \A u \in (now + 1)..(t - 1) : ~IsEdge(u) /\ ~IsReport(u)
    <2>1. t \in (now + 1)..(now + 10) /\ (IsEdge(t) \/ IsReport(t))
      BY DEF due
    <2>2. ASSUME NEW u \in (now + 1)..(t - 1) PROVE ~IsEdge(u) /\ ~IsReport(u)
      <3>1. u \in (now + 1)..(now + 10) /\ ~(t <= u)
        BY <2>1
      <3> QED
        BY <1>3, <3>1 DEF due
    <2> QED
      BY <2>1, <2>2
  <1>5. /\ NextTime \in (now + 1)..(now + 10)
        /\ IsEdge(NextTime) \/ IsReport(NextTime)
        /\ \A u \in (now + 1)..(NextTime - 1) : ~IsEdge(u) /\ ~IsReport(u)
    BY <1>4 DEF NextTime
  <1> QED
    BY <1>5

-----------------------------------------------------------------------------
(* Types *)

\* TypeOK by what each process keeps.
TypeNow == now \in Nat /\ now >= Begin /\ unread \subseteq Nat /\ late \in BOOLEAN
           /\ mishaps \in 0..MaxMishaps /\ seen \in 0..Settled /\ shape \in Shapes
TypeShared == segment \in [Units -> Shm] /\ puts \in [Units -> Samples \X Samples]
TypeActors == loop \in Loop /\ thread \in Thread /\ ntpd \in Reader

LEMMA TypeParts == TypeOK <=> TypeNow /\ TypeShared /\ TypeActors
  BY DEF TypeOK, TypeNow, TypeShared, TypeActors, Samples, Shm, Loop, Thread, Reader

LEMMA TypePartsNext == TypeNow' /\ TypeShared' /\ TypeActors' => TypeOK'
  BY DEF TypeOK, TypeNow, TypeShared, TypeActors, Samples, Shm, Loop, Thread, Reader

\* A store leaves a segment a segment.
LEMMA StoredTyped ==
    ASSUME NEW shm \in Shm, NEW at \in Stores, NEW sample \in Samples
    PROVE  Stored(shm, at, sample) \in Shm
  <1>1. (IF at = "valid" THEN FALSE ELSE IF at = "revalid" THEN TRUE ELSE shm.valid) \in BOOLEAN
    BY DEF Shm
  <1>2. (IF at \in {"count", "recount"} THEN Counted(shm.count) ELSE shm.count) \in Nat
    BY DEF Shm, Counted
  <1>3. (IF at = "clock" THEN sample.clock ELSE shm.clock) \in Nat
    BY DEF Shm, Samples
  <1>4. (IF at = "receive" THEN sample.receive ELSE shm.receive) \in Nat
    BY DEF Shm, Samples
  <1> QED
    BY <1>1, <1>2, <1>3, <1>4 DEF Stored, Shm

LEMMA NotedTyped ==
    ASSUME TypeShared, NEW unit \in Units, NEW at \in Stores, NEW sample \in Samples
    PROVE  Noted(unit, at, sample) \in [Units -> Samples \X Samples]
  <1>1. puts[unit] \in Samples \X Samples
    BY DEF TypeShared
  <1>2. <<sample, puts[unit][1]>> \in Samples \X Samples
    BY <1>1
  <1>3. Noted(unit, at, sample) = puts
        \/ Noted(unit, at, sample) = [puts EXCEPT ![unit] = <<sample, puts[unit][1]>>]
    BY DEF Noted
  <1> QED
    BY <1>2, <1>3 DEF TypeShared

LEMMA AfterTyped ==
    \A at \in Stores : After[at] \in Stores \cup {"done"} /\ (at # "revalid" => After[at] \in Stores)
  BY DEF After, Stores

LEMMA LineIsBit == Line \in 0..1
  BY DEF Line

\* Init and every step keep the types.
THEOREM TypeCorrect == Spec => []TypeOK
  <1>1. Init => TypeOK
    <2> SUFFICES ASSUME Init PROVE TypeOK
      OBVIOUS
    <2>1. TypeNow
      <3>1. late \in BOOLEAN /\ unread \subseteq Nat /\ shape \in Shapes
        BY DEF Init
      <3>2. now \in Nat /\ now >= Begin /\ mishaps \in 0..MaxMishaps /\ seen \in 0..Settled
        BY NtpSampleAssumption DEF Init, Settled
      <3> QED
        BY <3>1, <3>2 DEF TypeNow
    <2>2. TypeShared
      <3>1. [valid |-> FALSE, count |-> 0, clock |-> 0, receive |-> 0] \in Shm /\ Zeroed \in Samples
        BY DEF Shm, Samples, Zeroed, Sample
      <3> QED
        BY <3>1 DEF Init, TypeShared
    <2>3. TypeActors
      <3>1. loop \in Loop
        BY NtpSampleAssumption DEF Init, Loop, Samples, Zeroed, Sample
      <3>2. thread \in Thread
        BY DEF Init, Thread, Samples, Zeroed, Sample
      <3>3. ntpd \in Reader
        BY DEF Init, Reader, Samples, Zeroed, Sample
      <3> QED
        BY <3>1, <3>2, <3>3 DEF TypeActors
    <2> QED
      BY <2>1, <2>2, <2>3, TypeParts
  <1>2. TypeOK /\ [Next]_vars => TypeOK'
    <2> SUFFICES ASSUME TypeOK, [Next]_vars PROVE TypeNow' /\ TypeShared' /\ TypeActors'
      BY TypePartsNext
    <2> USE TypeParts
    <2>1. CASE Tick
      <3>1. TypeNow'
        <4>1. NextTime \in Nat /\ NextTime > now
          BY TimeGoesOn DEF TypeNow
        <4>2. now' = NextTime /\ unread' \in {unread, unread \cup {NextTime - Delay}}
              /\ mishaps' \in {mishaps, mishaps + 1}
              /\ (mishaps' = mishaps \/ mishaps < MaxMishaps) /\ UNCHANGED <<shape, late>>
          BY <2>1 DEF Tick
        <4>3. seen' \in 0..Settled
          BY <2>1 DEF Tick, Settled, TypeNow
        <4> QED
          BY <4>1, <4>2, <4>3, NtpSampleAssumption DEF TypeNow
      <3>2. TypeShared'
        BY <2>1 DEF Tick, TypeShared
      <3>3. TypeActors'
        <4>1. NextTime \in Nat
          BY TimeGoesOn DEF TypeNow
        <4>2. thread' = thread
              \/ thread' = [thread EXCEPT !.at = "awake", !.edge = NextTime, !.overtaken = FALSE]
          BY <2>1 DEF Tick
        <4>3. thread' \in Thread
          BY <4>1, <4>2 DEF TypeActors, Thread, Judging
        <4>4. loop' = loop /\ ntpd' = ntpd
          BY <2>1 DEF Tick
        <4> QED
          BY <4>3, <4>4 DEF TypeActors
      <3> QED
        BY <3>1, <3>2, <3>3
    <2>2. CASE Report
      <3>1. TypeNow'
        BY <2>2, NtpSampleAssumption DEF Report, TypeNow
      <3>2. TypeShared'
        BY <2>2 DEF Report, TypeShared
      <3>3. TypeActors'
        <4>1. loop' \in Loop
          BY <2>2, NtpSampleAssumption DEF Report, TypeActors, TypeNow, Loop, Samples, Sample, Stores
        <4>2. thread' = thread /\ ntpd' = ntpd
          BY <2>2 DEF Report
        <4> QED
          BY <4>1, <4>2 DEF TypeActors
      <3> QED
        BY <3>1, <3>2, <3>3
    <2>3. CASE Put
      <3>1. loop.at \in Stores /\ loop.sample \in Samples /\ "coarse" \in Units
        BY <2>3 DEF Put, TypeActors, Loop, Units
      <3>2. TypeNow'
        BY <2>3 DEF Put, TypeNow, InTime
      <3>3. TypeShared'
        <4>1. segment' = [segment EXCEPT !["coarse"] = Stored(segment["coarse"], loop.at, loop.sample)]
              /\ puts' = Noted("coarse", loop.at, loop.sample)
          BY <2>3 DEF Put
        <4>2. segment["coarse"] \in Shm
          BY <3>1 DEF TypeShared
        <4>3. Stored(segment["coarse"], loop.at, loop.sample) \in Shm
          BY <3>1, <4>2, StoredTyped
        <4>4. puts' \in [Units -> Samples \X Samples]
          BY <3>1, <4>1, NotedTyped
        <4> QED
          BY <4>1, <4>3, <4>4 DEF TypeShared
      <3>4. TypeActors'
        <4>1. After[loop.at] \in Stores \cup {"done"}
          BY <3>1, AfterTyped
        <4>2. Zeroed \in Samples
          BY DEF Zeroed, Sample, Samples
        <4>3. loop' \in Loop
          BY <2>3, <4>1, <4>2 DEF Put, TypeActors, Loop
        <4>4. thread' \in Thread
          BY <2>3 DEF Put, TypeActors, Thread
        <4> QED
          BY <2>3, <4>3, <4>4 DEF Put, TypeActors
      <3> QED
        BY <3>2, <3>3, <3>4
    <2>4. CASE Detect
      <3>1. TypeNow' /\ TypeShared'
        BY <2>4 DEF Detect, TypeNow, TypeShared
      <3>2. thread' \in Thread
        <4>1. PICK next \in {"read receive", "waiting"} :
                  thread' = [thread EXCEPT !.at = next, !.state = Line, !.pulse[Line] = thread.edge]
          BY <2>4 DEF Detect
        <4> DEFINE pulses == [thread.pulse EXCEPT ![Line] = thread.edge]
        <4>2. pulses \in [0..1 -> Nat]
          BY LineIsBit DEF TypeActors, Thread
        <4>3. thread' = [thread EXCEPT !.at = next, !.state = Line, !.pulse = pulses]
          BY <4>1
        <4> HIDE DEF pulses
        <4>4. Line \in {-1, 0, 1}
          BY DEF Line
        <4> QED
          BY <4>2, <4>3, <4>4 DEF TypeActors, Thread, Judging
      <3> QED
        BY <2>4, <3>1, <3>2 DEF Detect, TypeActors
    <2>5. CASE ReadReceive
      <3>1. TypeNow' /\ TypeShared'
        BY <2>5 DEF ReadReceive, TypeNow, TypeShared
      <3>2. thread' \in Thread
        BY <2>5 DEF ReadReceive, TypeActors, Thread, Judging
      <3> QED
        BY <2>5, <3>1, <3>2 DEF ReadReceive, TypeActors
    <2>6. CASE ReadClock
      <3>1. TypeNow' /\ TypeShared'
        BY <2>6 DEF ReadClock, TypeNow, TypeShared
      <3>2. segment["coarse"].clock \in Nat /\ thread.edge \in Nat
        BY DEF TypeShared, TypeActors, Shm, Thread, Units
      <3>3. Sample(Second * (segment["coarse"].clock \div Second + 1), thread.edge) \in Samples
        BY <3>2 DEF Sample, Samples, Second
      <3>4. thread' \in Thread
        BY <2>6, <3>3 DEF ReadClock, TypeActors, Thread, Stores
      <3> QED
        BY <2>6, <3>1, <3>4 DEF ReadClock, TypeActors
    <2>7. CASE PutPulse
      <3>1. thread.at \in Stores /\ thread.sample \in Samples /\ "pulse" \in Units
        BY <2>7 DEF PutPulse, TypeActors, Thread, Units
      <3>2. TypeNow'
        BY <2>7 DEF PutPulse, TypeNow
      <3>3. TypeShared'
        <4>1. segment' = [segment EXCEPT !["pulse"] = Stored(segment["pulse"], thread.at, thread.sample)]
              /\ puts' = Noted("pulse", thread.at, thread.sample)
          BY <2>7 DEF PutPulse
        <4>2. segment["pulse"] \in Shm
          BY <3>1 DEF TypeShared
        <4>3. Stored(segment["pulse"], thread.at, thread.sample) \in Shm
          BY <3>1, <4>2, StoredTyped
        <4>4. puts' \in [Units -> Samples \X Samples]
          BY <3>1, <4>1, NotedTyped
        <4> QED
          BY <4>1, <4>3, <4>4 DEF TypeShared
      <3>4. thread' \in Thread
        <4>1. thread.at # "revalid" => After[thread.at] \in Stores
          BY <3>1, AfterTyped
        <4>2. Zeroed \in Samples
          BY DEF Zeroed, Sample, Samples
        <4> QED
          BY <2>7, <4>1, <4>2 DEF PutPulse, TypeActors, Thread
      <3> QED
        BY <2>7, <3>2, <3>3, <3>4 DEF PutPulse, TypeActors
    <2>8. CASE NtpdStep
      <3>1. TypeNow'
        BY <2>8 DEF NtpdStep, Poll, ReadsCount, ReadsValues, ReadsCountAgain, ClearsValid, TypeNow
      <3>2. segment[ntpd.unit] \in Shm /\ ntpd.unit \in Units
        BY DEF TypeShared, TypeActors, Reader
      <3>3. TypeShared'
        <4>1. \/ segment' = segment
              \/ segment' = [segment EXCEPT ![ntpd.unit] = [segment[ntpd.unit] EXCEPT !.valid = FALSE]]
          BY <2>8 DEF NtpdStep, Poll, ReadsCount, ReadsValues, ReadsCountAgain, ClearsValid
        <4>2. [segment[ntpd.unit] EXCEPT !.valid = FALSE] \in Shm
          BY <3>2 DEF Shm
        <4>3. puts' = puts
          BY <2>8 DEF NtpdStep, Poll, ReadsCount, ReadsValues, ReadsCountAgain, ClearsValid
        <4> QED
          BY <4>1, <4>2, <4>3 DEF TypeShared
      <3>4. ntpd' \in Reader
        <4>1. segment[ntpd.unit].count \in Nat /\ segment[ntpd.unit].clock \in Nat
              /\ segment[ntpd.unit].receive \in Nat
          BY <3>2 DEF Shm
        <4>2. CASE Poll \/ ReadsCount \/ ReadsCountAgain
          BY <4>1, <4>2 DEF Poll, ReadsCount, ReadsCountAgain, TypeActors, Reader
        <4>3. CASE ReadsValues
          <5> DEFINE clocked == [ntpd.sample EXCEPT !.clock = segment[ntpd.unit].clock]
                     received == [ntpd.sample EXCEPT !.receive = segment[ntpd.unit].receive]
          <5>1. clocked \in Samples /\ received \in Samples
            BY <4>1 DEF TypeActors, Reader, Samples
          <5>2. \/ ntpd' = [ntpd EXCEPT !.at = "receive", !.sample = clocked]
                \/ ntpd' = [ntpd EXCEPT !.at = "recount", !.sample = received]
            BY <4>3 DEF ReadsValues
          <5> HIDE DEF clocked, received
          <5> QED
            BY <5>1, <5>2 DEF TypeActors, Reader
        <4>4. CASE ClearsValid
          <5>1. Zeroed \in Samples
            BY DEF Zeroed, Sample, Samples
          <5> QED
            BY <4>4, <5>1 DEF ClearsValid, TypeActors, Reader
        <4> QED
          BY <2>8, <4>2, <4>3, <4>4 DEF NtpdStep
      <3>5. loop' = loop /\ thread' = thread
        BY <2>8 DEF NtpdStep, Poll, ReadsCount, ReadsValues, ReadsCountAgain, ClearsValid
      <3> QED
        BY <3>1, <3>3, <3>4, <3>5 DEF TypeActors
    <2>9. CASE UNCHANGED vars
      BY <2>9 DEF vars, TypeNow, TypeShared, TypeActors
    <2> QED
      BY <2>1, <2>2, <2>3, <2>4, <2>5, <2>6, <2>7, <2>8, <2>9 DEF Next, LoopStep, ThreadStep
  <1> QED
    BY <1>1, <1>2, PTL DEF Spec

-----------------------------------------------------------------------------
(* The protocol of the segments *)

\* Between the first and the second count.
Busy == {"clock", "receive", "recount"}

\* A writer at a store: the count is odd while it is busy, and each field is from
\* the last put or, if the writer has not come to it, from the one before.
Writer(shm, put, at, value) ==
    /\ shm.count % 2 = 1 <=> at \in Busy
    /\ at \in Busy => value = put[1]
    /\ shm.clock = IF at = "clock" THEN put[2].clock ELSE put[1].clock
    /\ shm.receive = IF at \in {"clock", "receive"} THEN put[2].receive ELSE put[1].receive

Candidates(count) == IF count % 2 = 0 THEN {1} ELSE {1, 2}

\* The reader: as long as the count is the one it read, so are the fields.
Reads(reader, shm, put) ==
    reader.at \in Busy =>
        /\ reader.count <= shm.count
        /\ reader.count = shm.count =>
              /\ reader.at \in {"receive", "recount"} =>
                    \E i \in Candidates(reader.count) : reader.sample.clock = put[i].clock
              /\ reader.at = "recount" =>
                    \E i \in Candidates(reader.count) : reader.sample.receive = put[i].receive

SampleInv ==
    /\ Writer(segment["coarse"], puts["coarse"], loop.at, loop.sample)
    /\ Writer(segment["pulse"], puts["pulse"], thread.at, thread.sample)
    /\ \A u \in Units : ntpd.unit = u => Reads(ntpd, segment[u], puts[u])

\* What is put, and how the history of a unit goes on, at a store.
PutNext(put, at, value) == IF at = "count" THEN <<value, put[1]>> ELSE put

LEMMA NotedAt ==
    ASSUME TypeShared, NEW unit \in Units, NEW at, NEW value
    PROVE  /\ Noted(unit, at, value)[unit] = PutNext(puts[unit], at, value)
           /\ \A other \in Units : other # unit => Noted(unit, at, value)[other] = puts[other]
  BY DEF Noted, PutNext, TypeShared

LEMMA CountTwice ==
    \A n \in Nat : (n + 1) % 2 = 1 <=> ~(n % 2 = 1)
  OBVIOUS

\* A store of a writer that goes on as ntpshm_put() does keeps what is said of it.
LEMMA WriterStores ==
    ASSUME NEW shm \in Shm, NEW put \in Samples \X Samples, NEW at \in Stores, NEW value,
           Writer(shm, put, at, value), NEW next, NEW rest,
           at # "revalid" => next = After[at] /\ rest = value,
           at = "revalid" => next \notin Busy
    PROVE  Writer(Stored(shm, at, value), PutNext(put, at, value), next, rest)
  <1> DEFINE new == Stored(shm, at, value)
             puts2 == PutNext(put, at, value)
  <1>1. shm.count \in Nat
    BY DEF Shm
  <1>2. /\ new.count = IF at \in {"count", "recount"} THEN shm.count + 1 ELSE shm.count
        /\ new.clock = IF at = "clock" THEN value.clock ELSE shm.clock
        /\ new.receive = IF at = "receive" THEN value.receive ELSE shm.receive
    BY DEF Stored, Counted
  <1>3. /\ at = "count" => puts2[1] = value /\ puts2[2] = put[1]
        /\ at # "count" => puts2 = put
    BY DEF PutNext
  <1>4. new.count % 2 = 1 <=> IF at \in {"count", "recount"} THEN ~(shm.count % 2 = 1) ELSE shm.count % 2 = 1
    BY <1>1, <1>2, CountTwice
  <1> HIDE DEF new, puts2
  <1>5. CASE at = "valid"
    <2>1. next = "count"
      BY <1>5 DEF After
    <2> QED
      BY <1>2, <1>3, <1>4, <1>5, <2>1 DEF Writer, Busy, new, puts2
  <1>6. CASE at = "count"
    <2>1. next = "clock" /\ rest = value
      BY <1>6 DEF After
    <2> QED
      BY <1>2, <1>3, <1>4, <1>6, <2>1 DEF Writer, Busy, new, puts2
  <1>7. CASE at = "clock"
    <2>1. next = "receive" /\ rest = value
      BY <1>7 DEF After
    <2> QED
      BY <1>2, <1>3, <1>4, <1>7, <2>1 DEF Writer, Busy, new, puts2
  <1>8. CASE at = "receive"
    <2>1. next = "recount" /\ rest = value
      BY <1>8 DEF After
    <2> QED
      BY <1>2, <1>3, <1>4, <1>8, <2>1 DEF Writer, Busy, new, puts2
  <1>9. CASE at = "recount"
    <2>1. next = "revalid"
      BY <1>9 DEF After
    <2> QED
      BY <1>2, <1>3, <1>4, <1>9, <2>1 DEF Writer, Busy, new, puts2
  <1>10. CASE at = "revalid"
    BY <1>2, <1>3, <1>4, <1>10 DEF Writer, Busy, new, puts2
  <1> QED
    BY <1>5, <1>6, <1>7, <1>8, <1>9, <1>10 DEF Stores

\* A store outdates the count the reader has, or changes neither the count nor
\* which sample is the last.
LEMMA ReaderBears ==
    ASSUME NEW shm \in Shm, NEW put, NEW at \in Stores, NEW value, NEW reader \in Reader,
           Reads(reader, shm, put)
    PROVE  Reads(reader, Stored(shm, at, value), PutNext(put, at, value))
  <1>1. shm.count \in Nat /\ reader.count \in Nat
    BY DEF Shm, Reader
  <1>2. CASE at \in {"count", "recount"}
    <2>1. Stored(shm, at, value).count = shm.count + 1
      BY <1>2 DEF Stored, Counted
    <2>2. reader.at \in Busy => reader.count < Stored(shm, at, value).count
      BY <1>1, <2>1 DEF Reads
    <2> QED
      BY <1>1, <2>1, <2>2 DEF Reads
  <1>3. CASE at \notin {"count", "recount"}
    <2>1. Stored(shm, at, value).count = shm.count /\ PutNext(put, at, value) = put
      BY <1>3 DEF Stored, PutNext
    <2> QED
      BY <2>1 DEF Reads
  <1> QED
    BY <1>2, <1>3

\* The reader reads a field of the last sample, or while the writer is busy of one
\* of the last two.
LEMMA ReaderReads ==
    ASSUME NEW shm, NEW put, NEW at, NEW value, Writer(shm, put, at, value)
    PROVE  /\ \E i \in Candidates(shm.count) : shm.clock = put[i].clock
           /\ \E i \in Candidates(shm.count) : shm.receive = put[i].receive
  <1>1. 1 \in Candidates(shm.count) /\ (shm.count % 2 # 0 => 2 \in Candidates(shm.count))
    BY DEF Candidates
  <1>2. CASE at \in Busy
    BY <1>1, <1>2 DEF Writer, Busy
  <1>3. CASE at \notin Busy
    BY <1>1, <1>3 DEF Writer, Busy
  <1> QED
    BY <1>2, <1>3

LEMMA SampleInvariance == Spec => [](TypeOK /\ SampleInv)
  <1>1. Init => SampleInv
    <2> SUFFICES ASSUME Init PROVE SampleInv
      OBVIOUS
    <2>1. /\ segment["coarse"] = [valid |-> FALSE, count |-> 0, clock |-> 0, receive |-> 0]
          /\ segment["pulse"] = segment["coarse"]
          /\ puts["coarse"] = <<Zeroed, Zeroed>> /\ puts["pulse"] = <<Zeroed, Zeroed>>
      BY DEF Init, Units
    <2>2. loop.at = "done" /\ thread.at = "waiting" /\ ntpd.at = "idle"
      BY DEF Init
    <2> QED
      BY <2>1, <2>2 DEF SampleInv, Writer, Reads, Busy, Zeroed, Sample
  <1>2. TypeOK /\ SampleInv /\ [Next]_vars => SampleInv'
    <2> SUFFICES ASSUME TypeOK, SampleInv, [Next]_vars PROVE SampleInv'
      OBVIOUS
    <2>0. TypeNow /\ TypeShared /\ TypeActors
      BY TypeParts
    <2>a. "coarse" \in Units /\ "pulse" \in Units /\ ntpd.unit \in Units /\ ntpd \in Reader
      BY <2>0 DEF Units, TypeActors, Reader
    <2>b. \A u \in Units : segment[u] \in Shm /\ puts[u] \in Samples \X Samples
      BY <2>0 DEF TypeShared
    <2>1. CASE Tick
      <3>1. segment' = segment /\ puts' = puts /\ loop' = loop /\ ntpd' = ntpd
        BY <2>1 DEF Tick
      <3>2. thread' = thread \/ (thread.at = "waiting" /\ thread'.at = "awake")
        BY <2>0, <2>1 DEF Tick, TypeActors, Thread
      <3> QED
        BY <3>1, <3>2 DEF SampleInv, Writer, Busy
    <2>2. CASE Report
      <3>1. segment' = segment /\ puts' = puts /\ thread' = thread /\ ntpd' = ntpd
        BY <2>2 DEF Report
      <3>2. loop.at = "done" /\ loop'.at \in {"valid", "done"}
        BY <2>2 DEF Report
      <3> QED
        BY <3>1, <3>2 DEF SampleInv, Writer, Busy
    <2>3. CASE Put
      <3>1. loop.at \in Stores /\ loop.sample \in Samples
        BY <2>0, <2>3 DEF Put, TypeActors, Loop
      <3>2. /\ segment'["coarse"] = Stored(segment["coarse"], loop.at, loop.sample)
            /\ segment'["pulse"] = segment["pulse"]
        BY <2>0, <2>3 DEF Put, TypeShared, Units
      <3>3. /\ puts'["coarse"] = PutNext(puts["coarse"], loop.at, loop.sample)
            /\ puts'["pulse"] = puts["pulse"]
        <4>1. puts' = Noted("coarse", loop.at, loop.sample)
          BY <2>3 DEF Put
        <4> QED
          BY <2>0, <2>a, <4>1, NotedAt
      <3>4. thread'.at = thread.at /\ thread'.sample = thread.sample /\ ntpd' = ntpd
        BY <2>0, <2>3 DEF Put, TypeActors, Thread
      <3>5. /\ loop'.at = After[loop.at]
            /\ loop.at # "revalid" => loop'.sample = loop.sample
        BY <2>0, <2>3 DEF Put, TypeActors, Loop
      <3>6. loop.at = "revalid" => loop'.at \notin Busy
        BY <3>5 DEF After, Busy
      <3>7. Writer(segment'["coarse"], puts'["coarse"], loop'.at, loop'.sample)
        <4> DEFINE shm == segment["coarse"]
                   put == puts["coarse"]
                   at == loop.at
                   value == loop.sample
                   next == loop'.at
                   rest == loop'.sample
        <4>1. shm \in Shm /\ put \in Samples \X Samples
          BY <2>a, <2>b
        <4>2. at \in Stores
          BY <3>1
        <4>3. Writer(shm, put, at, value)
          BY DEF SampleInv
        <4>4. at # "revalid" => next = After[at] /\ rest = value
          BY <3>5
        <4>5. at = "revalid" => next \notin Busy
          BY <3>6
        <4>6. segment'["coarse"] = Stored(shm, at, value) /\ puts'["coarse"] = PutNext(put, at, value)
          BY <3>2, <3>3
        <4> HIDE DEF shm, put, at, value, next, rest
        <4>7. Writer(Stored(shm, at, value), PutNext(put, at, value), next, rest)
          BY <4>1, <4>2, <4>3, <4>4, <4>5, WriterStores
        <4> QED
          BY <4>6, <4>7 DEF next, rest
      <3>8. Writer(segment'["pulse"], puts'["pulse"], thread'.at, thread'.sample)
        BY <3>2, <3>3, <3>4 DEF SampleInv
      <3>9. ASSUME NEW u \in Units, ntpd'.unit = u PROVE Reads(ntpd', segment'[u], puts'[u])
        <4>1. Reads(ntpd, segment[u], puts[u]) /\ ntpd' = ntpd
          BY <3>4, <3>9 DEF SampleInv
        <4>2. CASE u = "coarse"
          <5>1. Reads(ntpd, Stored(segment[u], loop.at, loop.sample), PutNext(puts[u], loop.at, loop.sample))
            BY <2>a, <2>b, <3>1, <4>1, ReaderBears
          <5> QED
            BY <3>2, <3>3, <4>1, <4>2, <5>1
        <4>3. CASE u = "pulse"
          BY <3>2, <3>3, <4>1, <4>3
        <4> QED
          BY <4>2, <4>3 DEF Units
      <3> QED
        BY <3>7, <3>8, <3>9 DEF SampleInv
    <2>4. CASE Detect \/ ReadReceive \/ ReadClock
      <3>1. segment' = segment /\ puts' = puts /\ loop' = loop /\ ntpd' = ntpd
        BY <2>4 DEF Detect, ReadReceive, ReadClock
      <3>2. thread.at \in Judging
        BY <2>4 DEF Detect, ReadReceive, ReadClock, Judging
      <3>3. thread'.at \in Judging \cup {"waiting", "valid"}
        BY <2>0, <2>4 DEF Detect, ReadReceive, ReadClock, Judging, TypeActors, Thread
      <3> QED
        BY <3>1, <3>2, <3>3 DEF SampleInv, Writer, Busy, Judging
    <2>5. CASE PutPulse
      <3>1. thread.at \in Stores /\ thread.sample \in Samples
        BY <2>0, <2>5 DEF PutPulse, TypeActors, Thread
      <3>2. /\ segment'["pulse"] = Stored(segment["pulse"], thread.at, thread.sample)
            /\ segment'["coarse"] = segment["coarse"]
        BY <2>0, <2>5 DEF PutPulse, TypeShared, Units
      <3>3. /\ puts'["pulse"] = PutNext(puts["pulse"], thread.at, thread.sample)
            /\ puts'["coarse"] = puts["coarse"]
        <4>1. puts' = Noted("pulse", thread.at, thread.sample)
          BY <2>5 DEF PutPulse
        <4> QED
          BY <2>0, <2>a, <4>1, NotedAt
      <3>4. loop' = loop /\ ntpd' = ntpd
        BY <2>5 DEF PutPulse
      <3>5. /\ thread.at # "revalid" => thread'.at = After[thread.at] /\ thread'.sample = thread.sample
            /\ thread.at = "revalid" => thread'.at = "waiting"
        BY <2>0, <2>5 DEF PutPulse, TypeActors, Thread
      <3>7. Writer(segment'["pulse"], puts'["pulse"], thread'.at, thread'.sample)
        <4> DEFINE shm == segment["pulse"]
                   put == puts["pulse"]
                   at == thread.at
                   value == thread.sample
                   next == thread'.at
                   rest == thread'.sample
        <4>1. shm \in Shm /\ put \in Samples \X Samples
          BY <2>a, <2>b
        <4>2. at \in Stores
          BY <3>1
        <4>3. Writer(shm, put, at, value)
          BY DEF SampleInv
        <4>4. at # "revalid" => next = After[at] /\ rest = value
          BY <3>5
        <4>5. at = "revalid" => next \notin Busy
          BY <3>5 DEF Busy
        <4>6. segment'["pulse"] = Stored(shm, at, value) /\ puts'["pulse"] = PutNext(put, at, value)
          BY <3>2, <3>3
        <4> HIDE DEF shm, put, at, value, next, rest
        <4>7. Writer(Stored(shm, at, value), PutNext(put, at, value), next, rest)
          BY <4>1, <4>2, <4>3, <4>4, <4>5, WriterStores
        <4> QED
          BY <4>6, <4>7 DEF next, rest
      <3>8. Writer(segment'["coarse"], puts'["coarse"], loop'.at, loop'.sample)
        BY <3>2, <3>3, <3>4 DEF SampleInv
      <3>9. ASSUME NEW u \in Units, ntpd'.unit = u PROVE Reads(ntpd', segment'[u], puts'[u])
        <4>1. Reads(ntpd, segment[u], puts[u]) /\ ntpd' = ntpd
          BY <3>4, <3>9 DEF SampleInv
        <4>2. CASE u = "pulse"
          <5>1. Reads(ntpd, Stored(segment[u], thread.at, thread.sample),
                      PutNext(puts[u], thread.at, thread.sample))
            BY <2>a, <2>b, <3>1, <4>1, ReaderBears
          <5> QED
            BY <3>2, <3>3, <4>1, <4>2, <5>1
        <4>3. CASE u = "coarse"
          BY <3>2, <3>3, <4>1, <4>3
        <4> QED
          BY <4>2, <4>3 DEF Units
      <3> QED
        BY <3>7, <3>8, <3>9 DEF SampleInv
    <2>6. CASE NtpdStep
      <3> DEFINE unit == ntpd.unit
      <3>1. loop' = loop /\ thread' = thread /\ puts' = puts
        BY <2>6 DEF NtpdStep, Poll, ReadsCount, ReadsValues, ReadsCountAgain, ClearsValid
      <3>2. \A u \in Units : /\ segment'[u].count = segment[u].count /\ segment'[u].clock = segment[u].clock
                             /\ segment'[u].receive = segment[u].receive
        <4>1. \/ segment' = segment
              \/ segment' = [segment EXCEPT ![unit] = [segment[unit] EXCEPT !.valid = FALSE]]
          BY <2>6 DEF NtpdStep, Poll, ReadsCount, ReadsValues, ReadsCountAgain, ClearsValid
        <4>2. segment \in [Units -> Shm] /\ segment[unit] \in Shm
          BY <2>0, <2>a DEF TypeShared
        <4> DEFINE cleared == [segment[unit] EXCEPT !.valid = FALSE]
        <4>3. /\ cleared.count = segment[unit].count /\ cleared.clock = segment[unit].clock
              /\ cleared.receive = segment[unit].receive
          BY <4>2 DEF Shm
        <4>4. segment' = segment \/ segment' = [segment EXCEPT ![unit] = cleared]
          BY <4>1
        <4> HIDE DEF cleared
        <4> QED
          BY <4>2, <4>3, <4>4
      <3>3. \A u \in Units : \A at, value : Writer(segment[u], puts[u], at, value)
                                => Writer(segment'[u], puts'[u], at, value)
        BY <3>1, <3>2 DEF Writer
      <3>4. /\ Writer(segment'["coarse"], puts'["coarse"], loop'.at, loop'.sample)
            /\ Writer(segment'["pulse"], puts'["pulse"], thread'.at, thread'.sample)
        BY <2>a, <3>1, <3>3 DEF SampleInv
      <3>5. ntpd'.unit = unit
        BY <2>0, <2>6 DEF NtpdStep, Poll, ReadsCount, ReadsValues, ReadsCountAgain, ClearsValid,
                          TypeActors, Reader
      <3>6. Reads(ntpd, segment[unit], puts[unit])
        BY <2>a DEF SampleInv
      <3>7. Reads(ntpd', segment[unit], puts[unit])
        <4>1. CASE Poll \/ ReadsCountAgain \/ ClearsValid
          <5>1. ntpd'.at \notin Busy
            BY <2>0, <4>1 DEF Poll, ReadsCountAgain, ClearsValid, Busy, TypeActors, Reader
          <5> QED
            BY <5>1 DEF Reads
        <4>2. CASE ReadsCount
          <5>1. ntpd'.at = "clock" /\ ntpd'.count = segment[unit].count
            BY <2>0, <4>2 DEF ReadsCount, TypeActors, Reader
          <5>2. segment[unit].count \in Nat
            BY <2>a, <2>b DEF Shm
          <5> QED
            BY <5>1, <5>2 DEF Reads
        <4>3. CASE ReadsValues
          <5> DEFINE shm == segment[unit]
                     put == puts[unit]
          <5>1. /\ \E i \in Candidates(shm.count) : shm.clock = put[i].clock
                /\ \E i \in Candidates(shm.count) : shm.receive = put[i].receive
            <6>1. \/ Writer(shm, put, loop.at, loop.sample)
                  \/ Writer(shm, put, thread.at, thread.sample)
              BY <2>a DEF SampleInv, Units
            <6> HIDE DEF shm, put
            <6> QED
              BY <6>1, ReaderReads
          <5>2. CASE ntpd.at = "clock"
            <6>1. /\ ntpd'.at = "receive" /\ ntpd'.count = ntpd.count
                  /\ ntpd'.sample.clock = shm.clock
              BY <2>0, <4>3, <5>2, ZenonT(30) DEF ReadsValues, TypeActors, Reader, Samples
            <6> QED
              BY <3>6, <5>1, <5>2, <6>1 DEF Reads, Busy
          <5>3. CASE ntpd.at = "receive"
            <6> DEFINE received == [ntpd.sample EXCEPT !.receive = shm.receive]
            <6>1. ntpd' = [ntpd EXCEPT !.at = "recount", !.sample = received]
              BY <4>3, <5>3 DEF ReadsValues
            <6>2. received.clock = ntpd.sample.clock /\ received.receive = shm.receive
              BY <2>0 DEF TypeActors, Reader, Samples
            <6> HIDE DEF received
            <6>3. ntpd'.at = "recount" /\ ntpd'.count = ntpd.count /\ ntpd'.sample = received
              BY <2>0, <6>1 DEF TypeActors, Reader
            <6> QED
              BY <3>6, <5>1, <5>3, <6>2, <6>3 DEF Reads, Busy
          <5> QED
            BY <4>3, <5>2, <5>3 DEF ReadsValues
        <4> QED
          BY <2>6, <4>1, <4>2, <4>3 DEF NtpdStep
      <3>8. ASSUME NEW u \in Units, ntpd'.unit = u PROVE Reads(ntpd', segment'[u], puts'[u])
        <4>1. u = unit
          BY <3>5, <3>8
        <4>2. Reads(ntpd', segment[u], puts[u])
          BY <3>7, <4>1
        <4> QED
          BY <3>1, <3>2, <4>2 DEF Reads
      <3> QED
        BY <3>4, <3>8 DEF SampleInv
    <2>7. CASE UNCHANGED vars
      BY <2>7 DEF vars, SampleInv, Writer, Reads
    <2> QED
      BY <2>1, <2>2, <2>3, <2>4, <2>5, <2>6, <2>7 DEF Next, LoopStep, ThreadStep
  <1> QED
    BY <1>1, <1>2, TypeCorrect, PTL DEF Spec

\* What ntpd uses is one sample, or, if it read the count during a put, at worst a
\* mixture of the last two.
THEOREM WholeSamples == Spec => SampleSpansOnePut
  <1>1. TypeOK /\ SampleInv /\ [Next]_vars =>
            [ntpd.at = "recount" /\ ntpd'.at = "use" =>
                LET candidates == IF ntpd.count % 2 = 0 THEN {1} ELSE {1, 2}
                IN  \A field \in {"clock", "receive"} :
                        \E i \in candidates : ntpd.sample[field] = puts[ntpd.unit][i][field]]_vars
    <2> SUFFICES ASSUME TypeOK, SampleInv, Next, ntpd.at = "recount", ntpd'.at = "use"
                 PROVE  \A field \in {"clock", "receive"} :
                            \E i \in Candidates(ntpd.count) : ntpd.sample[field] = puts[ntpd.unit][i][field]
      BY DEF Candidates
    <2>0. TypeNow /\ TypeShared /\ TypeActors
      BY TypeParts
    <2>1. segment[ntpd.unit].count = ntpd.count
      <3>1. CASE ReadsCountAgain
        BY <2>0, <3>1 DEF ReadsCountAgain, TypeActors, Reader
      <3>2. CASE Tick \/ LoopStep \/ ThreadStep
        BY <3>2 DEF Tick, LoopStep, Report, Put, ThreadStep, Detect, ReadReceive, ReadClock, PutPulse
      <3> QED
        BY <3>1, <3>2 DEF Next, NtpdStep, Poll, ReadsCount, ReadsValues, ClearsValid
    <2>2. Reads(ntpd, segment[ntpd.unit], puts[ntpd.unit])
      BY <2>0 DEF SampleInv, TypeActors, Reader
    <2> QED
      BY <2>1, <2>2 DEF Reads, Busy
  <1> QED
    BY <1>1, SampleInvariance, PTL DEF Spec, SampleSpansOnePut

-----------------------------------------------------------------------------
(* One sample of a second *)

\* The time of the last put has passed; a report that waits is of a later one.
Passed ==
    LET last == puts["coarse"][1].clock
    IN  /\ last <= now - Delay
        /\ \A time \in unread : time <= now - Delay /\ last < time
        /\ loop.at \in {"valid", "count"} =>
              /\ last \div Second < loop.sample.clock \div Second
              /\ loop.sample.clock <= now - Delay
              /\ \A time \in unread : loop.sample.clock < time

\* A later time is of the same second or a later one.
LEMMA LaterSecond ==
    \A a, b \in Nat : a < b /\ a \div Second # b \div Second => a \div Second < b \div Second
  BY DEF Second

LEMMA PassedInvariance == Spec => [](TypeOK /\ SampleInv /\ OneSamplePerSecond /\ Passed)
  <1>1. Init => OneSamplePerSecond /\ Passed
    <2> SUFFICES ASSUME Init PROVE OneSamplePerSecond /\ Passed
      OBVIOUS
    <2>1. puts["coarse"] = <<Zeroed, Zeroed>> /\ loop.at = "done" /\ unread = {} /\ now = Begin
      BY DEF Init, Units
    <2> QED
      BY <2>1, NtpSampleAssumption DEF OneSamplePerSecond, Passed, Zeroed, Sample
  <1>2. TypeOK /\ SampleInv /\ OneSamplePerSecond /\ Passed /\ [Next]_vars => (OneSamplePerSecond /\ Passed)'
    <2> SUFFICES ASSUME TypeOK, SampleInv, OneSamplePerSecond, Passed, [Next]_vars
                 PROVE  OneSamplePerSecond' /\ Passed'
      OBVIOUS
    <2>0. TypeNow /\ TypeShared /\ TypeActors
      BY TypeParts
    <2>a. puts["coarse"] \in Samples \X Samples
      BY <2>0 DEF TypeShared, Units
    <2>b. /\ now \in Nat /\ unread \subseteq Nat /\ Delay \in 1..9
          /\ puts["coarse"][1].clock \in Nat /\ loop.sample.clock \in Nat
      BY <2>0, <2>a, NtpSampleAssumption DEF TypeNow, TypeActors, Loop, Samples
    <2>1. CASE Tick
      <3>1. NextTime \in Nat /\ NextTime > now
        BY <2>0, TimeGoesOn DEF TypeNow
      <3>2. /\ now' = NextTime /\ unread' \subseteq unread \cup {NextTime - Delay}
            /\ puts' = puts /\ loop' = loop
        BY <2>1 DEF Tick
      <3>3. OneSamplePerSecond'
        BY <3>2 DEF OneSamplePerSecond
      <3>4. /\ puts["coarse"][1].clock <= now' - Delay
            /\ loop.at \in {"valid", "count"} => loop.sample.clock <= now' - Delay
        BY <2>b, <3>1, <3>2 DEF Passed
      <3>5. ASSUME NEW time \in unread'
            PROVE  /\ time <= now' - Delay /\ puts["coarse"][1].clock < time
                   /\ loop.at \in {"valid", "count"} => loop.sample.clock < time
        <4>1. CASE time \in unread
          <5>1. time \in Nat /\ time <= now - Delay
            BY <2>b, <4>1 DEF Passed
          <5> QED
            BY <2>b, <3>1, <3>2, <4>1, <5>1 DEF Passed
        <4>2. CASE time = NextTime - Delay
          BY <2>b, <3>1, <3>2, <4>2 DEF Passed
        <4> QED
          BY <3>2, <4>1, <4>2
      <3> QED
        BY <3>2, <3>3, <3>4, <3>5 DEF Passed
    <2>2. CASE Report
      <3>1. PICK time \in unread :
                /\ unread' = unread \ {time} /\ \A other \in unread : time <= other
                /\ loop'.at = "valid" => NewSecond(time) /\ loop'.sample = Sample(time, now)
        BY <2>2 DEF Report
      <3>2. OneSamplePerSecond' /\ puts' = puts /\ now' = now
        BY <2>2 DEF Report, OneSamplePerSecond
      <3>3. loop.at = "done" /\ loop'.at \in {"valid", "done"}
        BY <2>2 DEF Report
      <3>4. segment["coarse"].clock = puts["coarse"][1].clock
        BY <3>3 DEF SampleInv, Writer, Busy
      <3>5. \A other \in unread' : time < other
        BY <2>b, <3>1
      <3>6. CASE loop'.at = "valid"
        <4>1. puts["coarse"][1].clock \div Second # time \div Second
          BY <3>1, <3>4, <3>6 DEF NewSecond
        <4>2. puts["coarse"][1].clock \div Second < time \div Second
          BY <2>b, <4>1, LaterSecond DEF Passed
        <4>3. loop'.sample.clock = time
          BY <3>1, <3>6 DEF Sample
        <4> QED
          BY <2>b, <3>1, <3>2, <3>5, <4>2, <4>3 DEF Passed
      <3>7. CASE loop'.at = "done"
        BY <2>b, <3>1, <3>2, <3>7 DEF Passed
      <3> QED
        BY <3>2, <3>3, <3>6, <3>7
    <2>3. CASE Put
      <3>1. now' = now /\ unread' = unread
        BY <2>3 DEF Put
      <3>2. puts'["coarse"] = PutNext(puts["coarse"], loop.at, loop.sample)
        <4>1. puts' = Noted("coarse", loop.at, loop.sample) /\ "coarse" \in Units
          BY <2>3 DEF Put, Units
        <4> QED
          BY <2>0, <4>1, NotedAt
      <3>3. loop.at \in Stores /\ loop'.at = After[loop.at]
        BY <2>0, <2>3 DEF Put, TypeActors, Loop
      <3>4. loop.at = "valid" => loop'.at = "count" /\ loop'.sample = loop.sample
        BY <2>0, <2>3, <3>3 DEF Put, TypeActors, Loop, After
      <3>5. loop.at # "valid" => loop'.at \notin {"valid", "count"}
        BY <3>3 DEF After, Stores
      <3>6. CASE loop.at = "count"
        <4>1. puts'["coarse"][1] = loop.sample /\ puts'["coarse"][2] = puts["coarse"][1]
          BY <3>2, <3>6 DEF PutNext
        <4>2. OneSamplePerSecond'
          BY <2>b, <3>6, <4>1 DEF OneSamplePerSecond, Passed
        <4> QED
          BY <2>b, <3>1, <3>5, <3>6, <4>1, <4>2 DEF Passed
      <3>7. CASE loop.at # "count"
        <4>1. puts'["coarse"] = puts["coarse"]
          BY <3>2, <3>7 DEF PutNext
        <4>2. OneSamplePerSecond'
          BY <4>1 DEF OneSamplePerSecond
        <4> QED
          BY <2>b, <3>1, <3>4, <3>5, <4>1, <4>2 DEF Passed
      <3> QED
        BY <3>6, <3>7
    <2>4. CASE ThreadStep \/ NtpdStep
      <3>1. now' = now /\ unread' = unread /\ loop' = loop
        BY <2>4 DEF ThreadStep, Detect, ReadReceive, ReadClock, PutPulse,
                    NtpdStep, Poll, ReadsCount, ReadsValues, ReadsCountAgain, ClearsValid
      <3>2. puts'["coarse"] = puts["coarse"]
        <4>1. puts' = puts \/ puts' = Noted("pulse", thread.at, thread.sample)
          BY <2>4 DEF ThreadStep, Detect, ReadReceive, ReadClock, PutPulse,
                      NtpdStep, Poll, ReadsCount, ReadsValues, ReadsCountAgain, ClearsValid
        <4>2. "coarse" \in Units /\ "pulse" \in Units
          BY DEF Units
        <4> QED
          BY <2>0, <4>1, <4>2, NotedAt
      <3> QED
        BY <3>1, <3>2 DEF OneSamplePerSecond, Passed
    <2>5. CASE UNCHANGED vars
      BY <2>5 DEF vars, OneSamplePerSecond, Passed
    <2> QED
      BY <2>1, <2>2, <2>3, <2>4, <2>5 DEF Next, LoopStep
  <1> QED
    BY <1>1, <1>2, SampleInvariance, PTL DEF Spec

\* One sample of a second is put, in the order of the seconds.
THEOREM EachSecondOnce == Spec => []OneSamplePerSecond
  BY PassedInvariance, PTL

-----------------------------------------------------------------------------
(* The pulses *)

\* The line at time t.
LineAt(t) ==
    LET Ago(times) == {d \in 0..19 : (t + 20 - d) % 20 \in times}
    IN  IF \E up \in Ago(Rises[shape]) : \A down \in Ago(Falls[shape]) : up < down THEN 1 ELSE 0

LEMMA LineNow == Line = LineAt(now) /\ (shape' = shape => Line' = LineAt(now'))
  BY DEF Line, LineAt

\* The shapes one by one: when the edges are, and how the line is between them.
LEMMA Pulses ==
    ASSUME shape \in Shapes, NEW t \in Nat
    PROVE  /\ shape = "short" => /\ IsEdge(t) <=> t % 10 \in {0, 1}
                                 /\ LineAt(t) = IF t % 10 = 0 THEN 1 ELSE 0
           /\ shape = "inverted" => /\ IsEdge(t) <=> t % 10 \in {0, 1}
                                    /\ LineAt(t) = IF t % 10 = 0 THEN 0 ELSE 1
           /\ shape = "square" => /\ IsEdge(t) <=> t % 10 \in {0, 5}
                                  /\ LineAt(t) = IF t % 10 < 5 THEN 1 ELSE 0
           /\ shape = "half" => /\ IsEdge(t) <=> t % 10 = 0
                                /\ LineAt(t) = IF t % 20 < 10 THEN 1 ELSE 0
           /\ shape = "hidden" => (IsEdge(t) <=> t % 10 = 0) /\ LineAt(t) = 0
  <1> DEFINE m == t % 20
             Since(r) == IF r <= m THEN m - r ELSE m - r + 20
             Back(d) == (t + 20 - d) % 20
             Ago(times) == {d \in 0..19 : Back(d) \in times}
  <1>1. /\ m \in 0..19
        /\ t % 10 = IF m < 10 THEN m ELSE m - 10
    OBVIOUS
  <1>a. \A d \in 0..19 : Back(d) = IF d <= m THEN m - d ELSE m - d + 20
    OBVIOUS
  <1>6. /\ IsEdge(t) <=> m \in Rises[shape] \cup Falls[shape] \cup Unseen
        /\ LineAt(t) = IF \E up \in Ago(Rises[shape]) : \A down \in Ago(Falls[shape]) : up < down
                       THEN 1 ELSE 0
    BY DEF IsEdge, LineAt
  <1> HIDE DEF m, Back
  <1>2. \A r \in 0..19 : Since(r) \in 0..19
    BY <1>1
  <1>3. \A r, d \in 0..19 : Back(d) = r <=> d = Since(r)
    BY <1>1, <1>a
  <1>b. \A r, q \in 0..19 : Since(r) < Since(q) <=> (r <= m /\ (q < r \/ q > m)) \/ (r > m /\ q < r /\ q > m)
    BY <1>1
  <1> HIDE DEF Since
  <1>4. Ago({}) = {} /\ Ago({0}) = {Since(0)} /\ Ago({10}) = {Since(10)}
    BY <1>2, <1>3
  <1>5. /\ Ago({0, 10}) = {Since(0), Since(10)} /\ Ago({1, 11}) = {Since(1), Since(11)}
        /\ Ago({5, 15}) = {Since(5), Since(15)}
    BY <1>2, <1>3
  <1> HIDE DEF Ago
  <1>7. CASE shape = "short"
    <2>1. Rises[shape] = {0, 10} /\ Falls[shape] = {1, 11} /\ Unseen = {}
      BY <1>7 DEF Rises, Falls, Unseen
    <2>2. IsEdge(t) <=> m \in {0, 10} \cup {1, 11} \cup {}
      BY <1>6, <2>1
    <2>3. LineAt(t) = IF \E up \in Ago({0, 10}) : \A down \in Ago({1, 11}) : up < down THEN 1 ELSE 0
      BY <1>6, <2>1
    <2>4. (\E up \in Ago({0, 10}) : \A down \in Ago({1, 11}) : up < down) <=> m \in {0, 10}
      BY <1>1, <1>b, <1>4, <1>5
    <2> QED
      BY <1>1, <1>7, <2>2, <2>3, <2>4
  <1>8. CASE shape = "inverted"
    <2>1. Rises[shape] = {1, 11} /\ Falls[shape] = {0, 10} /\ Unseen = {}
      BY <1>8 DEF Rises, Falls, Unseen
    <2>2. IsEdge(t) <=> m \in {1, 11} \cup {0, 10} \cup {}
      BY <1>6, <2>1
    <2>3. LineAt(t) = IF \E up \in Ago({1, 11}) : \A down \in Ago({0, 10}) : up < down THEN 1 ELSE 0
      BY <1>6, <2>1
    <2>4. (\E up \in Ago({1, 11}) : \A down \in Ago({0, 10}) : up < down) <=> m \notin {0, 10}
      BY <1>1, <1>b, <1>4, <1>5
    <2> QED
      BY <1>1, <1>8, <2>2, <2>3, <2>4
  <1>9. CASE shape = "square"
    <2>1. Rises[shape] = {0, 10} /\ Falls[shape] = {5, 15} /\ Unseen = {}
      BY <1>9 DEF Rises, Falls, Unseen
    <2>2. IsEdge(t) <=> m \in {0, 10} \cup {5, 15} \cup {}
      BY <1>6, <2>1
    <2>3. LineAt(t) = IF \E up \in Ago({0, 10}) : \A down \in Ago({5, 15}) : up < down THEN 1 ELSE 0
      BY <1>6, <2>1
    <2>4. (\E up \in Ago({0, 10}) : \A down \in Ago({5, 15}) : up < down) <=> m \in 0..4 \cup 10..14
      BY <1>1, <1>b, <1>4, <1>5
    <2> QED
      BY <1>1, <1>9, <2>2, <2>3, <2>4
  <1>10. CASE shape = "half"
    <2>1. Rises[shape] = {0} /\ Falls[shape] = {10} /\ Unseen = {}
      BY <1>10 DEF Rises, Falls, Unseen
    <2>2. IsEdge(t) <=> m \in {0} \cup {10} \cup {}
      BY <1>6, <2>1
    <2>3. LineAt(t) = IF \E up \in Ago({0}) : \A down \in Ago({10}) : up < down THEN 1 ELSE 0
      BY <1>6, <2>1
    <2>4. (\E up \in Ago({0}) : \A down \in Ago({10}) : up < down) <=> m < 10
      BY <1>1, <1>b, <1>4, <1>5
    <2> QED
      BY <1>1, <1>10, <2>2, <2>3, <2>4 DEF m
  <1>11. CASE shape = "hidden"
    <2>1. Rises[shape] = {} /\ Falls[shape] = {} /\ Unseen = {0, 10}
      BY <1>11 DEF Rises, Falls, Unseen
    <2>2. IsEdge(t) <=> m \in {} \cup {} \cup {0, 10}
      BY <1>6, <2>1
    <2>3. LineAt(t) = IF \E up \in Ago({}) : \A down \in Ago({}) : up < down THEN 1 ELSE 0
      BY <1>6, <2>1
    <2>4. (\E up \in Ago({}) : \A down \in Ago({}) : up < down) <=> FALSE
      BY <1>1, <1>b, <1>4, <1>5
    <2> QED
      BY <1>1, <1>11, <2>2, <2>3, <2>4
  <1> QED
    <2>1. shape \in {"short", "inverted", "square", "half", "hidden"}
      BY NtpSampleAssumption
    <2> QED
      BY <1>7, <1>8, <1>9, <1>10, <1>11, <2>1 DEF m

\* Until the next edge the line stays as it is.
LEMMA LineStays ==
    ASSUME shape \in Shapes, NEW t \in Nat, NEW u \in Nat, t <= u,
           \A x \in (t + 1)..u : ~IsEdge(x)
    PROVE  LineAt(u) = LineAt(t)
  <1> DEFINE q == t \div 10
             r == t % 10
             second == 10 * q + 10
             half == 10 * q + 5
  <1>a. q \in Nat /\ r \in 0..9 /\ t = 10 * q + r /\ t % 10 = r
    OBVIOUS
  <1> HIDE DEF q, r
  <1>b. second % 10 = 0 /\ half % 10 = 5 /\ (10 * q + 1) % 10 = 1
    BY <1>a
  <1>1. /\ second \in Nat /\ t < second /\ second % 10 = 0 /\ second <= t + 10
        /\ half \in Nat /\ half % 10 = 5 /\ half = second - 5
        /\ t % 10 = t - (second - 10)
        /\ t + 1 \in Nat /\ (t % 10 = 0 => (t + 1) % 10 = 1)
    BY <1>a, <1>b
  <1> HIDE DEF second, half
  <1>2. ASSUME NEW x \in Nat, t < x, IsEdge(x) PROVE u < x
    BY <1>2
  <1>3. /\ IsEdge(second) => u < second
        /\ IsEdge(half) /\ t < half => u < half
        /\ IsEdge(t + 1) => u < t + 1
    BY <1>1, <1>2
  <1>4. shape \in {"short", "inverted", "square", "half", "hidden"}
    BY NtpSampleAssumption
  <1>5. IsEdge(second)
    BY <1>1, <1>4, Pulses
  <1>6. /\ u < second /\ u % 10 = u - (second - 10)
        /\ t % 20 < 10 <=> u % 20 < 10
    BY <1>1, <1>3, <1>5
  <1>8. CASE shape \in {"short", "inverted"}
    <2>1. t % 10 = 0 => u = t
      BY <1>1, <1>3, <1>8, Pulses
    <2>2. t % 10 = 0 <=> u % 10 = 0
      BY <1>1, <1>6, <2>1
    <2> QED
      BY <1>8, <2>2, Pulses
  <1>9. CASE shape = "square"
    <2>1. t < half => u < half
      BY <1>1, <1>3, <1>9, Pulses
    <2>2. t % 10 < 5 <=> u % 10 < 5
      BY <1>1, <1>6, <2>1
    <2> QED
      BY <1>9, <2>2, Pulses
  <1>10. CASE shape \in {"half", "hidden"}
    BY <1>6, <1>10, Pulses
  <1> QED
    BY <1>4, <1>8, <1>9, <1>10

\* An edge within a second ends a pulse that began with the edge before: it turns the
\* line, a tenth after that edge or, when it goes down, half a second.
LEMMA WithinSecond ==
    ASSUME shape \in Shapes, NEW e \in Nat, NEW t \in Nat, NEW x \in Nat, e > 10,
           IsEdge(e), e <= t, t < x, IsEdge(x), x % Second # 0,
           \A y \in (e + 1)..(x - 1) : ~IsEdge(y)
    PROVE  /\ LineAt(x) = 1 - LineAt(t)
           /\ e = x - 1 \/ (e = x - 5 /\ LineAt(x) = 0)
  <1>1. shape \in {"short", "inverted", "square", "half", "hidden"} /\ x > 10
    BY NtpSampleAssumption
  <1>2. ASSUME NEW y \in Nat, e < y, y < x PROVE ~IsEdge(y)
    BY <1>2
  <1>3. CASE shape \in {"short", "inverted"}
    <2>1. x % 10 = 1 /\ (x - 1) % 10 = 0 /\ x - 1 \in Nat
      BY <1>1, <1>3, Pulses DEF Second
    <2>2. IsEdge(x - 1)
      BY <1>3, <2>1, Pulses
    <2>3. e = x - 1 /\ t = x - 1
      BY <1>2, <2>1, <2>2
    <2> QED
      BY <1>3, <2>1, <2>3, Pulses
  <1>4. CASE shape = "square"
    <2>1. x % 10 = 5 /\ (x - 5) % 10 = 0 /\ x - 5 \in Nat
      BY <1>1, <1>4, Pulses DEF Second
    <2>2. IsEdge(x - 5)
      BY <1>4, <2>1, Pulses
    <2>3. e >= x - 5
      BY <1>2, <2>1, <2>2
    <2>4. e % 10 \in {0, 5}
      BY <1>4, Pulses
    <2>5. e = x - 5
      BY <2>1, <2>3, <2>4
    <2>6. t % 10 < 5
      BY <2>1, <2>5
    <2> QED
      BY <1>4, <2>1, <2>5, <2>6, Pulses
  <1>5. CASE shape \in {"half", "hidden"}
    BY <1>5, Pulses DEF Second
  <1> QED
    BY <1>1, <1>3, <1>4, <1>5

-----------------------------------------------------------------------------
(* The label of a pulse *)

\* The sample whose clock is in the segment of the main loop.
Shown == IF loop.at = "clock" THEN puts["coarse"][2] ELSE puts["coarse"][1]

\* The main loop reads its reports one after another, none after now.  What it shows
\* was read in the second of the fix unless that is noted, and, as long as it has not
\* overtaken the thread, before the edge the thread judges.
MessageInv ==
    /\ puts["coarse"][2].receive <= puts["coarse"][1].receive
    /\ puts["coarse"][1].receive <= now
    /\ loop.at \in Stores =>
          puts["coarse"][1].receive <= loop.sample.receive /\ loop.sample.receive <= now
    /\ ~late => InTime(Shown)
    /\ thread.at \in Judging /\ ~thread.overtaken => Shown.receive < thread.edge

\* The last edge at time n.
LastEdge(edge, n) == IsEdge(edge) /\ \A x \in (edge + 1)..n : ~IsEdge(x)

\* At time n, the last edge ended a pulse that a thread in state th saw begin.
Trailing(n, th) ==
    /\ th.state = 1 - LineAt(n)
    /\ \/ th.pulse[1 - LineAt(n)] = th.edge - 1
       \/ th.pulse[1 - LineAt(n)] = th.edge - 5 /\ LineAt(n) = 0

\* What the thread knows of the line if it waited for the last edge, or the last two.
EdgeView(n, th, known) ==
    /\ th.edge <= n
    /\ th.at # "waiting" \/ known > 0 => th.edge > 20
    /\ known > 0 => LastEdge(th.edge, n)
    /\ known > 0 /\ th.at # "awake" => th.state = LineAt(n) /\ th.pulse[LineAt(n)] = th.edge
    /\ known = Settled /\ th.at = "awake" /\ th.edge % Second # 0 => Trailing(n, th)
    /\ known = Settled /\ th.at \in Stores \cup {"read receive", "read clock"} =>
          th.edge % Second = 0

EdgeInv == EdgeView(now, thread, seen)

\* The clock that the thread is about to read is of the second before the edge.
LabelInv ==
    seen = Settled /\ ~thread.overtaken /\ ~late /\ thread.at = "read clock" =>
        segment["coarse"].clock \div Second + 1 = thread.edge \div Second

\* What a step does to the thread, the line and the history of its edges.
LEMMA TickFacts ==
    ASSUME TypeOK, Tick
    PROVE  /\ now' \in Nat /\ now' > now /\ now' > 20 /\ shape' = shape
           /\ \A u \in (now + 1)..(now' - 1) : ~IsEdge(u)
           /\ IsEdge(now') \/ IsReport(now')
           /\ ~IsEdge(now') => UNCHANGED <<thread, seen>>
           /\ IsEdge(now') /\ thread.at # "waiting" => seen' = 0 /\ UNCHANGED thread
           /\ IsEdge(now') /\ thread.at = "waiting" =>
                 /\ thread' = [thread EXCEPT !.at = "awake", !.edge = now', !.overtaken = FALSE]
                 /\ seen' = Settled => seen > 0
                 /\ seen' # 0
           /\ UNCHANGED <<segment, puts, late, loop, ntpd>>
  <1>1. TypeNow
    BY TypeParts
  <1>2. now' = NextTime
    BY DEF Tick
  <1>3. /\ NextTime \in Nat /\ NextTime > now
        /\ IsEdge(NextTime) \/ IsReport(NextTime)
        /\ \A u \in (now + 1)..(NextTime - 1) : ~IsEdge(u)
    BY <1>1, TimeGoesOn DEF TypeNow
  <1>4. IsEdge(now') /\ thread.at = "waiting" =>
            (seen' = Settled => seen > 0) /\ seen' # 0
    BY <1>1, <1>2 DEF Tick, TypeNow, Settled
  <1>5. /\ ~IsEdge(now') => UNCHANGED <<thread, seen>>
        /\ IsEdge(now') /\ thread.at # "waiting" => seen' = 0 /\ UNCHANGED thread
        /\ IsEdge(now') /\ thread.at = "waiting" =>
              thread' = [thread EXCEPT !.at = "awake", !.edge = now', !.overtaken = FALSE]
        /\ UNCHANGED <<shape, segment, puts, late, loop, ntpd>>
    BY <1>2 DEF Tick
  <1>6. now' \in Nat /\ now' > now /\ now' > 20
    BY <1>1, <1>2, <1>3, NtpSampleAssumption DEF TypeNow
  <1> QED
    BY <1>2, <1>3, <1>4, <1>5, <1>6

LEMMA EdgeViewNext ==
    ASSUME shape' = shape, EdgeView(now', thread', seen')
    PROVE  EdgeInv'
  <1>1. /\ \A x : IsEdge(x)' <=> IsEdge(x)
        /\ \A n : LineAt(n)' = LineAt(n)
    BY DEF IsEdge, Unseen, LineAt
  <1> QED
    BY <1>1 DEF EdgeInv, EdgeView, LastEdge, Trailing, IsEdge, Unseen, LineAt

\* As long as there is no edge the thread keeps what it knows.
LEMMA EdgeViewStays ==
    ASSUME NEW n, NEW m, NEW th, NEW th2, NEW known,
           EdgeView(n, th, known),
           th.edge <= m, LineAt(m) = LineAt(n), LastEdge(th.edge, n) => LastEdge(th.edge, m),
           th2.edge = th.edge, th2.state = th.state, th2.pulse = th.pulse,
           \/ th2.at = th.at
           \/ /\ th.at \in Stores \cup {"read receive", "read clock"}
              /\ th2.at \in Stores \cup {"read clock", "waiting"}
    PROVE  EdgeView(m, th2, known)
  <1>1. /\ th2.at # "waiting" => th.at # "waiting"
        /\ th2.at # "awake" => th.at # "awake"
        /\ th2.at = "awake" => th.at = "awake"
        /\ th2.at \in Stores \cup {"read receive", "read clock"}
              => th.at \in Stores \cup {"read receive", "read clock"}
    BY DEF Stores
  <1>2. Trailing(n, th) => Trailing(m, th2)
    BY DEF Trailing
  <1>3. /\ th2.edge <= m
        /\ th2.at # "waiting" \/ known > 0 => th2.edge > 20
        /\ known > 0 => LastEdge(th2.edge, m)
    BY <1>1 DEF EdgeView
  <1>4. known > 0 /\ th2.at # "awake" => th2.state = LineAt(m) /\ th2.pulse[LineAt(m)] = th2.edge
    BY <1>1 DEF EdgeView
  <1>5. /\ known = Settled /\ th2.at = "awake" /\ th2.edge % Second # 0 => Trailing(m, th2)
        /\ known = Settled /\ th2.at \in Stores \cup {"read receive", "read clock"} =>
              th2.edge % Second = 0
    BY <1>1, <1>2 DEF EdgeView
  <1> QED
    BY <1>3, <1>4, <1>5 DEF EdgeView

LEMMA TickKeepsEdges ==
    ASSUME TypeOK, EdgeInv, Tick
    PROVE  EdgeInv'
  <1>1. /\ now \in Nat /\ seen \in 0..Settled /\ shape \in Shapes /\ thread \in Thread
    BY TypeParts DEF TypeNow, TypeActors
  <1>2. EdgeView(now, thread, seen)
    BY DEF EdgeInv
  <1>3. /\ thread.edge \in Nat /\ thread.edge <= now
        /\ thread.at # "waiting" \/ seen > 0 => thread.edge > 20
    BY <1>1, <1>2 DEF EdgeView, Thread
  <1>4. CASE ~IsEdge(now')
    <2>1. \A x \in (now + 1)..now' : ~IsEdge(x)
      BY <1>1, <1>4, TickFacts
    <2>2. LineAt(now') = LineAt(now)
      BY <1>1, <2>1, LineStays, TickFacts
    <2>3. LastEdge(thread.edge, now) => LastEdge(thread.edge, now')
      BY <1>1, <1>3, <2>1, TickFacts DEF LastEdge
    <2>4. EdgeView(now', thread, seen)
      <3>1. thread.edge <= now'
        BY <1>1, <1>3, TickFacts
      <3> QED
        BY <1>2, <2>2, <2>3, <3>1, EdgeViewStays
    <2> QED
      BY <1>4, <2>4, EdgeViewNext, TickFacts
  <1>5. CASE IsEdge(now') /\ thread.at # "waiting"
    <2>1. thread.edge <= now'
      BY <1>1, <1>3, TickFacts
    <2>2. EdgeView(now', thread, 0)
      BY <1>3, <1>5, <2>1 DEF EdgeView, Settled
    <2> QED
      BY <1>5, <2>2, EdgeViewNext, TickFacts
  <1>6. CASE IsEdge(now') /\ thread.at = "waiting"
    <2>1. /\ thread' = [thread EXCEPT !.at = "awake", !.edge = now', !.overtaken = FALSE]
          /\ seen' = Settled => seen > 0
      BY <1>6, TickFacts
    <2>2. /\ thread'.at = "awake" /\ thread'.edge = now'
          /\ thread'.state = thread.state /\ thread'.pulse = thread.pulse
      BY <1>1, <2>1 DEF Thread
    <2>3. LastEdge(now', now')
      BY <1>6, TickFacts DEF LastEdge
    <2>4. ASSUME seen' = Settled, now' % Second # 0 PROVE Trailing(now', thread')
      <3>1. LastEdge(thread.edge, now) /\ thread.edge > 20
            /\ thread.state = LineAt(now) /\ thread.pulse[LineAt(now)] = thread.edge
        BY <1>2, <1>6, <2>1, <2>4 DEF EdgeView
      <3>2. \A y \in (thread.edge + 1)..(now' - 1) : ~IsEdge(y)
        BY <1>1, <1>3, <3>1, TickFacts DEF LastEdge
      <3>3. IsEdge(thread.edge)
        BY <3>1 DEF LastEdge
      <3>4. /\ LineAt(now') = 1 - LineAt(now)
            /\ thread.edge = now' - 1 \/ (thread.edge = now' - 5 /\ LineAt(now') = 0)
        BY <1>1, <1>3, <1>6, <2>4, <3>1, <3>2, <3>3, WithinSecond, TickFacts
      <3>5. LineAt(now) = 1 - LineAt(now')
        BY <3>4, LineNow, LineIsBit
      <3> QED
        BY <2>2, <3>1, <3>4, <3>5 DEF Trailing
    <2>5. EdgeView(now', thread', seen')
      BY <2>2, <2>3, <2>4, TickFacts DEF EdgeView, Stores
    <2> QED
      BY <2>5, EdgeViewNext, TickFacts
  <1> QED
    BY <1>4, <1>5, <1>6

\* An edge that the thread saw end a pulse does not start a second.
LEMMA DetectKeepsEdges ==
    ASSUME TypeOK, EdgeInv, Detect
    PROVE  EdgeInv'
  <1>1. thread \in Thread /\ seen \in 0..Settled /\ UNCHANGED <<now, shape, seen>>
    BY TypeParts DEF TypeNow, TypeActors, Detect
  <1>2. EdgeView(now, thread, seen) /\ Line = LineAt(now) /\ Line \in 0..1
    BY LineNow, LineIsBit DEF EdgeInv
  <1>3. /\ thread.at = "awake" /\ thread'.at \in {"read receive", "waiting"}
        /\ thread'.edge = thread.edge /\ thread'.state = Line /\ thread'.pulse[Line] = thread.edge
    BY <1>1, <1>2 DEF Detect, Thread
  <1>4. ASSUME seen = Settled, thread'.at = "read receive" PROVE thread.edge % Second = 0
    <2>1. SUFFICES ASSUME thread.edge % Second # 0 PROVE FALSE
      OBVIOUS
    <2>2. /\ thread.state = 1 - Line
          /\ \/ thread.pulse[1 - Line] = thread.edge - 1
             \/ thread.pulse[1 - Line] = thread.edge - 5 /\ Line = 0
      BY <1>2, <1>3, <1>4, <2>1 DEF EdgeView, Trailing
    <2> DEFINE cycle == thread.edge - thread.pulse[Line]
               duration == thread.edge - thread.pulse[1 - Line]
    <2>3. thread.state # Line
      BY <1>2, <2>2
    <2>4. StartsSecond(cycle, duration, Line)
      BY <1>1, <1>4, <2>3 DEF Detect, Thread
    <2>5. duration = 1 \/ (duration = 5 /\ Line = 0)
      BY <1>1, <2>2 DEF Thread
    <2> HIDE DEF cycle, duration
    <2> QED
      BY <2>4, <2>5 DEF StartsSecond
  <1>5. EdgeView(now', thread', seen')
    BY <1>1, <1>2, <1>3, <1>4 DEF EdgeView, Stores
  <1> QED
    BY <1>1, <1>5, EdgeViewNext

LEMMA EdgeKeeps == TypeOK /\ EdgeInv /\ [Next]_vars => EdgeInv'
  <1> SUFFICES ASSUME TypeOK, EdgeInv, [Next]_vars PROVE EdgeInv'
    OBVIOUS
  <1>0. thread \in Thread /\ EdgeView(now, thread, seen) /\ thread.edge <= now
    BY TypeParts DEF TypeActors, EdgeInv, EdgeView
  <1>1. CASE ReadReceive \/ ReadClock \/ PutPulse
    <2>1. UNCHANGED <<now, shape, seen>>
      BY <1>1 DEF ReadReceive, ReadClock, PutPulse
    <2>2. /\ thread'.edge = thread.edge /\ thread'.state = thread.state
          /\ thread'.pulse = thread.pulse
      BY <1>0, <1>1 DEF ReadReceive, ReadClock, PutPulse, Thread
    <2>3. /\ thread.at \in Stores \cup {"read receive", "read clock"}
          /\ thread'.at \in Stores \cup {"read clock", "waiting"}
      <3>1. CASE ReadReceive \/ ReadClock
        BY <1>0, <3>1 DEF ReadReceive, ReadClock, Thread, Stores
      <3>2. CASE PutPulse
        BY <1>0, <3>2, AfterTyped DEF PutPulse, Thread
      <3> QED
        BY <1>1, <3>1, <3>2
    <2>4. EdgeView(now, thread', seen)
      BY <1>0, <2>2, <2>3, EdgeViewStays
    <2> QED
      BY <2>1, <2>4, EdgeViewNext
  <1>2. CASE LoopStep \/ NtpdStep \/ UNCHANGED vars
    <2>1. UNCHANGED <<now, shape, seen>>
      BY <1>2 DEF LoopStep, Report, Put, NtpdStep, Poll, ReadsCount, ReadsValues, ReadsCountAgain,
                  ClearsValid, vars
    <2>2. /\ thread'.edge = thread.edge /\ thread'.state = thread.state
          /\ thread'.pulse = thread.pulse /\ thread'.at = thread.at
      BY <1>0, <1>2 DEF LoopStep, Report, Put, NtpdStep, Poll, ReadsCount, ReadsValues,
                        ReadsCountAgain, ClearsValid, vars, Thread
    <2>3. EdgeView(now, thread', seen)
      BY <1>0, <2>2, EdgeViewStays
    <2> QED
      BY <2>1, <2>3, EdgeViewNext
  <1> QED
    BY <1>1, <1>2, TickKeepsEdges, DetectKeepsEdges DEF Next, ThreadStep

LEMMA MessageKeeps == TypeOK /\ SampleInv /\ MessageInv /\ [Next]_vars => MessageInv'
  <1> SUFFICES ASSUME TypeOK, SampleInv, MessageInv, [Next]_vars PROVE MessageInv'
    OBVIOUS
  <1>0. TypeNow /\ TypeShared /\ TypeActors
    BY TypeParts
  <1>1. /\ now \in Nat /\ loop \in Loop /\ thread \in Thread
        /\ puts["coarse"] \in Samples \X Samples
    BY <1>0 DEF TypeNow, TypeShared, TypeActors, Units
  <1>2. /\ thread.edge \in Nat /\ loop.sample \in Samples /\ loop.sample.receive \in Nat
        /\ puts["coarse"][1].receive \in Nat /\ puts["coarse"][2].receive \in Nat
        /\ Shown.receive \in Nat
    BY <1>1 DEF Thread, Loop, Samples, Shown
  <1>3. CASE Tick
    <2>1. UNCHANGED <<puts, late, loop>> /\ now' \in Nat /\ now < now'
      BY <1>3, TickFacts
    <2>2. thread' = thread \/ thread'.edge = now'
      BY <1>1, <1>3, TickFacts DEF Thread
    <2>3. Shown' = Shown /\ Shown.receive <= now
      BY <1>1, <1>2, <2>1 DEF Shown, MessageInv
    <2>4. (~late => InTime(Shown))'
      BY <2>1, <2>3 DEF MessageInv, InTime
    <2> QED
      BY <1>1, <1>2, <2>1, <2>2, <2>3, <2>4 DEF MessageInv
  <1>4. CASE Report
    <2>1. /\ UNCHANGED <<now, puts, late, thread>> /\ loop.at = "done"
          /\ loop'.at \in {"valid", "done"}
          /\ loop'.at = "valid" => loop'.sample.receive = now
      BY <1>1, <1>4 DEF Report, Sample
    <2>2. Shown' = Shown
      BY <2>1 DEF Shown
    <2>3. (~late => InTime(Shown))'
      BY <2>1, <2>2 DEF MessageInv, InTime
    <2> QED
      BY <1>1, <1>2, <2>1, <2>2, <2>3 DEF MessageInv, Stores
  <1>5. CASE Put
    <2>1. /\ now' = now /\ loop.at \in Stores /\ loop'.at = After[loop.at]
          /\ late' = IF loop.at = "clock" THEN ~InTime(loop.sample) ELSE late
          /\ thread'.at = thread.at /\ thread'.edge = thread.edge
          /\ loop.at = "clock" /\ thread.at \in Judging => thread'.overtaken
          /\ loop.at # "clock" => thread' = thread
      BY <1>1, <1>5 DEF Put, Thread, Loop
    <2>2. puts'["coarse"] = PutNext(puts["coarse"], loop.at, loop.sample)
      <3>1. puts' = Noted("coarse", loop.at, loop.sample) /\ "coarse" \in Units
        BY <1>5 DEF Put, Units
      <3> QED
        BY <1>0, <3>1, NotedAt
    <2>3. loop'.at \in Stores => loop'.sample = loop.sample
      BY <1>1, <1>5 DEF Put, Loop, After, Stores
    <2>4. CASE loop.at = "count"
      <3>1. loop'.at = "clock" /\ puts'["coarse"] = <<loop.sample, puts["coarse"][1]>>
        BY <2>1, <2>2, <2>4 DEF After, PutNext
      <3>2. Shown' = Shown /\ late' = late /\ thread' = thread
        BY <2>1, <2>4, <3>1 DEF Shown
      <3>3. (~late => InTime(Shown))'
        BY <3>2 DEF MessageInv, InTime
      <3> QED
        BY <1>1, <1>2, <2>1, <2>3, <3>1, <3>2, <3>3 DEF MessageInv, Stores
    <2>5. CASE loop.at = "clock"
      <3>1. loop'.at = "receive" /\ puts'["coarse"] = puts["coarse"] /\ loop.sample = puts["coarse"][1]
        BY <2>1, <2>2, <2>5 DEF After, PutNext, SampleInv, Writer, Busy
      <3>2. Shown' = loop.sample /\ late' = ~InTime(loop.sample)
        BY <2>1, <2>5, <3>1 DEF Shown
      <3>3. (~late => InTime(Shown))'
        BY <3>2 DEF InTime
      <3> QED
        BY <1>1, <1>2, <2>1, <2>3, <2>5, <3>1, <3>3 DEF MessageInv
    <2>6. CASE loop.at \notin {"count", "clock"}
      <3>1. loop'.at # "clock" /\ puts'["coarse"] = puts["coarse"]
        BY <2>1, <2>2, <2>6 DEF After, Stores, PutNext
      <3>2. Shown' = Shown /\ late' = late /\ thread' = thread
        BY <2>1, <2>6, <3>1 DEF Shown
      <3>3. (~late => InTime(Shown))'
        BY <3>2 DEF MessageInv, InTime
      <3> QED
        BY <1>1, <1>2, <2>1, <2>3, <3>1, <3>2, <3>3 DEF MessageInv
    <2> QED
      BY <2>4, <2>5, <2>6
  <1>6. CASE ThreadStep \/ NtpdStep \/ UNCHANGED vars
    <2>1. /\ UNCHANGED <<now, late, loop>>
          /\ thread'.edge = thread.edge /\ thread'.overtaken = thread.overtaken
          /\ thread'.at \in Judging => thread.at \in Judging
      <3>1. CASE Detect \/ ReadReceive \/ ReadClock
        BY <1>1, <3>1 DEF Detect, ReadReceive, ReadClock, Thread, Judging
      <3>2. CASE PutPulse
        <4>1. thread'.at \in Stores \cup {"waiting"}
          BY <1>1, <3>2, AfterTyped DEF PutPulse, Thread
        <4> QED
          BY <1>1, <3>2, <4>1 DEF PutPulse, Thread, Judging, Stores
      <3>3. CASE NtpdStep \/ UNCHANGED vars
        BY <3>3 DEF NtpdStep, Poll, ReadsCount, ReadsValues, ReadsCountAgain, ClearsValid, vars
      <3> QED
        BY <1>6, <3>1, <3>2, <3>3 DEF ThreadStep
    <2>2. puts'["coarse"] = puts["coarse"]
      BY <1>0, <1>6 DEF ThreadStep, Detect, ReadReceive, ReadClock, PutPulse, Noted, TypeShared, Units,
         NtpdStep, Poll, ReadsCount, ReadsValues, ReadsCountAgain, ClearsValid, vars
    <2>3. Shown' = Shown
      BY <2>1, <2>2 DEF Shown
    <2>4. (~late => InTime(Shown))'
      BY <2>1, <2>3 DEF MessageInv, InTime
    <2> QED
      BY <2>1, <2>2, <2>3, <2>4 DEF MessageInv
  <1> QED
    BY <1>3, <1>4, <1>5, <1>6 DEF Next, LoopStep

\* A message of the last second that was read in the second of its fix tells the
\* second before the edge.
LEMMA RecentClock ==
    ASSUME NEW sample \in Samples, NEW edge \in Nat, NEW receive \in Nat,
           InTime(sample), edge % Second = 0, edge - receive \in 0..Second,
           sample.receive < edge, receive = sample.receive \/ receive <= sample.receive
    PROVE  sample.clock \div Second + 1 = edge \div Second
  <1> DEFINE q == sample.receive \div 10
             e == edge \div 10
  <1>1. sample.receive \in Nat /\ sample.clock \div Second = q
    BY DEF InTime, Samples, Second
  <1>a. edge - sample.receive <= Second
    BY <1>1 DEF Second
  <1>2. /\ q \in Nat /\ e \in Nat /\ edge = 10 * e
        /\ 10 * q <= sample.receive /\ sample.receive <= 10 * q + 9
    BY <1>1 DEF Second
  <1> HIDE DEF q, e
  <1>3. q + 1 = e
    BY <1>1, <1>2, <1>a DEF Second
  <1> QED
    BY <1>1, <1>3 DEF e, Second

LEMMA ReadReceiveFinds ==
    ASSUME TypeOK, SampleInv, MessageInv, EdgeInv, ReadReceive,
           thread'.at = "read clock", seen = Settled, ~thread.overtaken, ~late
    PROVE  segment["coarse"].clock \div Second + 1 = thread.edge \div Second
  <1>1. /\ puts["coarse"] \in Samples \X Samples /\ segment["coarse"] \in Shm
        /\ thread \in Thread
    BY TypeParts DEF TypeShared, TypeActors, Units
  <1>2. /\ segment["coarse"].receive \in Nat /\ thread.edge \in Nat
        /\ puts["coarse"][1].receive \in Nat /\ puts["coarse"][2].receive \in Nat
    BY <1>1 DEF Shm, Thread, Samples
  <1>3. thread.at = "read receive" /\ Current(segment["coarse"].receive)
    BY <1>1 DEF ReadReceive, Thread
  <1>4. thread.edge - segment["coarse"].receive \in 0..Second
    BY <1>3 DEF Current
  <1>5. thread.edge % Second = 0
    BY <1>3 DEF EdgeInv, EdgeView
  <1>6. PICK sample \in Samples :
            /\ sample.receive < thread.edge /\ InTime(sample)
            /\ segment["coarse"].clock = sample.clock
            /\ \/ segment["coarse"].receive = sample.receive
               \/ segment["coarse"].receive <= sample.receive
    <2>1. Shown.receive < thread.edge /\ InTime(Shown)
      BY <1>3 DEF MessageInv, Judging
    <2>2. /\ segment["coarse"].clock =
                IF loop.at = "clock" THEN puts["coarse"][2].clock ELSE puts["coarse"][1].clock
          /\ segment["coarse"].receive =
                IF loop.at \in {"clock", "receive"} THEN puts["coarse"][2].receive
                ELSE puts["coarse"][1].receive
      BY DEF SampleInv, Writer
    <2>3. puts["coarse"][2].receive <= puts["coarse"][1].receive
      BY DEF MessageInv
    <2>4. CASE loop.at = "clock"
      <3>1. Shown = puts["coarse"][2] /\ puts["coarse"][2] \in Samples
        BY <1>1, <2>4 DEF Shown
      <3>2. segment["coarse"].receive = puts["coarse"][2].receive
        BY <2>2, <2>4
      <3>3. segment["coarse"].clock = puts["coarse"][2].clock
        BY <2>2, <2>4
      <3> QED
        BY <2>1, <3>1, <3>2, <3>3
    <2>5. CASE loop.at # "clock"
      <3>1. Shown = puts["coarse"][1] /\ puts["coarse"][1] \in Samples
        BY <1>1, <2>5 DEF Shown
      <3>2. \/ segment["coarse"].receive = puts["coarse"][1].receive
            \/ segment["coarse"].receive <= puts["coarse"][1].receive
        BY <2>2, <2>3, <2>5
      <3>3. segment["coarse"].clock = puts["coarse"][1].clock
        BY <2>2, <2>5
      <3> QED
        BY <2>1, <3>1, <3>2, <3>3
    <2> QED
      BY <2>4, <2>5
  <1>7. sample.clock \div Second + 1 = thread.edge \div Second
    BY <1>2, <1>4, <1>5, <1>6, RecentClock
  <1> QED
    BY <1>6, <1>7

LEMMA LabelKeeps ==
    TypeOK /\ SampleInv /\ MessageInv /\ EdgeInv /\ LabelInv /\ [Next]_vars => LabelInv'
  <1> SUFFICES ASSUME TypeOK, SampleInv, MessageInv, EdgeInv, LabelInv, [Next]_vars
               PROVE  LabelInv'
    OBVIOUS
  <1>0. TypeNow /\ TypeShared /\ TypeActors
    BY TypeParts
  <1>1. thread \in Thread /\ loop \in Loop /\ segment["coarse"] \in Shm
    BY <1>0 DEF TypeShared, TypeActors, Units
  \* The thread is elsewhere, or does not move, and no new clock is stored.
  <1>2. ASSUME thread'.at # "read clock" PROVE LabelInv'
    BY <1>2 DEF LabelInv
  <1>3. ASSUME thread'.at = thread.at, thread'.edge = thread.edge, late' = late,
               thread'.overtaken = thread.overtaken, seen' = seen \/ seen' # Settled,
               segment'["coarse"].clock = segment["coarse"].clock
        PROVE  LabelInv'
    BY <1>3 DEF LabelInv
  <1>4. CASE Tick
    <2>1. CASE thread' = thread /\ (seen' = seen \/ seen' # Settled)
      BY <1>3, <1>4, <2>1, TickFacts
    <2>2. \/ UNCHANGED <<thread, seen>>
          \/ seen' = 0 /\ UNCHANGED thread
          \/ thread' = [thread EXCEPT !.at = "awake", !.edge = now', !.overtaken = FALSE]
      BY <1>4, TickFacts
    <2>3. CASE thread' = [thread EXCEPT !.at = "awake", !.edge = now', !.overtaken = FALSE]
      <3>1. thread'.at = "awake"
        BY <1>1, <2>3 DEF Thread
      <3> QED
        BY <1>2, <3>1
    <2> QED
      BY <2>1, <2>2, <2>3 DEF Settled
  <1>5. CASE Report
    BY <1>3, <1>5 DEF Report
  <1>6. CASE Put
    <2>1. /\ thread'.at = thread.at /\ thread'.edge = thread.edge /\ seen' = seen
          /\ thread'.overtaken = (thread.overtaken \/ (loop.at = "clock" /\ thread.at \in Judging))
      BY <1>1, <1>6 DEF Put, Thread
    <2>2. CASE loop.at = "clock"
      <3>1. thread.at = "read clock" => thread'.overtaken
        BY <2>1, <2>2 DEF Judging
      <3> QED
        BY <2>1, <3>1 DEF LabelInv
    <2>3. CASE loop.at # "clock"
      <3>1. thread'.overtaken = thread.overtaken
        BY <1>1, <2>1, <2>3 DEF Thread
      <3>2. late' = late
        BY <1>6, <2>3 DEF Put
      <3>3. segment'["coarse"].clock = segment["coarse"].clock
        BY <1>0, <1>6, <2>3 DEF Put, Stored, TypeShared, Units
      <3> QED
        BY <1>3, <2>1, <3>1, <3>2, <3>3
    <2> QED
      BY <2>2, <2>3
  <1>7. CASE Detect \/ ReadClock \/ PutPulse
    <2>1. thread'.at # "read clock"
      <3>1. CASE Detect \/ ReadClock
        BY <1>1, <3>1 DEF Detect, ReadClock, Thread
      <3>2. CASE PutPulse
        BY <1>1, <3>2, AfterTyped DEF PutPulse, Thread, Stores
      <3> QED
        BY <1>7, <3>1, <3>2
    <2> QED
      BY <1>2, <2>1
  <1>8. CASE ReadReceive
    <2>1. /\ thread'.edge = thread.edge /\ thread'.overtaken = thread.overtaken
          /\ UNCHANGED <<seen, segment, late>>
      BY <1>1, <1>8 DEF ReadReceive, Thread
    <2>2. thread'.at = "read clock" /\ seen = Settled /\ ~thread.overtaken /\ ~late =>
            segment["coarse"].clock \div Second + 1 = thread.edge \div Second
      BY <1>8, ReadReceiveFinds
    <2> QED
      BY <2>1, <2>2 DEF LabelInv
  <1>9. CASE NtpdStep
    <2>1. UNCHANGED <<seen, thread, late>>
      BY <1>9 DEF NtpdStep, Poll, ReadsCount, ReadsValues, ReadsCountAgain, ClearsValid
    <2>2. segment'["coarse"].clock = segment["coarse"].clock
      BY <1>0, <1>1, <1>9 DEF NtpdStep, Poll, ReadsCount, ReadsValues, ReadsCountAgain, ClearsValid,
         TypeShared, Shm, Units
    <2> QED
      BY <1>3, <2>1, <2>2
  <1>10. CASE UNCHANGED vars
    BY <1>3, <1>10 DEF vars
  <1> QED
    BY <1>4, <1>5, <1>6, <1>7, <1>8, <1>9, <1>10 DEF Next, LoopStep, ThreadStep

\* Every pulse that the thread reports after two edges it waited for, with no new clock
\* stored since the last of them, is reported with the second it starts, unless the
\* clock is from a report that was read when the second of its fix was over.
THEOREM PulseLabels == Spec => LabelIsRight
  <1>1. Init => MessageInv /\ EdgeInv /\ LabelInv
    <2> SUFFICES ASSUME Init PROVE MessageInv /\ EdgeInv /\ LabelInv
      OBVIOUS
    <2>1. /\ puts["coarse"] = <<Zeroed, Zeroed>> /\ loop.at = "done" /\ thread.at = "waiting"
          /\ now = Begin /\ thread.edge = 0 /\ seen = 0
      BY DEF Init, Units
    <2>2. MessageInv
      BY <2>1, NtpSampleAssumption DEF MessageInv, Shown, InTime, Zeroed, Sample, Stores, Judging
    <2>3. EdgeInv
      BY <2>1, NtpSampleAssumption DEF EdgeInv, EdgeView, Settled
    <2>4. LabelInv
      BY <2>1 DEF LabelInv
    <2> QED
      BY <2>2, <2>3, <2>4
  <1>2. TypeOK /\ SampleInv /\ MessageInv /\ EdgeInv /\ LabelInv /\ [Next]_vars
            => MessageInv' /\ EdgeInv' /\ LabelInv'
    BY MessageKeeps, EdgeKeeps, LabelKeeps
  <1>3. TypeOK /\ EdgeInv /\ LabelInv /\ [Next]_vars =>
            [Labels /\ ~thread.overtaken /\ ~late => thread'.sample.clock = thread'.sample.receive]_vars
    <2> SUFFICES ASSUME TypeOK, EdgeInv, LabelInv, Next, Labels, ~thread.overtaken, ~late
                 PROVE  thread'.sample.clock = thread'.sample.receive
      OBVIOUS
    <2>1. thread \in Thread /\ thread.at = "read clock" /\ thread'.at = "valid" /\ seen = Settled
      BY TypeParts DEF TypeActors, Labels
    <2>2. ReadClock
      <3>1. CASE Tick
        <4>1. thread' = thread \/ thread'.at = "awake"
          BY <2>1, <3>1 DEF Tick, Thread
        <4> QED
          BY <2>1, <4>1
      <3>2. CASE LoopStep \/ NtpdStep
        BY <2>1, <3>2 DEF LoopStep, Report, Put, NtpdStep, Poll, ReadsCount, ReadsValues,
                          ReadsCountAgain, ClearsValid, Thread
      <3>3. CASE ThreadStep
        BY <2>1, <3>3 DEF ThreadStep, Detect, ReadReceive, PutPulse, Stores
      <3> QED
        BY <3>1, <3>2, <3>3 DEF Next
    <2>3. /\ thread'.sample.clock = Second * (segment["coarse"].clock \div Second + 1)
          /\ thread'.sample.receive = thread.edge
      BY <2>1, <2>2 DEF ReadClock, Thread, Sample
    <2>4. segment["coarse"].clock \div Second + 1 = thread.edge \div Second
      BY <2>1 DEF LabelInv
    <2>a. thread.edge % Second = 0
      BY <2>1 DEF EdgeInv, EdgeView
    <2>5. thread.edge \in Nat
      BY <2>1 DEF Thread
    <2>6. \A n \in Nat : n % 10 = 0 => 10 * (n \div 10) = n
      OBVIOUS
    <2>7. Second * (thread.edge \div Second) = thread.edge
      BY <2>a, <2>5, <2>6 DEF Second
    <2> QED
      BY <2>3, <2>4, <2>7
  <1> QED
    BY <1>1, <1>2, <1>3, SampleInvariance, PTL DEF Spec, LabelIsRight
=============================================================================
