-------------------------- MODULE ShmExport_proofs --------------------------
(***************************************************************************)
(* Proofs about ShmExport, for any number of clients, words, updates and   *)
(* restarts.                                                               *)
(***************************************************************************)
EXTENDS ShmExport, TLAPS

Writing == daemonPc \in {"copy", "fd", "close"}

\* What the daemon's own progress says about the segment.
SegmentInv ==
    /\ stamp <= life
    /\ published <= updates /\ updates <= MaxUpdates
    /\ Writing => bookend2 = tick /\ published < updates
    /\ daemonPc = "copy" => \A w \in Words \ daemonTodo : gpsdata[w] = updates
    /\ daemonPc = "fd" => \A w \in Words : gpsdata[w] = updates
    /\ daemonPc = "close" => gpsdata = Image(updates)

\* Once the running daemon has completed an update, equal bookends enclose a
\* whole update and a write in progress shows.
BookendInv ==
    stamp = life =>
        /\ bookend1 <= bookend2
        /\ Writing => bookend1 < bookend2
        /\ daemonPc = "idle" => bookend1 = tick /\ bookend2 = tick
        /\ bookend1 = bookend2 => updates >= 1 /\ published = updates /\ gpsdata = Image(updates)

\* A client that saw the running daemon's bookend has copied current words, or
\* is going to find the second bookend changed.
ClientInv ==
    \A r \in Readers :
        /\ began[r] <= stamp
        /\ clientPc[r] = "check" => todo[r] = {}
        /\ clientPc[r] \in {"copy", "check"} /\ began[r] = life =>
              /\ stamp = life
              /\ before[r] <= bookend1
              /\ before[r] = bookend2 =>
                    \A w \in Words \ todo[r] : noclobber[r][w] = gpsdata[w]

IInv == TypeOK /\ SegmentInv /\ BookendInv /\ ClientInv /\ NoTornRead

LEMMA ImageType == \A n \in Nat : Image(n) \in [Words -> Int]
  BY ShmAssumption DEF Image, SHM_PSEUDO_FD

LEMMA InitIInv == Init => IInv
  <1> SUFFICES ASSUME Init PROVE IInv
    OBVIOUS
  <1>1. TypeOK
    BY ShmAssumption, ImageType DEF Init, TypeOK, Zeroed
  <1>2. QED
    BY <1>1, ShmAssumption
    DEF Init, IInv, SegmentInv, BookendInv, ClientInv, NoTornRead, Writing

\* Steps of the daemon leave the clients alone; what they do to the segment is
\* noticed through the second bookend.
LEMMA DaemonKeepsIInv ==
    ASSUME IInv, DaemonStep \/ Stop \/ Restart
    PROVE  IInv'
  <1> USE DEF IInv
  <1>1. CASE BeginUpdate
    <2>1. TypeOK'
      BY <1>1 DEF TypeOK, BeginUpdate, NextTick, clientVars
    <2>2. SegmentInv'
      BY <1>1, ShmAssumption DEF TypeOK, SegmentInv, Writing, BeginUpdate, NextTick
    <2>3. BookendInv'
      BY <1>1 DEF TypeOK, SegmentInv, BookendInv, Writing, BeginUpdate, NextTick
    <2>4. ClientInv'
      BY <1>1 DEF TypeOK, BookendInv, ClientInv, BeginUpdate, NextTick, clientVars
    <2>5. NoTornRead'
      <3>1. \A n \in 1..updates : n \in 1..updates'
        BY <1>1 DEF TypeOK, BeginUpdate
      <3>2. delivered' = delivered
        BY <1>1 DEF BeginUpdate, clientVars
      <3>3. QED
        BY <3>1, <3>2 DEF NoTornRead, Image
    <2>6. QED
      BY <2>1, <2>2, <2>3, <2>4, <2>5
  <1>2. ASSUME NEW w \in Words, CopyIn(w) PROVE IInv'
    <2>1. TypeOK'
      BY <1>2 DEF TypeOK, CopyIn, clientVars
    <2>2. SegmentInv'
      BY <1>2 DEF TypeOK, SegmentInv, Writing, CopyIn
    <2>3. BookendInv'
      BY <1>2 DEF TypeOK, SegmentInv, BookendInv, Writing, CopyIn
    <2>4. ClientInv'
      BY <1>2 DEF TypeOK, BookendInv, Writing, ClientInv, CopyIn, clientVars
    <2>5. NoTornRead'
      BY <1>2 DEF NoTornRead, CopyIn, clientVars
    <2>6. QED
      BY <2>1, <2>2, <2>3, <2>4, <2>5
  <1>3. CASE StorePseudoFd
    <2>1. TypeOK'
      <3>1. gpsdata' \in [Words -> Int]
        <4>1. SHM_PSEUDO_FD \in Int
          BY DEF SHM_PSEUDO_FD
        <4>2. QED
          BY <1>3, <4>1 DEF TypeOK, StorePseudoFd
      <3>2. QED
        BY <1>3, <3>1 DEF TypeOK, StorePseudoFd, clientVars
    <2>2. SegmentInv'
      BY <1>3, ShmAssumption
      DEF TypeOK, SegmentInv, Writing, StorePseudoFd, Image
    <2>3. BookendInv'
      BY <1>3 DEF TypeOK, SegmentInv, BookendInv, Writing, StorePseudoFd
    <2>4. ClientInv'
      BY <1>3 DEF TypeOK, BookendInv, Writing, ClientInv, StorePseudoFd, clientVars
    <2>5. NoTornRead'
      BY <1>3 DEF NoTornRead, StorePseudoFd, clientVars
    <2>6. QED
      BY <2>1, <2>2, <2>3, <2>4, <2>5
  <1>4. CASE EndUpdate
    <2>1. TypeOK'
      BY <1>4 DEF TypeOK, EndUpdate, ClosingTick, clientVars
    <2>2. SegmentInv'
      BY <1>4 DEF TypeOK, SegmentInv, Writing, EndUpdate
    <2>3. BookendInv'
      BY <1>4 DEF TypeOK, SegmentInv, BookendInv, Writing, EndUpdate, ClosingTick
    <2>4. ClientInv'
      BY <1>4
      DEF TypeOK, SegmentInv, BookendInv, Writing, ClientInv, EndUpdate, ClosingTick, clientVars
    <2>5. NoTornRead'
      BY <1>4 DEF NoTornRead, EndUpdate, clientVars
    <2>6. QED
      BY <2>1, <2>2, <2>3, <2>4, <2>5
  <1>5. CASE Stop
    <2>1. TypeOK' /\ SegmentInv' /\ BookendInv'
      BY <1>5 DEF TypeOK, SegmentInv, BookendInv, Writing, Stop, segment, clientVars
    <2>2. ClientInv' /\ NoTornRead'
      BY <1>5 DEF ClientInv, NoTornRead, Stop, segment, clientVars
    <2>3. QED
      BY <2>1, <2>2
  <1>6. CASE Restart
    <2>1. TypeOK' /\ SegmentInv' /\ BookendInv'
      BY <1>6 DEF TypeOK, SegmentInv, BookendInv, Writing, Restart, segment, clientVars
    <2>2. ClientInv' /\ NoTornRead'
      BY <1>6 DEF TypeOK, SegmentInv, ClientInv, NoTornRead, Restart, segment, clientVars
    <2>3. QED
      BY <2>1, <2>2
  <1>7. QED
    BY <1>1, <1>2, <1>3, <1>4, <1>5, <1>6 DEF DaemonStep

\* Steps of a client leave the segment and the other clients alone.
LEMMA ClientKeepsIInv ==
    ASSUME IInv, NEW r \in Readers, ClientStep(r)
    PROVE  IInv'
  <1> USE DEF IInv
  <1>0. UNCHANGED <<segment, daemonVars>>
    BY DEF ClientStep, Waiting, DispatchToSocket, ReadBefore, CopyOut, Reject, Accept
  <1>s. SegmentInv' /\ BookendInv'
    BY <1>0 DEF SegmentInv, BookendInv, Writing, segment, daemonVars
  <1>1. CASE Waiting(r) \/ DispatchToSocket(r) \/ Reject(r)
    <2>1. TypeOK'
      BY <1>0, <1>1 DEF TypeOK, Waiting, DispatchToSocket, Reject, segment, daemonVars
    <2>2. UNCHANGED <<mainloop, began, before, todo, noclobber, delivered>>
      BY <1>1 DEF Waiting, DispatchToSocket, Reject
    <2>3. \A q \in Readers :
             clientPc'[q] = clientPc[q] \/ clientPc'[q] \notin {"copy", "check"}
      BY <1>1 DEF TypeOK, Waiting, DispatchToSocket, Reject
    <2>4. ClientInv'
      BY <1>0, <2>2, <2>3 DEF ClientInv, segment, daemonVars
    <2>5. NoTornRead'
      BY <1>0, <2>2 DEF NoTornRead, daemonVars
    <2>6. QED
      BY <1>s, <2>1, <2>4, <2>5
  <1>2. CASE ReadBefore(r)
    <2>1. TypeOK'
      BY <1>0, <1>2 DEF TypeOK, ReadBefore, segment, daemonVars
    <2>2. ClientInv'
      BY <1>0, <1>2 DEF TypeOK, SegmentInv, ClientInv, ReadBefore, segment, daemonVars
    <2>3. NoTornRead'
      BY <1>0, <1>2 DEF NoTornRead, ReadBefore, daemonVars
    <2>4. QED
      BY <1>s, <2>1, <2>2, <2>3
  <1>3. ASSUME NEW w \in Words, CopyOut(r, w) PROVE IInv'
    <2>1. TypeOK'
      BY <1>0, <1>3 DEF TypeOK, CopyOut, segment, daemonVars
    <2>2. ClientInv'
      BY <1>0, <1>3 DEF TypeOK, ClientInv, CopyOut, segment, daemonVars
    <2>3. NoTornRead'
      BY <1>0, <1>3 DEF NoTornRead, CopyOut, daemonVars
    <2>4. QED
      BY <1>s, <2>1, <2>2, <2>3
  <1>4. CASE Accept(r)
    <2>1. TypeOK'
      BY <1>0, <1>4 DEF TypeOK, Accept, segment, daemonVars
    <2>2. ClientInv'
      BY <1>0, <1>4 DEF TypeOK, ClientInv, Accept, segment, daemonVars
    <2>3. began[r] = life => noclobber[r] = Image(updates) /\ updates \in 1..updates
      <3> SUFFICES ASSUME began[r] = life
                   PROVE  noclobber[r] = Image(updates) /\ updates \in 1..updates
        OBVIOUS
      <3>1. before[r] = bookend2 /\ todo[r] = {} /\ stamp = life /\ before[r] <= bookend1
        BY <1>4 DEF ClientInv, Accept, BookendsAgree
      <3>2. bookend1 = bookend2
        BY <3>1 DEF TypeOK, BookendInv
      <3>3. updates >= 1 /\ gpsdata = Image(updates)
        BY <3>1, <3>2 DEF BookendInv
      <3>4. \A w \in Words : noclobber[r][w] = gpsdata[w]
        BY <1>4, <3>1 DEF ClientInv, Accept
      <3>5. noclobber[r] = gpsdata
        BY <3>4 DEF TypeOK
      <3>6. QED
        BY <3>3, <3>5 DEF TypeOK
    <2>4. NoTornRead'
      <3> SUFFICES ASSUME NEW q \in Readers, delivered'[q].began = delivered'[q].ended
                   PROVE  \E n \in 1..updates : delivered'[q].data = Image(n)
        BY <1>0 DEF NoTornRead, daemonVars, Image
      <3>1. CASE q = r
        <4>1. delivered'[r] = [data |-> noclobber[r], began |-> began[r], ended |-> life]
          BY <1>4 DEF TypeOK, Accept
        <4>2. QED
          BY <2>3, <3>1, <4>1
      <3>2. CASE q # r
        <4>1. delivered'[q] = delivered[q]
          BY <1>4, <3>2 DEF TypeOK, Accept
        <4>2. QED
          BY <4>1 DEF NoTornRead
      <3>3. QED
        BY <3>1, <3>2
    <2>5. QED
      BY <1>s, <2>1, <2>2, <2>4
  <1>5. QED
    BY <1>1, <1>2, <1>3, <1>4 DEF ClientStep

\* The inductive invariant holds in every state (shm_update() and gps_shm_read()).
THEOREM Invariance == Spec => []IInv
  <1>1. IInv /\ [Next]_vars => IInv'
    <2> SUFFICES ASSUME IInv, [Next]_vars PROVE IInv'
      OBVIOUS
    <2>1. CASE Next
      BY <2>1, DaemonKeepsIInv, ClientKeepsIInv DEF Next
    <2>2. CASE UNCHANGED vars
      BY <2>2
      DEF IInv, TypeOK, SegmentInv, BookendInv, ClientInv, NoTornRead, Writing,
          vars, segment, daemonVars, clientVars
    <2>3. QED
      BY <2>1, <2>2
  <1>2. QED
    BY InitIInv, <1>1, PTL DEF Spec

\* Every variable of the segment, the daemon and the clients keeps its type.
THEOREM TypeCorrect == Spec => []TypeOK
  BY Invariance, PTL DEF IInv

\* Whatever the number of clients, words, updates and restarts, a read that the
\* bookends of one daemon process enclose is one whole update of that daemon.
THEOREM ReadsAreWhole == Spec => []NoTornRead
  BY Invariance, PTL DEF IInv

-----------------------------------------------------------------------------
(* The segment implements a register of whole updates. *)

\* A client that begins a read has the guarantee, or is as it was before.
LEMMA ReadBeforeRefines ==
    ASSUME IInv, NEW r \in Readers, ReadBefore(r)
    PROVE  Snapshot!Begin(r) \/ UNCHANGED Snapshot!vars
  <1>1. UNCHANGED <<life, stamp, published, delivered>> /\ began' = [began EXCEPT ![r] = stamp]
    BY DEF ReadBefore, segment, daemonVars
  <1>2. began[r] = life => stamp = life
    BY DEF IInv, TypeOK, SegmentInv, ClientInv
  <1>3. began \in [Readers -> Nat]
    BY DEF IInv, TypeOK
  <1>4. CASE stamp = life
    <2>1. {q \in Readers : began'[q] # life'} = {q \in Readers : began[q] # life} \ {r}
      BY <1>1, <1>3, <1>4
    <2>2. QED
      BY <1>1, <2>1 DEF Snapshot!Begin
  <1>5. CASE stamp # life
    <2>1. {q \in Readers : began'[q] # life'} = {q \in Readers : began[q] # life}
      BY <1>1, <1>2, <1>3, <1>5
    <2>2. QED
      BY <1>1, <2>1 DEF Snapshot!vars
  <1>6. QED
    BY <1>4, <1>5

\* A client that accepts what it has copied has got the latest update, or was
\* overtaken by a restart.
LEMMA AcceptRefines ==
    ASSUME IInv, NEW r \in Readers, Accept(r)
    PROVE  Snapshot!Deliver(r) \/ Snapshot!DeliverAnything(r)
  <1> DEFINE Got == [q \in Readers |-> delivered[q].data]
             Value == [n \in 0..MaxUpdates |-> IF n = 0 THEN Zeroed ELSE Image(n)]
  <1>1. UNCHANGED <<life, began, published>>
    BY DEF Accept, segment, daemonVars
  <1>2. delivered' = [delivered EXCEPT ![r] = [data |-> noclobber[r], began |-> began[r], ended |-> life]]
    BY DEF Accept
  <1>3. \A q \in Readers \ {r} : delivered'[q] = delivered[q]
    BY <1>2 DEF IInv, TypeOK
  <1>4. delivered'[r].data = noclobber[r]
    BY <1>2 DEF IInv, TypeOK
  <1>5. Got' = [Got EXCEPT ![r] = noclobber[r]]
    BY <1>3, <1>4
  <1>6. CASE began[r] = life
    <2>1. before[r] = bookend2 /\ todo[r] = {} /\ stamp = life /\ before[r] <= bookend1
      BY <1>6 DEF IInv, ClientInv, Accept, BookendsAgree
    <2>2. bookend1 = bookend2
      BY <2>1 DEF IInv, TypeOK, BookendInv
    <2>3. updates >= 1 /\ published = updates /\ gpsdata = Image(updates)
      BY <2>1, <2>2 DEF IInv, BookendInv
    <2>4. \A w \in Words : noclobber[r][w] = gpsdata[w]
      BY <1>6, <2>1 DEF IInv, ClientInv, Accept
    <2>5. noclobber[r] = Image(published)
      BY <2>3, <2>4 DEF IInv, TypeOK
    <2>6. published \in 1..MaxUpdates
      BY <2>3, ShmAssumption DEF IInv, TypeOK, SegmentInv
    <2>7. Value[published] = Image(published)
      BY <2>6, ShmAssumption
    <2>8. Got' = [Got EXCEPT ![r] = Value[published]]
      BY <1>5, <2>5, <2>7
    <2>9. QED
      BY <1>1, <1>6, <2>8 DEF Snapshot!Deliver
  <1>7. CASE began[r] # life
    <2>1. \A q \in Readers \ {r} : Got'[q] = Got[q]
      BY <1>3
    <2>2. QED
      BY <1>1, <1>7, <2>1 DEF Snapshot!DeliverAnything
  <1>8. QED
    BY <1>6, <1>7

\* Every step of the daemon, a client or a restart is one of the register, or none.
LEMMA StepRefines == IInv /\ [Next]_vars => [Snapshot!Next]_(Snapshot!vars)
  <1> SUFFICES ASSUME IInv, [Next]_vars PROVE [Snapshot!Next]_(Snapshot!vars)
    OBVIOUS
  <1>1. CASE BeginUpdate \/ (\E w \in Words : CopyIn(w)) \/ StorePseudoFd \/ Stop \/ UNCHANGED vars
    <2>1. UNCHANGED <<published, began, life, delivered>>
      BY <1>1 DEF BeginUpdate, CopyIn, StorePseudoFd, Stop, vars, segment, daemonVars, clientVars
    <2>2. QED
      BY <2>1 DEF Snapshot!vars
  <1>2. CASE EndUpdate
    <2>1. UNCHANGED <<began, life, delivered>> /\ published' = updates
      BY <1>2 DEF EndUpdate, clientVars
    <2>2. published' \in (published + 1)..MaxUpdates
      BY <1>2, <2>1, ShmAssumption DEF EndUpdate, IInv, TypeOK, SegmentInv, Writing
    <2>3. QED
      BY <2>1, <2>2 DEF Snapshot!Publish, Snapshot!Next
  <1>3. CASE Restart
    <2>1. UNCHANGED <<began, published, delivered>> /\ life' = life + 1
      BY <1>3 DEF Restart, segment, clientVars
    <2>2. \A r \in Readers : began[r] # life'
      BY <2>1 DEF IInv, TypeOK, SegmentInv, ClientInv
    <2>3. {r \in Readers : began'[r] # life'} = Readers
      BY <2>1, <2>2
    <2>4. QED
      BY <2>1, <2>3 DEF Snapshot!Restart, Snapshot!Next
  <1>4. ASSUME NEW r \in Readers, ClientStep(r) PROVE [Snapshot!Next]_(Snapshot!vars)
    <2>1. CASE ReadBefore(r)
      BY <2>1, ReadBeforeRefines DEF Snapshot!Next
    <2>2. CASE Accept(r)
      BY <2>2, AcceptRefines DEF Snapshot!Next
    <2>3. CASE ~ReadBefore(r) /\ ~Accept(r)
      <3>1. UNCHANGED <<published, began, life, delivered>>
        BY <1>4, <2>3 DEF ClientStep, Waiting, DispatchToSocket, CopyOut, Reject, segment, daemonVars
      <3>2. QED
        BY <3>1 DEF Snapshot!vars
    <2>4. QED
      BY <2>1, <2>2, <2>3
  <1>5. QED
    BY <1>1, <1>2, <1>3, <1>4 DEF Next, DaemonStep

LEMMA InitRefines == Init => Snapshot!Init
  <1> SUFFICES ASSUME Init PROVE Snapshot!Init
    OBVIOUS
  <1>1. \A r \in Readers : began[r] # life
    <2>1. life = 1 /\ began = [r \in Readers |-> 0]
      BY DEF Init
    <2>2. ASSUME NEW r \in Readers, began[r] = life PROVE FALSE
      <3>1. began[r] = 0
        BY <2>1
      <3>2. QED
        BY <2>1, <2>2, <3>1
    <2>3. QED
      BY <2>2
  <1>2. {r \in Readers : began[r] # life} = Readers
    BY <1>1
  <1>3. [r \in Readers |-> delivered[r].data] = [r \in Readers |-> Image(0)]
    BY DEF Init
  <1>4. QED
    BY <1>2, <1>3 DEF Init, Snapshot!Init

\* shm_update() and gps_shm_read(), however they interleave and wherever a daemon
\* is stopped and another one started, implement a register of whole updates.
THEOREM Refinement == Spec => ImplementsSnapshot
  BY Invariance, InitRefines, StepRefines, PTL DEF Spec, ImplementsSnapshot, Snapshot!Spec

-----------------------------------------------------------------------------
(* Reads advance. *)

\* What a client has from the running daemon carries no later tick than the
\* second bookend.
AdvanceInv ==
    \A r \in Readers :
        /\ delivered[r].began <= stamp
        /\ delivered[r].began = life => clientTick[r] <= bookend2

\* shm_update() only raises the second bookend in the life of a daemon that has
\* completed an update, and a new daemon has completed none.
LEMMA DaemonKeepsAdvanceInv ==
    ASSUME IInv, AdvanceInv, DaemonStep \/ Stop \/ Restart
    PROVE  AdvanceInv'
  <1>0. UNCHANGED <<delivered, clientTick>>
    BY DEF DaemonStep, BeginUpdate, CopyIn, StorePseudoFd, EndUpdate, Stop, Restart, clientVars
  <1>1. CASE BeginUpdate
    <2>1. bookend2' = tick + 1 /\ UNCHANGED <<stamp, life>>
      BY <1>1 DEF BeginUpdate, NextTick
    <2>2. stamp = life => bookend2 = tick
      BY <1>1 DEF IInv, BookendInv, BeginUpdate
    <2>3. ASSUME NEW r \in Readers, delivered[r].began = life
          PROVE  clientTick[r] <= bookend2'
      <3>1. stamp = life
        BY <2>3 DEF AdvanceInv, IInv, TypeOK, SegmentInv
      <3>2. QED
        BY <2>1, <2>2, <2>3, <3>1 DEF AdvanceInv, IInv, TypeOK
    <2>4. QED
      BY <1>0, <2>1, <2>3 DEF AdvanceInv
  <1>2. CASE (\E w \in Words : CopyIn(w)) \/ StorePseudoFd \/ Stop
    <2>1. UNCHANGED <<bookend2, stamp, life>>
      BY <1>2 DEF CopyIn, StorePseudoFd, Stop, segment
    <2>2. QED
      BY <1>0, <2>1 DEF AdvanceInv
  <1>3. CASE EndUpdate
    <2>1. stamp' = life /\ UNCHANGED <<bookend2, life>>
      BY <1>3 DEF EndUpdate
    <2>2. ASSUME NEW r \in Readers PROVE delivered[r].began <= life
      <3>1. delivered[r].began \in Nat /\ stamp \in Nat /\ life \in Nat
        BY DEF IInv, TypeOK
      <3>2. delivered[r].began <= stamp /\ stamp <= life
        BY DEF AdvanceInv, IInv, SegmentInv
      <3>3. QED
        BY <3>1, <3>2
    <2>3. QED
      BY <1>0, <2>1, <2>2 DEF AdvanceInv
  <1>4. CASE Restart
    <2>1. life' = life + 1 /\ UNCHANGED <<bookend2, stamp>>
      BY <1>4 DEF Restart, segment
    <2>2. \A r \in Readers : delivered[r].began < life'
      BY <2>1 DEF AdvanceInv, IInv, TypeOK, SegmentInv
    <2>3. QED
      BY <1>0, <2>1, <2>2 DEF AdvanceInv, IInv, TypeOK
  <1>5. QED
    BY <1>1, <1>2, <1>3, <1>4 DEF DaemonStep

LEMMA ClientKeepsAdvanceInv ==
    ASSUME IInv, AdvanceInv, NEW r \in Readers, ClientStep(r)
    PROVE  AdvanceInv'
  <1>1. UNCHANGED <<bookend2, stamp, life>>
    BY DEF ClientStep, Waiting, DispatchToSocket, ReadBefore, CopyOut, Reject, Accept, segment, daemonVars
  <1>2. CASE Accept(r)
    <2> SUFFICES ASSUME NEW q \in Readers
                 PROVE  /\ delivered'[q].began <= stamp
                        /\ delivered'[q].began = life => clientTick'[q] <= bookend2
      BY <1>1 DEF AdvanceInv
    <2>1. CASE q = r
      <3>1. delivered'[r].began = began[r] /\ clientTick'[r] = bookend2
        BY <1>2 DEF Accept, IInv, TypeOK
      <3>2. QED
        BY <2>1, <3>1 DEF IInv, ClientInv, TypeOK
    <2>2. CASE q # r
      <3>1. delivered'[q] = delivered[q] /\ clientTick'[q] = clientTick[q]
        BY <1>2, <2>2 DEF Accept, IInv, TypeOK
      <3>2. QED
        BY <3>1 DEF AdvanceInv
    <2>3. QED
      BY <2>1, <2>2
  <1>3. CASE ~Accept(r)
    <2>1. UNCHANGED <<delivered, clientTick>>
      BY <1>3 DEF ClientStep, Waiting, DispatchToSocket, ReadBefore, CopyOut, Reject
    <2>2. QED
      BY <1>1, <2>1 DEF AdvanceInv
  <1>4. QED
    BY <1>2, <1>3

LEMMA StepKeepsAdvanceInv == IInv /\ AdvanceInv /\ [Next]_vars => AdvanceInv'
  <1> SUFFICES ASSUME IInv, AdvanceInv, [Next]_vars PROVE AdvanceInv'
    OBVIOUS
  <1>1. CASE Next
    BY <1>1, DaemonKeepsAdvanceInv, ClientKeepsAdvanceInv DEF Next
  <1>2. CASE UNCHANGED vars
    BY <1>2 DEF AdvanceInv, vars, segment, daemonVars, clientVars
  <1>3. QED
    BY <1>1, <1>2

\* What is accepted carries the second bookend's tick, so never an older one.
LEMMA StepAdvances ==
    ASSUME IInv, AdvanceInv, [Next]_vars,
           NEW r \in Readers, delivered'[r] # delivered[r], delivered[r].began = delivered'[r].ended
    PROVE  clientTick'[r] >= clientTick[r]
  <1>1. PICK q \in Readers : Accept(q)
    BY DEF Next, DaemonStep, BeginUpdate, CopyIn, StorePseudoFd, EndUpdate, Stop, Restart, ClientStep,
           Waiting, DispatchToSocket, ReadBefore, CopyOut, Reject, vars, clientVars
  <1>2. q = r
    BY <1>1 DEF Accept, IInv, TypeOK
  <1>3. delivered'[r].ended = life /\ clientTick'[r] = bookend2
    BY <1>1, <1>2 DEF Accept, IInv, TypeOK
  <1>4. QED
    BY <1>3 DEF AdvanceInv, IInv, TypeOK

\* However many daemons come and go, a client of gps_shm_read() never gets an older
\* update of a daemon than the one it has from the same daemon.
THEOREM ReadsGoForward == Spec => ReadsAdvance
  <1>1. Init => AdvanceInv
    <2> SUFFICES ASSUME Init, NEW r \in Readers
                 PROVE  delivered[r].began <= stamp /\ delivered[r].began # life
      BY DEF AdvanceInv
    <2>1. delivered[r].began = 0 /\ stamp = 0 /\ life = 1
      BY DEF Init
    <2> QED
      BY <2>1
  <1>2. IInv /\ AdvanceInv /\ [Next]_vars =>
            [\A r \in Readers :
                delivered'[r] # delivered[r] /\ delivered[r].began = delivered'[r].ended
                    => clientTick'[r] >= clientTick[r]]_vars
    <2>1. ASSUME IInv, AdvanceInv, [Next]_vars
          PROVE  \A r \in Readers :
                     delivered'[r] # delivered[r] /\ delivered[r].began = delivered'[r].ended
                         => clientTick'[r] >= clientTick[r]
      BY <2>1, StepAdvances
    <2> QED
      BY <2>1
  <1>3. QED
    BY Invariance, <1>1, <1>2, StepKeepsAdvanceInv, PTL DEF Spec, ReadsAdvance
=============================================================================
