------------------------- MODULE ObdSession_proofs -------------------------
(***************************************************************************)
(* Proofs about ObdSession for any number of connection attempts.          *)
(***************************************************************************)
EXTENDS ObdSession, TLAPS

\* Ownership is inductive once the types are known: the monitor of BluetoothIO, which
\* MonitorFree stands for, is what keeps a late connectionLost() out of connect().
IInv == TypeOK /\ SocketsAreOwned

LEMMA InitIInv == Init => IInv
  BY SessionAssumption DEF Init, IInv, TypeOK, SocketsAreOwned, Nobody

LEMMA StepIInv == IInv /\ [Next]_vars => IInv'
<1> SUFFICES ASSUME IInv, [Next]_vars
             PROVE  IInv'
  OBVIOUS
<1> USE SessionAssumption DEF IInv, TypeOK, SocketsAreOwned, Nobody, Attempts
<1>1. ASSUME NEW created \in {"created", "null"}, Connect(created)
      PROVE  IInv'
  <2>1. TypeOK'
    <3> DEFINE i == attempts + 1
               cleared == IF mState = "CONNECTING" THEN Closed(Held) ELSE socket
    <3>1. /\ i \in Attempts /\ i \in Nat /\ attempts' = i
          /\ 0..attempts \subseteq 0..attempts'
          /\ 0..attempts' \subseteq 0..MaxAttempts
      BY <1>1 DEF Connect
    <3>2. /\ cleared \in [Attempts -> {"none", "null", "created", "connected", "lost", "closed"}]
          /\ socket' = [cleared EXCEPT ![i] = created]
      BY <1>1 DEF Connect, Closed
    <3>3. /\ mBTSocket' = i /\ mConnectThread' = i
          /\ mConnectedThread' \in 0..attempts
      BY <1>1 DEF Connect
    <3>4. /\ connectPc' = [connectPc EXCEPT ![i] = "start"]
          /\ alive' = alive /\ mainPc' = "join" /\ mState' = "CONNECTING"
          /\ mSocket' = mSocket /\ reader' = reader
      BY <1>1 DEF Connect
    <3> HIDE DEF i, cleared
    <3>5. mSocket' \in [Attempts -> 0..attempts']
      BY <3>1, <3>4
    <3>6. socket' \in [Attempts -> {"none", "null", "created", "connected", "lost", "closed"}]
      BY <3>1, <3>2
    <3>7. connectPc' \in [Attempts -> {"none", "start", "connect", "settle", "init", "done"}]
      BY <3>1, <3>4
    <3>8. /\ attempts' \in 0..MaxAttempts
          /\ mBTSocket' \in 0..attempts'
          /\ mConnectThread' \in 0..attempts' /\ mConnectedThread' \in 0..attempts'
      BY <3>1, <3>3
    <3> QED
      BY <3>4, <3>5, <3>6, <3>7, <3>8
  <2>2. SocketsAreOwned'
    BY <1>1 DEF Connect, Closed, Held
  <2> QED
    BY <2>1, <2>2
<1>2. ASSUME JoinEnds
      PROVE  IInv'
  BY <1>2 DEF JoinEnds, threads
<1>3. ASSUME Connected
      PROVE  IInv'
  <2>1. TypeOK'
    <3>1. /\ socket' \in [Attempts -> {"none", "null", "created", "connected", "lost", "closed"}]
          /\ attempts' = attempts /\ mBTSocket' = mBTSocket /\ mConnectThread' = mConnectThread
          /\ connectPc' = connectPc /\ mSocket' = mSocket
      BY <1>3 DEF Connected, Closed
    <3>2. /\ alive' \in BOOLEAN /\ mainPc' \in {"sleep", "idle"}
          /\ mState' \in {mState, "CONNECTED"}
          /\ mConnectedThread' \in {0, mBTSocket}
          /\ reader' \in {reader, [reader EXCEPT ![mBTSocket] = "reading"]}
      BY <1>3 DEF Connected, Crash
    <3> QED
      BY <3>1, <3>2
  <2>2. SocketsAreOwned'
    BY <1>3 DEF Connected, Closed, Replaced, Crash
  <2> QED
    BY <2>1, <2>2
<1>4. ASSUME NEW i \in Attempts, ConnectStep(i)
      PROVE  IInv'
  <2>1. CASE PickUpSocket(i)
    BY <2>1 DEF PickUpSocket, AtConnect, threads
  <2>2. CASE ConnectSucceeds(i)
    BY <2>2 DEF ConnectSucceeds, AtConnect, threads
  <2>3. CASE ConnectFails(i)
    BY <2>3 DEF ConnectFails, AtConnect, threads, Closed
  <2>4. CASE NoSocket(i)
    BY <2>4 DEF NoSocket, AtConnect, threads, Crash
  <2>5. CASE Settle(i)
    BY <2>5 DEF Settle, AtConnect, threads
  <2>6. CASE Initialised(i)
    BY <2>6 DEF Initialised, AtConnect, threads
  <2> QED
    BY <1>4, <2>1, <2>2, <2>3, <2>4, <2>5, <2>6 DEF ConnectStep
<1>5. ASSUME NEW i \in Attempts, ReaderStep(i)
      PROVE  IInv'
  <2>1. CASE Collect(i)
    BY <2>1 DEF Collect, AtReader, threads
  <2>2. CASE Report(i)
    BY <2>2 DEF Report, AtReader, threads
  <2>3. CASE ReadFails(i)
    BY <2>3 DEF ReadFails, AtReader, threads
  <2>4. CASE ConnectionLost(i)
    <3>1. TypeOK'
      BY <2>4 DEF ConnectionLost, AtReader, ClearThreads, Closed
    <3>2. SocketsAreOwned'
      BY <2>4 DEF ConnectionLost, AtReader, ClearThreads, Closed, Held, MonitorFree
    <3> QED
      BY <3>1, <3>2
  <2>5. CASE Unexpected(i)
    BY <2>5 DEF Unexpected, AtReader, threads, Crash
  <2>6. CASE ReportFails(i)
    BY <2>6 DEF ReportFails, AtReader, threads, Crash
  <2> QED
    BY <1>5, <2>1, <2>2, <2>3, <2>4, <2>5, <2>6 DEF ReaderStep
<1>6. ASSUME NEW i \in Attempts, LinkDrops(i)
      PROVE  IInv'
  BY <1>6 DEF LinkDrops, threads
<1>7. ASSUME Ended
      PROVE  IInv'
  BY <1>7 DEF Ended, threads, Crash
<1>8. CASE UNCHANGED vars
  BY <1>8 DEF vars, threads
<1> QED
  BY <1>1, <1>2, <1>3, <1>4, <1>5, <1>6, <1>7, <1>8 DEF Next, UserStep, MainStep

\* The types and the ownership of sockets are kept by every step.
THEOREM Invariance == Spec => []IInv
  BY InitIInv, StepIInv, PTL DEF Spec

\* Every variable keeps its type.
THEOREM TypeCorrect == Spec => []TypeOK
<1>1. IInv => TypeOK
  BY DEF IInv
<1> QED
  BY <1>1, Invariance, PTL

\* However often the user connects and whichever threads are late, a socket that is
\* not closed belongs to the current ConnectedThread or to the attempt in progress.
THEOREM Ownership == Spec => []SocketsAreOwned
<1>1. IInv => SocketsAreOwned
  BY DEF IInv
<1> QED
  BY <1>1, Invariance, PTL
=============================================================================
