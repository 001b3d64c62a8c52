----------------------------- MODULE ObdSession -----------------------------
(***************************************************************************)
(* The Bluetooth session of the Android application with the OBD adapter:  *)
(* BluetoothIO, ConnectThread, ConnectedThread and the socket that         *)
(* BTProperties holds for them.  Connection attempts are numbered; attempt *)
(* i has a socket, a ConnectThread and perhaps a ConnectedThread, all      *)
(* called i.  connect() runs on the main thread and holds the monitor of   *)
(* the BluetoothIO object to its end, which includes a join and a sleep.   *)
(***************************************************************************)
EXTENDS Naturals

CONSTANT MaxAttempts  \* bound on the devices the user picks

ASSUME SessionAssumption == MaxAttempts \in Nat

Attempts == 1..MaxAttempts
Nobody == 0   \* a null reference

VARIABLES
    alive,             \* FALSE once an uncaught exception has ended the process
    mainPc,            \* where the main thread is
    attempts,          \* attempts made so far
    mState,            \* BluetoothIO.mState
    mBTSocket,         \* the socket BTProperties holds
    socket,            \* what each socket is like
    mConnectThread, mConnectedThread,  \* the threads BluetoothIO refers to
    connectPc,         \* where each ConnectThread is
    mSocket,           \* the socket each ConnectThread has picked up
    reader             \* where each ConnectedThread is

threads == <<mConnectThread, mConnectedThread>>
vars == <<alive, mainPc, attempts, mState, mBTSocket, socket, threads, connectPc, mSocket, reader>>

\* connect() is the one synchronized method that waits inside.
MonitorFree == mainPc \notin {"join", "sleep"}

\* close() on the sockets in S.
Closed(S) == [i \in Attempts |-> IF i \in S THEN "closed" ELSE socket[i]]

\* The sockets clearThreads() closes; a ConnectThread that has not begun to run
\* has none yet.
Held ==
    ({mSocket[i] : i \in {mConnectThread} \ {Nobody}} \cup {mConnectedThread}) \ {Nobody}

ClearThreads ==
    /\ socket' = Closed(Held)
    /\ mConnectThread' = Nobody
    /\ mConnectedThread' = Nobody

Crash == alive' = FALSE

-----------------------------------------------------------------------------
(* connect(), on the main thread *)

\* Up to the join.  The constructor of ConnectThread publishes the new socket,
\* or null if it could not be created.
Connect(created) ==
    LET i == attempts + 1
        cleared == IF mState = "CONNECTING" THEN Closed(Held) ELSE socket
    IN  /\ alive /\ mainPc = "idle"
        /\ attempts < MaxAttempts
        /\ attempts' = i
        /\ socket' = [cleared EXCEPT ![i] = created]
        /\ mBTSocket' = i
        /\ mConnectThread' = i
        /\ mConnectedThread' = IF mState = "CONNECTING" THEN Nobody ELSE mConnectedThread
        /\ mState' = "CONNECTING"
        /\ connectPc' = [connectPc EXCEPT ![i] = "start"]
        /\ mainPc' = "join"
        /\ UNCHANGED <<alive, mSocket, reader>>

\* The join ends with the thread or after 15 seconds.  Nobody asks which, or
\* whether the thread has connected.
JoinEnds ==
    /\ alive /\ mainPc = "join"
    /\ mState' = "CONNECTED"
    /\ mainPc' = "sleep"
    /\ UNCHANGED <<alive, attempts, mBTSocket, socket, threads, connectPc, mSocket, reader>>

\* Mutant of Replaced: the thread of the connection before is left running.
ReplacedNone == {}

Replaced == {mConnectedThread} \ {Nobody}

\* connected(): the constructor of ConnectedThread takes the streams of the socket,
\* and fails on a null one.
Connected ==
    /\ alive /\ mainPc = "sleep"
    /\ socket' = Closed(Replaced)
    /\ IF socket[mBTSocket] = "null"
       THEN /\ Crash
            /\ mConnectedThread' = Nobody
            /\ UNCHANGED <<mainPc, mState, reader>>
       ELSE /\ mConnectedThread' = mBTSocket
            /\ reader' = [reader EXCEPT ![mBTSocket] = "reading"]
            /\ mState' = "CONNECTED"
            /\ mainPc' = "idle"
            /\ UNCHANGED alive
    /\ UNCHANGED <<attempts, mBTSocket, mConnectThread, connectPc, mSocket>>

-----------------------------------------------------------------------------
(* ConnectThread i *)

AtConnect(i, here, next) ==
    /\ alive /\ connectPc[i] = here
    /\ connectPc' = [connectPc EXCEPT ![i] = next]
    /\ UNCHANGED <<mainPc, attempts, mState, mBTSocket, threads, reader>>

PickUpSocket(i) ==
    /\ AtConnect(i, "start", "connect")
    /\ mSocket' = [mSocket EXCEPT ![i] = mBTSocket]
    /\ UNCHANGED <<alive, socket>>

ConnectSucceeds(i) ==
    /\ AtConnect(i, "connect", "settle")
    /\ socket[mSocket[i]] = "created"
    /\ socket' = [socket EXCEPT ![mSocket[i]] = "connected"]
    /\ UNCHANGED <<alive, mSocket>>

\* IOException: nobody answers, or the socket is closed or connected already.
\* connectionFailed() sends a message that no handler looks at.
ConnectFails(i) ==
    /\ AtConnect(i, "connect", "done")
    /\ socket[mSocket[i]] # "null"
    /\ socket' = Closed({mSocket[i]})
    /\ UNCHANGED <<alive, mSocket>>

\* There is no socket: connect() is skipped and isConnected() ends the process.
NoSocket(i) ==
    /\ AtConnect(i, "connect", "done")
    /\ socket[mSocket[i]] = "null"
    /\ Crash
    /\ UNCHANGED <<socket, mSocket>>

\* After a second isConnected() decides whether the adapter is initialised.
Settle(i) ==
    /\ AtConnect(i, "settle", IF socket[mSocket[i]] = "closed" THEN "done" ELSE "init")
    /\ UNCHANGED <<alive, socket, mSocket>>

\* The commands that initialise the adapter have run or failed, or 10 seconds are over.
Initialised(i) ==
    /\ AtConnect(i, "init", "done")
    /\ UNCHANGED <<alive, socket, mSocket>>

-----------------------------------------------------------------------------
(* ConnectedThread i *)

AtReader(i, here, next) ==
    /\ alive /\ reader[i] = here
    /\ reader' = [reader EXCEPT ![i] = next]
    /\ UNCHANGED <<mainPc, attempts, mState, mBTSocket, connectPc, mSocket>>

\* All commands have been answered, with data or without.
Collect(i) ==
    /\ AtReader(i, "reading", "report")
    /\ socket[i] = "connected"
    /\ UNCHANGED <<alive, socket, threads>>

\* getFormattedResult(), and the next turn of the loop.
Report(i) ==
    /\ AtReader(i, "report", "reading")
    /\ UNCHANGED <<alive, socket, threads>>

\* getFormattedResult() has found the name of a readings file and uses the null that
\* has taken its place, which nobody expects.
ReportFails(i) ==
    /\ AtReader(i, "report", "ended")
    /\ Crash
    /\ UNCHANGED <<socket, threads>>

\* Mutant of Disconnected: only a broken link is noticed, not a closed socket.
DisconnectedIfLost(i) == socket[i] = "lost"

Disconnected(i) == socket[i] # "connected"

\* IOException: the loop is left for connectionLost().
ReadFails(i) ==
    /\ AtReader(i, "reading", "lost")
    /\ Disconnected(i)
    /\ UNCHANGED <<alive, socket, threads>>

\* start(), called by connectionLost(), clears whatever threads there are by now.
ConnectionLost(i) ==
    /\ AtReader(i, "lost", "ended")
    /\ MonitorFree
    /\ ClearThreads
    /\ UNCHANGED alive

\* An answer the library throws another exception for, which nobody catches.
Unexpected(i) ==
    /\ AtReader(i, "reading", "ended")
    /\ socket[i] = "connected"
    /\ Crash
    /\ UNCHANGED <<socket, threads>>

\* The adapter goes out of reach or is switched off.
LinkDrops(i) ==
    /\ alive /\ socket[i] = "connected"
    /\ socket' = [socket EXCEPT ![i] = "lost"]
    /\ UNCHANGED <<alive, mainPc, attempts, mState, mBTSocket, threads, connectPc, mSocket, reader>>

\* An exception elsewhere in the application, in the camera's part of it for one.
Ended ==
    /\ alive
    /\ Crash
    /\ UNCHANGED <<mainPc, attempts, mState, mBTSocket, socket, threads, connectPc, mSocket, reader>>

-----------------------------------------------------------------------------

Init ==
    /\ alive = TRUE
    /\ mainPc = "idle"
    /\ attempts = 0
    /\ mState = "NONE"
    /\ mBTSocket = Nobody
    /\ socket = [i \in Attempts |-> "none"]
    /\ mConnectThread = Nobody
    /\ mConnectedThread = Nobody
    /\ connectPc = [i \in Attempts |-> "none"]
    /\ mSocket = [i \in Attempts |-> Nobody]
    /\ reader = [i \in Attempts |-> "none"]

UserStep == \E created \in {"created", "null"} : Connect(created)
MainStep == JoinEnds \/ Connected

ConnectStep(i) ==
    \/ PickUpSocket(i) \/ ConnectSucceeds(i) \/ ConnectFails(i) \/ NoSocket(i)
    \/ Settle(i) \/ Initialised(i)

ReaderStep(i) ==
    Collect(i) \/ Report(i) \/ ReportFails(i) \/ ReadFails(i) \/ ConnectionLost(i) \/ Unexpected(i)

Next ==
    \/ UserStep \/ MainStep \/ Ended
    \/ \E i \in Attempts : ConnectStep(i) \/ ReaderStep(i) \/ LinkDrops(i)

Spec == Init /\ [][Next]_vars

\* Threads run; the sleep and the timed join of the main thread end.  Nothing is
\* assumed of the user and of the link.
FairSpec ==
    /\ Spec
    /\ WF_vars(MainStep)
    /\ \A i \in Attempts : WF_vars(ConnectStep(i)) /\ WF_vars(ReaderStep(i))

-----------------------------------------------------------------------------
(* Properties *)

\* Every variable has its type: in particular no reference is to an attempt that has
\* not been made yet.
TypeOK ==
    /\ alive \in BOOLEAN
    /\ mainPc \in {"idle", "join", "sleep"}
    /\ attempts \in 0..MaxAttempts
    /\ mState \in {"NONE", "CONNECTING", "CONNECTED"}
    /\ mBTSocket \in 0..attempts
    /\ mConnectThread \in 0..attempts /\ mConnectedThread \in 0..attempts
    /\ socket \in [Attempts -> {"none", "null", "created", "connected", "lost", "closed"}]
    /\ connectPc \in [Attempts -> {"none", "start", "connect", "settle", "init", "done"}]
    /\ mSocket \in [Attempts -> 0..attempts]
    /\ reader \in [Attempts -> {"none", "reading", "report", "lost", "ended"}]

\* No socket is forgotten: one that is not closed belongs to the ConnectedThread
\* BluetoothIO refers to, or is the one connect() is working on.  In particular two
\* ConnectedThreads never talk to adapters at the same time.
SocketsAreOwned ==
    alive => \A i \in Attempts :
        socket[i] \in {"created", "connected", "lost"} =>
            i = mConnectedThread \/ (mainPc \in {"join", "sleep"} /\ i = mBTSocket)

\* A ConnectedThread whose connection is gone comes to its end: it does not spin on
\* a dead socket and does not wait for the monitor of BluetoothIO for ever.
DeadConnectionIsCleared ==
    \A i \in Attempts :
        (reader[i] # "none" /\ socket[i] \in {"lost", "closed"}) ~> (reader[i] = "ended" \/ ~alive)
=============================================================================
