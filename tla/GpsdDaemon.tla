----------------------------- MODULE GpsdDaemon -----------------------------
(***************************************************************************)
(* The event loop of gpsd (gpsd.c): a fixed pool of devices, a fixed pool  *)
(* of subscribers, a control socket, and the set of descriptors that       *)
(* pselect() waits on.  The main thread serves them in phases:             *)
(*                                                                         *)
(*   select -> pselect -> waiting -> accept -> control -> devices ->       *)
(*   clients -> release -> select                                          *)
(*                                                                         *)
(* This module is that thread alone, as in a daemon built with pps=no;     *)
(* GpsdThreads puts the PPS threads, which detach clients too, beside it.  *)
(* One action is what one pass of a loop body does for one device, client  *)
(* or command.  Peers are not under the daemon's control: what a read, a   *)
(* write or an open returns is chosen in the action.  A descriptor is a    *)
(* number the kernel hands out, the lowest free one, and hands out again   *)
(* once it is closed; the listening sockets have theirs outside Fds.       *)
(*                                                                         *)
(* Timestamps appear as the number of ticks since they were taken, which   *)
(* saturates where no comparison of the code tells the values apart.       *)
(***************************************************************************)
EXTENDS Integers, FiniteSets

CONSTANTS
    MaxDevices,      \* MAXDEVICES, slots of devices[]
    MaxSubscribers,  \* MAXSUBSCRIBERS, slots of subscribers[]
    Fds,             \* descriptors the kernel can hand out
    Paths, NoPath,   \* device names, and the empty string
    CommandLine,     \* the devices named on the command line
    RtcmPaths,       \* the devices that deliver RTCM packets
    Nowait,          \* option -n
    ControlSocket,   \* option -F, CONTROL_SOCKET_ENABLE
    Reconfigure,     \* RECONFIGURE_ENABLE
    MaxLeaked,       \* bound on the opens that leave a descriptor behind
    ClockRuns,       \* FALSE freezes the clock (all that happens takes no time)
    COMMAND_TIMEOUT, RELEASE_TIMEOUT, DEVICE_REAWAKE, DEVICE_RECONNECT \* in ticks

ASSUME GpsdAssumption ==
    /\ MaxDevices \in Nat \ {0} /\ MaxSubscribers \in Nat \ {0} /\ MaxLeaked \in Nat
    /\ Fds \subseteq Nat \ {0} /\ IsFiniteSet(Fds)
    /\ NoPath \notin Paths
    /\ CommandLine \subseteq Paths /\ RtcmPaths \subseteq Paths
    /\ {Nowait, ControlSocket, Reconfigure, ClockRuns} \subseteq BOOLEAN
    /\ {COMMAND_TIMEOUT, RELEASE_TIMEOUT, DEVICE_REAWAKE, DEVICE_RECONNECT} \subseteq Nat

Slots == 1..MaxDevices
Subs == 1..MaxSubscribers

VARIABLES
    devices,      \* devices[]
    subs,         \* subscribers[]
    all_fds,      \* the set pselect() is given
    rfds,         \* its copy, of which pselect() leaves what is ready
    control_fds,  \* connections on the control socket
    opened,       \* descriptors open in the kernel
    leaked,       \* those of opens that failed when the terminal had been opened
    calls,        \* listening sockets with a connection to accept
    pc,           \* phase of the loop
    todo,         \* indices the loop of this phase has yet to visit
    rousing,      \* devices the current request has yet to awaken
    naming        \* command-line devices yet to be added

vars == <<devices, subs, all_fds, rfds, control_fds, opened, leaked, calls, pc, todo, rousing,
          naming>>
tables == <<devices, subs, all_fds, opened, leaked>>

-----------------------------------------------------------------------------
(* Time *)

None == -1   \* a timestamp of 0: not set
Now == 0
Timeouts == {COMMAND_TIMEOUT, RELEASE_TIMEOUT, DEVICE_REAWAKE, DEVICE_RECONNECT}

\* Mutant of Older: now and then are swapped.
OlderBackwards(age) == IF \A t \in Timeouts : age > t THEN age ELSE age - 1

Older(age) == IF age = None \/ \A t \in Timeouts : age > t THEN age ELSE age + 1

-----------------------------------------------------------------------------
(* Devices and subscribers *)

NoFd == -1   \* UNALLOCATED_FD, BAD_SOCKET

NoDevice == [path |-> NoPath, fd |-> NoFd, driver |-> FALSE, packet |-> FALSE,
             zerokill |-> FALSE, reawake |-> None, releasetime |-> None, opentime |-> None]

NoClient == [fd |-> NoFd, active |-> None, watcher |-> FALSE, devpath |-> NoPath]

Allocated(s) == devices[s].path # NoPath
Open(s) == devices[s].fd # NoFd
Active(i) == subs[i].active # None

Subscribed(i, s) == subs[i].watcher /\ subs[i].devpath \in {NoPath, devices[s].path}
Listeners(s) == {i \in Subs : Active(i) /\ Subscribed(i, s)}
Needed(s) == Nowait \/ Listeners(s) # {}

\* The descriptor open() or accept() returns when it succeeds.
LowestFree(fd) == fd \in Fds \ opened /\ \A other \in Fds \ opened : fd <= other

DeviceFd(s) == {devices[s].fd} \ {NoFd}
ClientFds(gone) == {subs[i].fd : i \in gone} \ {NoFd}

\* Mutant of Detached: the policy of the client stays in the slot.
DetachedPolicyStays(gone) ==
    [i \in Subs |-> IF i \in gone /\ subs[i].fd # NoFd
                    THEN [subs[i] EXCEPT !.fd = NoFd, !.active = None] ELSE subs[i]]

\* detach_client() for every client in gone; one without a descriptor is left as it is.
Detached(gone) == [i \in Subs |-> IF i \in gone /\ subs[i].fd # NoFd THEN NoClient ELSE subs[i]]

\* Mutant of StillWatched: a closed descriptor stays in all_fds.
StillWatchedAll(closed) == all_fds

\* FD_CLR() of descriptors that are closed.
StillWatched(closed) == all_fds \ closed

\* Clients that a write reached too late or not at all are detached.
Drop(gone) ==
    /\ subs' = Detached(gone)
    /\ opened' = opened \ ClientFds(gone)
    /\ all_fds' = StillWatched(ClientFds(gone))
    /\ leaked' = leaked

\* gpsd_activate(): the device in record d has been opened on fd, and a driver may
\* have recognised it; gpsd_clear().
Acquired(d, fd, probed) ==
    [d EXCEPT !.fd = fd, !.driver = @ \/ probed, !.packet = FALSE, !.releasetime = None,
              !.opentime = Now]

\* Mutant of ClosedFd: gpsd_close() forgets to reset gps_fd.
ClosedFdKept(s) == devices[s].fd

ClosedFd(s) == NoFd

\* deactivate_device() on slot s, whose record ends up as d: its watchers are
\* notified, which detaches those in gone, and its descriptor is closed.
Deactivate(s, d, gone) ==
    LET closed == DeviceFd(s) \cup ClientFds(gone)
    IN  /\ devices' = [devices EXCEPT ![s] = [d EXCEPT !.fd = ClosedFd(s)]]
        /\ subs' = Detached(gone)
        /\ opened' = opened \ closed
        /\ all_fds' = StillWatched(closed)
        /\ leaked' = leaked

\* What an open that fails may leave open: gpsd_serial_open() does not close the
\* descriptor of a terminal whose settings it cannot read.
LeftOpen ==
    {{}} \cup {{fd} : fd \in {free \in Fds : LowestFree(free) /\ Cardinality(leaked) < MaxLeaked}}

\* open_device() and awaken(): the descriptor, if there is one, is flagged.
Activate(s) ==
    \/ \E fd \in Fds, probed \in BOOLEAN :
          /\ LowestFree(fd)
          /\ devices' = [devices EXCEPT ![s] = Acquired(@, fd, probed)]
          /\ opened' = opened \cup {fd}
          /\ all_fds' = all_fds \cup {fd}
          /\ leaked' = leaked
    \/ \E left \in LeftOpen :   \* the open failed
          /\ opened' = opened \cup left
          /\ leaked' = leaked \cup left
          /\ UNCHANGED <<devices, all_fds>>

FreeSlots == {s \in Slots : ~Allocated(s)}

\* gpsd_add_device(): the first free slot is initialised and, with -n, opened
\* at once; whoever watches everything is notified.
AddDevice(p) ==
    \/ /\ FreeSlots = {}
       /\ UNCHANGED tables
    \/ \E s \in FreeSlots, gone \in SUBSET Subs :
          LET d == [NoDevice EXCEPT !.path = p, !.releasetime = devices[s].releasetime,
                                    !.opentime = devices[s].opentime]
          IN  /\ \A t \in FreeSlots : s <= t
              /\ \A i \in gone : Active(i) /\ subs[i].watcher /\ subs[i].devpath \in {NoPath, p}
              /\ subs' = Detached(gone)
              /\ \/ \E left \in LeftOpen :
                       /\ Nowait \/ left = {}
                       /\ devices' = [devices EXCEPT ![s] = d]
                       /\ opened' = (opened \ ClientFds(gone)) \cup left
                       /\ all_fds' = StillWatched(ClientFds(gone))
                       /\ leaked' = leaked \cup left
                 \/ \E fd \in Fds, probed \in BOOLEAN :
                       /\ Nowait
                       /\ LowestFree(fd)
                       /\ devices' = [devices EXCEPT ![s] = Acquired(d, fd, probed)]
                       /\ opened' = (opened \ ClientFds(gone)) \cup {fd}
                       /\ all_fds' = StillWatched(ClientFds(gone)) \cup {fd}
                       /\ leaked' = leaked

-----------------------------------------------------------------------------
(* Phases *)

First(k) == k \in todo /\ \A other \in todo : k <= other

Following(phase) ==
    IF phase = "devices" THEN "clients" ELSE IF phase = "clients" THEN "release" ELSE "select"

Indices(phase) == IF phase = "clients" THEN Subs ELSE IF phase = "release" THEN Slots ELSE {}

\* The loop of this phase is done with index k.
Proceed(phase, k) ==
    IF todo = {k}
    THEN pc' = Following(phase) /\ todo' = Indices(Following(phase))
    ELSE pc' = phase /\ todo' = todo \ {k}

\* One device of the command line, at startup or after SIGHUP.
AddFromCommandLine(p) ==
    /\ pc = "start"
    /\ p \in naming
    /\ AddDevice(p)
    /\ naming' = naming \ {p}
    /\ UNCHANGED <<rfds, control_fds, calls, pc, todo, rousing>>

EnterLoop ==
    /\ pc = "start"
    /\ naming = {}
    /\ pc' = "select"
    /\ UNCHANGED <<tables, rfds, control_fds, calls, todo, rousing, naming>>

\* The set is copied for pselect() to work on.
CopySet ==
    /\ pc = "select"
    /\ rfds' = all_fds
    /\ pc' = "pselect"
    /\ UNCHANGED <<tables, control_fds, calls, todo, rousing, naming>>

\* pselect() looks the descriptors up and waits.  A closed one in the set makes it fail,
\* and the daemon exits.
Poll ==
    /\ pc = "pselect"
    /\ pc' = IF rfds \subseteq opened THEN "waiting" ELSE "exit"
    /\ UNCHANGED <<tables, rfds, control_fds, calls, todo, rousing, naming>>

\* pselect() returns with the descriptors in ready and connections in line.
Select(ready, line) ==
    /\ pc = "waiting"
    /\ ready \subseteq rfds
    /\ ready # {} \/ line # {}
    /\ rfds' = ready
    /\ calls' = line
    /\ pc' = "accept"
    /\ UNCHANGED <<tables, control_fds, todo, rousing, naming>>

-----------------------------------------------------------------------------
(* New connections *)

Vacant == {i \in Subs : subs[i].fd = NoFd}

\* Mutant of Admitted: the descriptor of the new client is not waited on.
AdmittedDeaf(fd) == all_fds

Admitted(fd) == all_fds \cup {fd}

\* accept(), allocate_client() and the version banner, which may fail.
AcceptClient ==
    /\ pc = "accept"
    /\ "client" \in calls
    /\ calls' = calls \ {"client"}
    /\ \E i \in Vacant, fd \in Fds :
          /\ \A j \in Vacant : i <= j
          /\ LowestFree(fd)
          /\ subs' = [subs EXCEPT ![i].fd = fd, ![i].active = Now]
          /\ opened' = opened \cup {fd}
          /\ all_fds' = Admitted(fd)
    /\ UNCHANGED <<devices, leaked, rfds, control_fds, pc, todo, rousing, naming>>

\* No slot, no descriptor, or the client did not get the banner: as if it had
\* never come.
RefuseClient ==
    /\ pc = "accept"
    /\ "client" \in calls
    /\ calls' = calls \ {"client"}
    /\ UNCHANGED <<tables, rfds, control_fds, pc, todo, rousing, naming>>

\* setsockopt() failed: the socket is closed, the slot stays marked with fd 0.
AcceptLingerFails ==
    /\ pc = "accept"
    /\ "client" \in calls
    /\ calls' = calls \ {"client"}
    /\ Fds \ opened # {}
    /\ \E i \in Vacant :
          /\ \A j \in Vacant : i <= j
          /\ subs' = [subs EXCEPT ![i].fd = 0]
    /\ UNCHANGED <<devices, all_fds, opened, leaked, rfds, control_fds, pc, todo, rousing, naming>>

AcceptControl ==
    /\ pc = "accept"
    /\ calls = {"control"}
    /\ calls' = {}
    /\ pc' = "control"
    /\ \/ \E fd \in Fds :
             /\ LowestFree(fd)
             /\ opened' = opened \cup {fd}
             /\ all_fds' = all_fds \cup {fd}
             /\ control_fds' = control_fds \cup {fd}
       \/ UNCHANGED <<opened, all_fds, control_fds>>   \* accept() failed
    /\ UNCHANGED <<devices, subs, leaked, rfds, todo, rousing, naming>>

NoCalls ==
    /\ pc = "accept"
    /\ calls = {}
    /\ pc' = "control"
    /\ UNCHANGED <<tables, rfds, control_fds, calls, todo, rousing, naming>>

-----------------------------------------------------------------------------
(* Commands on the control socket: handle_control() *)

InPool(p) == \E s \in Slots : devices[s].path = p

\* Mutant of CanAdd: a device that is in the pool already is added again.
CanAddAgain(p) == TRUE

CanAdd(p) == ~InPool(p)

\* +device
ControlAdd(p) ==
    /\ pc = "control"
    /\ control_fds # {}
    /\ CanAdd(p)
    /\ AddDevice(p)
    /\ UNCHANGED <<rfds, control_fds, calls, pc, todo, rousing, naming>>

\* -device
ControlRemove(p) ==
    /\ pc = "control"
    /\ control_fds # {}
    /\ \E s \in Slots :
          /\ devices[s].path = p
          /\ \A t \in Slots : devices[t].path = p => s <= t
          /\ \E gone \in SUBSET Listeners(s) :
                Deactivate(s, [devices[s] EXCEPT !.path = NoPath], gone)
    /\ UNCHANGED <<rfds, control_fds, calls, pc, todo, rousing, naming>>

\* The peer hangs up; the daemon has read from it until now.
ControlHangup(fd) ==
    /\ pc = "control"
    /\ fd \in control_fds
    /\ opened' = opened \ {fd}
    /\ all_fds' = StillWatched({fd})
    /\ control_fds' = control_fds \ {fd}
    /\ UNCHANGED <<devices, subs, leaked, rfds, calls, pc, todo, rousing, naming>>

ControlDone ==
    /\ pc = "control"
    /\ control_fds = {}
    /\ pc' = "devices"
    /\ todo' = Slots
    /\ UNCHANGED <<tables, rfds, control_fds, calls, rousing, naming>>

-----------------------------------------------------------------------------
(* Devices: consume_packets() *)

Readable(s) ==
    /\ pc = "devices"
    /\ First(s)
    /\ Allocated(s)
    /\ devices[s].fd \in rfds

\* Data head off the reawake special case.
Refreshed(d) == [d EXCEPT !.zerokill = FALSE, !.reawake = None]

\* The read or the packet sniffer failed, after good packets or at once.
ReadError(s) ==
    /\ Readable(s)
    /\ \E d \in {devices[s], Refreshed(devices[s])}, gone \in SUBSET Listeners(s) :
          Deactivate(s, d, gone)
    /\ Proceed("devices", s)
    /\ UNCHANGED <<rfds, control_fds, calls, rousing, naming>>

\* Zero bytes after a reawake: the device is given up.
ReadNothingAgain(s) ==
    /\ Readable(s)
    /\ devices[s].zerokill
    /\ \E gone \in SUBSET Listeners(s) : Deactivate(s, devices[s], gone)
    /\ Proceed("devices", s)
    /\ UNCHANGED <<rfds, control_fds, calls, rousing, naming>>

\* Mutant of RepollAt: the time to reawake the device is not noted.
RepollNever == None

RepollAt == Now

\* Zero bytes: do not listen for a while.
ReadNothing(s) ==
    /\ Readable(s)
    /\ ~devices[s].zerokill
    /\ devices' = [devices EXCEPT ![s].reawake = RepollAt]
    /\ all_fds' = StillWatched(DeviceFd(s))
    /\ Proceed("devices", s)
    /\ UNCHANGED <<subs, opened, leaked, rfds, control_fds, calls, rousing, naming>>

\* Data, and what the packets in it identify: the packet type, which a change of
\* the line speed puts in doubt again, and the driver.  Reporting them to the
\* listeners detaches those that cannot be written to.
ReadData(s) ==
    /\ Readable(s)
    /\ \E known \in BOOLEAN, driver \in {devices[s].driver, TRUE}, gone \in SUBSET Listeners(s) :
          /\ devices' = [devices EXCEPT ![s] =
                            [Refreshed(@) EXCEPT !.packet = known, !.driver = driver]]
          /\ Drop(gone)
    /\ Proceed("devices", s)
    /\ UNCHANGED <<rfds, control_fds, calls, rousing, naming>>

\* An RTCM packet is relayed to every device in the pool through its driver,
\* and a device without one brings the daemon down.
RelayRtcm(s) ==
    /\ Readable(s)
    /\ devices[s].path \in RtcmPaths
    /\ LET pool == [devices EXCEPT ![s] = [Refreshed(@) EXCEPT !.packet = TRUE, !.driver = TRUE]]
       IN  /\ devices' = pool
           /\ IF \A t \in Slots : Allocated(t) => pool[t].driver
              THEN Proceed("devices", s)
              ELSE pc' = "crash" /\ UNCHANGED todo
    /\ UNCHANGED <<subs, all_fds, opened, leaked, rfds, control_fds, calls, rousing, naming>>

Reawakens(s) ==
    /\ Allocated(s)
    /\ Open(s)
    /\ devices[s].fd \notin rfds
    /\ devices[s].reawake > DEVICE_REAWAKE

\* Mutant of Rewatched: the reawakened device is not listened to.
RewatchedNot(s) == all_fds

Rewatched(s) == all_fds \cup {devices[s].fd}

\* It had a zero-length read, and some input since or the end of the line.
Reawake(s) ==
    /\ pc = "devices"
    /\ First(s)
    /\ Reawakens(s)
    /\ devices' = [devices EXCEPT ![s].reawake = None, ![s].zerokill = TRUE]
    /\ all_fds' = Rewatched(s)
    /\ Proceed("devices", s)
    /\ UNCHANGED <<subs, opened, leaked, rfds, control_fds, calls, rousing, naming>>

PassDevice(s) ==
    /\ pc = "devices"
    /\ First(s)
    /\ ~Readable(s) /\ ~Reawakens(s)
    /\ Proceed("devices", s)
    /\ UNCHANGED <<tables, rfds, control_fds, calls, rousing, naming>>

-----------------------------------------------------------------------------
(* Clients: handle_gpsd_request() *)

AtClient(i) == pc = "clients" /\ First(i)

Expired(i) == ~subs[i].watcher /\ subs[i].active > COMMAND_TIMEOUT

\* The connection is gone, or the client has not asked for anything in time.
LoseClient(i) ==
    /\ AtClient(i)
    /\ Active(i)
    /\ subs[i].fd \in rfds \/ Expired(i)
    /\ Drop({i})
    /\ Proceed("clients", i)
    /\ UNCHANGED <<devices, rfds, control_fds, calls, rousing, naming>>

PassClient(i) ==
    /\ AtClient(i)
    /\ ~Active(i) \/ (subs[i].fd \notin rfds /\ ~Expired(i))
    /\ Proceed("clients", i)
    /\ UNCHANGED <<tables, rfds, control_fds, calls, rousing, naming>>

\* A line has arrived; it holds any number of requests.
ReceiveLine(i) ==
    /\ AtClient(i)
    /\ Active(i)
    /\ subs[i].fd \in rfds
    /\ subs' = [subs EXCEPT ![i].active = Now]
    /\ pc' = "request"
    /\ UNCHANGED <<devices, all_fds, opened, leaked, rfds, control_fds, calls, todo, rousing,
                   naming>>

Requesting(i) == pc = "request" /\ rousing = {} /\ First(i)

\* ?WATCH=... : the policy changes, and if it makes the client a watcher the
\* devices it selects are awakened.  A path that is not in the pool is an error,
\* but the policy stays.
Watch(i, enable, p) ==
    /\ Requesting(i)
    /\ subs' = [subs EXCEPT ![i].watcher = enable, ![i].devpath = p]
    /\ rousing' = IF enable
                  THEN {s \in Slots : Allocated(s) /\ p \in {NoPath, devices[s].path}}
                  ELSE {}
    /\ UNCHANGED <<devices, all_fds, opened, leaked, rfds, control_fds, calls, pc, todo, naming>>

\* Ill-formed JSON after ?WATCH= : the defaults, and whatever was parsed before
\* the error, are in the policy already.
BadWatch(i, enable, p) ==
    /\ Requesting(i)
    /\ subs' = [subs EXCEPT ![i].watcher = enable, ![i].devpath = p]
    /\ UNCHANGED <<devices, all_fds, opened, leaked, rfds, control_fds, calls, pc, todo, rousing,
                   naming>>

\* ?DEVICE={"path":...} first awakens the device.
SelectDevice(i, s) ==
    /\ Requesting(i)
    /\ Reconfigure
    /\ Allocated(s)
    /\ rousing' = {s}
    /\ UNCHANGED <<tables, rfds, control_fds, calls, pc, todo, naming>>

\* awaken() on the next of the devices that a request selects.
Awaken(s) ==
    /\ pc = "request"
    /\ s \in rousing /\ \A t \in rousing : s <= t
    /\ rousing' = rousing \ {s}
    /\ IF Open(s) THEN UNCHANGED <<devices, opened, leaked, all_fds>> ELSE Activate(s)
    /\ UNCHANGED <<subs, rfds, control_fds, calls, pc, todo, naming>>

PrivilegedUser(s) == Cardinality(Listeners(s)) = 1

\* ?DEVICE= applied to a device that is awake, or is the only one in the pool:
\* changing the speed resets the packet sniffer.
Configure(i, s) ==
    /\ Requesting(i)
    /\ Reconfigure
    /\ Allocated(s)
    /\ Open(s) \/ \A t \in Slots : Allocated(t) => t = s
    /\ PrivilegedUser(s)
    /\ devices[s].driver
    /\ devices' = [devices EXCEPT ![s].packet = FALSE]
    /\ UNCHANGED <<subs, all_fds, opened, leaked, rfds, control_fds, calls, pc, todo, rousing,
                   naming>>

\* The reply to the whole line, or the loss of the client that does not take it.
Reply(i) ==
    /\ Requesting(i)
    /\ \E gone \in SUBSET {i} : Drop(gone)
    /\ Proceed("clients", i)
    /\ UNCHANGED <<devices, rfds, control_fds, calls, rousing, naming>>

-----------------------------------------------------------------------------
(* Devices nobody needs, and devices that are needed but closed *)

\* Mutant of Idle: who is subscribed does not count.
IdleAnyway(s) == Allocated(s) /\ Open(s) /\ devices[s].packet

Idle(s) == Allocated(s) /\ ~Needed(s) /\ Open(s) /\ devices[s].packet
Missing(s) ==
    /\ Allocated(s) /\ Needed(s) /\ ~Open(s)
    /\ devices[s].opentime = None \/ devices[s].opentime > DEVICE_RECONNECT

\* Mutant of MarkTime: the moment of the release is not noted.
MarkTimeLost == None

MarkTime == Now

Mark(s) ==
    /\ pc = "release"
    /\ First(s)
    /\ Idle(s)
    /\ devices[s].releasetime = None
    /\ devices' = [devices EXCEPT ![s].releasetime = MarkTime]
    /\ Proceed("release", s)
    /\ UNCHANGED <<subs, all_fds, opened, leaked, rfds, control_fds, calls, rousing, naming>>

Release(s) ==
    /\ pc = "release"
    /\ First(s)
    /\ Idle(s)
    /\ devices[s].releasetime > RELEASE_TIMEOUT
    /\ Deactivate(s, devices[s], {})
    /\ Proceed("release", s)
    /\ UNCHANGED <<rfds, control_fds, calls, rousing, naming>>

\* Mutants of Reconnects: no attempt is ever due; free slots are not passed over.
ReconnectsNever(s) == FALSE
ReconnectsFreed(s) == Needed(s) /\ ~Open(s)

Reconnects(s) == Missing(s)

\* A reconnection attempt that succeeds, and one that does not.
Reconnect(s) ==
    /\ pc = "release"
    /\ First(s)
    /\ Reconnects(s)
    /\ \E fd \in Fds, probed \in BOOLEAN :
          /\ LowestFree(fd)
          /\ devices' = [devices EXCEPT ![s] = Acquired(@, fd, probed)]
          /\ opened' = opened \cup {fd}
          /\ all_fds' = all_fds \cup {fd}
    /\ Proceed("release", s)
    /\ UNCHANGED <<subs, leaked, rfds, control_fds, calls, rousing, naming>>

ReconnectFails(s) ==
    /\ pc = "release"
    /\ First(s)
    /\ Reconnects(s)
    /\ devices' = [devices EXCEPT ![s].opentime = Now]
    /\ \E left \in LeftOpen : opened' = opened \cup left /\ leaked' = leaked \cup left
    /\ Proceed("release", s)
    /\ UNCHANGED <<subs, all_fds, rfds, control_fds, calls, rousing, naming>>

LeaveDevice(s) ==
    /\ pc = "release"
    /\ First(s)
    /\ ~Reconnects(s)
    /\ Idle(s) => devices[s].releasetime # None /\ ~(devices[s].releasetime > RELEASE_TIMEOUT)
    /\ Proceed("release", s)
    /\ UNCHANGED <<tables, rfds, control_fds, calls, rousing, naming>>

-----------------------------------------------------------------------------
(* The clock, and the signals, which are blocked except in pselect() *)

Tick ==
    /\ ClockRuns
    /\ pc \notin {"exit", "crash"}
    /\ devices' = [s \in Slots |-> [devices[s] EXCEPT !.reawake = Older(@),
                                        !.releasetime = Older(@), !.opentime = Older(@)]]
    /\ subs' = [i \in Subs |-> [subs[i] EXCEPT !.active = Older(@)]]
    /\ UNCHANGED <<all_fds, opened, leaked, rfds, control_fds, calls, pc, todo, rousing, naming>>

\* SIGTERM, SIGINT, SIGQUIT: devices and clients are closed.
Terminate ==
    /\ pc = "waiting"
    /\ devices' = [s \in Slots |-> [devices[s] EXCEPT !.fd = ClosedFd(s)]]
    /\ subs' = Detached({i \in Subs : Active(i)})
    /\ all_fds' = StillWatched(ClientFds({i \in Subs : Active(i)}))
    /\ opened' = opened \ ((UNION {DeviceFd(s) : s \in Slots})
                            \cup ClientFds({i \in Subs : Active(i)}))
    /\ pc' = "exit"
    /\ UNCHANGED <<leaked, rfds, control_fds, calls, todo, rousing, naming>>

\* SIGHUP: gpsd_wrap() closes the devices, the command line is read again.
Hangup ==
    /\ pc = "waiting"
    /\ devices' = [s \in Slots |-> [devices[s] EXCEPT !.fd = ClosedFd(s)]]
    /\ opened' = opened \ (UNION {DeviceFd(s) : s \in Slots})
    /\ naming' = CommandLine
    /\ pc' = "start"
    /\ UNCHANGED <<subs, all_fds, leaked, rfds, control_fds, calls, todo, rousing>>

-----------------------------------------------------------------------------

Init ==
    /\ devices = [s \in Slots |-> NoDevice]
    /\ subs = [i \in Subs |-> NoClient]
    /\ all_fds = {} /\ rfds = {} /\ control_fds = {}
    /\ opened = {} /\ leaked = {}
    /\ calls = {}
    /\ pc = "start"
    /\ todo = {} /\ rousing = {}
    /\ naming = CommandLine

Listening == IF ControlSocket THEN {"client", "control"} ELSE {"client"}

Traffic == \E ready \in SUBSET rfds, line \in SUBSET Listening : Select(ready, line)

Wait == CopySet \/ Poll \/ Traffic

StartStep == EnterLoop \/ \E p \in Paths : AddFromCommandLine(p)

AcceptStep == AcceptClient \/ RefuseClient \/ AcceptLingerFails \/ AcceptControl \/ NoCalls

ControlStep ==
    \/ \E p \in Paths : ControlAdd(p) \/ ControlRemove(p)
    \/ \E fd \in Fds : ControlHangup(fd)
    \/ ControlDone

DeviceStep(s) ==
    \/ ReadError(s) \/ ReadNothing(s) \/ ReadNothingAgain(s) \/ ReadData(s) \/ RelayRtcm(s)
    \/ Reawake(s) \/ PassDevice(s)

RequestStep(i) ==
    \/ \E enable \in BOOLEAN, p \in Paths \cup {NoPath} : Watch(i, enable, p) \/ BadWatch(i, enable, p)
    \/ \E s \in Slots : SelectDevice(i, s) \/ Configure(i, s)

ClientStep(i) == LoseClient(i) \/ PassClient(i) \/ ReceiveLine(i) \/ RequestStep(i) \/ Reply(i)

ReleaseStep(s) == Mark(s) \/ Release(s) \/ Reconnect(s) \/ ReconnectFails(s) \/ LeaveDevice(s)

\* One step of the main thread.
Loop ==
    \/ StartStep \/ Wait \/ AcceptStep \/ ControlStep
    \/ \E s \in Slots : DeviceStep(s) \/ Awaken(s) \/ ReleaseStep(s)
    \/ \E i \in Subs : ClientStep(i)
    \/ Terminate

Next == Loop \/ Tick

\* A daemon that is not restarted.
Spec == Init /\ [][Next]_vars

\* One that may get SIGHUP.
HupSpec == Init /\ [][Next \/ Hangup]_vars

\* What the daemon itself has to do until it is back in pselect().
Progress ==
    \/ StartStep \/ CopySet \/ Poll \/ AcceptStep
    \/ (\E fd \in Fds : ControlHangup(fd)) \/ ControlDone
    \/ \E s \in Slots : DeviceStep(s) \/ Awaken(s) \/ ReleaseStep(s)
    \/ \E i \in Subs : LoseClient(i) \/ PassClient(i) \/ ReceiveLine(i) \/ Reply(i)

\* The descriptor of a device that is waited on becomes readable.
DeviceReady(s) == Open(s) /\ Select({devices[s].fd}, {})

\* The thread is scheduled, a line of requests is finite, control peers hang up,
\* the clock runs, and a device that is listened to has something to say (data, or
\* its end of file) again and again.  Nothing is assumed of the clients.
QuietSpec ==
    /\ Spec
    /\ WF_vars(Progress)
    /\ SF_vars(\E i \in Subs : Reply(i))
    /\ WF_vars(Tick)
    /\ \A s \in Slots : WF_vars(DeviceReady(s))

\* There is always traffic on some descriptor, so that the loop turns, and a
\* device that is retried for ever opens at last (while descriptors are left, which
\* MaxLeaked has to see to).
BusySpec ==
    /\ QuietSpec
    /\ WF_vars(Traffic)
    /\ \A s \in Slots : SF_vars(Reconnect(s))

-----------------------------------------------------------------------------
(* Properties *)

Running == pc \notin {"exit", "crash"}
Age == Nat \cup {None}

\* The tables hold descriptors the kernel gave out, names of devices, and ages or
\* "not set"; the loop is in one of its phases.
TypeOK ==
    /\ devices \in [Slots -> [path : Paths \cup {NoPath}, fd : Fds \cup {NoFd},
                              driver : BOOLEAN, packet : BOOLEAN, zerokill : BOOLEAN,
                              reawake : Age, releasetime : Age, opentime : Age]]
    /\ subs \in [Subs -> [fd : Fds \cup {NoFd, 0}, active : Age, watcher : BOOLEAN,
                          devpath : Paths \cup {NoPath}]]
    /\ all_fds \subseteq Fds /\ rfds \subseteq Fds /\ control_fds \subseteq Fds
    /\ opened \subseteq Fds /\ leaked \subseteq Fds
    /\ calls \subseteq {"client", "control"}
    /\ pc \in {"start", "select", "pselect", "waiting", "accept", "control", "devices",
               "clients", "request", "release", "exit", "crash"}
    /\ todo \subseteq Slots \cup Subs
    /\ rousing \subseteq Slots
    /\ naming \subseteq Paths

\* Every descriptor has one owner: no two devices, clients or control connections
\* share one, however often the kernel reuses the number.
OneOwner ==
    /\ \A s, t \in Slots : s # t /\ Open(s) => devices[s].fd # devices[t].fd
    /\ \A i, j \in Subs : i # j /\ Active(i) => subs[i].fd # subs[j].fd
    /\ \A s \in Slots, i \in Subs : Open(s) => devices[s].fd # subs[i].fd
    /\ \A s \in Slots : devices[s].fd \notin control_fds
    /\ \A i \in Subs : subs[i].fd \notin control_fds

\* Every open descriptor has an owner, and no owner's descriptor is closed.  The one
\* exception are the descriptors that gpsd_serial_open() leaves open when it fails.
NoDescriptorLost ==
    \A fd \in Fds :
        fd \in opened <=> \/ \E s \in Slots : devices[s].fd = fd
                          \/ \E i \in Subs : Active(i) /\ subs[i].fd = fd
                          \/ fd \in control_fds
                          \/ fd \in leaked

\* pselect() is never given a closed descriptor, which would end the daemon
\* ("attempt to reconnect to any GPSes on its device list and resume listening").
SelectSetValid == pc = "pselect" => rfds \subseteq opened

\* Nobody is forgotten: the daemon waits on every client, and on every open
\* device unless the time to reawake it is noted.
EveryoneIsHeard ==
    /\ \A i \in Subs : Active(i) => subs[i].fd \in all_fds
    /\ \A s \in Slots : Open(s) => devices[s].fd \in all_fds \/ devices[s].reawake # None

\* A free slot holds nothing of the client that had it: the next client does
\* not inherit its subscription.
FreeSlotsAreClean ==
    \A i \in Subs : ~Active(i) => ~subs[i].watcher /\ subs[i].devpath = NoPath

\* A device is in the pool once: "+" of a device that is there is refused.  Of a daemon
\* that is not restarted: on SIGHUP the devices of the command line are added anew.
PathsAreUnique ==
    \A s, t \in Slots : s # t /\ Allocated(s) => devices[s].path # devices[t].path

\* An open device is in the pool, where the event loop can see it.
OpenDevicesAreInPool == \A s \in Slots : Open(s) => Allocated(s)

\* A device that an undisturbed watcher uses is not closed behind its back: it is
\* closed only on "-", on a failed read, or at the end.
WatchedDeviceStaysOpen ==
    [][\A s \in Slots :
        /\ Open(s) /\ devices'[s].fd # devices[s].fd
        /\ \E i \in Listeners(s) : subs'[i].fd = subs[i].fd
        => pc \in {"control", "devices"}]_vars

\* RTCM packets are relayed "to all devices", and relaying survives it.
RelayDoesNotCrash == pc # "crash"

\* A device that had a zero-length read is polled again: listened to, or closed.
ZeroReadIsRepolled ==
    \A s \in Slots :
        devices[s].reawake # None ~> (devices[s].fd \in all_fds \/ ~Open(s))

\* A closed device that somebody watches is opened again.
WatchedDeviceReopens ==
    \A s \in Slots :
        (Allocated(s) /\ Needed(s) /\ ~Open(s))
            ~> (Open(s) \/ ~Allocated(s) \/ ~Needed(s) \/ ~Running)

\* An identified device that nobody watches any more does not stay open.
UnneededDeviceCloses == \A s \in Slots : []<>~Idle(s)
=============================================================================
