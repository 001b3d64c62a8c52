------------------------- MODULE GpsdDaemon_proofs -------------------------
(***************************************************************************)
(* Proofs about GpsdDaemon, for any number of devices, clients, paths and  *)
(* descriptors, with and without SIGHUP, control socket and option -n.     *)
(***************************************************************************)
EXTENDS GpsdThreads, TLAPS

DeviceRecord == [path : Paths \cup {NoPath}, fd : Fds \cup {NoFd},
                 driver : BOOLEAN, packet : BOOLEAN, zerokill : BOOLEAN,
                 reawake : Age, releasetime : Age, opentime : Age]
ClientRecord == [fd : Fds \cup {NoFd, 0}, active : Age, watcher : BOOLEAN,
                 devpath : Paths \cup {NoPath}]

TablesType ==
    /\ devices \in [Slots -> DeviceRecord]
    /\ subs \in [Subs -> ClientRecord]
    /\ all_fds \subseteq Fds /\ control_fds \subseteq Fds
    /\ opened \subseteq Fds /\ leaked \subseteq Fds

\* The descriptor of a client, and the absence of one in a free slot.
ClientInv ==
    \A i \in Subs : IF Active(i) THEN subs[i].fd \in Fds ELSE subs[i].fd \in {NoFd, 0}

\* What an open that failed has left behind is nobody's.
LeaksAreNobodys ==
    /\ \A s \in Slots : devices[s].fd \notin leaked
    /\ \A i \in Subs : subs[i].fd \notin leaked
    /\ control_fds \cap leaked = {}

\* What holds of the tables between any two steps.
TablesInv ==
    /\ TablesType /\ ClientInv /\ FreeSlotsAreClean /\ OpenDevicesAreInPool
    /\ OneOwner /\ NoDescriptorLost /\ LeaksAreNobodys /\ EveryoneIsHeard

LoopType ==
    /\ rfds \subseteq Fds
    /\ calls \subseteq {"client", "control"}
    /\ pc \in {"start", "select", "pselect", "waiting", "accept", "control", "devices",
               "clients", "request", "release", "exit", "crash"}
    /\ todo \subseteq Slots \cup Subs
    /\ rousing \subseteq Slots
    /\ naming \subseteq Paths

\* If select() reported the descriptor of s, then s is listened to.
Ready(s) == devices[s].fd \in rfds => devices[s].fd \in all_fds

\* A device about to be polled is listened to, though rfds may be out of date.
ReadyInv ==
    \A s \in Slots :
        pc \in {"pselect", "waiting", "accept", "control"} \/ (pc = "devices" /\ s \in todo) => Ready(s)

\* Only devices in the pool are awakened, only while a request is handled, and the
\* client that made it is there.
RequestInv ==
    /\ \A s \in rousing : pc = "request" /\ Allocated(s)
    /\ pc = "request" => \A i \in Subs : First(i) => Active(i)

IInv == TablesInv /\ LoopType /\ ReadyInv /\ RequestInv

LEMMA OlderType == \A a \in Age : Older(a) \in Age /\ (Older(a) = None <=> a = None)
  BY DEF Older, Age, None

LEMMA ProceedFacts ==
    ASSUME NEW phase \in {"devices", "clients", "release"}, NEW k, Proceed(phase, k),
           todo \subseteq Slots \cup Subs
    PROVE  /\ todo' \subseteq Slots \cup Subs
           /\ pc' \in {"devices", "clients", "release", "select"}
           /\ pc' = "devices" => phase = "devices" /\ todo' = todo \ {k}
  BY DEF Proceed, Following, Indices

LEMMA RecordTypes ==
    /\ NoDevice \in DeviceRecord
    /\ NoClient \in ClientRecord
  BY DEF NoDevice, NoClient, DeviceRecord, ClientRecord, Age, None, NoFd

LEMMA AcquiredType ==
    ASSUME NEW d \in DeviceRecord, NEW fd \in Fds, NEW probed \in BOOLEAN
    PROVE  /\ Acquired(d, fd, probed) \in DeviceRecord
           /\ Acquired(d, fd, probed).fd = fd /\ Acquired(d, fd, probed).path = d.path
  <1>1. None \in Age /\ Now \in Age
    BY DEF None, Now, Age
  <1> QED
    BY <1>1 DEF Acquired, DeviceRecord

\* detach_client() keeps the type, and takes the descriptors with it.
LEMMA DetachedFacts ==
    ASSUME TablesType, ClientInv, FreeSlotsAreClean, NEW gone \in SUBSET Subs
    PROVE  /\ Detached(gone) \in [Subs -> ClientRecord]
           /\ \A i \in Subs : Detached(gone)[i] = IF i \in gone THEN NoClient ELSE subs[i]
  <1>1. ASSUME NEW i \in Subs, subs[i].fd = NoFd PROVE subs[i] = NoClient
    <2>1. ~Active(i)
      BY <1>1, GpsdAssumption DEF ClientInv, NoFd
    <2>2. subs[i].active = None /\ subs[i].watcher = FALSE /\ subs[i].devpath = NoPath
      BY <2>1 DEF Active, FreeSlotsAreClean
    <2> QED
      BY <1>1, <2>2 DEF TablesType, ClientRecord, NoClient
  <1> QED
    BY <1>1, RecordTypes DEF Detached, TablesType

\* Clients that are lost take their descriptors with them; the devices change at
\* most in fields that no descriptor depends on.
LEMMA DropKeeps ==
    ASSUME TablesInv, NEW gone \in SUBSET Subs, Drop(gone), rfds' = rfds,
           devices' \in [Slots -> DeviceRecord],
           \A s \in Slots : /\ devices'[s].fd = devices[s].fd
                            /\ devices'[s].path = devices[s].path
                            /\ devices'[s].reawake # devices[s].reawake
                                  => devices[s].fd \in all_fds,
           control_fds' = control_fds
    PROVE  TablesInv' /\ \A s \in Slots : Ready(s) => Ready(s)'
  <1> USE DEF TablesInv
  <1> USE DetachedFacts, GpsdAssumption DEF Drop, StillWatched, ClientFds
  <1>1. TablesType'
    BY DEF TablesType
  <1>2. ClientInv' /\ FreeSlotsAreClean'
    BY DEF TablesType, ClientInv, FreeSlotsAreClean, Active, NoClient
  <1>3. OpenDevicesAreInPool'
    BY DEF OpenDevicesAreInPool, Open, Allocated
  <1>4. OneOwner'
    BY DEF OneOwner, TablesType, ClientInv, Open, Active, NoClient, NoFd, None
  <1>5. NoDescriptorLost' /\ LeaksAreNobodys'
    BY DEF NoDescriptorLost, LeaksAreNobodys, OneOwner, TablesType, ClientInv, Open, Active,
           NoClient, NoFd, None
  <1>6. EveryoneIsHeard'
    BY DEF EveryoneIsHeard, OneOwner, TablesType, ClientInv, Open, Active, NoClient, NoFd, None
  <1>7. ASSUME NEW s \in Slots, Ready(s) PROVE Ready(s)'
    BY <1>7 DEF Ready, OneOwner, TablesType, Open, NoFd
  <1> QED
    BY <1>1, <1>2, <1>3, <1>4, <1>5, <1>6, <1>7

\* A slot is left with a closed device, whose descriptor is given back, and so are those
\* of the clients that the notification did not reach; an open may have left one behind.
LEMMA CloseKeeps ==
    ASSUME TablesInv, NEW s \in Slots, NEW d \in DeviceRecord, NEW gone \in SUBSET Subs,
           NEW left \in SUBSET (Fds \ opened),
           devices' = [devices EXCEPT ![s] = [d EXCEPT !.fd = NoFd]],
           subs' = Detached(gone),
           opened' = (opened \ (DeviceFd(s) \cup ClientFds(gone))) \cup left,
           all_fds' = StillWatched(DeviceFd(s) \cup ClientFds(gone)),
           leaked' = leaked \cup left,
           rfds \subseteq Fds, rfds' = rfds, control_fds' = control_fds
    PROVE  TablesInv' /\ \A t \in Slots : Ready(t) => Ready(t)'
  <1> USE DEF TablesInv
  <1> USE DetachedFacts, GpsdAssumption DEF StillWatched, ClientFds, DeviceFd
  <1>0. /\ NoFd \notin Fds
        /\ \A t \in Slots : devices'[t].fd = IF t = s THEN NoFd ELSE devices[t].fd
    BY DEF TablesType, DeviceRecord, NoFd
  <1>1. TablesType'
    BY DEF TablesType, DeviceRecord
  <1>2. ClientInv' /\ FreeSlotsAreClean'
    BY DEF TablesType, ClientInv, FreeSlotsAreClean, Active, NoClient
  <1>3. OpenDevicesAreInPool'
    BY DEF OpenDevicesAreInPool, TablesType, DeviceRecord, Open, Allocated
  <1>4. OneOwner'
    <2>1. \A t \in Slots : devices'[t].fd # NoFd => t # s
      BY <1>0
    <2>2. \A i \in Subs : Active(i)' => Active(i) /\ subs'[i] = subs[i]
      BY DEF Active, NoClient, TablesType
    <2>3. \A i \in Subs : subs'[i].fd \in {subs[i].fd, NoFd}
      BY DEF NoClient, TablesType
    <2> QED
      BY <1>0, <2>1, <2>2, <2>3 DEF OneOwner, ClientInv, TablesType, Open
  <1>8. \A fd \in left : /\ \A t \in Slots : devices[t].fd # fd
                         /\ \A i \in Subs : subs[i].fd # fd
                         /\ fd \notin control_fds /\ fd \notin leaked /\ fd # NoFd
    BY <1>0 DEF NoDescriptorLost, TablesType, ClientInv
  <1>9. LeaksAreNobodys'
    BY <1>0, <1>8 DEF LeaksAreNobodys, TablesType, NoClient
  <1>5. NoDescriptorLost'
    <2>1. ASSUME NEW fd \in Fds
          PROVE  /\ fd \in DeviceFd(s) <=> devices[s].fd = fd
                 /\ fd \in ClientFds(gone) <=> \E i \in gone : subs[i].fd = fd
      BY <1>0
    <2>2. ASSUME NEW fd \in Fds
          PROVE  /\ (\E t \in Slots : devices'[t].fd = fd) <=>
                        \E t \in Slots \ {s} : devices[t].fd = fd
                 /\ (\E i \in Subs : Active(i)' /\ subs'[i].fd = fd) <=>
                        \E i \in Subs \ gone : Active(i) /\ subs[i].fd = fd
      BY <1>0 DEF Active, NoClient, TablesType
    <2>3. ASSUME NEW fd \in Fds, fd \in DeviceFd(s) \cup ClientFds(gone)
          PROVE  /\ ~ \E t \in Slots \ {s} : devices[t].fd = fd
                 /\ ~ \E i \in Subs \ gone : Active(i) /\ subs[i].fd = fd
                 /\ fd \notin control_fds /\ fd \notin leaked
      BY <1>0, <2>1, <2>3 DEF OneOwner, LeaksAreNobodys, Open
    <2> QED
      BY <1>8, <2>1, <2>2, <2>3 DEF NoDescriptorLost
  <1>6. EveryoneIsHeard'
    BY SMTT(30) DEF EveryoneIsHeard, OneOwner, TablesType, DeviceRecord, ClientInv, Open, Active,
           NoClient, NoFd, None
  <1>7. ASSUME NEW t \in Slots, Ready(t) PROVE Ready(t)'
    BY <1>0, <1>7 DEF Ready, OneOwner, TablesType, Open
  <1> QED
    BY <1>1, <1>2, <1>3, <1>4, <1>5, <1>6, <1>7, <1>9

LEMMA DeactivateKeeps ==
    ASSUME TablesInv, NEW s \in Slots, NEW d \in DeviceRecord, NEW gone \in SUBSET Subs,
           Deactivate(s, d, gone), rfds \subseteq Fds, rfds' = rfds, control_fds' = control_fds
    PROVE  TablesInv' /\ \A t \in Slots : Ready(t) => Ready(t)'
  <1> DEFINE closed == DeviceFd(s) \cup ClientFds(gone)
  <1>1. /\ devices' = [devices EXCEPT ![s] = [d EXCEPT !.fd = NoFd]]
        /\ subs' = Detached(gone) /\ all_fds' = StillWatched(closed)
        /\ opened' = (opened \ closed) \cup {} /\ leaked' = leaked \cup {}
    BY DEF Deactivate, ClosedFd
  <1>2. {} \in SUBSET (Fds \ opened)
    OBVIOUS
  <1> QED
    BY <1>1, <1>2, CloseKeeps

\* A closed device of the pool that is opened gets a descriptor nobody has.
LEMMA AcquireKeeps ==
    ASSUME TablesInv, NEW s \in Slots, Allocated(s), ~Open(s), NEW fd \in Fds \ opened,
           NEW probed \in BOOLEAN,
           devices' = [devices EXCEPT ![s] = Acquired(@, fd, probed)],
           opened' = opened \cup {fd}, all_fds' = all_fds \cup {fd},
           UNCHANGED <<subs, leaked, control_fds, rfds>>
    PROVE  TablesInv' /\ \A t \in Slots : Ready(t) => Ready(t)'
  <1> USE GpsdAssumption DEF TablesInv
  <1>0. \A t \in Slots :
            /\ devices'[t].fd = IF t = s THEN fd ELSE devices[t].fd
            /\ devices'[t].path = devices[t].path
            /\ devices'[t] \in DeviceRecord
            /\ t # s => devices'[t] = devices[t]
    BY AcquiredType, SMTT(30) DEF TablesType
  <1>1. TablesType'
    BY AcquiredType DEF TablesType
  <1>2. ClientInv' /\ FreeSlotsAreClean'
    BY DEF ClientInv, FreeSlotsAreClean, Active
  <1>3. OpenDevicesAreInPool'
    BY <1>0 DEF OpenDevicesAreInPool, Open, Allocated
  <1>4. OneOwner'
    BY <1>0 DEF OneOwner, NoDescriptorLost, TablesType, ClientInv, Open, Active, NoFd, None
  <1>5. NoDescriptorLost' /\ LeaksAreNobodys'
    BY <1>0 DEF NoDescriptorLost, LeaksAreNobodys, TablesType, Open, Active, NoFd, None
  <1>6. EveryoneIsHeard'
    BY <1>0 DEF EveryoneIsHeard, Open, Active
  <1>7. ASSUME NEW t \in Slots, Ready(t) PROVE Ready(t)'
    BY <1>0, <1>7 DEF Ready
  <1> QED
    BY <1>1, <1>2, <1>3, <1>4, <1>5, <1>6, <1>7

\* An open that fails leaves the tables alone, but for what it does not close.
LEMMA LeftFacts ==
    \A left \in LeftOpen : left \in SUBSET (Fds \ opened)
  BY DEF LeftOpen, LowestFree

LEMMA LeakKeeps ==
    ASSUME TablesInv, NEW left \in LeftOpen, opened' = opened \cup left,
           leaked' = leaked \cup left, UNCHANGED <<devices, subs, all_fds, control_fds>>
    PROVE  TablesInv'
  <1>1. left \in SUBSET (Fds \ opened)
    BY LeftFacts
  <1>2. \A fd \in left : /\ \A t \in Slots : devices[t].fd # fd
                         /\ \A i \in Subs : subs[i].fd # fd
                         /\ fd \notin control_fds
    BY <1>1, GpsdAssumption DEF TablesInv, NoDescriptorLost, TablesType, ClientInv, NoFd
  <1>3. NoDescriptorLost' /\ LeaksAreNobodys'
    BY <1>1, <1>2 DEF TablesInv, NoDescriptorLost, LeaksAreNobodys, Active
  <1> QED
    BY <1>1, <1>3 DEF TablesInv, TablesType, ClientInv, FreeSlotsAreClean, OpenDevicesAreInPool,
                      OneOwner, EveryoneIsHeard, Open, Active, Allocated

LEMMA ActivateKeeps ==
    ASSUME TablesInv, NEW s \in Slots, Allocated(s), ~Open(s), Activate(s),
           UNCHANGED <<subs, control_fds, rfds>>
    PROVE  TablesInv'
  <1>1. ASSUME NEW left \in LeftOpen, opened' = opened \cup left, leaked' = leaked \cup left,
               UNCHANGED <<devices, all_fds>>
        PROVE  TablesInv'
    BY <1>1, LeakKeeps
  <1>2. ASSUME NEW fd \in Fds, NEW probed \in BOOLEAN,
               /\ LowestFree(fd)
               /\ devices' = [devices EXCEPT ![s] = Acquired(@, fd, probed)]
               /\ opened' = opened \cup {fd}
               /\ all_fds' = all_fds \cup {fd}
               /\ leaked' = leaked
        PROVE  TablesInv'
    BY <1>2, AcquireKeeps DEF LowestFree
  <1> QED
    BY <1>1, <1>2 DEF Activate

\* A free slot is filled with a closed device.
LEMMA FillKeeps ==
    ASSUME TablesInv, NEW s \in Slots, ~Allocated(s), NEW d \in DeviceRecord,
           d.path \in Paths, d.fd = NoFd, NEW gone \in SUBSET Subs,
           NEW left \in SUBSET (Fds \ opened),
           devices' = [devices EXCEPT ![s] = d], subs' = Detached(gone),
           opened' = (opened \ ClientFds(gone)) \cup left,
           all_fds' = StillWatched(ClientFds(gone)), leaked' = leaked \cup left,
           control_fds' = control_fds, rfds \subseteq Fds, rfds' = rfds
    PROVE  TablesInv' /\ \A t \in Slots : Ready(t) => Ready(t)'
  <1>1. ~Open(s)
    BY DEF TablesInv, OpenDevicesAreInPool
  <1>2. [devices EXCEPT ![s] = [d EXCEPT !.fd = NoFd]] = [devices EXCEPT ![s] = d]
    BY DEF DeviceRecord
  <1>3. DeviceFd(s) \cup ClientFds(gone) = ClientFds(gone)
    BY <1>1 DEF DeviceFd, Open
  <1> QED
    BY <1>2, <1>3, CloseKeeps

\* A free slot is filled with a device that could be opened at once.
LEMMA FillOpenKeeps ==
    ASSUME TablesInv, NEW s \in Slots, ~Allocated(s), NEW d \in DeviceRecord,
           d.path \in Paths, NEW gone \in SUBSET Subs, NEW fd \in Fds \ opened,
           NEW probed \in BOOLEAN,
           devices' = [devices EXCEPT ![s] = Acquired(d, fd, probed)], subs' = Detached(gone),
           opened' = (opened \ ClientFds(gone)) \cup {fd},
           all_fds' = StillWatched(ClientFds(gone)) \cup {fd}, leaked' = leaked,
           control_fds' = control_fds, rfds' = rfds
    PROVE  TablesInv' /\ \A t \in Slots : Ready(t) => Ready(t)'
  <1> USE DetachedFacts, GpsdAssumption DEF TablesInv, StillWatched, ClientFds
  <1>0. /\ NoFd \notin Fds
        /\ ~Open(s)
        /\ \A t \in Slots : IF t = s THEN devices'[t].fd = fd /\ devices'[t].path \in Paths
                                     ELSE devices'[t] = devices[t]
    BY AcquiredType DEF TablesType, OpenDevicesAreInPool, NoFd
  <1>1. TablesType'
    BY AcquiredType, ZenonT(30) DEF TablesType
  <1>2. ClientInv' /\ FreeSlotsAreClean'
    BY DEF TablesType, ClientInv, FreeSlotsAreClean, Active, NoClient
  <1>3. OpenDevicesAreInPool'
    BY <1>0 DEF OpenDevicesAreInPool, Open, Allocated
  <1>4. \A i \in Subs : /\ subs'[i] = subs[i] \/ (subs'[i].fd = NoFd /\ ~Active(i)')
                        /\ subs[i].fd # fd
    BY DEF NoClient, Active, ClientInv, NoDescriptorLost, NoFd, None, TablesType
  <1>5. OneOwner'
    <2>1. \A t \in Slots : devices[t].fd # fd
      BY <1>0 DEF NoDescriptorLost
    <2>2. fd \notin control_fds
      BY DEF NoDescriptorLost
    <2> QED
      BY <1>0, <1>4, <2>1, <2>2 DEF OneOwner, ClientInv, TablesType, Open, Active
  <1>6. NoDescriptorLost'
    <2>1. fd \notin ClientFds(gone)
      BY <1>4
    <2>2. ASSUME NEW x \in Fds, x # fd
          PROVE  /\ x \in opened' <=> x \in opened /\ x \notin ClientFds(gone)
                 /\ (\E t \in Slots : devices'[t].fd = x) <=> \E t \in Slots : devices[t].fd = x
      <3>1. ASSUME NEW t \in Slots, devices[t].fd = x PROVE t # s
        BY <1>0, <3>1 DEF Open
      <3> QED
        BY <1>0, <2>2, <3>1
    <2>3. ASSUME NEW x \in Fds
          PROVE  (\E i \in Subs : Active(i)' /\ subs'[i].fd = x)
                    <=> \E i \in Subs \ gone : Active(i) /\ subs[i].fd = x
      BY <1>0 DEF Active, NoClient, TablesType
    <2>4. ASSUME NEW x \in Fds
          PROVE  x \in ClientFds(gone) <=> \E i \in gone : subs[i].fd = x
      BY <1>0
    <2>5. ASSUME NEW x \in ClientFds(gone)
          PROVE  /\ ~ \E t \in Slots : devices[t].fd = x
                 /\ ~ \E i \in Subs \ gone : Active(i) /\ subs[i].fd = x
                 /\ x \notin control_fds /\ x \notin leaked
      BY <1>0, <2>5 DEF OneOwner, LeaksAreNobodys, Open
    <2>6. ASSUME NEW x \in Fds, x # fd
          PROVE  x \in opened' <=> \/ \E t \in Slots : devices'[t].fd = x
                                   \/ \E i \in Subs : Active(i)' /\ subs'[i].fd = x
                                   \/ x \in control_fds
                                   \/ x \in leaked
      BY <2>2, <2>3, <2>4, <2>5, <2>6 DEF NoDescriptorLost
    <2>7. fd \in opened' /\ devices'[s].fd = fd
      BY <1>0
    <2>8. ASSUME NEW x \in Fds
          PROVE  x \in opened' <=> \/ \E t \in Slots : devices'[t].fd = x
                                   \/ \E i \in Subs : Active(i)' /\ subs'[i].fd = x
                                   \/ x \in control_fds'
                                   \/ x \in leaked'
      <3>1. CASE x = fd
        BY <2>7, <3>1
      <3>2. CASE x # fd
        BY <2>6, <3>2
      <3> QED
        BY <3>1, <3>2
    <2> QED
      BY <2>8 DEF NoDescriptorLost
  <1>9. LeaksAreNobodys'
    <2>1. fd \notin leaked /\ NoFd \notin leaked
      BY <1>0 DEF NoDescriptorLost, TablesType
    <2>2. \A t \in Slots : devices'[t].fd \in {devices[t].fd, fd}
      BY <1>0
    <2>3. \A i \in Subs : subs'[i].fd \in {subs[i].fd, NoFd}
      BY <1>4
    <2> QED
      BY <2>1, <2>2, <2>3 DEF LeaksAreNobodys
  <1>7. EveryoneIsHeard'
    BY <1>0, <1>4 DEF EveryoneIsHeard, OneOwner, TablesType, ClientInv, Open, Active, NoClient
  <1>8. ASSUME NEW t \in Slots, Ready(t) PROVE Ready(t)'
    <2>1. CASE t = s
      BY <2>1, <1>0 DEF Ready
    <2>2. CASE t # s /\ Open(t)
      BY <2>2, <1>0, <1>8 DEF Ready, OneOwner, Open
    <2>3. CASE t # s /\ ~Open(t)
      BY <2>3, <1>0, <1>8 DEF Ready, OneOwner, Open, TablesType
    <2> QED
      BY <2>1, <2>2, <2>3
  <1> QED
    BY <1>1, <1>2, <1>3, <1>5, <1>6, <1>7, <1>8, <1>9

LEMMA AddDeviceKeeps ==
    ASSUME TablesInv, NEW p \in Paths, AddDevice(p), rfds \subseteq Fds,
           UNCHANGED <<control_fds, rfds>>
    PROVE  TablesInv' /\ \A t \in Slots : Ready(t) => Ready(t)'
  <1>1. CASE UNCHANGED tables
    BY <1>1 DEF tables, TablesInv, TablesType, ClientInv, FreeSlotsAreClean, OpenDevicesAreInPool,
                OneOwner, NoDescriptorLost, LeaksAreNobodys, EveryoneIsHeard, Ready, Open, Active,
                Allocated
  <1>2. CASE ~UNCHANGED tables
    <2> DEFINE d(s) == [NoDevice EXCEPT !.path = p, !.releasetime = devices[s].releasetime,
                                        !.opentime = devices[s].opentime]
    <2>1. PICK s \in FreeSlots, gone \in SUBSET Subs :
            /\ subs' = Detached(gone)
            /\ \/ \E left \in LeftOpen :
                     /\ devices' = [devices EXCEPT ![s] = d(s)]
                     /\ opened' = (opened \ ClientFds(gone)) \cup left
                     /\ all_fds' = StillWatched(ClientFds(gone))
                     /\ leaked' = leaked \cup left
               \/ \E fd \in Fds, probed \in BOOLEAN :
                     /\ LowestFree(fd)
                     /\ devices' = [devices EXCEPT ![s] = Acquired(d(s), fd, probed)]
                     /\ opened' = (opened \ ClientFds(gone)) \cup {fd}
                     /\ all_fds' = StillWatched(ClientFds(gone)) \cup {fd}
                     /\ leaked' = leaked
      BY <1>2, ZenonT(30) DEF AddDevice
    <2>2. s \in Slots /\ ~Allocated(s)
      BY DEF FreeSlots
    <2>3. devices[s] \in DeviceRecord
      BY <2>2 DEF TablesInv, TablesType
    <2>4. d(s) \in DeviceRecord /\ d(s).path = p /\ d(s).fd = NoFd
      BY <2>3, RecordTypes DEF DeviceRecord, NoDevice
    <2> HIDE DEF d
    <2>5. CASE \E left \in LeftOpen :
                  /\ devices' = [devices EXCEPT ![s] = d(s)]
                  /\ opened' = (opened \ ClientFds(gone)) \cup left
                  /\ all_fds' = StillWatched(ClientFds(gone))
                  /\ leaked' = leaked \cup left
      BY <2>1, <2>2, <2>4, <2>5, FillKeeps, LeftFacts
    <2>6. CASE \E fd \in Fds, probed \in BOOLEAN :
                  /\ LowestFree(fd)
                  /\ devices' = [devices EXCEPT ![s] = Acquired(d(s), fd, probed)]
                  /\ opened' = (opened \ ClientFds(gone)) \cup {fd}
                  /\ all_fds' = StillWatched(ClientFds(gone)) \cup {fd}
                  /\ leaked' = leaked
      BY <2>1, <2>2, <2>4, <2>6, FillOpenKeeps DEF LowestFree
    <2> QED
      BY <2>1, <2>5, <2>6
  <1> QED
    BY <1>1, <1>2

\* Steps that touch no descriptor.
LEMMA FieldsKeep ==
    ASSUME TablesInv, UNCHANGED <<all_fds, opened, leaked, control_fds, rfds>>,
           devices' \in [Slots -> DeviceRecord], subs' \in [Subs -> ClientRecord],
           \A s \in Slots : /\ devices'[s].fd = devices[s].fd
                            /\ devices'[s].path = devices[s].path
                            /\ devices'[s].reawake = None => \/ devices[s].reawake = None
                                                            \/ devices[s].fd \in all_fds,
           \A i \in Subs : /\ subs'[i].fd = subs[i].fd
                           /\ Active(i)' <=> Active(i)
                           /\ ~Active(i) => subs'[i].watcher = subs[i].watcher
                                            /\ subs'[i].devpath = subs[i].devpath
    PROVE  TablesInv' /\ \A s \in Slots : Ready(s) => Ready(s)'
  <1> USE DEF TablesInv
  <1>1. TablesType' /\ ClientInv' /\ FreeSlotsAreClean' /\ OpenDevicesAreInPool'
    BY DEF TablesType, ClientInv, FreeSlotsAreClean, OpenDevicesAreInPool, Open, Allocated
  <1>2. OneOwner' /\ NoDescriptorLost' /\ LeaksAreNobodys'
    BY DEF OneOwner, NoDescriptorLost, LeaksAreNobodys, Open
  <1>3. EveryoneIsHeard' /\ \A s \in Slots : Ready(s) => Ready(s)'
    BY DEF EveryoneIsHeard, Ready, Open
  <1> QED
    BY <1>1, <1>2, <1>3

LEMMA Unchanged ==
    ASSUME TablesInv, UNCHANGED tables, UNCHANGED control_fds
    PROVE  TablesInv'
  BY DEF tables, TablesInv, TablesType, ClientInv, FreeSlotsAreClean, OpenDevicesAreInPool,
         OneOwner, NoDescriptorLost, LeaksAreNobodys, EveryoneIsHeard, Open, Active, Allocated

LEMMA StartKeeps == IInv /\ (StartStep \/ Wait) => IInv'
  <1> SUFFICES ASSUME IInv, StartStep \/ Wait PROVE IInv'
    OBVIOUS
  <1> USE DEF IInv
  <1>1. ASSUME NEW p \in Paths, AddFromCommandLine(p) PROVE IInv'
    <2>1. TablesInv'
      BY <1>1, AddDeviceKeeps DEF AddFromCommandLine, LoopType
    <2>2. LoopType' /\ ReadyInv' /\ RequestInv'
      BY <1>1 DEF AddFromCommandLine, LoopType, ReadyInv, RequestInv
    <2> QED
      BY <2>1, <2>2
  <1>2. CASE EnterLoop \/ CopySet \/ Poll
    <2>1. TablesInv'
      BY <1>2, Unchanged DEF EnterLoop, CopySet, Poll
    <2>2. LoopType' /\ RequestInv'
      BY <1>2 DEF EnterLoop, CopySet, Poll, LoopType, RequestInv, TablesInv, TablesType
    <2>3. ReadyInv'
      BY <1>2 DEF EnterLoop, CopySet, Poll, ReadyInv, Ready, tables
    <2> QED
      BY <2>1, <2>2, <2>3
  <1>3. ASSUME NEW ready \in SUBSET rfds, NEW line \in SUBSET Listening, Select(ready, line)
        PROVE  IInv'
    <2>1. TablesInv'
      BY <1>3, Unchanged DEF Select
    <2>2. LoopType' /\ RequestInv'
      BY <1>3 DEF Select, LoopType, RequestInv, Listening
    <2>3. ReadyInv'
      BY <1>3 DEF Select, ReadyInv, Ready, tables
    <2> QED
      BY <2>1, <2>2, <2>3
  <1> QED
    BY <1>1, <1>2, <1>3 DEF StartStep, Wait, Traffic

LEMMA AcceptKeeps == IInv /\ AcceptStep => IInv'
  <1> SUFFICES ASSUME IInv, AcceptStep PROVE IInv'
    OBVIOUS
  <1> USE GpsdAssumption DEF IInv
  <1>1. CASE AcceptClient
    <2>1. PICK i \in Vacant, fd \in Fds :
            /\ fd \notin opened
            /\ subs' = [subs EXCEPT ![i].fd = fd, ![i].active = Now]
            /\ opened' = opened \cup {fd}
            /\ all_fds' = all_fds \cup {fd}
      BY <1>1 DEF AcceptClient, Admitted, LowestFree
    <2>2. i \in Subs /\ ~Active(i) /\ UNCHANGED <<devices, leaked, control_fds, rfds>>
      BY <1>1 DEF AcceptClient, Vacant, TablesInv, ClientInv, NoFd
    <2>3. \A j \in Subs : /\ subs'[j].fd = IF j = i THEN fd ELSE subs[j].fd
                          /\ Active(j)' <=> j = i \/ Active(j)
                          /\ j # i => subs'[j] = subs[j]
      BY <2>1, <2>2 DEF TablesInv, TablesType, ClientRecord, Active, Now, None
    <2>4. TablesType'
      <3>1. Now \in Age
        BY DEF Now, Age
      <3> QED
        BY <2>1, <2>2, <3>1, ZenonT(30) DEF TablesInv, TablesType, ClientRecord
    <2>5. ClientInv' /\ FreeSlotsAreClean' /\ OpenDevicesAreInPool'
      BY <2>2, <2>3 DEF TablesInv, ClientInv, FreeSlotsAreClean, OpenDevicesAreInPool, Open, Allocated
    <2>6. \A t \in Slots : devices[t].fd # fd
      BY <2>1 DEF TablesInv, NoDescriptorLost
    <2>7. fd \notin control_fds /\ \A j \in Subs : Active(j) => subs[j].fd # fd
      BY <2>1 DEF TablesInv, NoDescriptorLost
    <2>8. \A j \in Subs : subs[j].fd # fd
      BY <2>1, <2>7 DEF TablesInv, ClientInv, NoFd
    <2>9. OneOwner'
      BY <2>2, <2>3, <2>6, <2>7, <2>8 DEF TablesInv, OneOwner, Open
    <2>10. NoDescriptorLost'
      <3>1. ASSUME NEW x \in Fds
            PROVE  (\E j \in Subs : Active(j)' /\ subs'[j].fd = x)
                      <=> x = fd \/ \E j \in Subs : Active(j) /\ subs[j].fd = x
        BY <2>2, <2>3
      <3> QED
        BY <2>1, <2>2, <3>1 DEF TablesInv, NoDescriptorLost
    <2>13. LeaksAreNobodys'
      <3>1. fd \notin leaked
        BY <2>1 DEF TablesInv, NoDescriptorLost
      <3>2. \A j \in Subs : subs'[j].fd \notin leaked
        BY <2>3, <3>1 DEF TablesInv, LeaksAreNobodys
      <3> QED
        BY <2>2, <3>2 DEF TablesInv, LeaksAreNobodys
    <2>12. EveryoneIsHeard'
      <3>1. ASSUME NEW j \in Subs, Active(j)' PROVE subs'[j].fd \in all_fds'
        <4>1. CASE j = i
          <5>1. subs'[j].fd = fd
            BY <2>3, <4>1
          <5> QED
            BY <2>1, <5>1
        <4>2. CASE j # i
          <5>1. Active(j) /\ subs'[j] = subs[j]
            BY <2>3, <3>1, <4>2
          <5> QED
            BY <2>1, <5>1 DEF TablesInv, EveryoneIsHeard
        <4> QED
          BY <4>1, <4>2
      <3>2. \A s \in Slots : Open(s)' => devices'[s].fd \in all_fds' \/ devices'[s].reawake # None
        BY <2>1, <2>2 DEF TablesInv, EveryoneIsHeard, Open
      <3> QED
        BY <3>1, <3>2 DEF EveryoneIsHeard
    <2>11. LoopType' /\ ReadyInv' /\ RequestInv'
      BY <1>1, <2>1, <2>2 DEF AcceptClient, LoopType, ReadyInv, Ready, RequestInv
    <2> QED
      BY <2>4, <2>5, <2>9, <2>10, <2>11, <2>12, <2>13 DEF TablesInv
  <1>2. CASE RefuseClient \/ NoCalls
    <2>1. TablesInv'
      BY <1>2, Unchanged DEF RefuseClient, NoCalls
    <2>2. LoopType' /\ ReadyInv' /\ RequestInv'
      BY <1>2 DEF RefuseClient, NoCalls, LoopType, ReadyInv, Ready, RequestInv, tables
    <2> QED
      BY <2>1, <2>2
  <1>3. CASE AcceptLingerFails
    <2>1. PICK i \in Vacant : subs' = [subs EXCEPT ![i].fd = 0]
      BY <1>3 DEF AcceptLingerFails
    <2>2. i \in Subs /\ ~Active(i)
          /\ UNCHANGED <<devices, all_fds, opened, leaked, control_fds, rfds>>
      BY <1>3 DEF AcceptLingerFails, Vacant, TablesInv, ClientInv, NoFd
    <2>3. \A j \in Subs : /\ subs'[j].fd = IF j = i THEN 0 ELSE subs[j].fd
                          /\ Active(j)' <=> Active(j)
                          /\ subs'[j].watcher = subs[j].watcher
                          /\ subs'[j].devpath = subs[j].devpath
      BY <2>1, <2>2 DEF TablesInv, TablesType, ClientRecord, Active
    <2>4. TablesType'
      BY <2>1, <2>2 DEF TablesInv, TablesType, ClientRecord
    <2>5. ClientInv' /\ FreeSlotsAreClean' /\ OpenDevicesAreInPool'
      BY <2>2, <2>3 DEF TablesInv, ClientInv, FreeSlotsAreClean, OpenDevicesAreInPool, Open, Allocated
    <2>6. OneOwner'
      BY <2>2, <2>3 DEF TablesInv, TablesType, DeviceRecord, ClientInv, OneOwner, Open, NoFd
    <2>7. NoDescriptorLost' /\ LeaksAreNobodys' /\ EveryoneIsHeard'
      BY <2>2, <2>3, GpsdAssumption DEF TablesInv, TablesType, NoDescriptorLost, LeaksAreNobodys,
         EveryoneIsHeard, Open
    <2>8. LoopType' /\ ReadyInv' /\ RequestInv'
      BY <1>3, <2>2 DEF AcceptLingerFails, LoopType, ReadyInv, Ready, RequestInv
    <2> QED
      BY <2>4, <2>5, <2>6, <2>7, <2>8 DEF TablesInv
  <1>4. CASE AcceptControl
    <2>1. CASE UNCHANGED <<opened, all_fds, control_fds>>
      <3>1. TablesInv'
        BY <1>4, <2>1, Unchanged DEF AcceptControl, tables
      <3>2. LoopType' /\ ReadyInv' /\ RequestInv'
        BY <1>4, <2>1 DEF AcceptControl, LoopType, ReadyInv, Ready, RequestInv
      <3> QED
        BY <3>1, <3>2
    <2>2. CASE \E fd \in Fds : /\ LowestFree(fd)
                               /\ opened' = opened \cup {fd}
                               /\ all_fds' = all_fds \cup {fd}
                               /\ control_fds' = control_fds \cup {fd}
      <3>1. PICK fd \in Fds \ opened : /\ opened' = opened \cup {fd}
                                       /\ all_fds' = all_fds \cup {fd}
                                       /\ control_fds' = control_fds \cup {fd}
        BY <2>2 DEF LowestFree
      <3>2. UNCHANGED <<devices, subs, leaked, rfds>>
        BY <1>4 DEF AcceptControl
      <3>3. ASSUME NEW i \in Subs PROVE subs[i].fd # fd
        <4>1. CASE Active(i)
          BY <3>1, <4>1 DEF TablesInv, NoDescriptorLost
        <4>2. CASE ~Active(i)
          BY <3>1, <4>2 DEF TablesInv, ClientInv, NoFd
        <4> QED
          BY <4>1, <4>2
      <3>4. TablesInv'
        BY <3>1, <3>2, <3>3 DEF TablesInv, TablesType, ClientInv, FreeSlotsAreClean,
            OpenDevicesAreInPool, OneOwner, NoDescriptorLost, LeaksAreNobodys, EveryoneIsHeard, Open,
            Active, Allocated
      <3>5. LoopType' /\ ReadyInv' /\ RequestInv'
        BY <1>4, <3>1, <3>2 DEF AcceptControl, LoopType, ReadyInv, Ready, RequestInv
      <3> QED
        BY <3>4, <3>5
    <2> QED
      BY <1>4, <2>1, <2>2 DEF AcceptControl
  <1> QED
    BY <1>1, <1>2, <1>3, <1>4 DEF AcceptStep

LEMMA ControlKeeps == IInv /\ ControlStep => IInv'
  <1> SUFFICES ASSUME IInv, ControlStep PROVE IInv'
    OBVIOUS
  <1> USE DEF IInv
  <1>1. ASSUME NEW p \in Paths, ControlAdd(p) PROVE IInv'
    <2>1. TablesInv' /\ \A t \in Slots : Ready(t) => Ready(t)'
      BY <1>1, AddDeviceKeeps DEF ControlAdd, LoopType
    <2>2. LoopType' /\ ReadyInv' /\ RequestInv'
      BY <1>1, <2>1 DEF ControlAdd, LoopType, ReadyInv, RequestInv
    <2> QED
      BY <2>1, <2>2
  <1>2. ASSUME NEW p \in Paths, ControlRemove(p) PROVE IInv'
    <2>1. PICK s \in Slots, gone \in SUBSET Subs :
              Deactivate(s, [devices[s] EXCEPT !.path = NoPath], gone)
      BY <1>2 DEF ControlRemove, Listeners
    <2>2. [devices[s] EXCEPT !.path = NoPath] \in DeviceRecord
      BY DEF TablesInv, TablesType, DeviceRecord
    <2>3. TablesInv' /\ \A t \in Slots : Ready(t) => Ready(t)'
      BY <1>2, <2>1, <2>2, DeactivateKeeps DEF ControlRemove, LoopType
    <2>4. LoopType' /\ ReadyInv' /\ RequestInv'
      BY <1>2, <2>3 DEF ControlRemove, LoopType, ReadyInv, RequestInv
    <2> QED
      BY <2>3, <2>4
  <1>3. ASSUME NEW fd \in Fds, ControlHangup(fd) PROVE IInv'
    <2> USE <1>3 DEF ControlHangup, StillWatched
    <2>1. \A s \in Slots : devices[s].fd # fd
      BY DEF TablesInv, OneOwner
    <2>2. \A i \in Subs : subs[i].fd # fd
      BY DEF TablesInv, OneOwner
    <2>3. TablesInv'
      BY <2>1, <2>2 DEF TablesInv, TablesType, ClientInv, FreeSlotsAreClean,
            OpenDevicesAreInPool, OneOwner, NoDescriptorLost, LeaksAreNobodys, EveryoneIsHeard, Open,
            Active, Allocated
    <2>4. LoopType' /\ ReadyInv' /\ RequestInv'
      BY <2>1 DEF LoopType, ReadyInv, Ready, RequestInv
    <2> QED
      BY <2>3, <2>4
  <1>4. CASE ControlDone
    <2>1. TablesInv'
      BY <1>4, Unchanged DEF ControlDone
    <2>2. LoopType' /\ ReadyInv' /\ RequestInv'
      BY <1>4 DEF ControlDone, LoopType, ReadyInv, Ready, RequestInv, tables
    <2> QED
      BY <2>1, <2>2
  <1> QED
    BY <1>1, <1>2, <1>3, <1>4 DEF ControlStep

\* The device loop: Ready(s) lets a poll find a device that is listened to.
LEMMA DeviceKeeps == IInv /\ (\E s \in Slots : DeviceStep(s)) => IInv'
  <1> SUFFICES ASSUME IInv, NEW s \in Slots, DeviceStep(s) PROVE IInv'
    OBVIOUS
  <1> USE DEF IInv
  <1>0. /\ devices[s] \in DeviceRecord /\ Refreshed(devices[s]) \in DeviceRecord
        /\ Refreshed(devices[s]).fd = devices[s].fd /\ Refreshed(devices[s]).path = devices[s].path
    <2>1. None \in Age
      BY DEF None, Age
    <2> QED
      BY <2>1 DEF Refreshed, TablesInv, TablesType, DeviceRecord
  <1>1. ASSUME TablesInv', \A t \in Slots \ {s} : Ready(t) => Ready(t)',
               pc = "devices", s \in todo, Proceed("devices", s),
               UNCHANGED <<rfds, calls, rousing, naming>>
        PROVE  IInv'
    <2>1. LoopType' /\ (pc' = "devices" => todo' = todo \ {s})
          /\ pc' \in {"devices", "clients", "release", "select"}
      BY <1>1, ProceedFacts DEF LoopType
    <2>2. ReadyInv' /\ RequestInv'
      BY <1>1, <2>1 DEF ReadyInv, RequestInv
    <2> QED
      BY <1>1, <2>1, <2>2
  <1>2. Readable(s) => devices[s].fd \in all_fds
    BY DEF Readable, First, ReadyInv, Ready
  <1>3. CASE ReadError(s)
    <2>1. PICK d \in DeviceRecord, gone \in SUBSET Subs : Deactivate(s, d, gone)
      BY <1>3, <1>0 DEF ReadError, Listeners
    <2>2. TablesInv' /\ \A t \in Slots : Ready(t) => Ready(t)'
      BY <1>3, <2>1, DeactivateKeeps DEF ReadError, LoopType
    <2> QED
      BY <1>1, <1>3, <2>2 DEF ReadError, Readable, First
  <1>4. CASE ReadNothingAgain(s)
    <2>1. PICK gone \in SUBSET Subs : Deactivate(s, devices[s], gone)
      BY <1>4 DEF ReadNothingAgain, Listeners
    <2>2. TablesInv' /\ \A t \in Slots : Ready(t) => Ready(t)'
      BY <1>0, <1>4, <2>1, DeactivateKeeps DEF ReadNothingAgain, LoopType
    <2> QED
      BY <1>1, <1>4, <2>2 DEF ReadNothingAgain, Readable, First
  <1>5. CASE ReadNothing(s)
    <2>1. /\ devices' = [devices EXCEPT ![s].reawake = Now]
          /\ all_fds' = all_fds \ DeviceFd(s)
          /\ UNCHANGED <<subs, opened, leaked, control_fds, rfds>>
      BY <1>5 DEF ReadNothing, RepollAt, StillWatched
    <2>2. /\ devices' \in [Slots -> DeviceRecord]
          /\ \A t \in Slots : /\ devices'[t].fd = devices[t].fd
                              /\ devices'[t].path = devices[t].path
                              /\ IF t = s THEN devices'[t].reawake # None
                                          ELSE devices'[t].reawake = devices[t].reawake
      <3>1. Now \in Age /\ Now # None
        BY DEF Now, None, Age
      <3> QED
        BY <2>1, <3>1 DEF TablesInv, TablesType, DeviceRecord
    <2>3. \A t \in Slots \ {s} : Open(t) => devices[t].fd \notin DeviceFd(s)
      BY DEF TablesInv, OneOwner, DeviceFd
    <2>4. \A i \in Subs : subs[i].fd \notin DeviceFd(s)
      BY DEF TablesInv, OneOwner, DeviceFd, Open
    <2>5. TablesType' /\ ClientInv' /\ FreeSlotsAreClean' /\ OpenDevicesAreInPool'
      BY <2>1, <2>2 DEF TablesInv, TablesType, ClientInv, FreeSlotsAreClean, OpenDevicesAreInPool,
                        Active, Open, Allocated
    <2>6. OneOwner' /\ NoDescriptorLost' /\ LeaksAreNobodys'
      BY <2>1, <2>2 DEF TablesInv, OneOwner, NoDescriptorLost, LeaksAreNobodys, Active, Open
    <2>7. EveryoneIsHeard'
      BY <2>1, <2>2, <2>3, <2>4 DEF TablesInv, EveryoneIsHeard, Active, Open
    <2>8. ASSUME NEW t \in Slots \ {s}, Ready(t) PROVE Ready(t)'
      BY <2>1, <2>2, <2>3, <2>8, <1>5 DEF Ready, Open, LoopType, DeviceFd
    <2> QED
      BY <1>1, <1>5, <2>5, <2>6, <2>7, <2>8 DEF TablesInv, ReadNothing, Readable, First
  <1>6. CASE ReadData(s)
    <2>1. PICK known \in BOOLEAN, driver \in BOOLEAN, gone \in SUBSET Subs :
            /\ devices' = [devices EXCEPT ![s] =
                              [Refreshed(@) EXCEPT !.packet = known, !.driver = driver]]
            /\ Drop(gone)
      BY <1>6, <1>0 DEF ReadData, Listeners, DeviceRecord
    <2>2. /\ devices' \in [Slots -> DeviceRecord]
          /\ \A t \in Slots : /\ devices'[t].fd = devices[t].fd
                              /\ devices'[t].path = devices[t].path
                              /\ t # s => devices'[t] = devices[t]
      <3> DEFINE r == Refreshed(devices[s])
      <3>1. [r EXCEPT !.packet = known, !.driver = driver] \in DeviceRecord
            /\ [r EXCEPT !.packet = known, !.driver = driver].fd = r.fd
            /\ [r EXCEPT !.packet = known, !.driver = driver].path = r.path
        BY <1>0 DEF DeviceRecord
      <3> HIDE DEF r
      <3> QED
        BY <1>0, <2>1, <3>1 DEF TablesInv, TablesType, r
    <2>3. TablesInv' /\ \A t \in Slots : Ready(t) => Ready(t)'
      BY <1>2, <1>6, <2>1, <2>2, DropKeeps DEF ReadData
    <2> QED
      BY <1>1, <1>6, <2>3 DEF ReadData, Readable, First
  <1>7. CASE RelayRtcm(s)
    <2>1. /\ devices' = [devices EXCEPT ![s] =
                           [Refreshed(@) EXCEPT !.packet = TRUE, !.driver = TRUE]]
          /\ UNCHANGED <<subs, all_fds, opened, leaked, rfds, control_fds, calls, rousing, naming>>
          /\ Proceed("devices", s) \/ (pc' = "crash" /\ UNCHANGED todo)
      BY <1>7 DEF RelayRtcm
    <2>2. /\ devices' \in [Slots -> DeviceRecord]
          /\ \A t \in Slots : /\ devices'[t].fd = devices[t].fd
                              /\ devices'[t].path = devices[t].path
                              /\ t # s => devices'[t] = devices[t]
      <3> DEFINE r == Refreshed(devices[s])
      <3>1. [r EXCEPT !.packet = TRUE, !.driver = TRUE] \in DeviceRecord
            /\ [r EXCEPT !.packet = TRUE, !.driver = TRUE].fd = r.fd
            /\ [r EXCEPT !.packet = TRUE, !.driver = TRUE].path = r.path
        BY <1>0 DEF DeviceRecord
      <3> HIDE DEF r
      <3> QED
        BY <1>0, <2>1, <3>1 DEF TablesInv, TablesType, r
    <2>3. TablesInv' /\ \A t \in Slots : Ready(t) => Ready(t)'
      BY <1>2, <1>7, <2>1, <2>2, FieldsKeep DEF RelayRtcm, TablesInv, TablesType, Active
    <2>4. CASE Proceed("devices", s)
      BY <1>1, <1>7, <2>1, <2>3, <2>4 DEF RelayRtcm, Readable, First
    <2>5. CASE pc' = "crash" /\ UNCHANGED todo
      BY <1>7, <2>1, <2>3, <2>5 DEF RelayRtcm, Readable, LoopType, ReadyInv, RequestInv
    <2> QED
      BY <2>1, <2>4, <2>5
  <1>8. CASE Reawake(s)
    <2>1. /\ devices' = [devices EXCEPT ![s].reawake = None, ![s].zerokill = TRUE]
          /\ all_fds' = all_fds \cup {devices[s].fd}
          /\ UNCHANGED <<subs, opened, leaked, control_fds, rfds>>
          /\ Open(s)
      BY <1>8 DEF Reawake, Rewatched, Reawakens
    <2>2. /\ devices' \in [Slots -> DeviceRecord]
          /\ \A t \in Slots : /\ devices'[t].fd = devices[t].fd
                              /\ devices'[t].path = devices[t].path
                              /\ t # s => devices'[t] = devices[t]
      <3> DEFINE new == [devices[s] EXCEPT !.reawake = None, !.zerokill = TRUE]
      <3>1. None \in Age
        BY DEF None, Age
      <3>2. devices \in [Slots -> DeviceRecord] /\ devices' = [devices EXCEPT ![s] = new]
        BY <2>1 DEF TablesInv, TablesType
      <3>3. devices[s] \in DeviceRecord
        BY <3>2
      <3>4. new \in DeviceRecord /\ new.fd = devices[s].fd /\ new.path = devices[s].path
        BY <3>1, <3>3 DEF DeviceRecord
      <3> HIDE DEF new
      <3> QED
        BY <3>2, <3>4
    <2>3. TablesType' /\ ClientInv' /\ FreeSlotsAreClean' /\ OpenDevicesAreInPool'
      BY <2>1, <2>2, <1>0 DEF TablesInv, TablesType, DeviceRecord, ClientInv, FreeSlotsAreClean,
                        OpenDevicesAreInPool, Active, Open, Allocated
    <2>4. OneOwner' /\ NoDescriptorLost' /\ LeaksAreNobodys'
      BY <2>1, <2>2 DEF TablesInv, OneOwner, NoDescriptorLost, LeaksAreNobodys, Active, Open
    <2>5. EveryoneIsHeard'
      BY <2>1, <2>2 DEF TablesInv, EveryoneIsHeard, Active, Open
    <2>6. \A t \in Slots : Ready(t) => Ready(t)'
      BY <2>1, <2>2 DEF Ready
    <2> QED
      BY <1>1, <1>8, <2>3, <2>4, <2>5, <2>6 DEF TablesInv, Reawake, First
  <1>9. CASE PassDevice(s)
    <2>1. TablesInv' /\ \A t \in Slots : Ready(t) => Ready(t)'
      BY <1>9, Unchanged DEF PassDevice, tables, Ready
    <2> QED
      BY <1>1, <1>9, <2>1 DEF PassDevice, First
  <1> QED
    BY <1>3, <1>4, <1>5, <1>6, <1>7, <1>8, <1>9 DEF DeviceStep

LEMMA ClientKeeps == IInv /\ (\E i \in Subs : ClientStep(i)) => IInv'
  <1> SUFFICES ASSUME IInv, NEW i \in Subs, ClientStep(i) PROVE IInv'
    OBVIOUS
  <1> USE DEF IInv
  <1>1. subs[i] \in ClientRecord
    BY DEF TablesInv, TablesType
  \* The policy or the time of the last request changes.
  <1>2. ASSUME NEW c \in ClientRecord, c.fd = subs[i].fd, Active(i), c.active # None,
               subs' = [subs EXCEPT ![i] = c],
               UNCHANGED <<devices, all_fds, opened, leaked, control_fds, rfds>>
        PROVE  TablesInv' /\ \A t \in Slots : Ready(t) => Ready(t)'
    <2>1. /\ subs' \in [Subs -> ClientRecord]
          /\ \A j \in Subs : /\ subs'[j].fd = subs[j].fd
                             /\ Active(j)' <=> Active(j)
                             /\ ~Active(j) => subs'[j] = subs[j]
      BY <1>2 DEF TablesInv, TablesType, Active
    <2> QED
      BY <1>2, <2>1, FieldsKeep DEF TablesInv, TablesType
  <1>3. CASE LoseClient(i) \/ Reply(i)
    <2>1. PICK gone \in SUBSET Subs : Drop(gone)
      BY <1>3 DEF LoseClient, Reply
    <2>2. TablesInv'
      BY <1>3, <2>1, DropKeeps DEF LoseClient, Reply, TablesInv, TablesType
    <2>3. LoopType' /\ pc' # "devices" /\ pc' \in {"devices", "clients", "release", "select"}
      BY <1>3, ProceedFacts DEF LoseClient, Reply, LoopType
    <2>4. RequestInv'
      BY <1>3, <2>3 DEF LoseClient, Reply, AtClient, Requesting, RequestInv
    <2> QED
      BY <2>2, <2>3, <2>4 DEF ReadyInv
  <1>4. CASE PassClient(i)
    <2>1. TablesInv'
      BY <1>4, Unchanged DEF PassClient
    <2>2. LoopType' /\ pc' # "devices" /\ pc' \in {"devices", "clients", "release", "select"}
      BY <1>4, ProceedFacts DEF PassClient, LoopType
    <2>3. RequestInv'
      BY <1>4, <2>2 DEF PassClient, AtClient, RequestInv
    <2> QED
      BY <2>1, <2>2, <2>3 DEF ReadyInv
  <1>5. CASE ReceiveLine(i)
    <2>1. [subs[i] EXCEPT !.active = Now] \in ClientRecord /\ Now # None
          /\ [subs[i] EXCEPT !.active = Now].fd = subs[i].fd
          /\ [subs[i] EXCEPT !.active = Now].active = Now
      <3>1. Now \in Age /\ Now # None
        BY DEF Now, None, Age
      <3> QED
        BY <1>1, <3>1 DEF ClientRecord
    <2>2. TablesInv'
      BY <1>2, <1>5, <2>1 DEF ReceiveLine
    <2>3. LoopType' /\ ReadyInv' /\ rousing' = {}
      BY <1>5 DEF ReceiveLine, AtClient, LoopType, ReadyInv, RequestInv
    <2>4. ASSUME NEW j \in Subs, First(j)' PROVE Active(j)'
      <3>1. i \in todo /\ j \in todo /\ i <= j /\ j <= i
        BY <1>5, <2>4 DEF ReceiveLine, AtClient, First
      <3>2. j = i
        BY <3>1, GpsdAssumption DEF Subs
      <3>3. subs'[i].active = Now
        BY <1>5, <2>1 DEF ReceiveLine, TablesInv, TablesType
      <3> QED
        BY <2>1, <3>2, <3>3 DEF Active
    <2> QED
      BY <2>2, <2>3, <2>4 DEF RequestInv
  <1>6. ASSUME NEW enable \in BOOLEAN, NEW p \in Paths \cup {NoPath},
               Watch(i, enable, p) \/ BadWatch(i, enable, p)
        PROVE  IInv'
    <2> DEFINE c == [subs[i] EXCEPT !.watcher = enable, !.devpath = p]
    <2>1. c \in ClientRecord /\ c.fd = subs[i].fd /\ c.active = subs[i].active
      BY <1>1 DEF ClientRecord
    <2>2. subs' = [subs EXCEPT ![i] = c]
      BY <1>1, <1>6 DEF Watch, BadWatch, ClientRecord, TablesInv, TablesType
    <2>3. Active(i)
      BY <1>6 DEF Watch, BadWatch, Requesting, RequestInv
    <2> HIDE DEF c
    <2>4. TablesInv'
      BY <1>2, <1>6, <2>1, <2>2, <2>3 DEF Watch, BadWatch, Active
    <2>5. \A j \in Subs : Active(j)' <=> Active(j)
      BY <2>1, <2>2 DEF Active, TablesInv, TablesType
    <2>6. LoopType' /\ ReadyInv' /\ RequestInv'
      BY <1>6, <2>5 DEF Watch, BadWatch, Requesting, LoopType, ReadyInv, RequestInv, Allocated, First
    <2> QED
      BY <2>4, <2>6
  <1>7. ASSUME NEW s \in Slots, SelectDevice(i, s) PROVE IInv'
    <2>1. TablesInv'
      BY <1>7, Unchanged DEF SelectDevice
    <2>2. LoopType' /\ ReadyInv' /\ RequestInv'
      BY <1>7 DEF SelectDevice, Requesting, LoopType, ReadyInv, RequestInv, Allocated, First, Active,
                  tables
    <2> QED
      BY <2>1, <2>2
  <1>8. ASSUME NEW s \in Slots, Configure(i, s) PROVE IInv'
    <2>1. /\ devices' \in [Slots -> DeviceRecord]
          /\ \A t \in Slots : /\ devices'[t].fd = devices[t].fd
                              /\ devices'[t].path = devices[t].path
                              /\ devices'[t].reawake = devices[t].reawake
      <3> DEFINE new == [devices[s] EXCEPT !.packet = FALSE]
      <3>1. devices \in [Slots -> DeviceRecord] /\ devices' = [devices EXCEPT ![s] = new]
        BY <1>8 DEF Configure, TablesInv, TablesType
      <3>2. devices[s] \in DeviceRecord
        BY <3>1
      <3>3. /\ new \in DeviceRecord
            /\ new.fd = devices[s].fd /\ new.path = devices[s].path /\ new.reawake = devices[s].reawake
        BY <3>2 DEF DeviceRecord
      <3> HIDE DEF new
      <3> QED
        BY <3>1, <3>3
    <2>2. TablesInv'
      BY <1>8, <2>1, FieldsKeep DEF Configure, TablesInv, TablesType, Active
    <2>3. LoopType' /\ ReadyInv' /\ RequestInv'
      BY <1>8, <2>1 DEF Configure, Requesting, LoopType, ReadyInv, RequestInv, Allocated, First, Active
    <2> QED
      BY <2>2, <2>3
  <1> QED
    BY <1>3, <1>4, <1>5, <1>6, <1>7, <1>8 DEF ClientStep, RequestStep

LEMMA AwakenKeeps == IInv /\ (\E s \in Slots : Awaken(s)) => IInv'
  <1> SUFFICES ASSUME IInv, NEW s \in Slots, Awaken(s) PROVE IInv'
    OBVIOUS
  <1> USE DEF IInv
  <1>1. pc = "request" /\ Allocated(s)
        /\ UNCHANGED <<subs, rfds, control_fds, calls, pc, todo, naming>>
        /\ rousing' = rousing \ {s}
    BY DEF Awaken, RequestInv
  <1>2. CASE Open(s)
    <2>1. UNCHANGED tables
      BY <1>1, <1>2 DEF Awaken, tables
    <2>2. TablesInv'
      BY <1>1, <2>1, Unchanged
    <2>3. LoopType' /\ ReadyInv' /\ RequestInv'
      BY <1>1, <2>1 DEF LoopType, ReadyInv, RequestInv, tables, Allocated, First, Active
    <2> QED
      BY <2>2, <2>3
  <1>3. CASE ~Open(s)
    <2>1. Activate(s)
      BY <1>3 DEF Awaken
    <2>2. TablesInv'
      BY <1>1, <1>3, <2>1, ActivateKeeps
    <2>3. ASSUME NEW t \in Slots PROVE devices'[t].path = devices[t].path
      BY <2>1, AcquiredType DEF Activate, TablesInv, TablesType
    <2>4. LoopType' /\ ReadyInv' /\ RequestInv'
      BY <1>1, <2>3 DEF LoopType, ReadyInv, RequestInv, Allocated, First, Active
    <2> QED
      BY <2>2, <2>4
  <1> QED
    BY <1>2, <1>3

LEMMA ReleaseKeeps == IInv /\ (\E s \in Slots : ReleaseStep(s)) => IInv'
  <1> SUFFICES ASSUME IInv, NEW s \in Slots, ReleaseStep(s) PROVE IInv'
    OBVIOUS
  <1> USE DEF IInv
  <1>1. ASSUME TablesInv', pc = "release", Proceed("release", s),
               UNCHANGED <<rfds, calls, rousing, naming>>
        PROVE  IInv'
    <2>1. LoopType' /\ pc' # "devices" /\ pc' \in {"devices", "clients", "release", "select"}
      BY <1>1, ProceedFacts DEF LoopType
    <2>2. ReadyInv' /\ RequestInv'
      BY <1>1, <2>1 DEF ReadyInv, RequestInv
    <2> QED
      BY <1>1, <2>1, <2>2
  \* A timestamp changes.
  <1>2. ASSUME UNCHANGED <<subs, all_fds, rfds, control_fds>>,
               \/ devices' = [devices EXCEPT ![s].releasetime = Now]
               \/ devices' = [devices EXCEPT ![s].opentime = Now],
               NEW left \in LeftOpen, opened' = opened \cup left, leaked' = leaked \cup left
        PROVE  TablesInv'
    <2>1. Now \in Age
      BY DEF Now, Age
    <2>2. /\ devices' \in [Slots -> DeviceRecord]
          /\ \A t \in Slots : /\ devices'[t].fd = devices[t].fd
                              /\ devices'[t].path = devices[t].path
                              /\ devices'[t].reawake = devices[t].reawake
      BY <1>2, <2>1 DEF TablesInv, TablesType, DeviceRecord
    <2>3. left \in SUBSET (Fds \ opened)
      BY LeftFacts
    <2>4. \A fd \in left : /\ \A t \in Slots : devices[t].fd # fd
                           /\ \A i \in Subs : subs[i].fd # fd
                           /\ fd \notin control_fds
      BY <2>3, GpsdAssumption DEF TablesInv, NoDescriptorLost, TablesType, ClientInv, NoFd
    <2>5. NoDescriptorLost' /\ LeaksAreNobodys'
      BY <1>2, <2>2, <2>3, <2>4 DEF TablesInv, NoDescriptorLost, LeaksAreNobodys, Active
    <2> QED
      BY <1>2, <2>2, <2>3, <2>5 DEF TablesInv, TablesType, ClientInv, FreeSlotsAreClean,
         OpenDevicesAreInPool, OneOwner, EveryoneIsHeard, Open, Active, Allocated
  <1>3. CASE Mark(s) \/ ReconnectFails(s)
    <2>1. {} \in LeftOpen
      BY DEF LeftOpen
    <2>2. CASE Mark(s)
      <3>1. opened' = opened \cup {} /\ leaked' = leaked \cup {}
        BY <2>2 DEF Mark
      <3> QED
        BY <1>1, <1>2, <2>1, <2>2, <3>1 DEF Mark, MarkTime
    <2>3. CASE ReconnectFails(s)
      BY <1>1, <1>2, <2>3 DEF ReconnectFails
    <2> QED
      BY <1>3, <2>2, <2>3
  <1>4. CASE Release(s)
    <2>1. devices[s] \in DeviceRecord
      BY DEF TablesInv, TablesType
    <2>2. TablesInv'
      BY <1>4, <2>1, DeactivateKeeps DEF Release, LoopType
    <2> QED
      BY <1>1, <1>4, <2>2 DEF Release
  <1>5. CASE Reconnect(s)
    <2>1. PICK fd \in Fds \ opened, probed \in BOOLEAN :
              /\ devices' = [devices EXCEPT ![s] = Acquired(@, fd, probed)]
              /\ opened' = opened \cup {fd}
              /\ all_fds' = all_fds \cup {fd}
      BY <1>5 DEF Reconnect, LowestFree
    <2>2. Allocated(s) /\ ~Open(s)
      BY <1>5 DEF Reconnect, Reconnects, Missing
    <2>3. TablesInv'
      BY <1>5, <2>1, <2>2, AcquireKeeps DEF Reconnect
    <2> QED
      BY <1>1, <1>5, <2>3 DEF Reconnect
  <1>6. CASE LeaveDevice(s)
    <2>1. TablesInv'
      BY <1>6, Unchanged DEF LeaveDevice
    <2> QED
      BY <1>1, <1>6, <2>1 DEF LeaveDevice
  <1> QED
    BY <1>3, <1>4, <1>5, <1>6 DEF ReleaseStep

\* Time passes: no timestamp appears or disappears.
LEMMA TickFacts ==
    ASSUME TablesType, Tick
    PROVE  /\ devices' \in [Slots -> DeviceRecord] /\ subs' \in [Subs -> ClientRecord]
           /\ \A s \in Slots : /\ devices'[s].fd = devices[s].fd
                               /\ devices'[s].path = devices[s].path
                               /\ devices'[s].reawake = None <=> devices[s].reawake = None
           /\ \A i \in Subs : /\ subs'[i].fd = subs[i].fd
                              /\ subs'[i].watcher = subs[i].watcher
                              /\ subs'[i].devpath = subs[i].devpath
                              /\ Active(i)' <=> Active(i)
  <1>1. \A s \in Slots :
            /\ devices[s] \in DeviceRecord
            /\ devices'[s] = [devices[s] EXCEPT !.reawake = Older(@), !.releasetime = Older(@),
                                                !.opentime = Older(@)]
    BY DEF Tick, TablesType
  <1>2. \A s \in Slots : /\ devices'[s] \in DeviceRecord
                         /\ devices'[s].fd = devices[s].fd
                         /\ devices'[s].path = devices[s].path
                         /\ devices'[s].reawake = Older(devices[s].reawake)
    <2>2. ASSUME NEW s \in Slots
          PROVE  /\ Older(devices[s].reawake) \in Age /\ Older(devices[s].releasetime) \in Age
                 /\ Older(devices[s].opentime) \in Age
      <3>1. devices[s].reawake \in Age /\ devices[s].releasetime \in Age
            /\ devices[s].opentime \in Age
        BY <1>1 DEF DeviceRecord
      <3> QED
        BY <3>1, OlderType
    <2>3. ASSUME NEW s \in Slots
          PROVE  /\ devices'[s].fd = devices[s].fd
                 /\ devices'[s].path = devices[s].path
                 /\ devices'[s].reawake = Older(devices[s].reawake)
      BY <1>1 DEF DeviceRecord
    <2>4. ASSUME NEW s \in Slots PROVE devices'[s] \in DeviceRecord
      <3> DEFINE a == Older(devices[s].reawake)
                 b == Older(devices[s].releasetime)
                 c == Older(devices[s].opentime)
      <3>1. devices'[s] = [devices[s] EXCEPT !.reawake = a, !.releasetime = b, !.opentime = c]
        BY <1>1
      <3>2. a \in Age /\ b \in Age /\ c \in Age
        BY <2>2
      <3> HIDE DEF a, b, c
      <3> QED
        BY <1>1, <3>1, <3>2 DEF DeviceRecord
    <2> QED
      BY <2>3, <2>4
  <1>3. devices' \in [Slots -> DeviceRecord]
    BY <1>2 DEF Tick
  <1>4. \A s \in Slots : devices'[s].reawake = None <=> devices[s].reawake = None
    BY <1>1, <1>2, OlderType DEF DeviceRecord
  <1>5. \A i \in Subs : /\ subs[i] \in ClientRecord
                        /\ subs'[i] = [subs[i] EXCEPT !.active = Older(@)]
    BY DEF Tick, TablesType
  <1>6. \A i \in Subs : /\ subs'[i] \in ClientRecord
                        /\ subs'[i].fd = subs[i].fd
                        /\ subs'[i].active = Older(subs[i].active)
                        /\ subs'[i].watcher = subs[i].watcher
                        /\ subs'[i].devpath = subs[i].devpath
    <2>2. ASSUME NEW i \in Subs PROVE Older(subs[i].active) \in Age
      <3>1. subs[i].active \in Age
        BY <1>5 DEF ClientRecord
      <3> QED
        BY <3>1, OlderType
    <2>3. ASSUME NEW i \in Subs
          PROVE  /\ subs'[i] \in ClientRecord
                 /\ subs'[i].fd = subs[i].fd
                 /\ subs'[i].active = Older(subs[i].active)
                 /\ subs'[i].watcher = subs[i].watcher
                 /\ subs'[i].devpath = subs[i].devpath
      <3> DEFINE a == Older(subs[i].active)
      <3>1. subs'[i] = [subs[i] EXCEPT !.active = a] /\ a \in Age
        BY <1>5, <2>2
      <3> HIDE DEF a
      <3>2. /\ subs'[i] \in ClientRecord
            /\ subs'[i].fd = subs[i].fd
            /\ subs'[i].active = a
            /\ subs'[i].watcher = subs[i].watcher
            /\ subs'[i].devpath = subs[i].devpath
        BY <1>5, <3>1 DEF ClientRecord
      <3> QED
        BY <3>2 DEF a
    <2> QED
      BY <2>3
  <1>7. subs' \in [Subs -> ClientRecord]
    BY <1>6 DEF Tick
  <1>8. \A i \in Subs : Active(i)' <=> Active(i)
    BY <1>5, <1>6, OlderType DEF Active, ClientRecord
  <1> QED
    BY <1>2, <1>3, <1>4, <1>6, <1>7, <1>8

LEMMA TickKeeps == IInv /\ Tick => IInv'
  <1> SUFFICES ASSUME IInv, Tick PROVE IInv'
    OBVIOUS
  <1>1. TablesInv' /\ \A s \in Slots : Ready(s) => Ready(s)'
    BY TickFacts, FieldsKeep DEF Tick, IInv, TablesInv
  <1>2. \A s \in Slots : devices'[s].path = devices[s].path
    BY TickFacts DEF IInv, TablesInv
  <1>3. \A i \in Subs : Active(i)' <=> Active(i)
    BY TickFacts DEF IInv, TablesInv
  <1>4. LoopType' /\ ReadyInv' /\ RequestInv'
    BY <1>1, <1>2, <1>3 DEF Tick, IInv, LoopType, ReadyInv, RequestInv, Allocated, First
  <1> QED
    BY <1>1, <1>4 DEF IInv

\* At the end, and on SIGHUP, every device is closed, and at the end every client.
LEMMA SignalKeeps == IInv /\ (Terminate \/ Hangup) => IInv'
  <1> SUFFICES ASSUME IInv, Terminate \/ Hangup PROVE IInv'
    OBVIOUS
  <1> USE DEF IInv
  <1>1. /\ pc = "waiting" /\ pc' \in {"exit", "start"} /\ rousing = {}
        /\ naming' \subseteq Paths
        /\ UNCHANGED <<leaked, rfds, control_fds, calls, todo, rousing>>
    BY GpsdAssumption DEF Terminate, Hangup, RequestInv, LoopType
  <1>2. \A s \in Slots : /\ devices'[s] = [devices[s] EXCEPT !.fd = NoFd]
                         /\ devices'[s] \in DeviceRecord
                         /\ devices'[s].fd = NoFd
                         /\ devices'[s].path = devices[s].path
    BY DEF Terminate, Hangup, ClosedFd, TablesInv, TablesType, DeviceRecord
  <1>3. devices' \in [Slots -> DeviceRecord]
    BY <1>2 DEF Terminate, Hangup
  <1> DEFINE closed == UNION {DeviceFd(s) : s \in Slots}
  <1>4. PICK gone \in SUBSET {i \in Subs : Active(i)} :
            /\ subs' = Detached(gone)
            /\ \A i \in Subs \ gone : Active(i) => Hangup
            /\ all_fds' = all_fds \ ClientFds(gone)
            /\ opened' = opened \ (closed \cup ClientFds(gone))
    <2>1. CASE Terminate
      BY <2>1 DEF Terminate, StillWatched
    <2>2. CASE Hangup
      <3>1. Detached({}) = subs
        BY DEF Detached, TablesInv, TablesType
      <3>2. ClientFds({}) = {}
        BY DEF ClientFds
      <3> QED
        BY <2>2, <3>1, <3>2 DEF Hangup
    <2> QED
      BY <2>1, <2>2
  <1> HIDE DEF closed
  <1>5. \A i \in Subs : /\ subs'[i] = IF i \in gone THEN NoClient ELSE subs[i]
                        /\ Active(i)' <=> i \notin gone /\ Active(i)
    <2>1. \A i \in Subs : Detached(gone)[i] = IF i \in gone THEN NoClient ELSE subs[i]
      BY <1>4, DetachedFacts DEF TablesInv
    <2>2. NoClient.active = None
      BY DEF NoClient
    <2> QED
      BY <1>4, <2>1, <2>2 DEF Active
  <1>6. TablesType'
    BY <1>1, <1>3, <1>4, DetachedFacts DEF TablesInv, TablesType
  <1>7. ClientInv' /\ FreeSlotsAreClean' /\ OpenDevicesAreInPool'
    <2>1. ClientInv' /\ FreeSlotsAreClean'
      BY <1>5 DEF TablesInv, ClientInv, FreeSlotsAreClean, NoClient
    <2>2. OpenDevicesAreInPool'
      BY <1>2 DEF OpenDevicesAreInPool, Open
    <2> QED
      BY <2>1, <2>2
  <1>8. \A fd \in Fds : fd # NoFd
    BY GpsdAssumption DEF NoFd
  <1>9. OneOwner'
    <2>1. \A i \in Subs : subs'[i].fd # subs[i].fd => subs'[i].fd = NoFd
      BY <1>5 DEF NoClient
    <2>2. \A x \in control_fds : x # NoFd
      BY <1>8 DEF TablesInv, TablesType
    <2>3. \A i \in Subs : subs'[i].fd \notin control_fds
      BY <2>1, <2>2 DEF TablesInv, OneOwner
    <2>4. ASSUME NEW i \in Subs, NEW j \in Subs, i # j, Active(i)'
          PROVE  subs'[i].fd # subs'[j].fd
      <3>1. Active(i) /\ subs'[i].fd = subs[i].fd
        BY <1>5, <2>4
      <3>2. subs[i].fd # subs[j].fd /\ subs[i].fd \in Fds
        BY <2>4, <3>1 DEF TablesInv, OneOwner, ClientInv
      <3> QED
        BY <1>8, <2>1, <3>1, <3>2
    <2> QED
      BY <1>1, <1>2, <2>2, <2>3, <2>4 DEF OneOwner, Open
  <1>10. NoDescriptorLost'
    <2>1. ASSUME NEW fd \in Fds
          PROVE  fd \in opened' <=> \/ \E i \in Subs : Active(i)' /\ subs'[i].fd = fd
                                    \/ fd \in control_fds
                                    \/ fd \in leaked
      <3>1. fd \in opened <=> \/ \E s \in Slots : devices[s].fd = fd
                              \/ \E i \in Subs : Active(i) /\ subs[i].fd = fd
                              \/ fd \in control_fds
                              \/ fd \in leaked
        BY DEF TablesInv, NoDescriptorLost
      <3>2. fd \in closed <=> \E s \in Slots : devices[s].fd = fd
        BY <1>8 DEF DeviceFd, closed
      <3>3. fd \in ClientFds(gone) <=> \E i \in gone : subs[i].fd = fd
        BY <1>8 DEF ClientFds
      <3>4. fd \in opened' <=> /\ fd \in opened
                               /\ ~ \E s \in Slots : devices[s].fd = fd
                               /\ ~ \E i \in gone : subs[i].fd = fd
        BY <1>4, <3>2, <3>3
      <3>5. ASSUME NEW i \in Subs, Active(i), subs[i].fd = fd
            PROVE  /\ ~ \E s \in Slots : devices[s].fd = fd
                   /\ \A j \in gone : subs[j].fd = fd => j = i
                   /\ fd \notin control_fds /\ fd \notin leaked
        BY <3>5, <1>4, <1>8 DEF TablesInv, OneOwner, LeaksAreNobodys, Open
      <3>6. fd \in control_fds \cup leaked => /\ ~ \E s \in Slots : devices[s].fd = fd
                                             /\ ~ \E i \in gone : subs[i].fd = fd
        BY <1>4 DEF TablesInv, OneOwner, LeaksAreNobodys
      <3>7. \A i \in Subs : Active(i)' => i \notin gone /\ Active(i) /\ subs'[i].fd = subs[i].fd
        BY <1>5
      <3>8. \A i \in Subs \ gone : Active(i) => Active(i)' /\ subs'[i].fd = subs[i].fd
        BY <1>5
      <3> QED
        BY <1>4, <3>1, <3>4, <3>5, <3>6, <3>7, <3>8
    <2> QED
      BY <1>1, <1>2, <1>8, <2>1 DEF NoDescriptorLost
  <1>13. LeaksAreNobodys'
    <2>1. \A i \in Subs : subs'[i].fd # subs[i].fd => subs'[i].fd = NoFd
      BY <1>5 DEF NoClient
    <2>2. NoFd \notin leaked
      BY <1>8 DEF TablesInv, TablesType
    <2> QED
      BY <1>1, <1>2, <2>1, <2>2 DEF TablesInv, LeaksAreNobodys
  <1>11. EveryoneIsHeard'
    <2>1. ASSUME NEW i \in Subs, Active(i)' PROVE subs'[i].fd \in all_fds'
      <3>1. i \notin gone /\ Active(i) /\ subs'[i] = subs[i] /\ subs[i].fd \in all_fds
        BY <1>5, <2>1 DEF TablesInv, EveryoneIsHeard
      <3>2. subs[i].fd \notin ClientFds(gone)
        BY <3>1, <1>4 DEF ClientFds, TablesInv, OneOwner
      <3> QED
        BY <1>4, <3>1, <3>2
    <2>2. \A s \in Slots : ~Open(s)'
      BY <1>2 DEF Open
    <2> QED
      BY <2>1, <2>2 DEF EveryoneIsHeard
  <1>12. LoopType' /\ ReadyInv' /\ RequestInv'
    BY <1>1 DEF LoopType, ReadyInv, RequestInv
  <1> QED
    BY <1>6, <1>7, <1>9, <1>10, <1>11, <1>12, <1>13 DEF TablesInv

LEMMA InitIInv == Init => IInv
  <1> SUFFICES ASSUME Init PROVE IInv
    OBVIOUS
  <1>1. TablesType
    BY RecordTypes DEF Init, TablesType
  <1>2. ClientInv /\ FreeSlotsAreClean /\ OpenDevicesAreInPool /\ OneOwner
        /\ EveryoneIsHeard
    BY DEF Init, ClientInv, FreeSlotsAreClean, OpenDevicesAreInPool, OneOwner, EveryoneIsHeard,
           NoDevice, NoClient, Open, Active
  <1>3. NoDescriptorLost /\ LeaksAreNobodys
    BY GpsdAssumption DEF Init, NoDescriptorLost, LeaksAreNobodys, NoDevice, NoClient, NoFd, Active
  <1>4. LoopType /\ ReadyInv /\ RequestInv
    BY GpsdAssumption DEF Init, LoopType, ReadyInv, RequestInv
  <1> QED
    BY <1>1, <1>2, <1>3, <1>4 DEF IInv, TablesInv

LEMMA IInvStep == IInv /\ [Next \/ Hangup]_vars => IInv'
  <1>1. IInv /\ UNCHANGED vars => IInv'
    BY Unchanged DEF vars, tables, IInv, LoopType, ReadyInv, Ready, RequestInv, Allocated, First,
                     Active
  <1> QED
    BY <1>1, StartKeeps, AcceptKeeps, ControlKeeps, DeviceKeeps, ClientKeeps, AwakenKeeps,
       ReleaseKeeps, TickKeeps, SignalKeeps DEF Next, Loop

LEMMA LoopInvariance == HupSpec => []IInv
  <1> QED
    BY InitIInv, IInvStep, PTL DEF HupSpec

\* The tables and the loop's own state keep their types.
THEOREM TypeCorrect == HupSpec => []TypeOK
  <1>1. IInv => TypeOK
    BY DEF IInv, TablesInv, TablesType, DeviceRecord, ClientRecord, LoopType, TypeOK
  <1> QED
    BY <1>1, LoopInvariance, PTL

\* An open device is in the pool: free_device() and the restart close first.
THEOREM OpenDevices == HupSpec => []OpenDevicesAreInPool
  <1>1. IInv => OpenDevicesAreInPool
    BY DEF IInv, TablesInv
  <1> QED
    BY <1>1, LoopInvariance, PTL

-----------------------------------------------------------------------------
(* A daemon that is not restarted *)

\* The select set is sound, and the command line adds each device once.
PoolInv ==
    /\ pc # "exit" => all_fds \subseteq opened
    /\ pc = "pselect" => rfds \subseteq opened
    /\ PathsAreUnique
    /\ pc = "start" => \A p \in naming : ~InPool(p)

LEMMA PoolInitially == Init => PoolInv
  <1> SUFFICES ASSUME Init PROVE PoolInv
    OBVIOUS
  <1>1. \A s \in Slots : devices[s].path = NoPath
    BY DEF Init, NoDevice
  <1> QED
    BY <1>1, GpsdAssumption DEF Init, PoolInv, PathsAreUnique, Allocated, InPool

\* A path that is not in the pool can be added to it.
LEMMA AddKeepsPool ==
    ASSUME TablesInv, NEW p \in Paths, AddDevice(p), all_fds \subseteq opened, PathsAreUnique,
           ~InPool(p)
    PROVE  /\ all_fds' \subseteq opened'
           /\ PathsAreUnique'
           /\ \A q \in Paths : InPool(q)' => InPool(q) \/ q = p
  <1>1. CASE UNCHANGED tables
    BY <1>1 DEF tables, PathsAreUnique, InPool, Allocated
  <1>2. CASE ~UNCHANGED tables
    <2>1. PICK s \in Slots, d \in DeviceRecord :
              /\ devices' = [devices EXCEPT ![s] = d]
              /\ d.path = p
              /\ all_fds' \subseteq opened'
      <3> DEFINE d(s) == [NoDevice EXCEPT !.path = p, !.releasetime = devices[s].releasetime,
                                          !.opentime = devices[s].opentime]
      <3>1. PICK s \in Slots, gone \in SUBSET Subs :
                \/ \E left \in LeftOpen :
                      /\ devices' = [devices EXCEPT ![s] = d(s)]
                      /\ opened' = (opened \ ClientFds(gone)) \cup left
                      /\ all_fds' = all_fds \ ClientFds(gone)
                \/ \E fd \in Fds, probed \in BOOLEAN :
                      /\ devices' = [devices EXCEPT ![s] = Acquired(d(s), fd, probed)]
                      /\ opened' = (opened \ ClientFds(gone)) \cup {fd}
                      /\ all_fds' = (all_fds \ ClientFds(gone)) \cup {fd}
        BY <1>2, ZenonT(40) DEF AddDevice, FreeSlots, StillWatched
      <3>2. devices[s] \in DeviceRecord
        BY DEF TablesInv, TablesType
      <3>3. d(s) \in DeviceRecord /\ d(s).path = p
        BY <3>2, RecordTypes DEF DeviceRecord, NoDevice
      <3> HIDE DEF d
      <3>4. CASE \E left \in LeftOpen :
                      /\ devices' = [devices EXCEPT ![s] = d(s)]
                      /\ opened' = (opened \ ClientFds(gone)) \cup left
                      /\ all_fds' = all_fds \ ClientFds(gone)
        BY <3>3, <3>4
      <3>5. CASE \E fd \in Fds, probed \in BOOLEAN :
                      /\ devices' = [devices EXCEPT ![s] = Acquired(d(s), fd, probed)]
                      /\ opened' = (opened \ ClientFds(gone)) \cup {fd}
                      /\ all_fds' = (all_fds \ ClientFds(gone)) \cup {fd}
        <4>1. PICK fd \in Fds, probed \in BOOLEAN :
                 /\ devices' = [devices EXCEPT ![s] = Acquired(d(s), fd, probed)]
                 /\ opened' = (opened \ ClientFds(gone)) \cup {fd}
                 /\ all_fds' = (all_fds \ ClientFds(gone)) \cup {fd}
          BY <3>5
        <4>2. Acquired(d(s), fd, probed) \in DeviceRecord /\ Acquired(d(s), fd, probed).path = p
          BY <3>3, AcquiredType
        <4>3. all_fds' \subseteq opened'
          BY <4>1
        <4> QED
          BY <4>1, <4>2, <4>3
      <3> QED
        BY <3>1, <3>4, <3>5
    <2>2. \A t \in Slots : devices'[t].path = IF t = s THEN p ELSE devices[t].path
      BY <2>1 DEF TablesInv, TablesType
    <2>3. PathsAreUnique'
      BY <2>2 DEF PathsAreUnique, Allocated, InPool
    <2> QED
      BY <2>1, <2>2, <2>3 DEF InPool
  <1> QED
    BY <1>1, <1>2

\* Every other step takes paths out of the pool at most.
LEMMA RestKeepsPool ==
    ASSUME PoolInv, pc' \notin {"start", "pselect"}, all_fds' \subseteq opened' \/ pc' = "exit",
           \A t \in Slots : devices'[t].path \in {devices[t].path, NoPath}
    PROVE  PoolInv'
  BY DEF PoolInv, PathsAreUnique, Allocated

LEMMA PoolStep == IInv /\ PoolInv /\ [Next]_vars => PoolInv'
  <1> SUFFICES ASSUME IInv, PoolInv, [Next]_vars PROVE PoolInv'
    OBVIOUS
  <1>0. TablesInv
    BY DEF IInv
  <1>1. \A s \in Slots : devices[s] \in DeviceRecord
    BY <1>0 DEF TablesInv, TablesType
  <1>2. ASSUME UNCHANGED tables PROVE \A t \in Slots : devices'[t].path = devices[t].path
    BY <1>2 DEF tables
  <1>3. ASSUME NEW s \in Slots, NEW fd \in Fds, NEW probed \in BOOLEAN,
               devices' = [devices EXCEPT ![s] = Acquired(@, fd, probed)]
        PROVE  \A t \in Slots : devices'[t].path = devices[t].path
    BY <1>1, <1>3, AcquiredType DEF TablesInv, TablesType
  <1>4. CASE StartStep
    <2>1. ASSUME NEW p \in Paths, AddFromCommandLine(p) PROVE PoolInv'
      <3>1. ~InPool(p)
        BY <2>1 DEF AddFromCommandLine, PoolInv
      <3>2. /\ all_fds' \subseteq opened' /\ PathsAreUnique'
            /\ \A q \in Paths : InPool(q)' => InPool(q) \/ q = p
        BY <1>0, <2>1, <3>1, AddKeepsPool DEF AddFromCommandLine, PoolInv
      <3> QED
        BY <2>1, <3>2 DEF AddFromCommandLine, PoolInv, IInv, LoopType
    <2>2. CASE EnterLoop
      BY <2>2 DEF EnterLoop, tables, PoolInv, PathsAreUnique, Allocated
    <2> QED
      BY <1>4, <2>1, <2>2 DEF StartStep
  <1>5. CASE Wait \/ AcceptStep
    <2>1. CASE CopySet
      BY <2>1 DEF CopySet, tables, PoolInv, PathsAreUnique, Allocated
    <2>2. CASE Poll \/ Traffic \/ AcceptStep
      <3>1. devices' = devices /\ pc' \notin {"start", "pselect"}
        BY <2>2 DEF Poll, Traffic, Select, AcceptStep, AcceptClient, RefuseClient,
                    NoCalls, AcceptLingerFails, AcceptControl, tables
      <3>2. all_fds' \subseteq opened' \/ pc' = "exit"
        BY <2>2 DEF Poll, Traffic, Select, AcceptStep, AcceptClient, RefuseClient,
                    NoCalls, AcceptLingerFails, AcceptControl, Admitted, tables, PoolInv
      <3> QED
        BY <3>1, <3>2, RestKeepsPool
    <2> QED
      BY <1>5, <2>1, <2>2 DEF Wait
  <1>6. CASE ControlStep
    <2>1. ASSUME NEW p \in Paths, ControlAdd(p) PROVE PoolInv'
      BY <1>0, <2>1, AddKeepsPool DEF ControlAdd, CanAdd, PoolInv
    <2>2. ASSUME NEW p \in Paths, ControlRemove(p) PROVE PoolInv'
      <3>1. PICK s \in Slots, gone \in SUBSET Subs :
                Deactivate(s, [devices[s] EXCEPT !.path = NoPath], gone)
        BY <2>2 DEF ControlRemove, Listeners
      <3>2. \A t \in Slots : devices'[t].path \in {devices[t].path, NoPath}
        BY <1>0, <1>1, <3>1 DEF Deactivate, DeviceRecord, TablesInv, TablesType
      <3>3. all_fds' \subseteq opened' /\ pc' \notin {"start", "pselect"}
        BY <2>2, <3>1 DEF ControlRemove, Deactivate, StillWatched, PoolInv
      <3> QED
        BY <3>2, <3>3, RestKeepsPool
    <2>3. CASE ControlDone \/ \E fd \in Fds : ControlHangup(fd)
      BY <2>3 DEF ControlDone, ControlHangup, StillWatched, tables, PoolInv, PathsAreUnique,
                  Allocated
    <2> QED
      BY <1>6, <2>1, <2>2, <2>3 DEF ControlStep
  <1>7. ASSUME NEW s \in Slots, DeviceStep(s) PROVE PoolInv'
    <2>1. \A t \in Slots : devices'[t].path = devices[t].path
      <3>1. ASSUME NEW d, d.path = devices[s].path, devices' = [devices EXCEPT ![s] = d]
            PROVE  \A t \in Slots : devices'[t].path = devices[t].path
        BY <1>0, <3>1 DEF TablesInv, TablesType
      <3>3. CASE ReadError(s) \/ ReadNothingAgain(s)
        <4>1. PICK d \in {devices[s], Refreshed(devices[s])} :
                devices' = [devices EXCEPT ![s] = [d EXCEPT !.fd = NoFd]]
          BY <3>3 DEF ReadError, ReadNothingAgain, Deactivate, ClosedFd
        <4>2. [d EXCEPT !.fd = NoFd].path = devices[s].path
          BY <1>1 DEF Refreshed, DeviceRecord
        <4> QED
          BY <3>1, <4>1, <4>2
      <3>4. CASE ReadNothing(s) \/ Reawake(s)
        BY <1>0, <1>1, <3>4 DEF ReadNothing, Reawake, DeviceRecord, TablesInv, TablesType
      <3>5. CASE ReadData(s)
        <4>1. PICK known, driver :
                devices' = [devices EXCEPT ![s] = [Refreshed(@) EXCEPT !.packet = known,
                                                                       !.driver = driver]]
          BY <3>5 DEF ReadData
        <4> QED
          BY <1>1, <3>1, <4>1 DEF Refreshed, DeviceRecord
      <3>6. CASE RelayRtcm(s)
        <4>1. devices' = [devices EXCEPT ![s] = [Refreshed(@) EXCEPT !.packet = TRUE,
                                                                     !.driver = TRUE]]
          BY <3>6 DEF RelayRtcm
        <4> QED
          BY <1>1, <3>1, <4>1 DEF Refreshed, DeviceRecord
      <3>7. CASE PassDevice(s)
        BY <3>7 DEF PassDevice, tables
      <3> QED
        BY <1>7, <3>3, <3>4, <3>5, <3>6, <3>7 DEF DeviceStep
    <2>2. all_fds' \subseteq opened'
      <3>1. devices[s].fd \in opened \/ devices[s].fd = NoFd
        BY <1>0, <1>1 DEF TablesInv, NoDescriptorLost, DeviceRecord
      <3>2. pc = "devices" /\ all_fds \subseteq opened
        BY <1>7 DEF DeviceStep, ReadError, ReadNothing, ReadNothingAgain, ReadData, Readable,
           RelayRtcm, Reawake, PassDevice, PoolInv
      <3>3. CASE ReadError(s) \/ ReadNothingAgain(s)
        BY <3>2, <3>3 DEF ReadError, ReadNothingAgain, Deactivate, StillWatched
      <3>4. CASE ReadNothing(s) \/ ReadData(s)
        BY <3>2, <3>4 DEF ReadNothing, ReadData, Drop, StillWatched
      <3>5. CASE Reawake(s)
        BY <3>1, <3>2, <3>5 DEF Reawake, Reawakens, Rewatched, Open
      <3>6. CASE RelayRtcm(s) \/ PassDevice(s)
        BY <3>2, <3>6 DEF RelayRtcm, PassDevice, tables
      <3> QED
        BY <1>7, <3>3, <3>4, <3>5, <3>6 DEF DeviceStep
    <2>3. pc' \notin {"start", "pselect"}
      BY <1>7, ProceedFacts DEF DeviceStep, ReadError, ReadNothing, ReadNothingAgain, ReadData,
         RelayRtcm, Reawake, PassDevice, IInv, LoopType
    <2> QED
      BY <2>1, <2>2, <2>3, RestKeepsPool
  <1>8. ASSUME NEW s \in Slots, Awaken(s) PROVE PoolInv'
    <2>1. \A t \in Slots : devices'[t].path = devices[t].path
      BY <1>3, <1>8 DEF Awaken, Activate
    <2>2. all_fds' \subseteq opened' /\ pc' \notin {"start", "pselect"}
      BY <1>8 DEF Awaken, Activate, PoolInv
    <2> QED
      BY <2>1, <2>2, RestKeepsPool
  <1>9. ASSUME NEW s \in Slots, ReleaseStep(s) PROVE PoolInv'
    <2>1. \A t \in Slots : devices'[t].path = devices[t].path
      <3>1. CASE Reconnect(s)
        BY <1>3, <3>1 DEF Reconnect
      <3>2. CASE ~Reconnect(s)
        BY <1>0, <1>1, <1>9, <3>2 DEF ReleaseStep, Mark, Release, ReconnectFails, LeaveDevice,
           Deactivate, tables, DeviceRecord, TablesInv, TablesType
      <3> QED
        BY <3>1, <3>2
    <2>2. all_fds' \subseteq opened'
      BY <1>9 DEF ReleaseStep, Mark, Release, Reconnect, ReconnectFails, LeaveDevice, Deactivate,
         StillWatched, tables, PoolInv
    <2>3. pc' \notin {"start", "pselect"}
      BY <1>9, ProceedFacts DEF ReleaseStep, Mark, Release, Reconnect, ReconnectFails, LeaveDevice,
         IInv, LoopType
    <2> QED
      BY <2>1, <2>2, <2>3, RestKeepsPool
  <1>10. ASSUME NEW i \in Subs, ClientStep(i) PROVE PoolInv'
    <2>1. \A t \in Slots : devices'[t].path = devices[t].path
      <3>1. CASE devices' = devices
        BY <3>1
      <3>2. ASSUME NEW s \in Slots, Configure(i, s)
            PROVE  \A t \in Slots : devices'[t].path = devices[t].path
        BY <1>0, <1>1, <3>2 DEF Configure, DeviceRecord, TablesInv, TablesType
      <3> QED
        BY <1>10, <3>1, <3>2 DEF ClientStep, LoseClient, PassClient, ReceiveLine, RequestStep,
           Watch, BadWatch, SelectDevice, Reply, tables
    <2>2. all_fds' \subseteq opened'
      BY <1>10 DEF ClientStep, LoseClient, PassClient, ReceiveLine, RequestStep, Watch, BadWatch,
         SelectDevice, Configure, Reply, AtClient, Requesting, Drop, StillWatched, tables, PoolInv
    <2>3. pc' \notin {"start", "pselect"}
      BY <1>10, ProceedFacts DEF ClientStep, LoseClient, PassClient, ReceiveLine, RequestStep,
         Watch, BadWatch, SelectDevice, Configure, Reply, AtClient, Requesting, IInv, LoopType
    <2> QED
      BY <2>1, <2>2, <2>3, RestKeepsPool
  <1>11. CASE Tick
    <2>1. \A t \in Slots : devices'[t].path = devices[t].path
      BY <1>1, <1>11 DEF Tick, DeviceRecord
    <2>2. \A t \in Slots : Allocated(t)' <=> Allocated(t)
      BY <2>1 DEF Allocated
    <2>3. \A path : InPool(path)' <=> InPool(path)
      BY <2>1, <2>2 DEF InPool
    <2>4. PathsAreUnique'
      BY <2>1, <2>2 DEF PoolInv, PathsAreUnique
    <2> QED
      BY <1>11, <2>1, <2>2, <2>3, <2>4 DEF Tick, PoolInv
  <1>12. CASE Terminate
    <2>1. \A t \in Slots : devices'[t].path = devices[t].path
      BY <1>1, <1>12 DEF Terminate, DeviceRecord
    <2> QED
      BY <1>12, <2>1, RestKeepsPool DEF Terminate
  <1>13. CASE UNCHANGED vars
    BY <1>13 DEF vars, PoolInv, PathsAreUnique, Allocated, InPool
  <1> QED
    BY <1>4, <1>5, <1>6, <1>7, <1>8, <1>9, <1>10, <1>11, <1>12, <1>13 DEF Next, Loop

LEMMA PoolInvariance == Spec => [](IInv /\ PoolInv)
  <1>1. Init => IInv /\ PoolInv
    BY InitIInv, PoolInitially
  <1>2. IInv /\ PoolInv /\ [Next]_vars => (IInv /\ PoolInv)'
    BY IInvStep, PoolStep
  <1> QED
    BY <1>1, <1>2, PTL DEF Spec

\* A daemon that is not restarted has each device in the pool once.
THEOREM PoolSafety == Spec => []PathsAreUnique
  <1>1. PoolInv => PathsAreUnique
    BY DEF PoolInv
  <1> QED
    BY <1>1, PoolInvariance, PTL

-----------------------------------------------------------------------------
(* No device is closed behind the back of a watcher *)

\* In every phase but those of the control socket and of the reads, an open device
\* that somebody watches keeps its descriptor, or the watchers lose theirs too.
LEMMA WatchedStep ==
    ASSUME IInv, Next, pc \notin {"control", "devices"}, NEW s \in Slots, Open(s),
           NEW i \in Listeners(s), subs'[i].fd = subs[i].fd
    PROVE  devices'[s].fd = devices[s].fd
  <1>1. /\ TablesInv
        /\ \A t \in Slots : devices[t] \in DeviceRecord
        /\ devices \in [Slots -> DeviceRecord]
    BY DEF IInv, TablesInv, TablesType
  <1>2. /\ Allocated(s)
        /\ i \in Subs /\ Active(i) /\ Needed(s)
    BY <1>1 DEF TablesInv, OpenDevicesAreInPool, Listeners, Needed
  <1>3. CASE devices' = devices
    BY <1>3
  \* Only a closed device is opened.
  <1>4. ASSUME NEW t \in Slots, ~Open(t), NEW d, devices' = [devices EXCEPT ![t] = d]
        PROVE  devices'[s].fd = devices[s].fd
    BY <1>1, <1>4
  \* A step that does not touch the descriptor of the device it is about.
  <1>5. ASSUME NEW t \in Slots, NEW d, devices' = [devices EXCEPT ![t] = d],
               d.fd = devices[t].fd
        PROVE  devices'[s].fd = devices[s].fd
    BY <1>1, <1>5
  <1>6. CASE StartStep
    <2>1. CASE EnterLoop
      BY <1>3, <2>1 DEF EnterLoop, tables
    <2>2. ASSUME NEW p \in Paths, AddDevice(p) PROVE devices'[s].fd = devices[s].fd
      <3>1. \A t \in FreeSlots : t \in Slots /\ ~Open(t)
        BY <1>1 DEF FreeSlots, TablesInv, OpenDevicesAreInPool
      <3>2. devices' = devices \/ \E t \in FreeSlots : \E d : devices' = [devices EXCEPT ![t] = d]
        BY <2>2 DEF AddDevice, tables
      <3> QED
        BY <1>3, <1>4, <3>1, <3>2
    <2> QED
      BY <1>6, <2>1, <2>2 DEF StartStep, AddFromCommandLine
  <1>7. CASE Wait \/ AcceptStep
    BY <1>3, <1>7 DEF Wait, CopySet, Poll, Traffic, Select, AcceptStep, AcceptClient, RefuseClient, NoCalls,
       AcceptLingerFails, AcceptControl, tables
  <1>8. ~ControlStep /\ ~\E t \in Slots : DeviceStep(t)
    BY DEF ControlStep, ControlAdd, ControlRemove, ControlHangup, ControlDone, DeviceStep, ReadError,
       ReadNothing, ReadNothingAgain, ReadData, RelayRtcm, Reawake, PassDevice, Readable
  <1>9. ASSUME NEW t \in Slots, Awaken(t) PROVE devices'[s].fd = devices[s].fd
    <2>1. devices' = devices \/ (~Open(t) /\ \E d : devices' = [devices EXCEPT ![t] = d])
      BY <1>9 DEF Awaken, Activate
    <2> QED
      BY <1>3, <1>4, <2>1
  <1>10. ASSUME NEW t \in Slots, ReleaseStep(t) PROVE devices'[s].fd = devices[s].fd
    <2>1. CASE Mark(t)
      <3>1. [devices[t] EXCEPT !.releasetime = MarkTime].fd = devices[t].fd
        BY <1>1 DEF DeviceRecord
      <3> QED
        BY <1>5, <2>1, <3>1 DEF Mark
    <2>2. CASE Release(t)
      <3>1. t # s
        BY <1>2, <2>2 DEF Release, Idle
      <3> QED
        BY <1>1, <2>2, <3>1 DEF Release, Deactivate
    <2>3. CASE Reconnect(t) \/ ReconnectFails(t)
      <3>1. ~Open(t) /\ \E d : devices' = [devices EXCEPT ![t] = d]
        BY <2>3 DEF Reconnect, ReconnectFails, Reconnects, Missing
      <3> QED
        BY <1>4, <3>1
    <2>4. CASE LeaveDevice(t)
      BY <1>3, <2>4 DEF LeaveDevice, tables
    <2> QED
      BY <1>10, <2>1, <2>2, <2>3, <2>4 DEF ReleaseStep
  <1>11. ASSUME NEW j \in Subs, ClientStep(j) PROVE devices'[s].fd = devices[s].fd
    <2>1. ASSUME NEW t \in Slots, Configure(j, t) PROVE devices'[s].fd = devices[s].fd
      <3>1. [devices[t] EXCEPT !.packet = FALSE].fd = devices[t].fd
        BY <1>1 DEF DeviceRecord
      <3> QED
        BY <1>5, <2>1, <3>1 DEF Configure
    <2>2. CASE ~\E t \in Slots : Configure(j, t)
      BY <1>3, <1>11, <2>2 DEF ClientStep, LoseClient, PassClient, ReceiveLine, RequestStep, Watch,
         BadWatch, SelectDevice, Reply, tables
    <2> QED
      BY <2>1, <2>2
  <1>12. CASE Tick
    BY <1>1, <1>12 DEF Tick, DeviceRecord
  \* At the end the clients are detached.
  <1>13. ~Terminate
    <2>1. SUFFICES ASSUME Terminate PROVE FALSE
      OBVIOUS
    <2>2. subs'[i].fd = NoFd
      BY <1>2, <2>1 DEF Terminate, Detached, NoClient
    <2>3. subs[i].fd \in Fds
      BY <1>1, <1>2 DEF TablesInv, ClientInv
    <2> QED
      BY <2>2, <2>3, GpsdAssumption DEF NoFd
  <1> QED
    BY <1>6, <1>7, <1>8, <1>9, <1>10, <1>11, <1>12, <1>13 DEF Next, Loop

\* A device that an undisturbed watcher uses is closed only by "-" on the control
\* socket, or on what a read of it returned.
THEOREM WatchedDevices == Spec => WatchedDeviceStaysOpen
  <1>1. IInv /\ [Next]_vars =>
          [\A s \in Slots :
              /\ Open(s) /\ devices'[s].fd # devices[s].fd
              /\ \E i \in Listeners(s) : subs'[i].fd = subs[i].fd
              => pc \in {"control", "devices"}]_vars
    BY WatchedStep
  <1> QED
    BY <1>1, PoolInvariance, PTL DEF Spec, WatchedDeviceStaysOpen

-----------------------------------------------------------------------------
(* The PPS threads beside the main thread *)

ThreadRecord == [at : Places, dev : Slots, sub : Subs \cup {0}, fd : Fds \cup {NoFd, 0},
                 set : SUBSET Fds]

\* A thread that detaches a client does so for one of the table.
ThreadType ==
    /\ thread \in [Threads -> ThreadRecord]
    /\ \A t \in Threads : thread[t].at \notin {"edge", "notify"} => thread[t].sub \in Subs

\* What holds while thread t detaches the client of slot i, and nobody interferes: the
\* tables are those of the client as it was, but for its descriptor, which is closed, and
\* has left all_fds when the slot is about to be freed.
Midway(t) ==
    LET i == thread[t].sub
        fd == subs[i].fd
    IN  /\ TablesType /\ ClientInv /\ FreeSlotsAreClean /\ OpenDevicesAreInPool
        /\ OneOwner /\ LeaksAreNobodys
        /\ LoopType /\ ReadyInv /\ RequestInv
        /\ pc # "request" \/ ~First(i)
        /\ fd # NoFd /\ fd \notin opened
        /\ \A x \in Fds \ {fd} :
              x \in opened <=> \/ \E s \in Slots : devices[s].fd = x
                               \/ \E j \in Subs : Active(j) /\ subs[j].fd = x
                               \/ x \in control_fds
                               \/ x \in leaked
        /\ \A j \in Subs : Active(j) /\ j # i => subs[j].fd \in all_fds
        /\ \A s \in Slots : Open(s) => devices[s].fd \in all_fds \/ devices[s].reawake # None
        /\ thread[t].at = "store" => thread[t].fd = fd /\ thread[t].set = all_fds
        /\ thread[t].at = "free" => fd \notin all_fds

\* Between the detachings the tables are as the main thread leaves them.
ThreadInv ==
    /\ disturbed \in BOOLEAN
    /\ ~disturbed => /\ ThreadType
                     /\ Detaching = {} => IInv
                     /\ \A t \in Detaching : Detaching = {t} /\ Midway(t)

LEMMA IdlingType == Idling \in ThreadRecord
  BY GpsdAssumption DEF Idling, ThreadRecord, Places, Slots

\* A thread that starts, looks at the next client or is done with the device detaches
\* nobody, and leaves the tables alone.
LEMMA HookKeeps ==
    ASSUME ThreadType, NEW t \in Threads,
           \/ \E s \in Slots : HookStart(t, s)
           \/ \E i \in Subs : HookWriteFails(t, i)
           \/ HookEnd(t) \/ HookGone(t)
    PROVE  /\ ThreadType' /\ UNCHANGED vars /\ UNCHANGED disturbed
           /\ Detaching' = Detaching
           /\ \A u \in Detaching : u # t /\ thread'[u] = thread[u]
  <1>1. /\ UNCHANGED vars /\ UNCHANGED disturbed
        /\ thread[t].at \in {"edge", "notify", "close"}
    BY DEF HookStart, HookWriteFails, HookEnd, HookGone
  <1>2. PICK r \in ThreadRecord :
            /\ thread' = [thread EXCEPT ![t] = r]
            /\ r.at \in {"notify", "close", "edge"}
            /\ r.at = "close" => r.sub \in Subs
    <2>1. CASE \E s \in Slots : HookStart(t, s)
      <3>1. PICK s \in Slots :
                thread' = [thread EXCEPT ![t] = [Idling EXCEPT !.at = "notify", !.dev = s]]
        BY <2>1 DEF HookStart
      <3>2. /\ [Idling EXCEPT !.at = "notify", !.dev = s] \in ThreadRecord
            /\ [Idling EXCEPT !.at = "notify", !.dev = s].at = "notify"
        BY IdlingType DEF ThreadRecord, Places
      <3> QED
        BY <3>1, <3>2
    <2>2. CASE \E i \in Subs : HookWriteFails(t, i)
      <3>1. PICK i \in Subs : thread' = [thread EXCEPT ![t].at = "close", ![t].sub = i]
        BY <2>2 DEF HookWriteFails
      <3> DEFINE r == [thread[t] EXCEPT !.at = "close", !.sub = i]
      <3>2. r \in ThreadRecord /\ r.at = "close" /\ r.sub = i
        BY DEF ThreadType, ThreadRecord, Places
      <3>3. thread' = [thread EXCEPT ![t] = r]
        BY <3>1 DEF ThreadType
      <3> HIDE DEF r
      <3> QED
        BY <3>2, <3>3
    <2>3. CASE HookEnd(t)
      BY <2>3, IdlingType DEF HookEnd, Idling
    <2>4. CASE HookGone(t)
      <3> DEFINE r == [thread[t] EXCEPT !.at = "notify"]
      <3>1. r \in ThreadRecord /\ r.at = "notify"
        BY DEF ThreadType, ThreadRecord, Places
      <3>2. thread' = [thread EXCEPT ![t] = r]
        BY <2>4 DEF HookGone, Proceeds, ThreadType
      <3> HIDE DEF r
      <3> QED
        BY <3>1, <3>2
    <2> QED
      BY <2>1, <2>2, <2>3, <2>4
  <1>3. \A u \in Threads : thread'[u] = IF u = t THEN r ELSE thread[u]
    BY <1>2 DEF ThreadType
  <1>4. ThreadType'
    BY <1>2, <1>3 DEF ThreadType
  <1>5. Detaching' = Detaching /\ \A u \in Detaching : u # t
    BY <1>1, <1>2, <1>3 DEF Detaching
  <1> QED
    BY <1>1, <1>3, <1>4, <1>5 DEF Detaching

\* Thread t takes a step on its way through detach_client().
LEMMA PlaceFacts ==
    ASSUME ThreadType, TablesType, NEW t \in Threads, NEW place \in Places,
           thread[t].sub \in Subs,
           \/ Proceeds(t, place)
           \/ thread' = [thread EXCEPT ![t].at = place, ![t].fd = Client(t).fd, ![t].set = all_fds]
           \/ thread' = [thread EXCEPT ![t].at = place, ![t].fd = NoFd, ![t].set = {}]
    PROVE  /\ ThreadType'
           /\ thread'[t].at = place /\ thread'[t].sub = thread[t].sub
           /\ \A u \in Threads \ {t} : thread'[u] = thread[u]
  <1>1. thread[t] \in ThreadRecord /\ subs[thread[t].sub].fd \in Fds \cup {NoFd, 0}
    BY DEF ThreadType, TablesType, ClientRecord
  <1>2. PICK r \in ThreadRecord : /\ thread' = [thread EXCEPT ![t] = r]
                                  /\ r.at = place /\ r.sub = thread[t].sub
    <2>1. CASE Proceeds(t, place)
      <3> DEFINE r == [thread[t] EXCEPT !.at = place]
      <3>1. r \in ThreadRecord /\ r.at = place /\ r.sub = thread[t].sub
        BY <1>1 DEF ThreadRecord
      <3>2. thread' = [thread EXCEPT ![t] = r]
        BY <2>1 DEF Proceeds, ThreadType
      <3> HIDE DEF r
      <3> QED
        BY <3>1, <3>2
    <2>2. ASSUME NEW fd \in Fds \cup {NoFd, 0}, NEW set \in SUBSET Fds,
                 thread' = [thread EXCEPT ![t].at = place, ![t].fd = fd, ![t].set = set]
          PROVE  \E r \in ThreadRecord : /\ thread' = [thread EXCEPT ![t] = r]
                                         /\ r.at = place /\ r.sub = thread[t].sub
      <3> DEFINE r == [thread[t] EXCEPT !.at = place, !.fd = fd, !.set = set]
      <3>1. r \in ThreadRecord /\ r.at = place /\ r.sub = thread[t].sub
        BY <1>1 DEF ThreadRecord
      <3>2. thread' = [thread EXCEPT ![t] = r]
        BY <2>2 DEF ThreadType
      <3> HIDE DEF r
      <3> QED
        BY <3>1, <3>2
    <2>3. all_fds \in SUBSET Fds /\ {} \in SUBSET Fds
      BY DEF TablesType
    <2> QED
      BY <1>1, <2>1, <2>2, <2>3 DEF Client
  <1>3. \A u \in Threads : thread'[u] = IF u = t THEN r ELSE thread[u]
    BY <1>2 DEF ThreadType
  <1> QED
    BY <1>2, <1>3 DEF ThreadType

\* close(): the descriptor is gone, the rest of the tables is as before.
LEMMA CloseMidway ==
    ASSUME ThreadType, IInv, Detaching = {}, NEW t \in Threads, HookClose(t), ~Untimely(t)
    PROVE  ThreadType' /\ Detaching' = {t} /\ Midway(t)'
  <1> DEFINE i == thread[t].sub
             fd == subs[i].fd
  <1>1. /\ i \in Subs /\ fd # NoFd
        /\ opened' = opened \ {fd}
        /\ UNCHANGED <<devices, subs, all_fds, rfds, control_fds, leaked, calls, pc, todo, rousing,
                       naming>>
    BY DEF HookClose, ThreadType, Client
  <1>2. /\ ThreadType' /\ thread'[t].at = "load" /\ thread'[t].sub = i
        /\ \A u \in Threads \ {t} : thread'[u] = thread[u]
    BY <1>1, PlaceFacts DEF HookClose, IInv, TablesInv, Places
  <1>3. Detaching' = {t}
    BY <1>2 DEF Detaching
  <1>4. pc # "request" \/ ~First(i)
    BY DEF Untimely
  <1> HIDE DEF i
  <1>5. /\ TablesType' /\ ClientInv' /\ FreeSlotsAreClean' /\ OpenDevicesAreInPool'
        /\ OneOwner' /\ LeaksAreNobodys'
    BY <1>1 DEF IInv, TablesInv, TablesType, ClientInv, FreeSlotsAreClean, OpenDevicesAreInPool,
                OneOwner, LeaksAreNobodys, Open, Active, Allocated
  <1>6. LoopType' /\ ReadyInv' /\ RequestInv'
    BY <1>1 DEF IInv, LoopType, ReadyInv, Ready, RequestInv, First, Active, Allocated
  <1>7. \A x \in Fds \ {fd} :
            x \in opened' <=> \/ \E s \in Slots : devices[s].fd = x
                              \/ \E j \in Subs : Active(j) /\ subs[j].fd = x
                              \/ x \in control_fds
                              \/ x \in leaked
    BY <1>1 DEF IInv, TablesInv, NoDescriptorLost
  <1>8. /\ \A j \in Subs : Active(j) => subs[j].fd \in all_fds
        /\ \A s \in Slots : Open(s) => devices[s].fd \in all_fds \/ devices[s].reawake # None
    BY DEF IInv, TablesInv, EveryoneIsHeard
  <1>9. fd \notin opened'
    BY <1>1
  <1> QED
    BY <1>1, <1>2, <1>3, <1>4, <1>5, <1>6, <1>7, <1>8, <1>9 DEF Midway, First, Active, Open

\* The load of all_fds.
LEMMA LoadMidway ==
    ASSUME ThreadType, NEW t \in Threads, Detaching = {t}, Midway(t), HookLoad(t)
    PROVE  ThreadType' /\ Detaching' = {t} /\ Midway(t)'
  <1> DEFINE i == thread[t].sub
  <1>1. i \in Subs /\ UNCHANGED vars
    BY DEF HookLoad, ThreadType
  <1>2. /\ ThreadType' /\ thread'[t].at = "store" /\ thread'[t].sub = i
        /\ \A u \in Threads \ {t} : thread'[u] = thread[u]
    BY <1>1, PlaceFacts DEF HookLoad, Midway, Places
  <1>3. thread'[t].fd = subs[i].fd /\ thread'[t].set = all_fds
    BY DEF HookLoad, ThreadType, ThreadRecord, Client
  <1>4. Detaching' = {t}
    BY <1>2 DEF Detaching
  <1> HIDE DEF i
  <1>5. UNCHANGED <<devices, subs, all_fds, rfds, control_fds, opened, leaked, calls, pc, todo,
                    rousing, naming>>
    BY <1>1 DEF vars
  <1>6. /\ TablesType' /\ ClientInv' /\ FreeSlotsAreClean' /\ OpenDevicesAreInPool'
        /\ OneOwner' /\ LeaksAreNobodys'
    BY <1>5 DEF Midway, TablesType, ClientInv, FreeSlotsAreClean, OpenDevicesAreInPool,
                OneOwner, LeaksAreNobodys, Open, Active, Allocated
  <1>7. LoopType' /\ ReadyInv' /\ RequestInv'
    BY <1>5 DEF Midway, LoopType, ReadyInv, Ready, RequestInv, First, Active, Allocated
  <1> QED
    BY <1>2, <1>3, <1>4, <1>5, <1>6, <1>7 DEF Midway, First, Active, Open, i

\* The store, of what the load found without the descriptor.
LEMMA StoreMidway ==
    ASSUME ThreadType, NEW t \in Threads, Detaching = {t}, Midway(t), HookStore(t)
    PROVE  ThreadType' /\ Detaching' = {t} /\ Midway(t)'
  <1> DEFINE i == thread[t].sub
             fd == subs[i].fd
  <1>1. /\ i \in Subs
        /\ UNCHANGED <<devices, subs, rfds, control_fds, opened, leaked, calls, pc, todo, rousing,
                       naming>>
    BY DEF HookStore, ThreadType
  <1>2. all_fds' = all_fds \ {fd}
    BY DEF HookStore, Midway
  <1>3. /\ ThreadType' /\ thread'[t].at = "free" /\ thread'[t].sub = i
        /\ \A u \in Threads \ {t} : thread'[u] = thread[u]
    BY <1>1, PlaceFacts DEF HookStore, Midway, Places
  <1>4. Detaching' = {t}
    BY <1>3 DEF Detaching
  <1>5. /\ \A j \in Subs : Active(j) /\ j # i => subs[j].fd # fd
        /\ \A s \in Slots : Open(s) => devices[s].fd # fd
    BY <1>1 DEF Midway, OneOwner
  <1>6. \A s \in Slots : ~Open(s) => devices[s].fd \notin rfds
    BY GpsdAssumption DEF Midway, LoopType, Open, NoFd
  <1> HIDE DEF i
  <1>7. /\ TablesType' /\ ClientInv' /\ FreeSlotsAreClean' /\ OpenDevicesAreInPool'
        /\ OneOwner' /\ LeaksAreNobodys'
    BY <1>1, <1>2 DEF Midway, TablesType, ClientInv, FreeSlotsAreClean, OpenDevicesAreInPool,
                      OneOwner, LeaksAreNobodys, Open, Active, Allocated
  <1>8. LoopType' /\ ReadyInv' /\ RequestInv'
    <2>1. \A s \in Slots : Ready(s) => Ready(s)'
      BY <1>1, <1>2, <1>5, <1>6 DEF Ready
    <2> QED
      BY <1>1, <2>1 DEF Midway, LoopType, ReadyInv, RequestInv, First, Active, Allocated
  <1>9. /\ \A j \in Subs : Active(j) /\ j # i => subs[j].fd \in all_fds'
        /\ \A s \in Slots : Open(s) => devices[s].fd \in all_fds' \/ devices[s].reawake # None
    BY <1>2, <1>5 DEF Midway, i
  <1>10. fd \notin all_fds'
    BY <1>2
  <1> QED
    BY <1>1, <1>3, <1>4, <1>7, <1>8, <1>9, <1>10 DEF Midway, First, Active, Open, i

\* The slot is freed: nothing of the client is left.
LEMMA FreeKeeps ==
    ASSUME ThreadType, NEW t \in Threads, Detaching = {t}, Midway(t), HookFree(t)
    PROVE  ThreadType' /\ Detaching' = {} /\ IInv'
  <1> DEFINE i == thread[t].sub
             fd == subs[i].fd
  <1>1. /\ i \in Subs
        /\ subs' = [subs EXCEPT ![i] = NoClient]
        /\ UNCHANGED <<devices, all_fds, rfds, control_fds, opened, leaked, calls, pc, todo,
                       rousing, naming>>
    BY DEF HookFree, Freed, ThreadType
  <1>2. /\ ThreadType' /\ thread'[t].at = "notify"
        /\ \A u \in Threads \ {t} : thread'[u] = thread[u]
    BY <1>1, PlaceFacts DEF HookFree, Midway, Places
  <1>3. Detaching' = {}
    BY <1>2 DEF Detaching
  <1>4. \A j \in Subs : subs'[j] = IF j = i THEN NoClient ELSE subs[j]
    BY <1>1 DEF Midway, TablesType
  <1>5. /\ \A j \in Subs : j # i /\ Active(j) => subs[j].fd # fd
        /\ \A s \in Slots : Open(s) => devices[s].fd # fd
        /\ fd \notin control_fds /\ fd \notin leaked /\ fd # NoFd /\ fd \notin opened
        /\ pc # "request" \/ ~First(i)
    BY <1>1 DEF Midway, OneOwner, LeaksAreNobodys
  <1>6. \A x \in Fds \ {fd} :
            x \in opened <=> \/ \E s \in Slots : devices[s].fd = x
                             \/ \E j \in Subs : Active(j) /\ subs[j].fd = x
                             \/ x \in control_fds
                             \/ x \in leaked
    BY DEF Midway
  <1>7. /\ \A j \in Subs : Active(j) /\ j # i => subs[j].fd \in all_fds
        /\ \A s \in Slots : Open(s) => devices[s].fd \in all_fds \/ devices[s].reawake # None
    BY DEF Midway
  <1> HIDE DEF i
  <1>8. \A j \in Subs : /\ Active(j)' <=> Active(j) /\ j # i
                        /\ subs'[j].fd = IF j = i THEN NoFd ELSE subs[j].fd
    BY <1>4 DEF Active, NoClient
  <1>9. NoFd \notin Fds
    BY GpsdAssumption DEF NoFd
  <1>10. TablesType'
    BY <1>1, RecordTypes DEF Midway, TablesType
  <1>11. ClientInv' /\ FreeSlotsAreClean' /\ OpenDevicesAreInPool'
    BY <1>1, <1>4, <1>8 DEF Midway, ClientInv, FreeSlotsAreClean, OpenDevicesAreInPool, NoClient, Open,
                      Allocated
  <1>12. OneOwner'
    BY <1>1, <1>8, <1>9 DEF Midway, OneOwner, TablesType, ClientInv, Open
  <1>13. LeaksAreNobodys'
    BY <1>1, <1>8, <1>9 DEF Midway, LeaksAreNobodys, TablesType
  <1>14. NoDescriptorLost'
    <2>1. ASSUME NEW x \in Fds
          PROVE  x \in opened <=> \/ \E s \in Slots : devices[s].fd = x
                                  \/ \E j \in Subs : Active(j)' /\ subs'[j].fd = x
                                  \/ x \in control_fds
                                  \/ x \in leaked
      <3>1. CASE x = fd
        BY <1>5, <1>8, <1>9, <3>1 DEF Open
      <3>2. CASE x # fd
        <4>1. (\E j \in Subs : Active(j)' /\ subs'[j].fd = x)
                  <=> \E j \in Subs : Active(j) /\ subs[j].fd = x
          BY <1>8, <3>2
        <4> QED
          BY <1>6, <3>2, <4>1
      <3> QED
        BY <3>1, <3>2
    <2> QED
      BY <1>1, <2>1 DEF NoDescriptorLost
  <1>15. EveryoneIsHeard'
    BY <1>1, <1>7, <1>8 DEF EveryoneIsHeard, Open
  <1>16. LoopType' /\ ReadyInv' /\ RequestInv'
    BY <1>1, <1>5, <1>8 DEF Midway, LoopType, ReadyInv, Ready, RequestInv, First, Allocated
  <1> QED
    BY <1>2, <1>3, <1>10, <1>11, <1>12, <1>13, <1>14, <1>15, <1>16 DEF IInv, TablesInv

\* Time passes meanwhile.
LEMMA TickMidway ==
    ASSUME NEW t \in Threads, thread[t].sub \in Subs, Midway(t), Tick, UNCHANGED thread
    PROVE  Midway(t)'
  <1>1. TablesType
    BY DEF Midway
  <1>2. /\ devices' \in [Slots -> DeviceRecord] /\ subs' \in [Subs -> ClientRecord]
        /\ \A s \in Slots : /\ devices'[s].fd = devices[s].fd
                            /\ devices'[s].path = devices[s].path
                            /\ devices'[s].reawake = None <=> devices[s].reawake = None
        /\ \A i \in Subs : /\ subs'[i].fd = subs[i].fd
                           /\ subs'[i].watcher = subs[i].watcher
                           /\ subs'[i].devpath = subs[i].devpath
                           /\ Active(i)' <=> Active(i)
    BY <1>1, TickFacts
  <1>3. UNCHANGED <<all_fds, opened, leaked, rfds, control_fds, calls, pc, todo, rousing, naming>>
    BY DEF Tick
  <1>4. TablesType' /\ ClientInv' /\ FreeSlotsAreClean' /\ OpenDevicesAreInPool'
    BY <1>2, <1>3 DEF Midway, TablesType, ClientInv, FreeSlotsAreClean, OpenDevicesAreInPool, Open,
                      Allocated
  <1>5. OneOwner' /\ LeaksAreNobodys'
    BY <1>2, <1>3 DEF Midway, OneOwner, LeaksAreNobodys, Open
  <1>6. LoopType' /\ ReadyInv' /\ RequestInv'
    BY <1>2, <1>3 DEF Midway, LoopType, ReadyInv, Ready, RequestInv, First, Allocated
  <1> DEFINE i == thread[t].sub
             fd == subs[i].fd
  <1>7. /\ (pc # "request" \/ ~First(i))'
        /\ fd' # NoFd /\ fd' \notin opened'
        /\ thread'[t].at = "store" => thread'[t].fd = fd' /\ thread'[t].set = all_fds'
        /\ thread'[t].at = "free" => fd' \notin all_fds'
    BY <1>2, <1>3 DEF Midway, First
  <1>8. \A x \in Fds \ {fd'} :
            x \in opened' <=> \/ \E s \in Slots : devices'[s].fd = x
                              \/ \E j \in Subs : Active(j)' /\ subs'[j].fd = x
                              \/ x \in control_fds'
                              \/ x \in leaked'
    <2>1. ASSUME NEW x \in Fds \ {fd'}
          PROVE  /\ (\E s \in Slots : devices'[s].fd = x) <=> \E s \in Slots : devices[s].fd = x
                 /\ (\E j \in Subs : Active(j)' /\ subs'[j].fd = x)
                       <=> \E j \in Subs : Active(j) /\ subs[j].fd = x
                 /\ x # fd
      BY <1>2
    <2> QED
      BY <1>3, <2>1 DEF Midway
  <1>9. /\ \A j \in Subs : Active(j)' /\ j # i' => subs'[j].fd \in all_fds'
        /\ \A s \in Slots : Open(s)' => devices'[s].fd \in all_fds' \/ devices'[s].reawake # None
    BY <1>2, <1>3 DEF Midway, Open
  <1> QED
    BY <1>4, <1>5, <1>6, <1>7, <1>8, <1>9 DEF Midway

\* Nothing happens to the tables and to thread t.
LEMMA StillMidway ==
    ASSUME NEW t, Midway(t), UNCHANGED vars, thread'[t] = thread[t]
    PROVE  Midway(t)'
  <1>1. UNCHANGED <<devices, subs, all_fds, rfds, control_fds, opened, leaked, calls, pc, todo,
                    rousing, naming>>
    BY DEF vars
  <1>2. /\ TablesType' /\ ClientInv' /\ FreeSlotsAreClean' /\ OpenDevicesAreInPool'
        /\ OneOwner' /\ LeaksAreNobodys'
    BY <1>1 DEF Midway, TablesType, ClientInv, FreeSlotsAreClean, OpenDevicesAreInPool,
                OneOwner, LeaksAreNobodys, Open, Active, Allocated
  <1>3. LoopType' /\ ReadyInv' /\ RequestInv'
    BY <1>1 DEF Midway, LoopType, ReadyInv, Ready, RequestInv, First, Active, Allocated
  <1> QED
    BY <1>1, <1>2, <1>3 DEF Midway, First, Active, Open

LEMMA ThreadInitially == ThreadInit => ThreadInv
  <1> SUFFICES ASSUME ThreadInit PROVE ThreadInv
    OBVIOUS
  <1>1. ThreadType
    BY IdlingType DEF ThreadInit, ThreadType, Idling
  <1>2. Detaching = {}
    BY DEF ThreadInit, Detaching, Idling
  <1> QED
    BY <1>1, <1>2, InitIInv DEF ThreadInit, ThreadInv

\* A disturbance is not forgotten.
LEMMA DisturbedStep ==
    ASSUME disturbed \in BOOLEAN, NEW t \in Threads, ThreadStep(t)
    PROVE  disturbed' \in BOOLEAN /\ (~disturbed' => ~disturbed)
  <1>1. disturbed' = disturbed \/ disturbed' = (disturbed \/ Untimely(t))
    BY DEF ThreadStep, HookStart, HookWriteFails, HookEnd, HookGone, HookClose, HookLoad, HookStore,
           HookFree
  <1> QED
    BY <1>1

\* One step of one thread that leaves nothing disturbed.
LEMMA HookStep ==
    ASSUME ThreadInv, NEW t \in Threads, ThreadStep(t), ~disturbed'
    PROVE  ThreadInv'
  <1>0. disturbed' \in BOOLEAN /\ ~disturbed
    BY DisturbedStep DEF ThreadInv
  <1>1. /\ ThreadType /\ (Detaching = {} => IInv)
        /\ \A u \in Detaching : Detaching = {u} /\ Midway(u)
    BY <1>0 DEF ThreadInv
  <1>2. CASE \/ \E s \in Slots : HookStart(t, s)
             \/ \E i \in Subs : HookWriteFails(t, i)
             \/ HookEnd(t) \/ HookGone(t)
    <2>1. /\ ThreadType' /\ UNCHANGED vars /\ Detaching' = Detaching
          /\ \A u \in Detaching : thread'[u] = thread[u]
      BY <1>1, <1>2, HookKeeps
    <2>2. IInv => IInv'
      BY <2>1, IInvStep
    <2>3. \A u \in Detaching : Midway(u)'
      BY <1>1, <2>1, StillMidway
    <2> QED
      BY <1>0, <1>1, <2>1, <2>2, <2>3 DEF ThreadInv
  <1>3. CASE HookClose(t)
    <2>1. ~Untimely(t) /\ Detaching = {}
      BY <1>3 DEF HookClose, Untimely
    <2>2. ThreadType' /\ Detaching' = {t} /\ Midway(t)'
      BY <1>1, <1>3, <2>1, CloseMidway
    <2> QED
      BY <1>0, <2>2 DEF ThreadInv
  <1>4. CASE HookLoad(t) \/ HookStore(t) \/ HookFree(t)
    <2>1. t \in Detaching
      BY <1>4 DEF HookLoad, HookStore, HookFree, Detaching
    <2>2. Detaching = {t} /\ Midway(t)
      BY <1>1, <2>1
    <2>3. CASE HookLoad(t) \/ HookStore(t)
      <3>1. ThreadType' /\ Detaching' = {t} /\ Midway(t)'
        BY <1>1, <2>2, <2>3, LoadMidway, StoreMidway
      <3> QED
        BY <1>0, <3>1 DEF ThreadInv
    <2>4. CASE HookFree(t)
      <3>1. ThreadType' /\ Detaching' = {} /\ IInv'
        BY <1>1, <2>2, <2>4, FreeKeeps
      <3> QED
        BY <1>0, <3>1 DEF ThreadInv
    <2> QED
      BY <1>4, <2>3, <2>4
  <1> QED
    BY <1>2, <1>3, <1>4 DEF ThreadStep

LEMMA ThreadInvStep == ThreadInv /\ [ThreadNext \/ Beside(Hangup)]_allVars => ThreadInv'
  <1> SUFFICES ASSUME ThreadInv, [ThreadNext \/ Beside(Hangup)]_allVars PROVE ThreadInv'
    OBVIOUS
  <1>1. disturbed' \in BOOLEAN /\ (~disturbed' => ~disturbed)
    BY DEF ThreadInv, ThreadNext, MainStep, Beside, ThreadStep, HookStart, HookWriteFails, HookEnd, HookGone,
           HookClose, HookLoad, HookStore, HookFree, allVars
  <1>2. SUFFICES ASSUME ~disturbed' PROVE ThreadInv'
    BY <1>1 DEF ThreadInv
  <1>3. /\ ThreadType /\ (Detaching = {} => IInv)
        /\ \A u \in Detaching : Detaching = {u} /\ Midway(u)
    BY <1>1, <1>2 DEF ThreadInv
  <1>4. ASSUME UNCHANGED thread PROVE ThreadType' /\ Detaching' = Detaching
    BY <1>3, <1>4 DEF ThreadType, Detaching
  <1>5. CASE Beside(Loop) \/ Beside(Hangup)
    <2>1. Detaching = {} /\ UNCHANGED thread /\ (Loop \/ Hangup)
      BY <1>2, <1>5 DEF Beside
    <2>2. IInv'
      BY <1>3, <2>1, IInvStep DEF Next
    <2> QED
      BY <1>1, <1>4, <2>1, <2>2 DEF ThreadInv
  <1>6. CASE Tick /\ UNCHANGED <<thread, disturbed>>
    <2>1. IInv => IInv'
      BY <1>6, TickKeeps
    <2>2. \A u \in Detaching : u \in Threads /\ thread[u].sub \in Subs
      BY <1>3 DEF ThreadType, Detaching
    <2>3. \A u \in Detaching : Midway(u)'
      BY <1>3, <1>6, <2>2, TickMidway
    <2> QED
      BY <1>1, <1>3, <1>4, <1>6, <2>1, <2>3 DEF ThreadInv
  <1>7. ASSUME NEW t \in Threads, ThreadStep(t) PROVE ThreadInv'
    BY <1>2, <1>7, HookStep
  <1>8. CASE UNCHANGED allVars
    <2>1. UNCHANGED vars /\ UNCHANGED thread
      BY <1>8 DEF allVars
    <2>2. IInv => IInv'
      BY <2>1, IInvStep
    <2>3. \A u \in Detaching : Midway(u)'
      BY <1>3, <2>1, StillMidway
    <2> QED
      BY <1>1, <1>3, <1>4, <2>1, <2>2, <2>3 DEF ThreadInv
  <1> QED
    BY <1>5, <1>6, <1>7, <1>8 DEF ThreadNext, MainStep

\* The inductive invariant of the main thread holds, with and without restarts, whenever
\* no PPS thread is in detach_client(), unless one has been there at a bad moment; and
\* while one is, the tables differ from it in the one client (gpsd.c, the whole loop, and
\* detach_client() called from ntpshm.c by the threads).
THEOREM Invariance == ThreadHupSpec => []ThreadInv
  <1> QED
    BY ThreadInitially, ThreadInvStep, PTL DEF ThreadHupSpec

LEMMA CalmTables == ThreadInv /\ Calm => IInv
  BY DEF ThreadInv, Calm

\* No descriptor has two owners, however the kernel reuses the numbers, with SIGHUP, and
\* with clients detached by any number of PPS threads between the steps of the loop.
THEOREM DescriptorOwners == ThreadHupSpec => []OneOwnerBetween
  <1>1. ThreadInv => OneOwnerBetween
    BY CalmTables DEF IInv, TablesInv, OneOwnerBetween
  <1> QED
    BY <1>1, Invariance, PTL

\* None is left behind but by a failing open of a terminal, and none is used after it was
\* closed (detach_client() in either thread, deactivate_device(), the restart).
THEOREM DescriptorSafety == ThreadHupSpec => []NoDescriptorLostBetween
  <1>1. ThreadInv => NoDescriptorLostBetween
    BY CalmTables DEF IInv, TablesInv, NoDescriptorLostBetween
  <1> QED
    BY <1>1, Invariance, PTL

\* Nobody is left unheard: every client and every open device is in the select set or
\* due to be reawakened, unless FD_CLR() of a thread fell beside a step of the loop.
THEOREM NobodyUnheard == ThreadHupSpec => []EveryoneIsHeardBetween
  <1>1. ThreadInv => EveryoneIsHeardBetween
    BY CalmTables DEF IInv, TablesInv, EveryoneIsHeardBetween
  <1> QED
    BY <1>1, Invariance, PTL

\* A free client slot is clean: the next client does not inherit a policy, unless the
\* client was detached while its own request was handled.
THEOREM SlotSafety == ThreadHupSpec => []FreeSlotsAreCleanBetween
  <1>1. ThreadInv => FreeSlotsAreCleanBetween
    BY CalmTables DEF IInv, TablesInv, FreeSlotsAreCleanBetween
  <1> QED
    BY <1>1, Invariance, PTL

-----------------------------------------------------------------------------
(* The select set, in a daemon that is not restarted *)

\* While thread t detaches a client, its descriptor is the only closed one in all_fds,
\* and the main thread is not about to use a copy that has it.
PoolMidway(t) ==
    /\ pc # "pselect"
    /\ all_fds \ {subs[thread[t].sub].fd} \subseteq opened
    /\ PathsAreUnique
    /\ pc = "start" => \A p \in naming : ~InPool(p)

ThreadPoolInv ==
    ThreadInv /\ (~disturbed => /\ Detaching = {} => PoolInv
                                /\ \A t \in Detaching : PoolMidway(t))

LEMMA PoolStill == PoolInv /\ UNCHANGED vars => PoolInv'
  BY DEF vars, PoolInv, PathsAreUnique, Allocated, InPool

LEMMA PathsKept ==
    ASSUME \A s \in Slots : devices'[s].path = devices[s].path, UNCHANGED <<pc, naming>>,
           PathsAreUnique, pc = "start" => \A p \in naming : ~InPool(p)
    PROVE  PathsAreUnique' /\ (pc = "start" => \A p \in naming : ~InPool(p))'
  BY DEF PathsAreUnique, Allocated, InPool

LEMMA HookPoolStep ==
    ASSUME ThreadPoolInv, NEW t \in Threads, ThreadStep(t), ~disturbed'
    PROVE  ThreadPoolInv'
  <1>0. ~disturbed /\ pc # "exit"
    BY DisturbedStep DEF ThreadPoolInv, ThreadInv, ThreadStep
  <1>1. /\ ThreadType
        /\ Detaching = {} => IInv /\ PoolInv
        /\ \A u \in Detaching : Detaching = {u} /\ Midway(u) /\ PoolMidway(u)
    BY <1>0 DEF ThreadPoolInv, ThreadInv
  <1>2. ThreadInv'
    BY HookStep DEF ThreadPoolInv
  <1>3. CASE \/ \E s \in Slots : HookStart(t, s)
             \/ \E i \in Subs : HookWriteFails(t, i)
             \/ HookEnd(t) \/ HookGone(t)
    <2>1. /\ UNCHANGED vars /\ Detaching' = Detaching
          /\ \A u \in Detaching : thread'[u] = thread[u]
      BY <1>1, <1>3, HookKeeps
    <2>2. PoolInv => PoolInv'
      BY <2>1, PoolStill
    <2>3. \A u \in Detaching : PoolMidway(u)'
      BY <1>1, <2>1 DEF vars, PoolMidway, PathsAreUnique, Allocated, InPool
    <2> QED
      BY <1>1, <1>2, <2>1, <2>2, <2>3 DEF ThreadPoolInv
  <1>4. CASE HookClose(t)
    <2>1. ~Untimely(t) /\ Detaching = {}
      BY <1>4 DEF HookClose, Untimely
    <2>2. Detaching' = {t}
      BY <1>1, <1>4, <2>1, CloseMidway
    <2>3. /\ opened' = opened \ {subs[thread[t].sub].fd}
          /\ UNCHANGED <<devices, subs, all_fds, pc, naming>>
          /\ thread'[t].sub = thread[t].sub
      BY <1>1, <1>4 DEF HookClose, Client, Proceeds, ThreadType, ThreadRecord
    <2>4. PoolMidway(t)'
      BY <1>0, <1>1, <2>1, <2>3, PathsKept DEF Untimely, PoolInv, PoolMidway
    <2> QED
      BY <1>2, <2>2, <2>4 DEF ThreadPoolInv
  <1>5. CASE HookLoad(t) \/ HookStore(t) \/ HookFree(t)
    <2>1. t \in Detaching
      BY <1>5 DEF HookLoad, HookStore, HookFree, Detaching
    <2>2. Detaching = {t} /\ Midway(t) /\ PoolMidway(t)
      BY <1>1, <2>1
    <2>3. CASE HookLoad(t) \/ HookStore(t)
      <3>1. Detaching' = {t}
        BY <1>1, <2>2, <2>3, LoadMidway, StoreMidway
      <3>2. /\ UNCHANGED <<devices, subs, opened, pc, naming>>
            /\ all_fds' \in {all_fds, all_fds \ {subs[thread[t].sub].fd}}
        BY <2>2, <2>3 DEF HookLoad, HookStore, vars, Midway
      <3>3. thread'[t].sub = thread[t].sub
        BY <1>1, <2>3 DEF HookLoad, HookStore, ThreadType, ThreadRecord
      <3>4. PoolMidway(t)'
        BY <2>2, <3>2, <3>3, PathsKept DEF PoolMidway
      <3> QED
        BY <1>2, <3>1, <3>4 DEF ThreadPoolInv
    <2>4. CASE HookFree(t)
      <3>1. Detaching' = {}
        BY <1>1, <2>2, <2>4, FreeKeeps
      <3>2. UNCHANGED <<devices, all_fds, opened, pc, naming>> /\ thread[t].at = "free"
        BY <2>4 DEF HookFree
      <3>3. all_fds \subseteq opened
        BY <2>2, <3>2 DEF Midway, PoolMidway
      <3>4. PoolInv'
        BY <2>2, <3>2, <3>3, PathsKept DEF PoolMidway, PoolInv
      <3> QED
        BY <1>2, <3>1, <3>4 DEF ThreadPoolInv
    <2> QED
      BY <1>5, <2>3, <2>4
  <1> QED
    BY <1>3, <1>4, <1>5 DEF ThreadStep

LEMMA ThreadPoolStep == ThreadPoolInv /\ [ThreadNext]_allVars => ThreadPoolInv'
  <1> SUFFICES ASSUME ThreadPoolInv, [ThreadNext]_allVars PROVE ThreadPoolInv'
    OBVIOUS
  <1>1. ThreadInv'
    BY ThreadInvStep DEF ThreadPoolInv
  <1>2. SUFFICES ASSUME ~disturbed' PROVE ThreadPoolInv'
    BY <1>1 DEF ThreadPoolInv
  <1>3. ~disturbed
    BY <1>2 DEF ThreadPoolInv, ThreadInv, ThreadNext, MainStep, Beside, ThreadStep, HookStart, HookWriteFails,
           HookEnd, HookGone, HookClose, HookLoad, HookStore, HookFree, allVars
  <1>4. /\ Detaching = {} => IInv /\ PoolInv
        /\ \A u \in Detaching : Midway(u) /\ PoolMidway(u)
    BY <1>3 DEF ThreadPoolInv, ThreadInv
  <1>5. CASE Beside(Loop)
    <2>1. Detaching = {} /\ Detaching' = {} /\ Loop
      BY <1>2, <1>5 DEF Beside, Detaching
    <2>2. PoolInv'
      BY <1>4, <2>1, PoolStep DEF Next
    <2> QED
      BY <1>1, <2>1, <2>2 DEF ThreadPoolInv
  <1>6. CASE Tick /\ UNCHANGED <<thread, disturbed>>
    <2>1. Detaching' = Detaching
      BY <1>6 DEF Detaching
    <2>2. Detaching = {} => PoolInv'
      BY <1>4, <1>6, PoolStep DEF Next
    <2>3. ASSUME NEW u \in Detaching PROVE PoolMidway(u)'
      <3>1. u \in Threads /\ thread[u].sub \in Subs
        BY <1>3 DEF ThreadPoolInv, ThreadInv, ThreadType, Detaching
      <3>2. /\ \A s \in Slots : devices'[s].path = devices[s].path
            /\ \A i \in Subs : subs'[i].fd = subs[i].fd
        BY <1>4, <1>6, TickFacts DEF Midway
      <3>3. UNCHANGED <<all_fds, opened, pc, naming, thread>>
        BY <1>6 DEF Tick
      <3> QED
        BY <1>4, <3>1, <3>2, <3>3, PathsKept DEF PoolMidway
    <2> QED
      BY <1>1, <2>1, <2>2, <2>3 DEF ThreadPoolInv
  <1>7. ASSUME NEW t \in Threads, ThreadStep(t) PROVE ThreadPoolInv'
    BY <1>2, <1>7, HookPoolStep
  <1>8. CASE UNCHANGED allVars
    <2>1. UNCHANGED vars /\ UNCHANGED thread /\ Detaching' = Detaching
      BY <1>8 DEF allVars, Detaching
    <2>2. PoolInv => PoolInv'
      BY <2>1, PoolStill
    <2>3. \A u \in Detaching : PoolMidway(u)'
      BY <1>4, <2>1 DEF vars, PoolMidway, PathsAreUnique, Allocated, InPool
    <2> QED
      BY <1>1, <1>4, <2>1, <2>2, <2>3 DEF ThreadPoolInv
  <1> QED
    BY <1>5, <1>6, <1>7, <1>8 DEF ThreadNext, MainStep

\* pselect() is never given a descriptor that has been closed, unless a PPS thread has
\* closed it between the copy of all_fds and the call, or in the middle of a step.
THEOREM SelectSafety == ThreadSpec => []SelectSetValidBetween
  <1>1. ThreadInit => ThreadPoolInv
    BY ThreadInitially, PoolInitially DEF ThreadInit, ThreadPoolInv, Detaching, Idling
  <1>2. ThreadPoolInv => SelectSetValidBetween
    BY DEF ThreadPoolInv, PoolInv, Calm, SelectSetValid, SelectSetValidBetween
  <1> QED
    BY <1>1, <1>2, ThreadPoolStep, PTL DEF ThreadSpec
=============================================================================
