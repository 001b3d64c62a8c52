# Models of the gpsd daemon and of the dash-camera app

The repository holds two programs. `gpsd/gpsd-3.9/` is the GPS daemon gpsd 3.9
with its client library and tools, in C. `app/` is an Android application, in
Java, that records video together with readings from a car's OBD adapter, and
plays both back. They share no code and do not talk to each other. This
directory models the parts of both whose correctness depends on ordering or on
long sequences of inputs: the daemon's event loop, its session with a receiver
(opening, speed hunting, drivers), the packet sniffer, the shared-memory export to
clients and the one to ntpd with the thread that watches the pulses, the app's
Bluetooth session, and its recording.

Contents

1. Inventory of the system
2. Modules, and how they correspond to the code
3. Runs, bounds, and what they show
4. Fairness
5. Proofs
6. What is only model-checked
7. Divergences between the code and what is said of it
8. Abstractions, and what is not modelled
9. Plan

## 1. Inventory

Paths are below `src/gpsd/gpsd-3.9/` for gpsd and below
`src/app/src/main/java/com/example/wrobel/wojciech/projektmagisterski/` for the app.

### gpsd

| Component | State | Operations | What makes it correct |
|---|---|---|---|
| Daemon event loop (`gpsd.c`, with `gpsd_activate()` and `gpsd_close()` from `libgpsd_core.c` and `serial.c`) | `devices[]`, `subscribers[]`, `all_fds`, `control_fds`, per-device times and flags, static `jmp_buf` | accept a client or control connection; `+device`, `-device`; read a device; answer `?WATCH`, `?DEVICE`; reawake, release, reconnect; SIGHUP, SIGTERM | no descriptor is lost, shared or used after it was closed; everybody is waited on; a slot starts clean; what is due does happen |
| Shared-memory export (`shmexport.c`, `libgps_shm.c`) | a System V segment with two bookends; the tick of the daemon; the private copy of each client | `shm_update()`, `gps_shm_read()`, `gps_shm_waiting()` | a client never uses a mixture of two updates, and reaches the last one |
| NTP export and PPS (`ntpshm.c`, `timebase.c`) | the NTP segments, the table of which are in use, the numbers each device keeps, a stop flag, what the PPS thread remembers of earlier edges | alloc, free, put, pps; `gpsd_ppsmonitor()`, `ntpd_link_activate()`, `ntpd_link_deactivate()` | a segment has one device; the reader sees whole samples; a pulse gets the second it starts; the threads end |
| Device session (`libgpsd_core.c`, `serial.c`, `drivers.c`) | settings of the line (kernel's, `ttyset`, `gpsdata.dev`), hunt position, packet type, driver, saved speed | `gpsd_activate()`, `gpsd_poll()`, driver switch, autobaud, `set_serial()`, close | the hunt tries every speed with either stop bits, stops on a packet, and ends; the saved speed worked |
| Packet sniffer (`packet.c`, `crc24q.c`) | input buffer and read pointer, state of the lexer, remaining length, output buffer | `packet_get()`, `packet_parse()`, `nextstate()` | packets come out whole, in order and once; after garbage the next ones are found again |
| Client library, sockets (`libgps_sock.c`, `libgps_json.c`) | receive buffer | `gps_sock_read()`, `gps_unpack()` | lines are delivered once and in order |
| Network feeds (`net_ntrip.c`, `net_dgpsip.c`) | NTRIP connection state | open, poll | one descriptor per stream, closed once |
| Drivers, JSON, utilities, clients, Python tools | none that outlives a call or a window | decode, format, show | agreement with formats |

The parts meet in one thread: the loop calls the drivers, the reports and
`shm_update()` in line. Concurrency is between processes (daemon, shared-memory
clients, socket clients, ntpd) and with the PPS threads, one for each device that was
added with a handshake line. They store samples for ntpd, and after each pulse they call
`context.pps_hook`, which writes to the subscribers and detaches those that do not take
the message: `subscribers[]` and `all_fds` are shared with the loop, without a lock
(`report_mutex` covers `send()` alone). Peers may hang up, stall or send anything, and
the kernel reuses descriptors at once.

### The app

| Component | State | Operations | What makes it correct |
|---|---|---|---|
| Bluetooth session (`BluetoothIO.java`, `ConnectThread.java`, `ConnectedThread.java`, `BTProperties.java`) | `mState`, the two thread references, the socket in the `BTProperties` singleton | `connect()`, `connected()`, `connectionLost()`, `start()`; a thread per attempt and one per connection | no socket is forgotten; one thread reads; a dead one ends |
| Recording (`CameraFragment.java`, `MyMultiOBDCommand.java`, `MainActivity.java`) | camera device and lock, preview session, recorder, `mIsRecordingVideo`, static `mReadingsAbsolutePath` | life cycle, camera callbacks, session callbacks on a background thread, clicks | the camera is closed behind a paused fragment; a video has its readings |
| Playback (`VideoPlayerActivity.java`) | readings in memory, position | a thread maps the position to a line every 100 ms | the index stays inside the file |
| Lists and views | adapters | start activities | |

Here the main thread, one thread per connection attempt, one per connection and a
background thread share fields with few locks: the monitor of `BluetoothIO` and
the semaphore `mCameraOpenCloseLock`.

### Behaviours that are hard

Descriptor reuse inside one pass of the loop, a write that fails in the middle of
a notification, in the loop or in a PPS thread beside it, restart by `longjmp()`, timeouts that are only looked at when
`pselect()` returns, a lock-free copy between processes, a restarted daemon over
an old segment; in the app, a join with a timeout, a monitor held over a sleep,
callbacks on the thread that waits for them or for a fragment that is paused by then,
and a static field shared without a lock. In the sniffer and the session it is not concurrency but the sequence of
inputs: a broken packet that leaves a length or a nesting depth behind, a hunt that
is interrupted, settings that seem unchanged and are not written. In the time
export there are three processes on the same words with no lock at all.
`PROJECT.json` lists each hazard at its line.

## 2. Modules

| Module | Models | Extends or uses |
|---|---|---|
| `ShmExport` | the segment, the daemon's `shm_update()`, any number of clients | |
| `ShmSnapshot` | what the export promises: a register of whole updates | instantiated by `ShmExport` |
| `GpsdDaemon` | the event loop of `gpsd.c`, the main thread alone | |
| `GpsdThreads` | the loop with the PPS threads that detach clients beside it | extends `GpsdDaemon` |
| `NtpSegments` | which device has which NTP segment, and the life of the PPS threads | |
| `NtpSample` | what is stored in the two segments of one device, and what ntpd reads | |
| `PacketStates` | `nextstate()`: the state machine of the sniffer | |
| `PacketChecks` | the checksums and types of the packets | extends `PacketStates` |
| `PacketSniffer` | `packet_get()`, `packet_parse()` and the input buffer | extends `PacketChecks` |
| `DeviceSession` | one receiver: opening, probing, hunting, recognition, closing | |
| `ObdSession` | the Bluetooth session; also what `DashCam` promises of it | |
| `DashCam` | recording, composed with the session, which it implements | `INSTANCE ObdSession`, twice |
| `MC...` | instances for TLC | the module they are named for |
| `..._proofs` | theorems | the module they are named for, and TLAPS |

### ShmExport

One action per access of shared memory, in program order, as `barrier()` and the
one writer justify. `BeginUpdate` is the increment of the static tick and the
store to `bookend2` (the writer clobbers the second bookend first), `CopyIn(w)`
one word of the `memcpy()`, `StorePseudoFd` the later overwrite of `gps_fd`,
`EndUpdate` the store to `bookend1`. A client reads `bookend1` (`ReadBefore`),
copies words in any order (`CopyOut`), and compares with `bookend2` (`Accept`,
`Reject`). `mainloop` is the set of clients that run `gps_mainloop()`, which waits on
`bookend1` (`Wait`) and does not look at the descriptor; the others poll with
`gps_read()`, which dispatches on it (`Poll`, `DispatchToSocket`). `Stop` is the end
of the daemon at any point, the middle of an update included; `Restart` attaches
the old segment with a tick of 0. Data is the number of the update; a descriptor word
is kept apart because the code overwrites it and dispatches on it. `stamp`,
`published`, `began` and the lives in `delivered` are history: which daemon wrote, and
which update it finished, when a reader looked.

`ShmSnapshot` is the promise: updates appear whole, one after the other, and a
successful read returns the latest. A client is `unsafe` from a restart until it
begins a read under the new daemon; what it gets in between is not promised, because
the code cannot detect it (section 7). `ImplementsSnapshot` maps `latest` to
`published` and `unsafe` to the clients whose read began in another life.

### GpsdDaemon

The main thread, as in a daemon built with `pps=no`. The loop in phases: `select` (the
set is copied), `pselect` (the call looks its descriptors up), `waiting`, `accept`,
`control`, `devices`, `clients` (with `request` while a line is being answered),
`release`. A phase that walks an array
keeps the indices it has not visited in `todo`, in order. An action is one pass of
a loop body, for one device, client or command. What a peer, the kernel or a
driver answers is chosen inside the action: an `open()` succeeds with the lowest
free descriptor or fails, a write succeeds or detaches the client, a read gives
data, nothing, or an error.

- `devices[s]` keeps the path (empty when the slot is free), the descriptor,
  whether a driver and a packet type are known, the zero-kill flag, and the times
  of reawake, release and opening. `subs[i]` keeps the descriptor, the time of the
  last activity and the policy.
- `Deactivate`, `Drop`, `Activate` and `AddDevice` are `deactivate_device()`,
  `detach_client()`, `open_device()`/`awaken()` and `gpsd_add_device()`, with the
  notifications they make: a notification may detach any of its receivers.
- `AcceptClient`, `RefuseClient` and `AcceptLingerFails` are the outcomes of the
  accept block; the last one marks the slot with descriptor 0 and never frees it,
  as the code does.
- `ReadNothing`, `Reawake` and `ReadNothingAgain` are the zero-length read, the
  later second chance, and the end of a device that has nothing again.
- `Watch`, `BadWatch`, `SelectDevice`, `Awaken`, `Configure` and `Reply` are the
  pieces of a line of requests. The loop over the devices to be awakened is one
  step per device.
- `Mark`, `Release`, `Reconnect`, `ReconnectFails` and `LeaveDevice` are the loop
  at the bottom that closes idle devices and reopens missing ones.
- `Hangup` is SIGHUP: `gpsd_wrap()`, `longjmp()` and the command line once more,
  with every table as it was. `Spec` has no SIGHUP, `HupSpec` has.
- `LeftOpen` is the way out of `gpsd_serial_open()` that forgets its descriptor;
  `leaked` are those descriptors.

### GpsdThreads

`ThreadNext` is a step of `GpsdDaemon` or of one of any number of PPS threads. A thread
goes through the subscribers as `notify_watchers()` does, for a device of its choice
that is open (`HookStart`, `HookWriteFails`, `HookEnd`), and through `detach_client()`
access by access: `HookClose` is `close()`, `HookLoad` and `HookStore` are `FD_CLR()`, whose
word a store of the main thread in between is lost in or loses, `HookFree` clears the
policy and frees the slot, and `HookGone` is its early return. What the main thread does
is atomic at the grain of `GpsdDaemon`.

The code does not protect what the two share, so that the properties of the loop do not
hold as they stand. `disturbed` becomes true when a thread closes a client between the
copy of `all_fds` and `pselect()`, or while that client's request is handled, or while
another thread is detaching one, and when the main thread takes a step beside a thread
that is past `close()`. The properties whose names end in `Between` say what holds as
long as this has not happened; without the proviso none of them does (section 7).

### NtpSegments

Slots of the pool with the segment numbers they keep, and one thread for each device
that was added with a segment for pulses. `Alloc` and `Unmarked` are `ntpshm_alloc()` and
`ntpshm_free()`; `Add`, `Open`, `Close`, `Remove` and `Hangup` are what
`gpsd_add_device()`, `open_device()`, `deactivate_device()`, the control command `-`
and SIGHUP do to them. The numbers are not cleared by any of these (`ntpshm_free()`
clears its own copy of the argument). A thread waits for its device (`Activated`,
`Unsuited` if it has no handshake lines), and then alternates between the test of
`gpsd_ppsmonitor_stop` (`Test`), the wait for an edge (`LineChanges`, `LineFails`), and
what it makes of the edge (`Reject`, `Pulse`). `released` and `late` are history.

### NtpSample

One device, its two segments, the main loop in `ntpshm_put()`, the PPS thread in
`gpsd_ppsmonitor()` and `ntpshm_pps()`, and ntpd, as the comment in `ntpshm_put()`
describes its driver. One action per access of shared memory; the seconds and
microseconds of a time are one field, since the code stores them one after the other
with nothing between that tells them apart here. Time is in tenths of a second.
`Rises` and `Falls` give the edges of the pulse shapes that the detector names, `Tick`
goes to the next edge or report; `MaxBehind` says how many of the three may be held up
meanwhile, and `MaxUnread` how many reports may wait for a loop that is. `Report` is the
reading of one, at any time after it has come, with or without a fix, with the count of fixes that
sets `ship_to_ntpd`; `NewSecond` is "skipping duplicate second". `Detect` is the judgement
of an edge by cycle and duration (`StartsSecond`), `ReadReceive` and `ReadClock` the two
reads of the other segment, in the order of the code. `puts`, `seen`, `late` and
`thread.overtaken` are history: `late` says that the clock in the segment of the main loop
comes from a report that was read when the second of its fix was over, `overtaken` that
this clock was stored after the edge the thread is judging.

### PacketStates, PacketChecks, PacketSniffer

`PacketStates` is `nextstate()`. The states that look at nothing but the byte are
one table, `Rules`, grouped by protocol; a byte without a rule leads to `GROUND_STATE`.
`NewLength`, `NewDepth`, `NewAfter` and `NewState` are the states that count, nest or
compare; the length is a `size_t` and wraps (`Decremented`). `PushedBack` lists where the
byte is read again. The two places where iTalk looks at bytes that have not been read
take arbitrary stale ones. `PacketChecks` is what `packet_parse()` decides at the end
of a packet: the checksum of each protocol, the table of TSIP lengths, the type.
`PacketSniffer` has four actions: `Read` (a read with bytes), `ReadNothing` (a read
without, and input left), `Character` (one byte: `nextstate()` and what is done about its result,
that is `CharacterDiscard`, nothing, or `Accepted`), and `Return`. What the device
sends is a sequence of items, cut by the reads anywhere.

The properties see the same input from four sides. `BufferIsTail` and `PacketsAreCut`
know nothing of protocols: bytes leave the buffer at its front only, and a packet is one
piece of them. `ParsingAdvances` is the measure of the loop: with the byte pushed back,
the state has less `Patience` for the next one. `UbloxComesWhole` knows two protocols:
`UbloxStreams` are those made of UBX messages with a payload (`UbxFrame`) and sentences
of a GPS (`NmeaFrame`) with good checksums, in any order, and of these every packet must
come, with its bytes and type. `PacketsAreTheItems` says the same of every protocol and
of what may follow what (`MayFollow`), spoilt packets and noise included.

### DeviceSession

One port and one receiver. The settings of the line are kept three times as in the
code: `port` is the kernel's, `ttyset` and `dev` are the session's, and `SetSpeed` does
nothing to the port if they seem to agree with what is asked. `Open` is
`gpsd_activate()` with `gpsd_serial_open()` and the TSIP probe; `Hunt` has the three
outcomes of `gpsd_next_hunt_setting()`: `Listen`, `Retune`, `GiveUp`. `Recognise`,
`ReadNoPacket`, `ReadSpoilt` and `ReadComment` are a pass of `gpsd_poll()` by what the
sniffer has made of the read, `Release` and `ReadFails` the closing, `Configure` the
speed of a `?DEVICE` request, `Unplug` and `Plug` the world. A receiver is the
settings it sends with, its protocols, and the length of its longest packet: once the
line matches, a packet is recognised within twice that many reads (`Overdue`).
`listened`, `heard` and `course` are history.

### ObdSession

Connection attempts are numbered; attempt *i* has a socket, a `ConnectThread` and
perhaps a `ConnectedThread`. `Connect(created)` is `connect()` up to the join,
with a socket that could be created or not; `JoinEnds` the end of the join, by the
thread's end or by the 15 seconds, which nobody tells apart; `Connected` the end
of the sleep and `connected()`. All three belong to one synchronized method, so
`ConnectionLost` of another thread waits (`MonitorFree`). `PickUpSocket` is a step
of its own because the thread fetches the socket from the singleton, which may
have a newer one by then. A null socket and an unexpected exception end the
process (`Crash`); so do a readings file that has become null while it is used
(`ReportFails`) and an exception in any other part of the application (`Ended`).

### DashCam

Composes `ObdSession` with `CameraFragment`. The main thread takes up one callback
at a time (`Idle`). `OpenCamera` has an outcome for each way out of `openCamera()`.
`Pause` is `onPause()` up to the join with the background thread, `Stuck` the same
call when the lock has no permit, `PauseEnds` the end of the join. Session callbacks run on
the background thread: `OnConfigured` stores the session, `CheckDevice` tests
`mCameraDevice`, and `SetRepeatingRequest` uses the session afterwards. For a
recording `Configured` posts a runnable, which is `StartRecorder` on the main
thread. `StartRecording` names the files before the recorder is prepared, as the
code does. A `ConnectedThread` finds the path to be not null (`CheckPath`) and
uses it later (`WriteLine`), when it may have become null or another one.
The listener opens the camera when the texture comes, also for a fragment that has been
paused meanwhile by a dialog (`TextureAvailable`); `behind` are the openings begun in
that way. Such a fragment has no background handler, so that the preview it asks for
(`posted`) is configured on the main thread (`OnConfiguredOnMain`). `Recreate` is a
rotation or a new start: it takes every field of the fragment with it. A camera that
is still open or being opened is `left` to the fragment that is gone, and a posted runnable
can only fail on the recorder of that fragment (`orphaned`, `StartOrphaned`).
`surplus`, `denied` and `late` count what properties speak of: second releases of
the lock, permits lost to `CameraAccessException`, and lines written to a file that
is no longer current.

The session is both a part of this module and its abstract specification. `Session` is
`ObdSession` over the variables of the composition; `Alone` is the same with the main
thread as the session sees it (`AtSession`): while it waits for the camera's lock or the
background thread it takes up nothing, which to the session is idleness. `ImplementsSession`
says that the composition implements `Alone!Spec`, so that a rotation (`Survives`: the
`BluetoothIO` is static), a pause, a recording or an exception of the camera does nothing
to the session that the session alone could not do. `ReportFails` and `Ended` are in
`ObdSession` because this refinement asks for them: the readings file belongs to the
recording, and the crash it causes to the thread of the session.

## 3. Runs

| Run | Instance | Distinct states | Shows |
|---|---|---|---|
| `shm_export` | 1 client of either kind, 2 words, 3 updates, 1 restart | 116 thousand | `TypeOK`, `NoTornRead`, `ReadsAdvance`, `ClientsCatchUp`, `ImplementsSnapshot` |
| `daemon_pool` | 2 device slots, 1 client slot, 2 paths, 2 descriptors, 1 PPS thread, option -n, control socket | 2.4 million | `PathsAreUnique`, `SelectSetValidBetween` |
| `daemon_hup` | 1 slot, 2 clients, 1 path, 2 descriptors, 1 PPS thread, option -n, control socket, reconfiguration, SIGHUP | 846 thousand | `OneOwnerBetween`, `NoDescriptorLostBetween`, `EveryoneIsHeardBetween`, `FreeSlotsAreCleanBetween`, `OpenDevicesAreInPool` |
| `daemon_liveness` | 1 slot, 1 client, clock, RTCM, control socket, reconfiguration | 99 thousand | `TypeOK`, `WatchedDeviceStaysOpen`, `ZeroReadIsRepolled`, `WatchedDeviceReopens`, `UnneededDeviceCloses` |
| `daemon_restart` | 2 slots, SIGHUP | | `SelectSetValid` fails |
| `daemon_relay` | 2 devices, one with RTCM | | `RelayDoesNotCrash` fails |
| `ntp_segments` | 2 slots, 3 devices, 4 segments | 96 thousand | `UndisturbedSegmentsAreExclusive`, `OneLatePulse`, `StoppedThreadsEnd` |
| `ntp_sample` | 5 shapes of pulse, fixes at 0 and 0.5 s, 2.5 seconds, 1 mishap, 2 reports unread | 3.3 million | `LabelIsRight`, `SampleSpansOnePut`, `OneSamplePerSecond` |
| `packet_sniffer` | 952 streams of every protocol, reads of 3 and 61 bytes at most | 99 thousand | `BufferIsTail`, `PacketsAreTheItems`, `UbloxComesWhole`, `PacketsAreCut`, `ParsingAdvances`, `PacketsArrive`, `RepeatedPacketGetsThrough` |
| `device_session` | 7 receivers, 2 hunted speeds, 2 openings, 1 spoilt packet, request, unplugging | 952 thousand | `HuntIsComplete`, `SavedSpeedWasHeard`, `SyncIsFound` |
| `obd_session` | 3 attempts | 173 thousand | `SocketsAreOwned`, `DeadConnectionIsCleared` |
| `dash_cam` | 1 attempt, 2 openings or 2 recordings | 3.1 million | `BackgroundCameraIsClosed`, `StuckOnlyByOpening`, `RecordingHasReadings`, `LateLinesBounded`, `ImplementsSession` |

The type invariants of `NtpSegments`, `NtpSample`, `PacketSniffer`, `DeviceSession`,
`ObdSession` and `DashCam` are theorems (`TypeCorrect`, section 5) and in no run.

Why the bounds are enough.

- `ShmExport`: a torn read needs two words and two updates; a third update and a
  restart let a reader that has slept through one meet a counter that starts
  again. Clients do not write shared memory, so a second one adds nothing, and the
  theorems hold for any number.
- `GpsdDaemon` and `GpsdThreads`: reuse of a descriptor needs one more user than
  descriptors are left. In `daemon_pool` and `daemon_hup` two go round among a device or
  two, one client or two, and a control connection. Two slots are the least at which a
  slot is passed over and at which one name could be there twice; one is enough for a
  descriptor of a removed device to pass to the next one in the same pass. With both paths
  on the command line their names do not matter (`SwapPaths`). `MaxLeaked` is 1, and 0 in
  `daemon_pool`: a second leaked descriptor is one descriptor fewer once more.
  Timeouts of 0 mean "longer ago than this tick", which is what the comparisons tell
  apart. One PPS thread is enough, since two that detach at the
  same time are a disturbance already; the theorems have any number. The constraint
  `Undisturbed` stops the search where the properties have become true by their proviso.
- `NtpSegments`: four segments serve two devices; the third device finds the slot, the
  segments and the waiting thread of a removed one.
- `NtpSample`: two and a half seconds are a cycle of the slowest pulse (1/2 Hz) and the
  edge after it; two unread reports are one that is read late and the next; fixes twice a second, once more than there are seconds, give duplicates; one
  mishap starts the count of fixes again (`FixesWanted` is 1 where the code has 4:
  what matters is that it is not 0). `MaxBehind = 1` lets any one of the main loop,
  the thread and ntpd sleep through events, and two of them interleave their stores.
- `PacketSniffer`: the packets are the shortest that each protocol has, and two of the
  longest text; every pair of items is there, followed by a repetition of the second, which
  covers each change of protocol. Four packets in a row are every mixture of a sentence
  and UBX messages with a payload of one byte and of three, two of which look like the
  beginning of another message. `MaxPacketLength` is 30, so that the limits on length
  and the full buffer are met. Reads of 3 bytes cut every packet.
- `DeviceSession`: two hunted speeds are a first and a last one; the receivers are one for
  each round and speed, one at a speed outside, one with a parity, one for the probe,
  one whose packets are too long, and a mute one.
- `ObdSession`: the third attempt meets one thread of each of two earlier ones, one
  of them late.
- `DashCam`: two openings are what a second release of the lock needs to let the
  camera be opened twice, and what a camera opened behind a paused fragment needs to meet
  another one; two recordings are what a late line needs to meet another file. Not both
  in one behaviour (`OneOfEither`): the camera does not look at the files, and a second
  recording needs no second opening. One connection attempt suffices: what differs
  between attempts is the session, checked by itself.

Every property of a passing run has a mutant: a variation of a mapped definition,
stated next to it, under which TLC finds the property violated.

CHECK_DEADLOCK is off everywhere: updates, attempts, openings, recordings, streams and
the time of a run are bounded, a daemon exits, a process crashes, the user of the app
may stop.

## 4. Fairness

- `ShmExport!FairSpec`: each client is scheduled. Nothing of the daemon, which may be
  killed at any time; `ClientsCatchUp` speaks of daemons that fall silent.
- `GpsdDaemon!QuietSpec`: the one thread runs until it is back in `pselect()`
  (`WF(Progress)`); a line of requests is finite (`SF(Reply)`: the loop over the
  text of a line cannot go on for ever, so that the reply comes); the clock runs; and a
  device that is waited on has data, or its end of file, again and again
  (`WF(DeviceReady)`). Control peers hang up, since the daemon reads them to the end.
- `GpsdDaemon!BusySpec` adds that `pselect()` returns again and again
  (`WF(Traffic)`), and that a device retried for ever opens at last
  (`SF(Reconnect)`). The first is an assumption about traffic: `pselect()` has no
  timeout in this code, so on a silent system nothing that is due happens (section
  7). The liveness properties hold of a daemon with some traffic, on any descriptor, and
  say nothing of a silent one. The second needs a free descriptor: the four of the
  instance serve a device, a client and the one that `MaxLeaked` allows to be lost. In
  the code an open that keeps failing at `tcgetattr()` loses one at every retry, and the
  daemon runs out of them.
- `GpsdThreads` has safety properties only.
- `NtpSegments!FairSpec`: the PPS threads are scheduled, and a line that is waited on
  changes again or is hung up. A line that never changes keeps its thread for ever,
  because `TIOCMIWAIT` has no timeout. Nothing is assumed of the event loop.
- `PacketSniffer!FairSpec`: the loop calls `packet_get()` while there is input, and a call
  ends.
- `DeviceSession!FairSpec`: `WF(Read \/ ReadFails)`: the receiver goes on sending, or the
  device has gone and the read says so. `SyncIsFound` promises nothing of a receiver
  that is silent. Openings, requests and unplugging are not fair.
- `NtpSample` has safety properties only.
- `ObdSession!FairSpec`: threads run, the sleep and the timed join end. Nothing of
  the user or the radio link.
- `DashCam` has safety properties only.

## 5. Proofs

All theorems hold for every value of the constants that the modules' assumptions
allow; the assumption is named in parentheses. The outline is the same everywhere: an
inductive invariant (`IInv` unless another name is given), `Init => IInv`, a lemma per
action or group of actions for the step, and the properties as consequences.

- `ShmExport_proofs` (`ShmAssumption`). `Invariance`, `TypeCorrect`, `ReadsAreWhole`
  (`NoTornRead`), `Refinement` (`ImplementsSnapshot`), `ReadsGoForward`
  (`ReadsAdvance`). `SegmentInv` says what the words contain at each point of an update, `BookendInv` that once the running daemon has
  completed an update, a write in progress shows as `bookend1 < bookend2`, and
  `ClientInv` that a client whose first bookend is of this life has copied current
  words or will find the second bookend changed. `NoTornRead` is not inductive because
  it says nothing of a copy in progress. The refinement needs no more: under `IInv`
  every step is a step of the register or leaves it alone, restarts included. For
  `ReadsGoForward`, `AdvanceInv`: what a client has from the running daemon carries no
  later tick than the second bookend.
- `GpsdDaemon_proofs` (`GpsdAssumption`). Of `ThreadHupSpec`, that is with SIGHUP and any
  number of PPS threads: `Invariance`, `DescriptorOwners` (`OneOwnerBetween`),
  `DescriptorSafety` (`NoDescriptorLostBetween`), `NobodyUnheard`
  (`EveryoneIsHeardBetween`), `SlotSafety` (`FreeSlotsAreCleanBetween`); of `ThreadSpec`,
  without SIGHUP, `SelectSafety` (`SelectSetValidBetween`). They say nothing of a run in
  which a thread has detached a client at a bad moment: there the code breaks them.
  The argument is first about the main thread. The descriptor properties need each
  other: `TablesInv` is their conjunction with the types and with
  `ClientInv`, which says that an active client has a descriptor and a free slot none,
  and `LeaksAreNobodys`.
  `ReadyInv` is what saves the loop from the stale `rfds`: a device still to be polled,
  if reported, is in `all_fds`, even if its descriptor has changed hands since
  `pselect()` returned. `RequestInv` keeps the client of a request there until its reply.
  `PoolInv`, without SIGHUP: until the daemon exits `all_fds` holds nothing but
  open descriptors, and a path of the command line still to be added is not in the pool.
  Then `Midway` says what is left of this while one thread is in `detach_client()` and the
  main thread waits: everything, but for the one client whose descriptor is closed;
  `ThreadInv` and `ThreadPoolInv` are the whole with the proviso.
  Of the main thread alone: `TypeCorrect` (`TypeOK`) and `OpenDevices`
  (`OpenDevicesAreInPool`) with SIGHUP; `PoolSafety` (`PathsAreUnique`) without, with
  which it does not hold (section 7); and `WatchedDevices`
  (`WatchedDeviceStaysOpen`): action by action, whatever closes a device that an
  undisturbed client watches is the control command `-` or what a read of it returned.
- `ObdSession_proofs` (`SessionAssumption`). `Invariance`, `TypeCorrect`, `Ownership`
  (`SocketsAreOwned`). The property is inductive with the types, because
  `ConnectionLost` cannot run while `connect()` holds the monitor.
- `DashCam_proofs` (`DashCamAssumption`). `Invariance`, `TypeCorrect`,
  `BackgroundCamera`, `MainThreadWait`, `Readings`, `LateLines`, `SessionRefinement`
  (`ImplementsSession`), `OwnershipBesideCamera`. `LockInv`: a missing
  permit belongs to a camera that is being opened, or was lost to a
  `CameraAccessException`. `CameraInv`: as long as the lock has not been released
  twice, there is, but for those opened behind a paused fragment, one camera at most, it
  is `mCameraDevice` once open, and it belongs to a resumed fragment with a texture; and
  while one is being opened behind a fragment no other can be.
  `BackgroundCameraIsClosed` alone says
  nothing of a resumed fragment, and so not what `onPause()` finds. `ListenInv`: a
  fragment resumed without a texture has its listener. `RecorderInv`: the
  recorder leaves its first state only after the readings file has been named.
  `LateInv`, for `LateLines`: the late lines of a file and the threads that still hold
  its name are together no more than the attempts; `ThreadInv` that only threads
  of attempts already made hold one. `SessionRefinement` needs no invariant: each step of
  the fragment leaves the session's variables alone or is `Alone!Ended`, and each step of
  the session is the same step of `Alone`. It carries what is proved of `ObdSession` over:
  `OwnershipBesideCamera` is the theorem `Ownership` of an instance of
  `ObdSession_proofs`, and says `SocketsAreOwned` of the composition.
- `NtpSegments_proofs` (`NtpSegmentsAssumption`). `TypeCorrect`, `ExclusiveSegments`
  (`UndisturbedSegmentsAreExclusive`), `LatePulses` (`OneLatePulse`). `IInv` adds
  `ThreadInv` to the types: what a thread may have written by the point at which it is.
- `NtpSample_proofs` (`NtpSampleAssumption`). `TypeCorrect`, `WholeSamples`
  (`SampleSpansOnePut`), `EachSecondOnce` (`OneSamplePerSecond`), `PulseLabels`
  (`LabelIsRight`). `Writer`: the count is
  odd during a put, and each field is of this put or of the one before. `Reads`: as long
  as the count has not moved since the reader took it, the fields it has are of the
  puts it may use. `Passed`: the second of the last put is behind the clock, and a
  report that waits is later. That the clock has a next time to go to is a lemma
  (`LeastMember`). For `PulseLabels` three parts: `MessageInv`, that the main loop
  stores fixes that came before the edge which the thread judges, unless it has overtaken
  it, and, unless a report was read late, in the second of their fix; `EdgeInv`, what the
  thread remembers of the last edges of either direction, and that an
  edge it accepts after enough of them starts a second (here each of the five shapes
  is a case); `LabelInv`, that the clock it is about to read is then of the second before.
- `PacketSniffer_proofs` (`PacketSnifferAssumption`). `BufferKept`
  (`BufferIsTail`): whatever the state machine, the checksums and the sizes of the reads
  make of the stream, the bytes in the buffer are the last ones read. `TypeCorrect`
  (`TypeOK` and `StateIsKnown`): the
  machine stays within its states, the remaining length within the bound of the state
  (`Limit`: 65535 and less, and all of a `size_t` where the code lets it wrap), the
  depth of a JSON object does not fall below zero. It rests on lemmas about
  the table and the functions `nextstate()` is made of: every rule leads to a state that
  has rules or is treated apart (`RulesLead`, `MayLead`, `StateLeads`), the length counted
  down fits the state it leads to (`LengthFits`), and a closing brace is counted only inside
  of an opened one (`DepthFits`). The latter is the reason for `Sane`: with the depth 0, the
  state `JSON_LEADER` has the brace that brought it there still to be read again.
  `PacketsCut` (`PacketsAreCut`): a packet that is handed out is one
  contiguous piece of what the device sent, it begins where the last packet or discard
  ended, and no byte that has left the buffer comes back.
  `ParsingEnds` (`ParsingAdvances`): `PushBacks` goes through the places where a byte is
  read again, and `AdvanceInv` adds that before the dollar which ends `$PASHR` there are
  bytes behind the pointer, so that stepping back and discarding is not a stand-still.
  `UbloxWhole` (`UbloxComesWhole`): from a receiver that mixes UBX messages with a payload
  and sentences of a GPS, of any length up to `MAX_PACKET_LENGTH` and the buffer's, cut by
  the reads anywhere, all packets come, in order. `UbloxInv` says
  that the items lie in the input at some offsets (`Lies`), that the buffer begins with
  the item after those taken (`Placed`), and that the machine is between packets
  (`Idle`) or so far into this one, with so much of its length left, as the place of the
  pointer says (`InUbx`, `InNmea`). `FrameAdvances` is the walk, byte by byte, and
  `FrameAccepted` its end: the checksum is good and exactly this packet leaves. That a
  byte leads to one state only is in no definition, the table being a set of rules; it
  follows from the characters being distinct (`LettersDiffer`) and each rule belonging to
  the states of its protocol (`RulesBelong`, `Tabulated`).
  What is true of all items is proved by the least number at which it would not be
  (`LeastMember`, from `WFMin`, and `Climbing`), since the provers cannot use the
  library's induction rules, which take an operator: that
  `FlattenSeq` lays the items one after the other (`FlattenLays`, `ItemsAreLaid`) and that
  the input consists of bytes (`StreamsAreBytes`).
- `DeviceSession_proofs` (`DeviceSessionAssumption`). `TypeCorrect`, `SavedSpeed`
  (`SavedSpeedWasHeard`), `HuntComplete` (`HuntIsComplete`). `LineInv`: while a tty is open
  and plugged in, the settings the session remembers are those of the kernel, which is
  why it is sound that `gpsd_set_speed()` skips settings it believes to be there.
  `HuntInv`: which settings have been listened to by the time the hunt is at an index of
  the table and a number of stop bits; with `Standing` (one or two stop bits) the hunt
  has listened to all of them when it gives up. `SavedInv`: a driver means that a packet
  has been accepted, and with it a saved speed.

## 6. What is only model-checked

- Liveness: `ClientsCatchUp`, `ZeroReadIsRepolled`, `WatchedDeviceReopens`,
  `UnneededDeviceCloses`, `StoppedThreadsEnd`, `PacketsArrive`,
  `RepeatedPacketGetsThrough`, `SyncIsFound`, `DeadConnectionIsCleared`. TLAPS has no
  rule for fairness.
- `PacketsAreTheItems`. What it says of every protocol `UbloxWhole` proves of UBX and
  NMEA. Each of the others needs its own walk through its states, and the noise, the spoilt
  packets and the changes of protocol need one for each state in which they can meet the
  machine; the lemmas about items, offsets and the table are there for them.

The properties of `GpsdThreads` and `LabelIsRight` have provisos. Without them TLC finds
a counterexample to each (section 7), and there is nothing to prove.

Every other property of a passing run is the statement of a theorem.

## 7. Divergences

Shown by a run:

- `daemon_restart`: `gpsd.xml:477` says SIGHUP makes gpsd close everything, attempt to
  reconnect, and resume. The descriptors of the closed devices stay in `all_fds`;
  unless one of them is reused first, the next `pselect()` fails and the daemon exits.
- `daemon_relay`: `gpsd.c:1551` says RTCM is repeated to all devices; a device in the
  pool whose type is not known yet has a null `device_type`, which is dereferenced.

Built into the models as the code has them, without a run of their own.

Shared memory

- `shmexport.c:77` promises that a write during a read "can be detected as bad". The
  counter restarts at 0 with the daemon while the segment survives, so that bookends
  written by two daemons can agree around a mixture. This is what `unsafe` in
  `ShmSnapshot` is for.
- Until the first update of a fresh segment is complete a polling client can read a
  `gps_fd` that sends `gps_read()` to the socket code for good
  (`libgps_core.c:127`; `shmexport.c:83`).
- `gps_shm_waiting()` answers true after a timeout as well (`libgps_shm.c:87` against
  `libgps.xml:147`). The segment is created two integers shorter than what is written
  to it (`shmexport.c:36`); System V rounds it up to a page.

Event loop

- `detach_client()` runs in the PPS threads too, without a lock (`ntpshm.c:912-913`,
  `gpsd.c:1730-1743`, `:649-663`, `:596-647`). All of the following are in
  `GpsdThreads`, where `disturbed` marks them, and all of them are outside the theorems.
  A client closed between the copy of `all_fds` (`:2221`) and `pselect()` (`:2244`)
  makes that fail with `EBADF`, and the daemon exits, without any SIGHUP (`SelectSetValid`
  fails in `ThreadSpec`). The loop may accept a client on the number that a thread has just
  closed (`:579`); until the slot is freed (`:592`) two slots have this number, and
  then the thread takes it out of `all_fds` (`:582`), or the store of the thread loses the
  bit of a client accepted after its load: that client is never heard
  (`EveryoneIsHeard`, `OneOwner`). Detaching the slot again closes the number under its
  new owner (`NoDescriptorLost`). A client detached in the middle of its own request
  leaves the policy of the request in a free slot, which the next client inherits
  (`FreeSlotsAreClean`).
- `gpsd_serial_open()` leaks its descriptor when `tcgetattr()` fails (`serial.c:465`), at
  every retry; `NoDescriptorLost` excepts these descriptors (`leaked`).
- SIGHUP does not close clients (`gpsd.xml:477` says all client connections), and
  adds the command-line devices that are in the pool already a second time
  (`gpsd.c:2214` against `gpsd.xml:478`).
- `pselect()` is called without a timeout although `gpsd.c:93` defines the pause for
  it, so that everything due at a time waits for traffic.
- The time of the release is kept over a reconnection of subscribers: a device whose last
  subscriber leaves for the second time is measured from the first time
  (`gpsd.c:2474` against `:81`), unless it was reopened in between.
- `zerokill` survives the closing of a device (`gpsd.c:1474` against `:1475`): the
  first zero-length read of the next connection is taken for the second.
- `privileged_user()` counts listeners without asking who requests
  (`gpsd.c:965` against the comment at `:956`).
- A client that never reads is never dropped: `EAGAIN` is tested before `EWOULDBLOCK`,
  the same number on Linux (`gpsd.c:635`).

Time export

- `ntpshm_free()` clears its own copy of the number (`ntpshm.c:207`). A device that is
  closed and opened again writes to a segment it has given back, which may have another
  owner by then, and gives it back a second time; the thread of a device without
  handshake lines gives back a segment that closing the device gives back again.
  `SegmentsAreExclusive` in `NtpSegments` is what fails; `UndisturbedSegmentsAreExclusive`
  is what holds until the first segment is given back.
- `gpsd_ppsmonitor_stop` is never reset: after the first device with a PPS segment is
  closed, no thread started later gets past its first test (`ntpshm.c:628`, `:956`).
- `-` for a device that was never opened, and SIGHUP, leave its segments marked.
- A thread that waits for a removed device takes the next one in the slot for its own.
- The guard against a second thread (`gpsd.c:741`) always passes, since the slot has
  just been initialised.
- A reader that takes the count after its first increment and before its second gets
  fields of two consecutive puts (`ntpshm.c:251`): `SampleSpansOnePut` allows just that.
  A reader can use a sample twice, or clear the `valid` of one it has not seen.
- `ntpshm_pps()` wants "a fresh timestamp from the GPS serial input" (`ntpshm.c:316-318`).
  A report is stamped with the time when it is handled (`:229`). If the loop was held up,
  by a control connection or a write, a report of the second before looks fresh, and the
  pulse gets the second that is over. `LabelIsRight` fails without the conjunct `~late`.
- The PPS thread reads the receive time first and the clock second, the main loop
  writes the clock first (`ntpshm.c:337`): a pulse between gets the second after.
  `LabelIsRight` fails without the conjunct `~thread.overtaken`. An edge that is missed can make the trailing edge look like a pulse of the "invisible" shape.

Sniffer

- `packet.c:73` wants the lexer to cope with arbitrarily mixed packet types. The first
  byte of another protocol after some of the `_RECOGNIZED` states is discarded (an AIS
  sentence after a UBX packet, for one); Garmin is refused after a TSIP packet has been
  accepted; an Oncore packet that has lost its first `@` is read as a short Garmin text.
- The JSON depth is not reset in `GROUND_STATE` or by `packet_reset()`: after a broken
  object the next one ends too late.
- A message without payload makes the remaining length of UBX, GeoStar, EverMore, and
  short NavCom messages, wrap (`packet.c:1043`), and so does the last step of Oncore.
- Short Garmin text and TSIP packets set `GROUND_STATE` without a discard, so that the
  bytes are not looked at again in the same way as after other failures.
- iTalk takes its length from a byte that has not been read yet (`packet.c:1117`).
- `ASTRAL` is never recognised: `ASTRAL_3` leads past `ASTRAL_4` (`packet.c:596`). The
  streams of `packet_sniffer` have it as noise.
- Checksums in lower case are not verified but accepted.
- Contrary to the remark on simplicity (`packet.c:84`) a failed attempt gives back all
  but its first byte, and everything after that is parsed again.

Device session

- `saved_baud` is set once (`serial.c:602`). A speed changed by `?DEVICE` is not saved;
  the next opening starts with the old one.
- Giving up leaves the stop bits at 3 (`serial.c:569`), which the next opening repairs.
- `retry_counter` is never reset by a packet (`serial.c:554`; `libgpsd_core.c:963`): some
  644 reads without a packet, over the whole connection, retune a line on which packets
  arrive. `baudindex` is not reset either.
- A comment, also one found in noise, stops the hunt for good: the type of the last
  packet is sticky. After a first packet the line may change its speed, and as long as
  nothing with a bad checksum arrives the hunt does not begin again.
- A device that is no tty is given up at the third bad packet since it was activated.
- Closing passes the numerical speed where a constant is expected (`serial.c:631`), which
  is refused; the condition "if we didn't have to mess with them" (`:623`) is always true,
  because the speed has just been set to `B0` (`:614`).
- `set_serial()` does nothing with 2 stop bits unless the driver takes 7 data bits
  (`gpsd.c:991`). A parity is never hunted for (`serial.c:483`).
- A driver found by a probe is not announced by `DRIVER_IS`, against the comment in
  `gpsd_poll()` (`libgpsd_core.c:1009`). A vendor's NMEA driver chosen by trigger gives way
  to the generic one at the next read.

The app

- `BluetoothIO.java:34` says of `STATE_CONNECTED` "now connected to a remote device";
  `connect()` sets it whatever has happened (`:110`), and a lost connection does not
  reset it.
- A thread whose connection was replaced finds its socket closed, waits for the
  monitor, and then clears the threads of the *new* connection
  (`BluetoothIO.java:135`): a reconnection ends soon after it has begun.
  `SocketsAreOwned` and `DeadConnectionIsCleared` hold all the same.
- `onPause()` during a recording leaves `mIsRecordingVideo` and the name of the
  readings file: the next click fails with an exception, and lines go on being
  written. `LateLinesBounded` is about recordings stopped with the button for that
  reason.
- `onPause()` while the camera is being opened waits for a callback that needs the main
  thread (`CameraFragment.java:353`); a `CameraAccessException` keeps the permit
  (`:346`). `StuckOnlyByOpening` states that nothing else makes it wait.
- `onDisconnected()` and `onError()` release the lock once more than it was taken
  (`:146`, `:153`); `BackgroundCameraIsClosed` holds until then.
- The listener opens the camera when the texture comes (`:102`), whether or not the
  fragment has been paused meanwhile. The dialog that `MainActivity.onStart()` shows for
  Bluetooth (`MainActivity.java:211-221`) pauses the activity before its first layout;
  the camera then stays open behind it. `BackgroundCameraIsClosed` excepts just those.
- A recorder runnable that was posted before a rotation starts the recorder of the old
  fragment, which is null: the application ends (`CameraFragment.java:565`).

## 8. Abstractions and omissions

- Shared memory is accessed in program order (the code has compiler barriers and
  x86 order in mind); an `int` is stored at once; the tick and the count do not wrap,
  their bound is the number of updates.
- In `GpsdDaemon` times are ages in ticks that saturate where no comparison tells them
  apart; `timestamp()` does not run backwards.
- The listening sockets have descriptors outside `Fds`. They do not change.
- In `GpsdThreads` a step of the main thread is atomic; what a thread does in the middle
  of one appears as a disturbance before or after it. Thread and device are not tied
  together: any thread may serve any open device, which includes the thread that
  outlives its device.
- What a request or a report says is left out, except for what changes a table;
  `?POLL`, `?VERSION` and the rest of the JSON change none. The `!` and `&` control
  commands write to a device and change none either.
- `NtpSegments` leaves open which edges are pulses, and `NtpSample` leaves open nothing
  of that but has one device, which is not closed. Left out of both: the socket to
  chrony, the kernel's own PPS, pulses at 5 Hz, and `timebase.c` (weeks, leap seconds).
- In the sniffer RTCM 2 never locks (`isgps.c`: its state machine is over bits). The
  scratch byte `ctmp`, which all devices share, belongs to one here.
- `DeviceSession` takes what the sniffer makes of a read as a choice that the receiver's
  settings and longest packet limit. Left out: the USB probes of GeoStar and Garmin
  and what `event_hook()` sends; a receiver does not change its own settings.
- `DashCam` does not follow an old fragment after a rotation, but for its posted
  runnable: a camera that it leaves open or opening is `left`, and its callbacks reach
  the old fragment only. Recordings get different names; that two begun in the same
  second would share theirs is not modelled. Lines are counted, not read.
- `mReadingsAbsolutePath` is a data race: its second use may see the value of the
  first or the current one.
- The commands that initialise the adapter may still run when the readings begin
  (both joins time out); they share the socket and disturb each other's answers,
  which is data here.

Not modelled, with reasons under "components" in `PROJECT.json`: drivers and JSON, the
socket side of the client library, network feeds, playback, lists and views, clients
and tools.

Most of the source is of that kind. Of some 49,000 lines the drivers, with the subframe
and AIS decoders, are about a third: they take a packet apart field by field, and keep
nothing from one to the next but the values. Another third is JSON tables and their
printing, the test programs, monitors and other command-line tools, headers, and
geodesy. A model of them would be a transcription without a property. What has state
over several steps is in the components above, and in those of the plan below.

## 9. Plan

Modules still worth writing, in this order:

1. `SockReader`: the line buffer of `gps_sock_read()`, refining a queue of lines.
2. `ReadingsPlayback`: the index arithmetic and the threads of the player, checked
   against a reference over small files and positions. The position and the duration
   may both be 0, and the duration equals the position at the end
   (`VideoPlayerActivity.java:128`).
3. `ClientThrottle` (`throttled_write()`), `Ntrip` (the connection machine of
   `net_ntrip.c`), the cycle detection of `driver_nmea0183.c`, `timebase.c`.

Compositions: `PacketSniffer` under `DeviceSession` and `DeviceSession` under
`GpsdDaemon`, in place of their free choice of what a read yields; `NtpSegments` with
`NtpSample`, for what a reader sees of a segment with two owners.

Proofs: the steps of a liveness argument that are not temporal (that a turn of the loop
brings its measure down), for `ZeroReadIsRepolled` and `SyncIsFound`; the walk of `UbloxWhole`
for other protocols, SiRF and TSIP first.
