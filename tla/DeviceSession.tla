--------------------------- MODULE DeviceSession ---------------------------
(***************************************************************************)
(* The session of gpsd with one receiver: opening the port, probing,       *)
(* hunting for the speed, recognising the driver, giving up, closing       *)
(* (libgpsd_core.c, serial.c).                                             *)
(*                                                                         *)
(* While no packet has been recognised every read advances a counter; when *)
(* it is full the port goes on to the next of the usual speeds, once       *)
(* around with the stop bits of the opening and once with two, and then    *)
(* the device is given up.  The first packet decides the driver, and the   *)
(* speed of that moment is the one at which later openings begin.          *)
(*                                                                         *)
(* The settings of the line are kept three times: port is the kernel's,    *)
(* ttyset and dev are the session's.  Whether they are equal decides       *)
(* whether the port is touched at all.                                     *)
(*                                                                         *)
(* The packet sniffer is PacketSniffer: here a read has recognised a       *)
(* packet of some type, a spoilt one, or none.  When a device is opened    *)
(* and closed is decided by GpsdDaemon.                                    *)
(***************************************************************************)
EXTENDS Integers, Sequences, FiniteSets

CONSTANTS
    HuntRates,     \* rates[] of gpsd_next_hunt_setting(), without the leading 0
    OtherRates,    \* speeds a port or a receiver may have besides
    ProbeRate,     \* the 9600 of tsip_detect()
    SniffRetries,  \* SNIFF_RETRIES
    Receivers,     \* the receivers that may be attached
    MaxOpens,      \* bound: openings
    MaxSpoilt,     \* bound: spoilt packets and comments
    MaxConfigures, \* bound: ?DEVICE requests that set a speed
    MaxPlugs       \* bound: times the device is unplugged

Rates == {HuntRates[i] : i \in DOMAIN HuntRates}
Speeds == {0, ProbeRate} \cup Rates \cup OtherRates
None == -1

Parities == {"N", "O"}
Settings == [rate : Speeds, parity : Parities, stopbits : {1, 2}]

\* A packet type that names a protocol is greater than COMMENT_PACKET.
Protocols == {"NMEA", "TSIP", "UBX"}
PacketTypes == Protocols \cup {"BAD", "COMMENT"}

NoDriver == "NULL"
Drivers == {"nmea", "earthmate", "tsip", "ubx"}

\* packet_type of a driver; several drivers speak NMEA.
PacketType == [d \in Drivers |-> CASE d = "tsip" -> "TSIP" [] d = "ubx" -> "UBX" [] OTHER -> "NMEA"]

\* The first driver in gpsd_drivers[] for a packet type.
DriverFor == [t \in Protocols |-> CASE t = "TSIP" -> "tsip" [] t = "UBX" -> "ubx" [] OTHER -> "nmea"]

\* Drivers with a trigger string, by which an NMEA sentence selects them.
Triggered == {"earthmate", "ubx"}

\* speaks: the protocols it sends; length: its longest packet in bytes;
\* obeys: whether it follows a request to change its speed.
ReceiverTypes == [line : Settings, speaks : SUBSET Protocols, length : Nat \ {0}, obeys : BOOLEAN]

ASSUME DeviceSessionAssumption ==
    /\ HuntRates \in Seq(Nat \ {0})
    /\ HuntRates # << >>
    /\ OtherRates \subseteq Nat
    /\ ProbeRate \in Nat \ {0}
    /\ SniffRetries \in Nat
    /\ Receivers \subseteq ReceiverTypes
    /\ MaxOpens \in Nat /\ MaxSpoilt \in Nat /\ MaxConfigures \in Nat /\ MaxPlugs \in Nat

VARIABLES
    receiver,       \* the receiver on the line
    plugged,        \* the device is there
    tty,            \* isatty(): a serial port, not a file or a pipe
    port,           \* the settings of the line in the kernel
    open,           \* gps_fd >= 0
    ttyset,         \* the settings as the session believes they are
    ttyset_old,     \* those found at the opening
    dev,            \* gpsdata.dev: baudrate, parity, stopbits
    saved_baud,
    baudindex,
    getcount,       \* reads without a packet since the opening, up to 2
    retry_counter,
    type,           \* packet.type
    device_type,
    notify_clients,
    reads,          \* history: reads since the line was set
    wait,           \* history: reads in a row without a packet of the receiver
    listened,       \* history: settings listened to for more than SniffRetries reads
    heard,          \* history: speeds at which a packet has come
    course,         \* history: of the hunt that began with the opening
    gaveUp,         \* history: the last closing was the end of a hunt
    opens, spoilt, configures, plugs

world == <<receiver, plugged, tty>>
line == <<port, ttyset, dev>>
hunt == <<baudindex, getcount, retry_counter>>
driver == <<type, device_type, notify_clients, saved_baud>>
history == <<reads, wait, listened, heard, course, gaveUp>>
bounds == <<opens, spoilt, configures, plugs>>
vars == <<world, line, ttyset_old, hunt, driver, open, history, bounds>>

-----------------------------------------------------------------------------
(* Settings of the line *)

\* The three records that gpsd_set_speed() changes.
Lines == [port : Settings, ttyset : Settings,
          dev : [baudrate : Speeds, parity : Parities \cup {"none"}, stopbits : 0..3]]

\* What gpsd_set_speed() makes of ttyset: speed 0 leaves it where it is.
Wanted(speed, parity, stopbits, now) ==
    [rate |-> IF speed = 0 THEN now ELSE speed,
     parity |-> parity,
     stopbits |-> IF stopbits = 2 THEN 2 ELSE 1]

Recorded(speed, parity, stopbits) == [baudrate |-> speed, parity |-> parity, stopbits |-> stopbits]

\* gpsd_set_speed() touches the port only when something seems to change.
Unchanged(s, speed, parity, stopbits) ==
    speed = s.ttyset.rate /\ parity = s.dev.parity /\ stopbits = s.dev.stopbits

\* gpsd_set_speed() on the records s; ok: whether tcsetattr() succeeds.
SetSpeed(s, ok, speed, parity, stopbits) ==
    LET wanted == Wanted(speed, parity, stopbits, s.ttyset.rate)
    IN  IF Unchanged(s, speed, parity, stopbits)
          THEN [s EXCEPT !.dev = Recorded(speed, parity, stopbits)]
        ELSE IF ok
          THEN [port |-> wanted, ttyset |-> wanted, dev |-> Recorded(speed, parity, stopbits)]
          ELSE [s EXCEPT !.ttyset = wanted]

\* The three records as they are.
Now == [port |-> port, ttyset |-> ttyset, dev |-> dev]

SetLine(s) == port' = s.port /\ ttyset' = s.ttyset /\ dev' = s.dev

\* The line is set to the settings of the receiver, or is no line.
Matches(p) == tty => receiver.line = p

-----------------------------------------------------------------------------
(* Opening: gpsd_activate() *)

Init ==
    /\ receiver \in Receivers
    /\ plugged = TRUE
    /\ tty \in BOOLEAN
    /\ port \in [rate : Rates \cup OtherRates, parity : Parities, stopbits : {1}]
    /\ open = FALSE
    /\ ttyset = [rate |-> 0, parity |-> "N", stopbits |-> 1]
    /\ ttyset_old = ttyset
    /\ dev = [baudrate |-> 0, parity |-> "none", stopbits |-> 0]
    /\ saved_baud = None
    /\ baudindex = 0 /\ getcount = 0 /\ retry_counter = 0
    /\ type = "BAD" /\ device_type = NoDriver /\ notify_clients = FALSE
    /\ reads = 0 /\ wait = 0 /\ listened = {} /\ heard = {}
    /\ course = "none" /\ gaveUp = FALSE
    /\ opens = 0 /\ spoilt = 0 /\ configures = 0 /\ plugs = 0

\* Mutant of AssertSync: the speed asked for is kept, which may be 0.
AssertSyncAsked(s) == IF saved_baud = None THEN s.dev.baudrate ELSE saved_baud

\* gpsd_assert_sync(): the first speed that worked is kept for ever.
AssertSync(s) == IF saved_baud = None THEN s.ttyset.rate ELSE saved_baud

\* ttyset with the saved speed, in the other settings of last time.
Resumed == IF saved_baud = None THEN ttyset ELSE [ttyset EXCEPT !.rate = saved_baud]

\* What gpsd_serial_open() finds on the line, and keeps in ttyset_old.
Found == IF tty /\ saved_baud # None THEN Resumed ELSE port

\* The records when gpsd_serial_open() is done.
SerialOpen ==
    IF tty
      THEN SetSpeed([port |-> Found, ttyset |-> [rate |-> Found.rate, parity |-> "N", stopbits |-> 1], dev |-> dev],
                    TRUE, Found.rate, "N", 1)
      ELSE [port |-> port, ttyset |-> Resumed, dev |-> [dev EXCEPT !.parity = "N", !.stopbits = 1]]

\* tsip_detect() asks in the settings of its devices, and puts the old ones back.
Asking(s) == SetSpeed(s, tty, ProbeRate, "O", 1)
PutBack(s, old) == SetSpeed(s, tty, old.baudrate, old.parity, old.stopbits)

\* A successful opening; found: the probe has seen a TSIP packet.
Open(found) ==
    LET s == IF found THEN Asking(SerialOpen) ELSE PutBack(Asking(SerialOpen), SerialOpen.dev)
    IN  /\ ~open /\ plugged /\ opens < MaxOpens
        /\ found => "TSIP" \in receiver.speaks /\ Matches(s.port)
        /\ open' = TRUE
        /\ SetLine(s)
        /\ ttyset_old' = IF tty THEN Found ELSE ttyset_old
        /\ baudindex' = IF tty THEN 0 ELSE baudindex
        /\ getcount' = 0 /\ retry_counter' = 0 /\ type' = "BAD"
        /\ device_type' = IF found THEN "tsip" ELSE device_type
        /\ saved_baud' = IF found THEN AssertSync(s) ELSE saved_baud
        /\ reads' = 0 /\ wait' = 0 /\ listened' = {}
        /\ heard' = IF found THEN heard \cup {s.port.rate} ELSE heard
        /\ course' = IF found THEN "synced" ELSE "hunting"
        /\ gaveUp' = FALSE
        /\ opens' = opens + 1
        /\ UNCHANGED <<world, notify_clients, spoilt, configures, plugs>>

-----------------------------------------------------------------------------
(* Closing: gpsd_deactivate() *)

\* The line is hung up, and then gets the settings found at the opening.  The
\* speed they are given is a number and no code of a speed, and is refused,
\* unless it is 0, which is both.
Restored(s) ==
    LET hungUp == [s.ttyset EXCEPT !.rate = 0]
    IN  IF ttyset_old.rate # hungUp.rate \/ ttyset_old.stopbits # hungUp.stopbits
          THEN [ttyset_old EXCEPT !.rate = IF s.dev.baudrate = 0 THEN 0 ELSE @]
          ELSE hungUp

Close(s) ==
    /\ open' = FALSE
    /\ SetLine(IF tty THEN [port |-> IF plugged THEN Restored(s) ELSE s.port,
                            ttyset |-> [s.ttyset EXCEPT !.rate = 0],
                            dev |-> s.dev]
               ELSE s)
    /\ UNCHANGED <<world, ttyset_old>>

\* The daemon closes the device: nobody watches it, it is removed, or a read
\* fails; in any state of the session.
Release ==
    /\ open
    /\ Close(Now)
    /\ gaveUp' = FALSE
    /\ UNCHANGED <<hunt, driver, reads, wait, listened, heard, course, bounds>>

-----------------------------------------------------------------------------
(* Hunting: gpsd_next_hunt_setting() *)

LastIndex == Len(HuntRates)

\* rates[]
RateAt(i) == IF i = 0 THEN 0 ELSE HuntRates[i]

\* Mutant of Last: the last speed is left out.
LastEarly(i) == i >= LastIndex - 1

\* baudindex is at the end of rates[].
Last(i) == i >= LastIndex

\* Mutant of TwoTried: the hunt ends after the first round.
OneTried(stopbits) == stopbits >= 1

\* The round with two stop bits is over.
TwoTried(stopbits) == stopbits >= 2

AtMost(n, top) == IF n > top THEN top ELSE n

\* The settings the line has now, if they have been listened to for long enough.
Listened == IF reads >= SniffRetries THEN listened \cup {port} ELSE listened

\* The hunt is over: the device is closed, the stop bits counted on.
GiveUp ==
    /\ IF tty
         THEN /\ retry_counter' = 0 /\ baudindex' = 0
              /\ Close([Now EXCEPT !.dev.stopbits = @ + 1])
         ELSE Close(Now) /\ UNCHANGED <<retry_counter, baudindex>>
    /\ gaveUp' = TRUE
    /\ listened' = Listened
    /\ UNCHANGED <<getcount, reads, wait>>

\* The next speed, or the next round; ok: whether tcsetattr() succeeds, which
\* it does unless the device has just gone.
Retune(ok) ==
    LET round == IF Last(baudindex) THEN dev.stopbits + 1 ELSE dev.stopbits
        index == IF Last(baudindex) THEN 0 ELSE baudindex + 1
        asked == [Now EXCEPT !.dev.stopbits = round]
    IN  /\ retry_counter' = 0
        /\ baudindex' = index
        /\ SetLine(SetSpeed(asked, ok, RateAt(index), dev.parity, round))
        /\ plugged' = ok
        /\ reads' = 0 /\ wait' = 0
        /\ listened' = Listened
        /\ UNCHANGED <<receiver, tty, open, ttyset_old, getcount, gaveUp>>

\* A read has brought no packet, and there has been none before.
Listen(waited) ==
    /\ IF getcount > 1
         THEN retry_counter' = retry_counter + 1 /\ UNCHANGED getcount
         ELSE getcount' = getcount + 1 /\ UNCHANGED retry_counter
    /\ reads' = AtMost(reads + 1, SniffRetries)
    /\ wait' = waited
    /\ UNCHANGED <<world, line, open, ttyset_old, baudindex, listened, gaveUp>>

Hunt(waited) ==
    \/ (getcount > 1 => tty /\ retry_counter < SniffRetries) /\ Listen(waited)
    \/ /\ getcount > 1 /\ tty /\ retry_counter >= SniffRetries
       /\ ~(Last(baudindex) /\ TwoTried(dev.stopbits))
       /\ \E ok \in BOOLEAN : Retune(ok)
    \/ /\ getcount > 1
       /\ tty => retry_counter >= SniffRetries /\ Last(baudindex) /\ TwoTried(dev.stopbits)
       /\ GiveUp

-----------------------------------------------------------------------------
(* Reading: gpsd_poll() *)

Reading == open /\ plugged

\* The device is identified, or speaks another protocol than before.
SwitchDriver(d) ==
    /\ device_type' = d
    /\ saved_baud' = IF d = device_type THEN saved_baud ELSE AssertSync(Now)

\* A packet of a protocol; matched: the driver whose trigger it starts with.
Recognise(t, matched) ==
    LET parsing == DriverFor[t]
    IN  /\ Reading /\ t \in receiver.speaks /\ Matches(port)
        /\ matched # NoDriver => t = "NMEA"
        /\ type' = t
        /\ SwitchDriver(IF matched = NoDriver THEN parsing ELSE matched)
        /\ notify_clients' = (matched # NoDriver)
        /\ reads' = AtMost(reads + 1, SniffRetries) /\ wait' = 0
        /\ heard' = heard \cup {port.rate}
        /\ course' = IF course = "hunting" THEN "synced" ELSE course
        /\ UNCHANGED <<world, line, ttyset_old, hunt, open, listened, gaveUp, bounds>>

\* The receiver is heard, and within twice its longest packet there is a whole one.
Overdue == Matches(port) /\ receiver.speaks # {} /\ wait + 1 >= 2 * receiver.length - 1

Waited == IF Matches(port) THEN wait + 1 ELSE 0

\* Bytes that do not end a packet.  The type is that of the last packet, and
\* once there has been one the driver is chosen by it again.
ReadNoPacket ==
    /\ Reading /\ ~Overdue
    /\ \/ /\ type \in Protocols
          /\ SwitchDriver(DriverFor[type])
          /\ notify_clients' = (notify_clients \/ device_type # DriverFor[type])
          /\ UNCHANGED <<world, line, open, ttyset_old, hunt, reads, listened, gaveUp>>
          /\ wait' = AtMost(Waited, SniffRetries)
       \/ /\ type = "COMMENT"
          /\ UNCHANGED <<world, line, open, ttyset_old, hunt, reads, listened, gaveUp>>
          /\ wait' = AtMost(Waited, SniffRetries)
          /\ UNCHANGED <<device_type, saved_baud, notify_clients>>
       \/ /\ type = "BAD"
          /\ Hunt(AtMost(Waited, SniffRetries))
          /\ UNCHANGED <<device_type, saved_baud, notify_clients>>
    /\ UNCHANGED <<type, heard, course, bounds>>

\* Noise, or a packet of the receiver, with a wrong checksum.
ReadSpoilt ==
    /\ Reading /\ spoilt < MaxSpoilt
    /\ spoilt' = spoilt + 1
    /\ type' = "BAD"
    /\ Hunt(0)
    /\ notify_clients' = (notify_clients /\ ~open')
    /\ course' = IF Matches(port) THEN "disturbed" ELSE course
    /\ UNCHANGED <<device_type, saved_baud, heard, opens, configures, plugs>>

\* A comment, or noise that looks like one: the hunt waits for a packet.
ReadComment ==
    /\ Reading /\ spoilt < MaxSpoilt
    /\ spoilt' = spoilt + 1
    /\ type' = "COMMENT"
    /\ notify_clients' = FALSE
    /\ wait' = 0
    /\ course' = "disturbed"
    /\ UNCHANGED <<world, line, ttyset_old, hunt, device_type, saved_baud, open,
                   reads, listened, heard, gaveUp, opens, configures, plugs>>

Read ==
    \/ \E t \in Protocols, matched \in Triggered \cup {NoDriver} : Recognise(t, matched)
    \/ ReadNoPacket
    \/ ReadSpoilt
    \/ ReadComment

\* The device has gone; the daemon notices it at the next read.
ReadFails == ~plugged /\ Release

-----------------------------------------------------------------------------
(* Requests, and the world *)

\* set_serial() for ?DEVICE: the driver tells the receiver, and the line follows.
\* The parity and the stop bits of the request never get here, and with two
\* stop bits nothing happens.
Configure(speed) ==
    LET ok == plugged /\ tty
    IN  /\ open /\ device_type # NoDriver /\ dev.stopbits = 1
        /\ configures < MaxConfigures
        /\ SetLine(SetSpeed(Now, ok, speed, dev.parity, 1))
        /\ IF ok \/ Unchanged(Now, speed, dev.parity, 1)
             THEN type' = "BAD" /\ reads' = 0 /\ wait' = 0
             ELSE UNCHANGED <<type, reads, wait>>
        /\ receiver' = IF ok /\ receiver.obeys /\ Matches(port)
                         THEN [receiver EXCEPT !.line.rate = speed] ELSE receiver
        /\ course' = "disturbed"
        /\ configures' = configures + 1
        /\ UNCHANGED <<plugged, tty, ttyset_old, hunt, device_type, notify_clients, saved_baud, open,
                       listened, heard, gaveUp, opens, spoilt, plugs>>

Unplug ==
    /\ plugged /\ plugs < MaxPlugs
    /\ plugged' = FALSE
    /\ plugs' = plugs + 1
    /\ UNCHANGED <<receiver, tty, line, ttyset_old, hunt, driver, open, history, opens, spoilt, configures>>

\* The new line has the settings a kernel begins with.
Plug ==
    /\ ~plugged /\ ~open
    /\ plugged' = TRUE
    /\ port' = [rate |-> ProbeRate, parity |-> "N", stopbits |-> 1]
    /\ UNCHANGED <<receiver, tty, ttyset, dev, ttyset_old, hunt, driver, open, history, bounds>>

Next ==
    \/ \E found \in BOOLEAN : Open(found)
    \/ Read
    \/ Release
    \/ \E speed \in Rates \cup OtherRates : Configure(speed)
    \/ Unplug
    \/ Plug

Spec == Init /\ [][Next]_vars

\* A receiver sends without a pause, and the loop reads what has come.
FairSpec == Spec /\ WF_vars(Read \/ ReadFails)

-----------------------------------------------------------------------------
(* Properties *)

\* Every variable keeps its type.
TypeOK ==
    /\ receiver \in ReceiverTypes /\ plugged \in BOOLEAN /\ tty \in BOOLEAN
    /\ Now \in Lines /\ ttyset_old \in Settings
    /\ saved_baud \in Speeds \cup {None}
    /\ baudindex \in 0..LastIndex /\ getcount \in 0..2 /\ retry_counter \in 0..SniffRetries
    /\ type \in PacketTypes /\ device_type \in Drivers \cup {NoDriver} /\ notify_clients \in BOOLEAN
    /\ open \in BOOLEAN /\ gaveUp \in BOOLEAN
    /\ reads \in 0..SniffRetries /\ wait \in 0..SniffRetries
    /\ listened \subseteq Settings /\ heard \subseteq Speeds
    /\ course \in {"none", "hunting", "synced", "disturbed"}
    /\ opens \in 0..MaxOpens /\ spoilt \in 0..MaxSpoilt
    /\ configures \in 0..MaxConfigures /\ plugs \in 0..MaxPlugs

\* A hunt that was not disturbed gives up only after it has listened, for more
\* than SNIFF_RETRIES reads each, to every speed with one and with two stop bits
\* (gpsd_next_hunt_setting(): the index, the rounds, speed 0, and the skipping of
\* settings that seem to be the same already).
HuntIsComplete ==
    gaveUp /\ course = "hunting" /\ tty =>
        [rate : Rates, parity : {"N"}, stopbits : {1, 2}] \subseteq listened

\* The speed that later openings of a serial port begin with is one at which a packet has come
\* (gpsd_assert_sync(), whatever was asked of the line in between).
SavedSpeedWasHeard == tty /\ saved_baud # None => saved_baud \in heard

\* Receivers the hunt is made for: a usual speed, no parity, and packets short
\* enough for SNIFF_RETRIES.
Huntable(r) ==
    /\ r.speaks # {} /\ r.line.rate \in Rates /\ r.line.parity = "N"
    /\ 2 * r.length - 1 <= SniffRetries + 1

\* A device on a serial port whose receiver keeps sending is identified, unless
\* it is closed for another reason or the hunt is disturbed: the hunt neither
\* ends without it nor goes on for ever.
SyncIsFound ==
    (open /\ tty /\ course = "hunting" /\ Huntable(receiver))
        ~> (type \in Protocols \/ course = "disturbed" \/ (~open /\ ~gaveUp))
=============================================================================
