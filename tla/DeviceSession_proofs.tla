------------------------ MODULE DeviceSession_proofs ------------------------
(***************************************************************************)
(* Proofs about DeviceSession, for any list of speeds, any SniffRetries    *)
(* and any receivers.                                                      *)
(***************************************************************************)
EXTENDS DeviceSession, TLAPS

Standing == open => dev.parity \in Parities /\ dev.stopbits \in {1, 2}

\* The session's idea of the line is the kernel's, because the probe has made
\* it differ from what it was once.
LineInv == open /\ tty /\ plugged => ttyset = port

\* Behind a driver or a packet there is a saved speed.
SavedInv ==
    /\ device_type # NoDriver => saved_baud # None
    /\ type \in Protocols => device_type # NoDriver
    /\ SavedSpeedWasHeard

\* The settings that the line has, and those that have been listened to, as the
\* index and the stop bits tell.
Setting(i, stopbits) == [rate |-> HuntRates[i], parity |-> "N", stopbits |-> stopbits]

Tuned ==
    /\ dev.parity = "N"
    /\ port = [rate |-> port.rate, parity |-> "N", stopbits |-> dev.stopbits]
    /\ baudindex > 0 => port = Setting(baudindex, dev.stopbits)
    /\ \A i \in 1..(baudindex - 1) : Setting(i, dev.stopbits) \in listened
    /\ dev.stopbits = 2 => \A i \in 1..LastIndex : Setting(i, 1) \in listened
    /\ reads >= retry_counter

Complete == [rate : Rates, parity : {"N"}, stopbits : {1, 2}] \subseteq listened

HuntInv ==
    /\ gaveUp => ~open
    /\ open /\ tty /\ plugged /\ course = "hunting" => Tuned
    /\ HuntIsComplete

IInv == TypeOK /\ Standing /\ LineInv /\ SavedInv /\ HuntInv

-----------------------------------------------------------------------------
(* Types *)

LEMMA RatesAreSpeeds ==
    /\ Rates \subseteq Nat \ {0}
    /\ Speeds \subseteq Nat
    /\ LastIndex \in Nat \ {0}
    /\ \A i \in 1..LastIndex : HuntRates[i] \in Rates
  <1>1. LastIndex \in Nat /\ DOMAIN HuntRates = 1..LastIndex
    BY DeviceSessionAssumption DEF LastIndex
  <1>2. LastIndex # 0
    BY DeviceSessionAssumption DEF LastIndex
  <1>3. \A i \in 1..LastIndex : HuntRates[i] \in Nat \ {0}
    BY DeviceSessionAssumption DEF LastIndex
  <1>4. \A i \in 1..LastIndex : HuntRates[i] \in Rates
    BY <1>1 DEF Rates
  <1>5. Rates \subseteq Nat \ {0}
    BY <1>1, <1>3 DEF Rates
  <1>6. Speeds \subseteq Nat
    BY <1>5, DeviceSessionAssumption DEF Speeds
  <1> QED
    BY <1>1, <1>2, <1>4, <1>5, <1>6

LEMMA SetSpeedType ==
    ASSUME NEW s \in Lines, NEW ok \in BOOLEAN, NEW speed \in Speeds,
           NEW parity \in Parities, NEW stopbits \in 0..3
    PROVE  /\ SetSpeed(s, ok, speed, parity, stopbits) \in Lines
           /\ \/ SetSpeed(s, ok, speed, parity, stopbits).dev = Recorded(speed, parity, stopbits)
              \/ ~ok /\ SetSpeed(s, ok, speed, parity, stopbits).dev = s.dev
  <1> DEFINE wanted == Wanted(speed, parity, stopbits, s.ttyset.rate)
  <1>1. s.port \in Settings /\ s.ttyset \in Settings
    BY DEF Lines
  <1>2. wanted \in Settings
    BY <1>1 DEF Wanted, Settings
  <1>3. Recorded(speed, parity, stopbits) \in [baudrate : Speeds, parity : Parities \cup {"none"}, stopbits : 0..3]
    BY DEF Recorded
  <1> HIDE DEF wanted
  <1>4. CASE Unchanged(s, speed, parity, stopbits)
    <2>1. SetSpeed(s, ok, speed, parity, stopbits) = [s EXCEPT !.dev = Recorded(speed, parity, stopbits)]
      BY <1>4 DEF SetSpeed
    <2> QED
      BY <2>1, <1>3 DEF Lines
  <1>5. CASE ~Unchanged(s, speed, parity, stopbits) /\ ok
    <2>1. SetSpeed(s, ok, speed, parity, stopbits)
            = [port |-> wanted, ttyset |-> wanted, dev |-> Recorded(speed, parity, stopbits)]
      BY <1>5 DEF SetSpeed, wanted
    <2> QED
      BY <2>1, <1>2, <1>3 DEF Lines
  <1>6. CASE ~Unchanged(s, speed, parity, stopbits) /\ ~ok
    <2>1. SetSpeed(s, ok, speed, parity, stopbits) = [s EXCEPT !.ttyset = wanted]
      BY <1>6 DEF SetSpeed, wanted
    <2> QED
      BY <2>1, <1>2, <1>6 DEF Lines
  <1> QED
    BY <1>4, <1>5, <1>6

\* A known line that is set, or left because it is as asked, is known after it.
LEMMA SetSpeedAgrees ==
    ASSUME NEW s \in Lines, NEW speed, NEW parity, NEW stopbits, s.ttyset = s.port
    PROVE  SetSpeed(s, TRUE, speed, parity, stopbits).ttyset = SetSpeed(s, TRUE, speed, parity, stopbits).port
  <1>1. CASE Unchanged(s, speed, parity, stopbits)
    BY <1>1 DEF SetSpeed, Lines
  <1>2. CASE ~Unchanged(s, speed, parity, stopbits)
    BY <1>2 DEF SetSpeed
  <1> QED
    BY <1>1, <1>2

\* What Open(found) leaves.
OpenedLine(found) ==
    IF found THEN Asking(SerialOpen) ELSE PutBack(Asking(SerialOpen), SerialOpen.dev)

LEMMA SerialOpenType ==
    ASSUME TypeOK
    PROVE  /\ SerialOpen \in Lines
           /\ SerialOpen.dev.parity = "N" /\ SerialOpen.dev.stopbits = 1
  <1>1. port \in Settings /\ ttyset \in Settings
        /\ dev \in [baudrate : Speeds, parity : Parities \cup {"none"}, stopbits : 0..3]
    BY DEF TypeOK, Now, Lines
  <1>2. Resumed \in Settings
    BY <1>1 DEF Resumed, TypeOK, Settings
  <1>3. Found \in Settings
    BY <1>1, <1>2 DEF Found
  <1>4. "N" \in Parities /\ 1 \in 0..3
    BY DEF Parities
  <1>5. CASE tty
    <2> DEFINE x == [port |-> Found, ttyset |-> [rate |-> Found.rate, parity |-> "N", stopbits |-> 1], dev |-> dev]
    <2>1. Found.rate \in Speeds
      BY <1>3 DEF Settings
    <2>2. x \in Lines
      BY <1>1, <1>3, <1>4, <2>1 DEF Lines, Settings
    <2>3. SerialOpen = SetSpeed(x, TRUE, Found.rate, "N", 1)
      BY <1>5 DEF SerialOpen
    <2> HIDE DEF x
    <2>4. SerialOpen \in Lines /\ SerialOpen.dev = Recorded(Found.rate, "N", 1)
      BY <2>1, <2>2, <2>3, <1>4, SetSpeedType
    <2> QED
      BY <2>4 DEF Recorded
  <1>6. CASE ~tty
    <2> DEFINE recorded == [dev EXCEPT !.parity = "N", !.stopbits = 1]
    <2>1. SerialOpen = [port |-> port, ttyset |-> Resumed, dev |-> recorded]
      BY <1>6 DEF SerialOpen
    <2>2. /\ recorded \in [baudrate : Speeds, parity : Parities \cup {"none"}, stopbits : 0..3]
          /\ recorded.parity = "N" /\ recorded.stopbits = 1
      BY <1>1, <1>4
    <2> HIDE DEF recorded
    <2> QED
      BY <2>1, <2>2, <1>1, <1>2 DEF Lines
  <1> QED
    BY <1>5, <1>6 DEF TypeOK

LEMMA Opening ==
    ASSUME TypeOK, NEW found \in BOOLEAN
    PROVE  /\ OpenedLine(found) \in Lines
           /\ OpenedLine(found).dev.parity \in Parities /\ OpenedLine(found).dev.stopbits = 1
           /\ tty => OpenedLine(found).ttyset = OpenedLine(found).port
           /\ tty /\ ~found => /\ OpenedLine(found).dev.parity = "N"
                               /\ OpenedLine(found).port.parity = "N"
                               /\ OpenedLine(found).port.stopbits = 1
  <1> DEFINE s1 == SerialOpen
             s2 == Asking(SerialOpen)
             s3 == PutBack(s2, s1.dev)
  <1>0. tty \in BOOLEAN /\ ProbeRate \in Speeds /\ "N" \in Parities /\ "O" \in Parities /\ 1 \in 0..3
    BY DEF TypeOK, Speeds, Parities
  <1>1. s1 \in Lines /\ s1.dev.parity = "N" /\ s1.dev.stopbits = 1 /\ s1.dev.baudrate \in Speeds
    BY SerialOpenType DEF Lines
  <1>2. s2 = SetSpeed(s1, tty, ProbeRate, "O", 1)
    BY DEF Asking
  <1>3. s3 = SetSpeed(s2, tty, s1.dev.baudrate, "N", 1)
    BY <1>1 DEF PutBack
  <1>4. OpenedLine(found) = IF found THEN s2 ELSE s3
    BY DEF OpenedLine
  <1> HIDE DEF s1, s2, s3
  <1>5. /\ s2 \in Lines
        /\ s2.dev = Recorded(ProbeRate, "O", 1) \/ (s2.dev = s1.dev /\ ~tty)
    <2>1. s1 \in Lines
      BY <1>1
    <2> QED
      BY <1>0, <1>2, <2>1, SetSpeedType
  <1>6. /\ s3 \in Lines
        /\ s3.dev = Recorded(s1.dev.baudrate, "N", 1) \/ (s3.dev = s2.dev /\ ~tty)
    <2> DEFINE speed == s1.dev.baudrate
    <2>1. s2 \in Lines /\ speed \in Speeds
      BY <1>1, <1>5
    <2>2. s3 = SetSpeed(s2, tty, speed, "N", 1)
      BY <1>3
    <2> HIDE DEF speed
    <2>3. /\ SetSpeed(s2, tty, speed, "N", 1) \in Lines
          /\ \/ SetSpeed(s2, tty, speed, "N", 1).dev = Recorded(speed, "N", 1)
             \/ ~tty /\ SetSpeed(s2, tty, speed, "N", 1).dev = s2.dev
      BY <1>0, <2>1, SetSpeedType
    <2> QED
      BY <2>2, <2>3 DEF speed
  <1>7. s2.dev.parity \in Parities /\ s2.dev.stopbits = 1
    BY <1>0, <1>1, <1>5 DEF Recorded
  <1>8. s3.dev.parity \in Parities /\ s3.dev.stopbits = 1
    BY <1>0, <1>6, <1>7 DEF Recorded
  <1>9. ASSUME tty PROVE /\ s2.ttyset = s2.port /\ s2.dev.parity = "O"
                         /\ s3.ttyset = s3.port /\ s3.dev.parity = "N"
                         /\ s3.port.parity = "N" /\ s3.port.stopbits = 1
    <2>1. ~Unchanged(s1, ProbeRate, "O", 1)
      BY <1>1 DEF Unchanged
    <2>2. s2.ttyset = s2.port /\ s2.dev.parity = "O"
      <3>1. s2 = [port |-> Wanted(ProbeRate, "O", 1, s1.ttyset.rate),
                  ttyset |-> Wanted(ProbeRate, "O", 1, s1.ttyset.rate),
                  dev |-> Recorded(ProbeRate, "O", 1)]
        BY <1>2, <1>9, <2>1 DEF SetSpeed
      <3> QED
        BY <3>1 DEF Recorded
    <2>3. ~Unchanged(s2, s1.dev.baudrate, "N", 1)
      BY <2>2 DEF Unchanged
    <2>4. s3 = [port |-> Wanted(s1.dev.baudrate, "N", 1, s2.ttyset.rate),
                ttyset |-> Wanted(s1.dev.baudrate, "N", 1, s2.ttyset.rate),
                dev |-> Recorded(s1.dev.baudrate, "N", 1)]
      BY <1>3, <1>9, <2>3 DEF SetSpeed
    <2> QED
      BY <2>2, <2>4 DEF Wanted, Recorded
  <1> QED
    BY <1>4, <1>5, <1>6, <1>7, <1>8, <1>9

LEMMA SetLineType ==
    ASSUME NEW s \in Lines, SetLine(s)
    PROVE  Now' = s
  BY DEF SetLine, Now, Lines

LEMMA NowType ==
    ASSUME TypeOK
    PROVE  /\ Now \in Lines /\ Now.dev = dev /\ Now.port = port /\ Now.ttyset = ttyset
           /\ port \in Settings /\ ttyset \in Settings
           /\ dev.baudrate \in Speeds /\ dev.parity \in Parities \cup {"none"} /\ dev.stopbits \in 0..3
  BY DEF TypeOK, Now, Lines

LEMMA CloseType ==
    ASSUME TypeOK, NEW s \in Lines, Close(s)
    PROVE  Now' \in Lines /\ ~open' /\ UNCHANGED <<receiver, plugged, tty, ttyset_old>>
  <1> DEFINE hungUp == [s.ttyset EXCEPT !.rate = 0]
             left == [port |-> IF plugged THEN Restored(s) ELSE s.port, ttyset |-> hungUp, dev |-> s.dev]
  <1>1. s.port \in Settings /\ s.ttyset \in Settings /\ ttyset_old \in Settings /\ 0 \in Speeds
    BY DEF Lines, TypeOK, Speeds
  <1>2. hungUp \in Settings /\ [ttyset_old EXCEPT !.rate = 0] \in Settings
    BY <1>1 DEF Settings
  <1>3. Restored(s) \in {hungUp, ttyset_old, [ttyset_old EXCEPT !.rate = 0]}
    <2>1. [ttyset_old EXCEPT !.rate = ttyset_old.rate] = ttyset_old
      BY <1>1 DEF Settings
    <2> QED
      BY <2>1 DEF Restored
  <1>4. Restored(s) \in Settings
    BY <1>1, <1>2, <1>3
  <1>5. left \in Lines
    BY <1>1, <1>2, <1>4 DEF Lines
  <1>6. SetLine(IF tty THEN left ELSE s)
    BY DEF Close
  <1> HIDE DEF left
  <1>7. Now' = IF tty THEN left ELSE s
    BY <1>5, <1>6, SetLineType
  <1> QED
    BY <1>5, <1>7 DEF Close, world

\* What a step of the hunt does to the line and the counters.
LEMMA HuntType ==
    ASSUME TypeOK, Standing, Reading, NEW waited \in 0..SniffRetries, Hunt(waited)
    PROVE  /\ Now' \in Lines /\ Standing'
           /\ baudindex' \in 0..LastIndex /\ getcount' \in 0..2 /\ retry_counter' \in 0..SniffRetries
           /\ reads' \in 0..SniffRetries /\ wait' \in 0..SniffRetries
           /\ listened' \subseteq Settings
           /\ open' \in BOOLEAN /\ gaveUp' \in BOOLEAN /\ plugged' \in BOOLEAN
           /\ UNCHANGED <<receiver, tty, ttyset_old>>
  <1>0. SniffRetries \in Nat /\ LastIndex \in Nat \ {0}
    BY DeviceSessionAssumption, RatesAreSpeeds
  <1>1. /\ Now \in Lines /\ dev.parity \in Parities /\ dev.stopbits \in {1, 2}
        /\ port \in Settings /\ baudindex \in 0..LastIndex
        /\ getcount \in 0..2 /\ retry_counter \in 0..SniffRetries
        /\ reads \in 0..SniffRetries /\ wait \in 0..SniffRetries /\ listened \subseteq Settings
        /\ open \in BOOLEAN /\ gaveUp \in BOOLEAN /\ plugged \in BOOLEAN
    BY NowType DEF TypeOK, Standing, Reading
  <1>2. Listened \subseteq Settings
    BY <1>1 DEF Listened
  <1>3. CASE (getcount > 1 => tty /\ retry_counter < SniffRetries) /\ Listen(waited)
    <2>1. AtMost(reads + 1, SniffRetries) \in 0..SniffRetries
      BY <1>0, <1>1 DEF AtMost
    <2>2. Now' = Now /\ Standing'
      BY <1>3 DEF Listen, line, Now, Standing
    <2> QED
      BY <1>0, <1>1, <1>3, <2>1, <2>2 DEF Listen, world, line
  <1>4. CASE /\ getcount > 1 /\ tty /\ retry_counter >= SniffRetries
             /\ ~(Last(baudindex) /\ TwoTried(dev.stopbits))
             /\ \E ok \in BOOLEAN : Retune(ok)
    <2> DEFINE round == IF Last(baudindex) THEN dev.stopbits + 1 ELSE dev.stopbits
               index == IF Last(baudindex) THEN 0 ELSE baudindex + 1
               asked == [Now EXCEPT !.dev.stopbits = round]
               set(ok) == SetSpeed(asked, ok, RateAt(index), dev.parity, round)
    <2>1. PICK ok \in BOOLEAN : Retune(ok)
      BY <1>4
    <2>2. round \in {1, 2} /\ round \in 0..3
      BY <1>1, <1>4 DEF TwoTried
    <2>3. index \in 0..LastIndex
      BY <1>0, <1>1 DEF Last
    <2>4. RateAt(index) \in Speeds
      BY <2>3, RatesAreSpeeds DEF RateAt, Speeds
    <2>5. asked \in Lines /\ asked.dev.stopbits = round /\ asked.dev.parity = dev.parity
      BY <1>1, <2>2 DEF Lines, Now
    <2>6. SetLine(set(ok)) /\ baudindex' = index
      BY <2>1 DEF Retune
    <2> HIDE DEF round, index, asked
    <2>7. /\ set(ok) \in Lines
          /\ \/ set(ok).dev = Recorded(RateAt(index), dev.parity, round)
             \/ ~ok /\ set(ok).dev = asked.dev
      BY <1>1, <2>2, <2>4, <2>5, SetSpeedType, SMTT(30)
    <2>8. Now' = set(ok) /\ dev' = set(ok).dev
      BY <2>6, <2>7, SetLineType DEF SetLine
    <2>9. dev'.parity = dev.parity /\ dev'.stopbits = round
      BY <2>5, <2>7, <2>8 DEF Recorded
    <2>10. Standing'
      BY <1>1, <2>2, <2>9 DEF Standing
    <2> QED
      BY <1>0, <1>1, <1>2, <2>1, <2>3, <2>6, <2>7, <2>8, <2>10 DEF Retune
  <1>5. CASE /\ getcount > 1
             /\ tty => retry_counter >= SniffRetries /\ Last(baudindex) /\ TwoTried(dev.stopbits)
             /\ GiveUp
    <2> DEFINE s == IF tty THEN [Now EXCEPT !.dev.stopbits = @ + 1] ELSE Now
    <2>1. s \in Lines
      BY <1>1 DEF Lines, Now
    <2>2. Close(s)
      BY <1>5 DEF GiveUp
    <2> HIDE DEF s
    <2>3. Now' \in Lines /\ ~open' /\ UNCHANGED <<receiver, plugged, tty, ttyset_old>>
      BY <2>1, <2>2, CloseType
    <2>4. Standing' /\ open' \in BOOLEAN
      BY <2>2, <2>3 DEF Standing, Close
    <2> QED
      BY <1>0, <1>1, <1>2, <1>5, <2>3, <2>4 DEF GiveUp
  <1> QED
    BY <1>3, <1>4, <1>5 DEF Hunt

LEMMA AtMostType == \A n \in Nat : AtMost(n, SniffRetries) \in 0..SniffRetries
  BY DeviceSessionAssumption DEF AtMost

LEMMA DriverType ==
    /\ NoDriver \notin Drivers /\ "tsip" \in Drivers /\ Triggered \subseteq Drivers
    /\ \A t \in Protocols : DriverFor[t] \in Drivers /\ t \in PacketTypes
    /\ "BAD" \in PacketTypes \ Protocols /\ "COMMENT" \in PacketTypes \ Protocols
  BY DEF NoDriver, Drivers, Triggered, Protocols, DriverFor, PacketTypes

LEMMA SavedType ==
    ASSUME TypeOK, NEW s \in Lines
    PROVE  AssertSync(s) \in Speeds
  BY DEF AssertSync, TypeOK, Lines, Settings

LEMMA OpenKeepsType ==
    ASSUME TypeOK, Standing, NEW found \in BOOLEAN, Open(found)
    PROVE  TypeOK' /\ Standing'
  <1> DEFINE s == OpenedLine(found)
  <1>1. s \in Lines /\ s.dev.parity \in Parities /\ s.dev.stopbits = 1
    BY Opening
  <1>2. SetLine(s)
    BY DEF Open, OpenedLine
  <1>3. /\ open' = TRUE /\ opens' = opens + 1 /\ opens < MaxOpens
        /\ ttyset_old' = IF tty THEN Found ELSE ttyset_old
        /\ baudindex' = IF tty THEN 0 ELSE baudindex
        /\ getcount' = 0 /\ retry_counter' = 0 /\ type' = "BAD"
        /\ device_type' = IF found THEN "tsip" ELSE device_type
        /\ saved_baud' = IF found THEN AssertSync(s) ELSE saved_baud
        /\ reads' = 0 /\ wait' = 0 /\ listened' = {}
        /\ heard' = IF found THEN heard \cup {s.port.rate} ELSE heard
        /\ course' = IF found THEN "synced" ELSE "hunting"
        /\ gaveUp' = FALSE
        /\ UNCHANGED <<receiver, plugged, tty, notify_clients, spoilt, configures, plugs>>
    BY DEF Open, OpenedLine, world
  <1> HIDE DEF s
  <1>4. Now' = s /\ dev' = s.dev
    BY <1>1, <1>2, SetLineType DEF SetLine
  <1>5. Standing'
    BY <1>1, <1>4 DEF Standing
  <1>6. AssertSync(s) \in Speeds /\ s.port.rate \in Speeds
    BY <1>1, SavedType DEF Lines, Settings
  <1>7. Found \in Settings
    BY DEF Found, Resumed, TypeOK, Now, Lines, Settings
  <1>8. opens' \in 0..MaxOpens
    BY <1>3, DeviceSessionAssumption DEF TypeOK
  <1>9. baudindex' \in 0..LastIndex /\ 0 \in 0..SniffRetries
    BY <1>3, RatesAreSpeeds, DeviceSessionAssumption DEF TypeOK
  <1>10. /\ type' \in PacketTypes /\ device_type' \in Drivers \cup {NoDriver}
         /\ saved_baud' \in Speeds \cup {None} /\ heard' \subseteq Speeds /\ ttyset_old' \in Settings
         /\ course' \in {"none", "hunting", "synced", "disturbed"}
    BY <1>3, <1>6, <1>7, DriverType DEF TypeOK
  <1>11. /\ receiver' \in ReceiverTypes /\ plugged' \in BOOLEAN /\ tty' \in BOOLEAN
         /\ notify_clients' \in BOOLEAN /\ spoilt' \in 0..MaxSpoilt
         /\ configures' \in 0..MaxConfigures /\ plugs' \in 0..MaxPlugs
    BY <1>3 DEF TypeOK
  <1>12. Now' \in Lines
    BY <1>1, <1>4
  <1>13. /\ open' \in BOOLEAN /\ gaveUp' \in BOOLEAN /\ listened' \subseteq Settings
    BY <1>3
  <1>14. /\ getcount' \in 0..2 /\ retry_counter' \in 0..SniffRetries
         /\ reads' \in 0..SniffRetries /\ wait' \in 0..SniffRetries
    BY <1>3, <1>9
  <1> QED
    BY <1>13, <1>14, <1>5, <1>8, <1>9, <1>10, <1>11, <1>12 DEF TypeOK

LEMMA RecogniseKeepsType ==
    ASSUME TypeOK, Standing, NEW t \in Protocols, NEW matched \in Triggered \cup {NoDriver},
           Recognise(t, matched)
    PROVE  TypeOK' /\ Standing'
  <1>1. Now' = Now /\ Standing' /\ UNCHANGED ttyset_old
    BY DEF Recognise, line, Now, Standing
  <1>2. device_type' \in Drivers
    BY DriverType DEF Recognise, SwitchDriver
  <1>3. saved_baud' \in Speeds \cup {None}
    BY SavedType DEF Recognise, SwitchDriver, TypeOK
  <1>4. reads' \in 0..SniffRetries /\ wait' \in 0..SniffRetries
    BY AtMostType, DeviceSessionAssumption DEF Recognise, TypeOK
  <1>5. heard' \subseteq Speeds
    BY DEF Recognise, TypeOK, Now, Lines, Settings
  <1>6. type' \in PacketTypes /\ notify_clients' \in BOOLEAN /\ course' \in {"none", "hunting", "synced", "disturbed"}
    BY DriverType DEF Recognise, TypeOK
  <1>7. UNCHANGED <<receiver, plugged, tty, baudindex, getcount, retry_counter, open, listened, gaveUp,
                    opens, spoilt, configures, plugs>>
    BY DEF Recognise, world, hunt, bounds
  <1> QED
    BY <1>1, <1>2, <1>3, <1>4, <1>5, <1>6, <1>7 DEF TypeOK

LEMMA ReadNoPacketKeepsType ==
    ASSUME TypeOK, Standing, ReadNoPacket
    PROVE  TypeOK' /\ Standing'
  <1>0. Waited \in Nat
    <2>1. wait \in Nat /\ wait + 1 \in Nat /\ 0 \in Nat
      BY DeviceSessionAssumption DEF TypeOK
    <2> QED
      BY <2>1 DEF Waited
  <1>1. AtMost(Waited, SniffRetries) \in 0..SniffRetries
    BY <1>0, AtMostType
  <1>2. UNCHANGED <<type, heard, course, opens, spoilt, configures, plugs>>
    BY DEF ReadNoPacket, bounds
  <1>3. CASE type \in {"COMMENT"} \cup Protocols
    <2>1. ~(type = "BAD")
      BY <1>3, DriverType
    <2>2. /\ UNCHANGED <<receiver, plugged, tty, port, ttyset, dev, open, ttyset_old, baudindex, getcount,
                        retry_counter, reads, listened, gaveUp>>
          /\ wait' = AtMost(Waited, SniffRetries)
      BY <2>1 DEF ReadNoPacket, world, line, hunt
    <2>3. Now' = Now /\ Standing'
      BY <2>2 DEF Now, Standing
    <2>4. /\ device_type' \in Drivers \cup {NoDriver} /\ notify_clients' \in BOOLEAN
          /\ saved_baud' \in Speeds \cup {None}
      BY <2>1, DriverType, SavedType DEF ReadNoPacket, SwitchDriver, TypeOK
    <2> QED
      BY <1>1, <1>2, <2>2, <2>3, <2>4 DEF TypeOK
  <1>4. CASE type = "BAD"
    <2>1. /\ Reading /\ Hunt(AtMost(Waited, SniffRetries))
          /\ UNCHANGED <<device_type, saved_baud, notify_clients>>
      BY <1>4, DriverType DEF ReadNoPacket
    <2> QED
      BY <1>1, <1>2, <2>1, HuntType DEF TypeOK
  <1> QED
    BY <1>3, <1>4 DEF TypeOK, PacketTypes

LEMMA ReadSpoiltKeepsType ==
    ASSUME TypeOK, Standing, ReadSpoilt
    PROVE  TypeOK' /\ Standing'
  <1>1. 0 \in 0..SniffRetries
    BY DeviceSessionAssumption
  <1>2. Reading /\ Hunt(0)
    BY DEF ReadSpoilt
  <1>3. /\ UNCHANGED <<device_type, saved_baud, heard, opens, configures, plugs>>
        /\ type' \in PacketTypes /\ notify_clients' \in BOOLEAN
        /\ course' \in {"none", "hunting", "synced", "disturbed"}
        /\ spoilt' = spoilt + 1 /\ spoilt < MaxSpoilt
    BY <1>1, <1>2, HuntType, DriverType DEF ReadSpoilt, TypeOK
  <1>4. spoilt' \in 0..MaxSpoilt
    BY <1>3, DeviceSessionAssumption DEF TypeOK
  <1> QED
    BY <1>1, <1>2, <1>3, <1>4, HuntType DEF TypeOK

LEMMA OthersKeepType ==
    ASSUME TypeOK, Standing, ReadComment \/ Release \/ Unplug \/ Plug \/ UNCHANGED vars
    PROVE  TypeOK' /\ Standing'
  <1>1. CASE ReadComment
    <2>1. /\ UNCHANGED <<receiver, plugged, tty, port, ttyset, dev, ttyset_old, baudindex, getcount, retry_counter,
                         device_type, saved_baud, open, reads, listened, heard, gaveUp, opens, configures, plugs>>
          /\ spoilt' = spoilt + 1 /\ spoilt < MaxSpoilt
          /\ type' = "COMMENT" /\ notify_clients' = FALSE /\ wait' = 0 /\ course' = "disturbed"
      BY <1>1 DEF ReadComment, world, line, hunt
    <2>2. Now' = Now /\ Standing'
      BY <2>1 DEF Now, Standing
    <2>3. spoilt' \in 0..MaxSpoilt /\ 0 \in 0..SniffRetries
      BY <2>1, DeviceSessionAssumption DEF TypeOK
    <2> QED
      BY <2>1, <2>2, <2>3, DriverType DEF TypeOK
  <1>2. CASE Release
    <2>1. Now' \in Lines /\ ~open' /\ UNCHANGED <<receiver, plugged, tty, ttyset_old>>
      BY <1>2, NowType, CloseType DEF Release
    <2>2. /\ open' = FALSE /\ gaveUp' = FALSE
          /\ UNCHANGED <<baudindex, getcount, retry_counter, type, device_type, notify_clients, saved_baud,
                         reads, wait, listened, heard, course, opens, spoilt, configures, plugs>>
      BY <1>2 DEF Release, Close, hunt, driver, bounds
    <2> QED
      BY <2>1, <2>2 DEF TypeOK, Standing
  <1>3. CASE Unplug
    <2>1. /\ UNCHANGED <<receiver, tty, port, ttyset, dev, ttyset_old, baudindex, getcount, retry_counter, type,
                         device_type, notify_clients, saved_baud, open, reads, wait, listened, heard, course, gaveUp,
                         opens, spoilt, configures>>
          /\ plugged' = FALSE /\ plugs' = plugs + 1 /\ plugs < MaxPlugs
      BY <1>3 DEF Unplug, line, hunt, driver, history
    <2>2. Now' = Now /\ Standing'
      BY <2>1 DEF Now, Standing
    <2>3. plugs' \in 0..MaxPlugs
      BY <2>1, DeviceSessionAssumption DEF TypeOK
    <2> QED
      BY <2>1, <2>2, <2>3 DEF TypeOK
  <1>4. CASE Plug
    <2>1. /\ UNCHANGED <<receiver, tty, ttyset, dev, ttyset_old, baudindex, getcount, retry_counter, type,
                         device_type, notify_clients, saved_baud, open, reads, wait, listened, heard, course, gaveUp,
                         opens, spoilt, configures, plugs>>
          /\ plugged' = TRUE /\ ~open
          /\ port' = [rate |-> ProbeRate, parity |-> "N", stopbits |-> 1]
      BY <1>4 DEF Plug, hunt, driver, history, bounds
    <2>2. port' \in Settings
      BY <2>1 DEF Settings, Speeds, Parities
    <2>3. Now' \in Lines
      BY <2>1, <2>2 DEF TypeOK, Now, Lines
    <2> QED
      BY <2>1, <2>3 DEF TypeOK, Standing
  <1>5. CASE UNCHANGED vars
    BY <1>5 DEF vars, world, line, hunt, driver, history, bounds, TypeOK, Now, Standing
  <1> QED
    BY <1>1, <1>2, <1>3, <1>4, <1>5

LEMMA ConfigureKeepsType ==
    ASSUME TypeOK, Standing, NEW speed \in Rates \cup OtherRates, Configure(speed)
    PROVE  TypeOK' /\ Standing'
  <1> DEFINE ok == plugged /\ tty
             s == SetSpeed(Now, ok, speed, dev.parity, 1)
  <1>1. Now \in Lines /\ dev.parity \in Parities /\ speed \in Speeds /\ ok \in BOOLEAN /\ 1 \in 0..3
    BY NowType DEF Configure, Standing, TypeOK, Speeds
  <1>2. SetLine(s) /\ dev.stopbits = 1
    BY DEF Configure
  <1>3. s \in Lines /\ (s.dev = Recorded(speed, dev.parity, 1) \/ s.dev = Now.dev)
    <2> HIDE DEF ok
    <2> QED
      BY <1>1, SetSpeedType
  <1> HIDE DEF s
  <1>4. Now' = s /\ dev' = s.dev
    BY <1>2, <1>3, SetLineType DEF SetLine
  <1>5. Standing'
    BY <1>1, <1>2, <1>3, <1>4, NowType DEF Standing, Recorded
  <1>6. receiver' \in ReceiverTypes
    <2>1. receiver \in ReceiverTypes
      BY DEF TypeOK
    <2>2. [receiver EXCEPT !.line.rate = speed] \in ReceiverTypes
      BY <1>1, <2>1 DEF ReceiverTypes, Settings
    <2> QED
      BY <2>1, <2>2 DEF Configure
  <1>7. /\ type' \in PacketTypes /\ reads' \in 0..SniffRetries /\ wait' \in 0..SniffRetries
        /\ course' = "disturbed" /\ configures' = configures + 1 /\ configures < MaxConfigures
        /\ UNCHANGED <<plugged, tty, ttyset_old, baudindex, getcount, retry_counter, device_type, notify_clients,
                       saved_baud, open, listened, heard, gaveUp, opens, spoilt, plugs>>
    <2>1. /\ (type' = "BAD" /\ reads' = 0 /\ wait' = 0) \/ UNCHANGED <<type, reads, wait>>
          /\ course' = "disturbed" /\ configures' = configures + 1 /\ configures < MaxConfigures
          /\ UNCHANGED <<plugged, tty, ttyset_old, hunt, device_type, notify_clients, saved_baud, open, listened,
                         heard, gaveUp, opens, spoilt, plugs>>
      <3> HIDE DEF ok
      <3> QED
        BY DEF Configure
    <2>2. "BAD" \in PacketTypes /\ 0 \in 0..SniffRetries
      BY DeviceSessionAssumption DEF PacketTypes
    <2>3. type \in PacketTypes /\ reads \in 0..SniffRetries /\ wait \in 0..SniffRetries
      BY DEF TypeOK
    <2> QED
      BY <2>1, <2>2, <2>3 DEF hunt
  <1>8. configures' \in 0..MaxConfigures
    BY <1>7, DeviceSessionAssumption DEF TypeOK
  <1> QED
    BY <1>3, <1>4, <1>5, <1>6, <1>7, <1>8 DEF TypeOK

LEMMA InitType == Init => TypeOK /\ Standing
  <1> SUFFICES ASSUME Init PROVE TypeOK /\ Standing
    OBVIOUS
  <1>1. Receivers \subseteq ReceiverTypes /\ 0 \in Speeds /\ "N" \in Parities /\ Rates \cup OtherRates \subseteq Speeds
    BY DeviceSessionAssumption DEF Speeds, Parities
  <1>2. port \in Settings /\ ttyset \in Settings /\ ttyset_old \in Settings
    BY <1>1 DEF Init, Settings
  <1>3. dev \in [baudrate : Speeds, parity : Parities \cup {"none"}, stopbits : 0..3]
    BY <1>1 DEF Init
  <1>4. Now \in Lines
    BY <1>2, <1>3 DEF Now, Lines
  <1>5. 0 \in 0..SniffRetries /\ 0 \in 0..LastIndex /\ 0 \in 0..MaxOpens /\ 0 \in 0..MaxSpoilt
        /\ 0 \in 0..MaxConfigures /\ 0 \in 0..MaxPlugs
    BY DeviceSessionAssumption, RatesAreSpeeds
  <1>6. /\ saved_baud \in Speeds \cup {None} /\ getcount \in 0..2
        /\ type \in PacketTypes /\ device_type \in Drivers \cup {NoDriver}
        /\ course \in {"none", "hunting", "synced", "disturbed"}
    <2>1. saved_baud = None /\ getcount = 0 /\ type = "BAD" /\ device_type = NoDriver /\ course = "none"
      BY DEF Init
    <2>2. 0 \in 0..2
      OBVIOUS
    <2> QED
      BY <2>1, <2>2, DriverType
  <1>7. /\ baudindex = 0 /\ retry_counter = 0 /\ reads = 0 /\ wait = 0
        /\ opens = 0 /\ spoilt = 0 /\ configures = 0 /\ plugs = 0 /\ receiver \in ReceiverTypes
    BY <1>1 DEF Init
  <1>8. /\ open \in BOOLEAN /\ gaveUp \in BOOLEAN /\ plugged \in BOOLEAN /\ tty \in BOOLEAN /\ ~open
        /\ notify_clients \in BOOLEAN
        /\ listened \subseteq Settings /\ heard \subseteq Speeds
    BY DEF Init
  <1>9. /\ baudindex \in 0..LastIndex /\ retry_counter \in 0..SniffRetries
        /\ reads \in 0..SniffRetries /\ wait \in 0..SniffRetries
        /\ opens \in 0..MaxOpens /\ spoilt \in 0..MaxSpoilt
        /\ configures \in 0..MaxConfigures /\ plugs \in 0..MaxPlugs
    BY <1>5, <1>7
  <1> QED
    BY <1>2, <1>4, <1>6, <1>7, <1>8, <1>9 DEF TypeOK, Standing

LEMMA NextType == TypeOK /\ Standing /\ [Next]_vars => TypeOK' /\ Standing'
  <1> SUFFICES ASSUME TypeOK, Standing, [Next]_vars PROVE TypeOK' /\ Standing'
    OBVIOUS
  <1>1. ASSUME NEW found \in BOOLEAN, Open(found) PROVE TypeOK' /\ Standing'
    BY <1>1, OpenKeepsType
  <1>2. CASE Read
    BY <1>2, RecogniseKeepsType, ReadNoPacketKeepsType, ReadSpoiltKeepsType, OthersKeepType DEF Read
  <1>3. ASSUME NEW speed \in Rates \cup OtherRates, Configure(speed) PROVE TypeOK' /\ Standing'
    BY <1>3, ConfigureKeepsType
  <1>4. CASE Release \/ Unplug \/ Plug \/ UNCHANGED vars
    BY <1>4, OthersKeepType
  <1> QED
    BY <1>1, <1>2, <1>3, <1>4 DEF Next

\* Every variable keeps its type, for any speeds, receivers and bounds.
THEOREM TypeCorrect == Spec => []TypeOK
  <1>1. Spec => [](TypeOK /\ Standing)
    BY InitType, NextType, PTL DEF Spec
  <1> QED
    BY <1>1, PTL

-----------------------------------------------------------------------------
(* The settings of the line *)

\* A step of the hunt: the session still knows the line, and the hunt ends with
\* the closing.
LEMMA HuntKeepsLine ==
    ASSUME TypeOK, Standing, LineInv, Reading, gaveUp => ~open, NEW waited, Hunt(waited)
    PROVE  LineInv' /\ (gaveUp' => ~open')
  <1>1. Now \in Lines /\ Now.ttyset = ttyset /\ Now.port = port /\ dev.stopbits \in {1, 2} /\ ~gaveUp
    BY NowType DEF Standing, Reading
  <1>2. CASE Listen(waited)
    BY <1>1, <1>2 DEF Listen, line, world, LineInv
  <1>3. ASSUME tty, ~TwoTried(dev.stopbits) \/ ~Last(baudindex), NEW ok \in BOOLEAN, Retune(ok)
        PROVE  LineInv' /\ ~gaveUp'
    <2> DEFINE round == IF Last(baudindex) THEN dev.stopbits + 1 ELSE dev.stopbits
               index == IF Last(baudindex) THEN 0 ELSE baudindex + 1
               asked == [Now EXCEPT !.dev.stopbits = round]
               set == SetSpeed(asked, ok, RateAt(index), dev.parity, round)
    <2>1. SetLine(set) /\ plugged' = ok /\ gaveUp' = gaveUp /\ tty' = tty
      BY <1>3 DEF Retune
    <2>2. CASE ~ok
      BY <1>1, <2>1, <2>2 DEF LineInv
    <2>3. CASE ok
      <3>1. round \in 0..3
        BY <1>1
      <3>2. asked \in Lines /\ asked.ttyset = ttyset /\ asked.port = port
        BY <1>1, <3>1 DEF Lines, Now
      <3>3. asked.ttyset = asked.port
        BY <3>2, <1>3 DEF LineInv, Reading
      <3> DEFINE rate == RateAt(index)
                 parity == dev.parity
      <3>4. set = SetSpeed(asked, TRUE, rate, parity, round)
        BY <2>3
      <3>5. port' = set.port /\ ttyset' = set.ttyset
        BY <2>1 DEF SetLine
      <3> HIDE DEF asked, round, rate, parity
      <3>6. SetSpeed(asked, TRUE, rate, parity, round).ttyset = SetSpeed(asked, TRUE, rate, parity, round).port
        BY ONLY <3>2, <3>3, SetSpeedAgrees
      <3>7. set.ttyset = set.port
        BY <3>4, <3>6
      <3> HIDE DEF set
      <3> QED
        BY <1>1, <2>1, <3>5, <3>7 DEF LineInv
    <2> QED
      BY <2>2, <2>3
  <1>4. CASE GiveUp
    BY <1>4 DEF GiveUp, Close, LineInv
  <1> QED
    BY <1>1, <1>2, <1>3, <1>4 DEF Hunt

\* A hunt on a line that is as it should be leaves it so, or has been everywhere.
LEMMA HuntTunes ==
    ASSUME TypeOK, Standing, LineInv, Reading, tty, Tuned, ~gaveUp, NEW waited, Hunt(waited)
    PROVE  /\ open' /\ plugged' => Tuned'
           /\ gaveUp' => Complete'
  <1>0. /\ LastIndex \in Nat \ {0} /\ SniffRetries \in Nat
        /\ \A i \in 1..LastIndex : HuntRates[i] \in Nat \ {0}
    BY RatesAreSpeeds, DeviceSessionAssumption
  <1>1. /\ Now \in Lines /\ Now.ttyset = ttyset /\ Now.port = port /\ Now.dev = dev
        /\ dev.stopbits \in {1, 2} /\ port \in Settings /\ ttyset = port
        /\ baudindex \in 0..LastIndex /\ retry_counter \in 0..SniffRetries
        /\ reads \in 0..SniffRetries /\ open = TRUE
    BY NowType DEF Standing, Reading, LineInv, TypeOK
  <1>2. CASE (getcount > 1 => tty /\ retry_counter < SniffRetries) /\ Listen(waited)
    <2>1. UNCHANGED <<port, dev, baudindex, listened, gaveUp>>
      BY <1>2 DEF Listen, line
    <2>2. /\ reads' = AtMost(reads + 1, SniffRetries)
          /\ retry_counter' = retry_counter \/ (retry_counter' = retry_counter + 1 /\ retry_counter < SniffRetries)
      BY <1>2 DEF Listen
    <2>3. reads' >= retry_counter'
      BY <1>0, <1>1, <2>2 DEF AtMost, Tuned
    <2> QED
      BY <2>1, <2>3 DEF Tuned, Setting
  <1>3. ASSUME retry_counter >= SniffRetries
        PROVE  /\ Listened = listened \cup {port}
               /\ \A i \in 1..baudindex : Setting(i, dev.stopbits) \in Listened
    <2>1. Listened = listened \cup {port}
      BY <1>0, <1>1, <1>3 DEF Listened, Tuned
    <2> QED
      BY <1>1, <2>1 DEF Tuned
  <1>4. ASSUME retry_counter >= SniffRetries, ~(Last(baudindex) /\ TwoTried(dev.stopbits)), Retune(TRUE)
        PROVE  Tuned' /\ ~gaveUp'
    <2> DEFINE round == IF Last(baudindex) THEN dev.stopbits + 1 ELSE dev.stopbits
               index == IF Last(baudindex) THEN 0 ELSE baudindex + 1
               asked == [Now EXCEPT !.dev.stopbits = round]
               set == SetSpeed(asked, TRUE, RateAt(index), "N", round)
    <2>1. /\ port' = set.port /\ dev' = set.dev /\ gaveUp' = gaveUp /\ retry_counter' = 0 /\ reads' = 0
          /\ baudindex' = index /\ listened' = Listened
      BY <1>4 DEF Retune, Tuned, SetLine
    <2> HIDE DEF set
    <2>2. round \in 0..3
      BY <1>1
    <2>3. /\ asked \in Lines /\ asked.ttyset = port /\ asked.port = port
          /\ asked.dev.stopbits = round /\ asked.dev.parity = "N"
      BY <1>1, <2>2 DEF Lines, Now, Tuned
    <2>4. CASE Last(baudindex)
      <3>1. baudindex = LastIndex /\ baudindex > 0 /\ dev.stopbits = 1
        BY <1>0, <1>1, <1>4, <2>4 DEF Last, TwoTried
      <3>2. index = 0 /\ round = 2
        BY <2>4, <3>1
      <3>3. port = Setting(LastIndex, 1) /\ port.rate # 0
        BY <1>0, <3>1 DEF Tuned, Setting
      <3> HIDE DEF asked
      <3>4. ~Unchanged(asked, 0, "N", 2)
        BY <2>3, <3>3 DEF Unchanged
      <3>5. set = [port |-> Setting(LastIndex, 2), ttyset |-> Setting(LastIndex, 2), dev |-> Recorded(0, "N", 2)]
        BY <2>3, <3>2, <3>3, <3>4 DEF set, SetSpeed, Wanted, RateAt, Setting
      <3>6. port' = Setting(LastIndex, 2) /\ dev' = Recorded(0, "N", 2)
        BY <2>1, <3>5
      <3>7. \A i \in 1..LastIndex : Setting(i, 1) \in listened'
        BY <1>3, <1>4, <2>1, <3>1
      <3>8. baudindex' = 0 /\ dev'.stopbits = 2 /\ dev'.parity = "N"
        BY <2>1, <3>2, <3>6 DEF Recorded
      <3>9. port' = [rate |-> port'.rate, parity |-> "N", stopbits |-> 2]
        BY <3>6 DEF Setting
      <3>10. \A i \in 1..(baudindex' - 1) : Setting(i, dev'.stopbits) \in listened'
        BY <3>8
      <3>11. Tuned'
        BY <2>1, <3>7, <3>8, <3>9, <3>10 DEF Tuned, Setting
      <3> QED
        BY <2>1, <3>11
    <2>5. CASE ~Last(baudindex)
      <3>1. index = baudindex + 1 /\ index \in 1..LastIndex /\ round = dev.stopbits
        BY <1>0, <1>1, <2>5 DEF Last
      <3>2. RateAt(index) = HuntRates[index] /\ HuntRates[index] # 0
        BY <1>0, <3>1 DEF RateAt
      <3> HIDE DEF asked
      <3>3. set.port = Setting(index, round) /\ set.dev = Recorded(HuntRates[index], "N", round)
        <4>1. CASE Unchanged(asked, HuntRates[index], "N", round)
          <5>1. port.rate = HuntRates[index]
            BY <2>3, <4>1 DEF Unchanged
          <5>2. port = Setting(index, round)
            BY <3>1, <5>1 DEF Tuned, Setting
          <5> QED
            BY <2>3, <3>2, <4>1, <5>2 DEF set, SetSpeed, Lines
        <4>2. CASE ~Unchanged(asked, HuntRates[index], "N", round)
          <5>1. set.port = Wanted(HuntRates[index], "N", round, asked.ttyset.rate)
                /\ set.dev = Recorded(HuntRates[index], "N", round)
            BY <3>2, <4>2 DEF set, SetSpeed
          <5>2. (IF round = 2 THEN 2 ELSE 1) = round
            BY <1>1, <3>1
          <5> QED
            BY <3>2, <5>1, <5>2 DEF Wanted, Setting
        <4> QED
          BY <4>1, <4>2
      <3>4. port' = Setting(index, dev.stopbits) /\ dev'.stopbits = dev.stopbits /\ dev'.parity = "N"
        BY <2>1, <3>1, <3>3 DEF Recorded
      <3>5. \A i \in 1..(index - 1) : Setting(i, dev.stopbits) \in listened'
        BY <1>1, <1>3, <1>4, <2>1, <3>1
      <3>6. dev.stopbits = 2 => \A i \in 1..LastIndex : Setting(i, 1) \in listened'
        BY <1>3, <1>4, <2>1 DEF Tuned
      <3>7. port' = [rate |-> port'.rate, parity |-> "N", stopbits |-> dev'.stopbits]
        BY <3>4 DEF Setting
      <3>8. baudindex' = index
        BY <2>1
      <3> HIDE DEF index
      <3>9. Tuned'
        BY <2>1, <3>4, <3>5, <3>6, <3>7, <3>8 DEF Tuned, Setting
      <3> QED
        BY <2>1, <3>9
    <2> QED
      BY <2>4, <2>5
  <1>5. ASSUME Retune(FALSE) PROVE ~plugged' /\ ~gaveUp'
    BY <1>5 DEF Retune
  <1>6. CASE retry_counter >= SniffRetries /\ Last(baudindex) /\ TwoTried(dev.stopbits) /\ GiveUp
    <2>1. listened' = Listened /\ ~open'
      BY <1>6 DEF GiveUp, Close
    <2>2. baudindex = LastIndex /\ dev.stopbits = 2
      BY <1>0, <1>1, <1>6 DEF Last, TwoTried
    <2>3. \A i \in 1..LastIndex : Setting(i, 1) \in listened' /\ Setting(i, 2) \in listened'
      BY <1>3, <1>6, <2>1, <2>2 DEF Tuned
    <2>4. ASSUME NEW x \in [rate : Rates, parity : {"N"}, stopbits : {1, 2}] PROVE x \in listened'
      <3>1. PICK i \in 1..LastIndex : x.rate = HuntRates[i]
        BY DeviceSessionAssumption DEF Rates, LastIndex
      <3>2. x = Setting(i, 1) \/ x = Setting(i, 2)
        BY <3>1 DEF Setting
      <3> QED
        BY <2>3, <3>2
    <2> QED
      BY <2>1, <2>4 DEF Complete
  <1> QED
    BY <1>2, <1>4, <1>5, <1>6 DEF Hunt

-----------------------------------------------------------------------------
(* The saved speed, and the whole hunt *)

Proven == LineInv /\ SavedInv /\ HuntInv

\* A speed that is saved is a speed.
LEMMA SavedIsSpeed ==
    ASSUME TypeOK, NEW s \in Lines
    PROVE  /\ AssertSync(s) # None
           /\ saved_baud # None => AssertSync(s) = saved_baud
           /\ saved_baud = None => AssertSync(s) = s.ttyset.rate
  BY RatesAreSpeeds DEF AssertSync, TypeOK, Lines, Settings, None

LEMMA OpenKeeps ==
    ASSUME TypeOK, Standing, Proven, NEW found \in BOOLEAN, Open(found)
    PROVE  Proven'
  <1> DEFINE s == OpenedLine(found)
  <1>1. /\ s \in Lines /\ s.dev.stopbits = 1
        /\ tty => s.ttyset = s.port
        /\ tty /\ ~found => s.dev.parity = "N" /\ s.port.parity = "N" /\ s.port.stopbits = 1
    BY Opening
  <1>2. port' = s.port /\ ttyset' = s.ttyset /\ dev' = s.dev
    BY DEF Open, OpenedLine, SetLine
  <1>3. /\ open' = TRUE
        /\ tty => baudindex' = 0
        /\ retry_counter' = 0 /\ type' = "BAD"
        /\ device_type' = IF found THEN "tsip" ELSE device_type
        /\ saved_baud' = IF found THEN AssertSync(s) ELSE saved_baud
        /\ reads' = 0 /\ listened' = {}
        /\ heard' = IF found THEN heard \cup {s.port.rate} ELSE heard
        /\ course' = IF found THEN "synced" ELSE "hunting"
        /\ gaveUp' = FALSE /\ tty' = tty
    BY DEF Open, OpenedLine, world
  <1> HIDE DEF s
  <1>4. LineInv'
    BY <1>1, <1>2, <1>3 DEF LineInv
  <1>5. SavedInv'
    BY <1>1, <1>3, SavedIsSpeed, DriverType DEF Proven, SavedInv, SavedSpeedWasHeard
  <1>6. ASSUME tty, ~found PROVE Tuned'
    <2>1. s.port = [rate |-> s.port.rate, parity |-> "N", stopbits |-> 1]
      BY <1>1, <1>6 DEF Lines, Settings
    <2>2. /\ port' = [rate |-> port'.rate, parity |-> "N", stopbits |-> dev'.stopbits]
          /\ dev'.parity = "N" /\ dev'.stopbits = 1
      BY <1>1, <1>2, <1>6, <2>1
    <2> QED
      BY <1>3, <1>6, <2>2 DEF Tuned
  <1>7. HuntInv'
    BY <1>3, <1>6 DEF HuntInv, HuntIsComplete
  <1> QED
    BY <1>4, <1>5, <1>7 DEF Proven

LEMMA RecogniseKeeps ==
    ASSUME TypeOK, Standing, Proven, NEW t \in Protocols, NEW matched \in Triggered \cup {NoDriver},
           Recognise(t, matched)
    PROVE  Proven'
  <1>1. /\ UNCHANGED <<receiver, plugged, tty, port, ttyset, dev, open, listened, gaveUp>>
        /\ open /\ plugged /\ heard' = heard \cup {port.rate}
        /\ course' # "hunting" /\ type' = t
    BY DEF Recognise, Reading, world, line
  <1>2. Now \in Lines /\ Now.ttyset = ttyset
    BY NowType
  <1>3. device_type' # NoDriver
    BY DriverType DEF Recognise, SwitchDriver
  <1>4. saved_baud' = AssertSync(Now) \/ (saved_baud' = saved_baud /\ device_type # NoDriver)
    BY <1>3 DEF Recognise, SwitchDriver
  <1>5. SavedInv'
    BY <1>1, <1>2, <1>3, <1>4, SavedIsSpeed DEF Proven, SavedInv, SavedSpeedWasHeard, LineInv
  <1> QED
    BY <1>1, <1>5 DEF Proven, LineInv, HuntInv, HuntIsComplete

\* A step of the hunt, in a read that recognises no packet.
LEMMA HuntKeeps ==
    ASSUME TypeOK, Standing, Proven, Reading, NEW waited, Hunt(waited), tty' = tty,
           course' # "hunting" \/ course' = course,
           UNCHANGED <<device_type, saved_baud, heard>>, type' \notin Protocols
    PROVE  Proven'
  <1>1. LineInv /\ (gaveUp => ~open) /\ open /\ plugged
    BY DEF Proven, HuntInv, Reading
  <1>2. LineInv' /\ (gaveUp' => ~open')
    BY <1>1, HuntKeepsLine
  <1>3. SavedInv'
    BY DEF Proven, SavedInv, SavedSpeedWasHeard
  <1>4. ASSUME tty, course = "hunting" PROVE (open' /\ plugged' => Tuned') /\ (gaveUp' => Complete')
    <2>1. Tuned /\ ~gaveUp
      BY <1>1, <1>4 DEF Proven, HuntInv
    <2> QED
      BY <1>1, <1>4, <2>1, HuntTunes
  <1>5. HuntInv'
    BY <1>2, <1>4 DEF HuntInv, HuntIsComplete, Complete
  <1> QED
    BY <1>2, <1>3, <1>5 DEF Proven

LEMMA ReadNoPacketKeeps ==
    ASSUME TypeOK, Standing, Proven, ReadNoPacket
    PROVE  Proven'
  <1>1. UNCHANGED <<type, heard, course>> /\ Reading
    BY DEF ReadNoPacket
  <1>2. CASE type = "BAD"
    <2> DEFINE waited == AtMost(Waited, SniffRetries)
    <2>1. Hunt(waited) /\ UNCHANGED <<device_type, saved_baud>>
      BY <1>2, DriverType DEF ReadNoPacket
    <2>2. waited \in 0..SniffRetries
      <3>1. wait \in Nat /\ wait + 1 \in Nat /\ 0 \in Nat
        BY DeviceSessionAssumption DEF TypeOK
      <3>2. Waited \in Nat
        BY <3>1 DEF Waited
      <3> QED
        BY <3>2, AtMostType
    <2> HIDE DEF waited
    <2>3. tty' = tty
      BY <1>1, <2>1, <2>2, HuntType
    <2>4. type' \notin Protocols
      BY <1>1, <1>2, DriverType
    <2> QED
      BY <1>1, <2>1, <2>3, <2>4, HuntKeeps
  <1>3. CASE type # "BAD"
    <2>1. UNCHANGED <<plugged, tty, port, ttyset, dev, open, baudindex, retry_counter, reads, listened, gaveUp>>
      BY <1>3 DEF ReadNoPacket, world, line, hunt
    <2>2. LineInv' /\ HuntInv'
      BY <1>1, <2>1 DEF Proven, LineInv, HuntInv, Tuned, Setting, HuntIsComplete
    <2>3. Now \in Lines
      BY NowType
    <2>4. CASE type \in Protocols
      <3>1. SwitchDriver(DriverFor[type]) /\ DriverFor[type] # NoDriver
        BY <1>3, <2>4, DriverType DEF ReadNoPacket
      <3>2. saved_baud # None
        BY <2>4 DEF Proven, SavedInv
      <3>3. saved_baud' = saved_baud
        BY <2>3, <3>1, <3>2, SavedIsSpeed DEF SwitchDriver
      <3>4. device_type' # NoDriver
        BY <3>1 DEF SwitchDriver
      <3> QED
        BY <1>1, <2>1, <2>2, <3>2, <3>3, <3>4 DEF Proven, SavedInv, SavedSpeedWasHeard
    <2>5. CASE type \notin Protocols
      <3>1. UNCHANGED <<device_type, saved_baud>>
        BY <1>3, <2>5 DEF ReadNoPacket
      <3> QED
        BY <1>1, <2>1, <2>2, <3>1 DEF Proven, SavedInv, SavedSpeedWasHeard
    <2> QED
      BY <2>4, <2>5
  <1> QED
    BY <1>2, <1>3

LEMMA ReadSpoiltKeeps ==
    ASSUME TypeOK, Standing, Proven, ReadSpoilt
    PROVE  Proven'
  <1>1. Reading /\ Hunt(0) /\ 0 \in 0..SniffRetries
    BY DeviceSessionAssumption DEF ReadSpoilt
  <1>2. tty' = tty
    BY <1>1, HuntType
  <1>3. /\ course' # "hunting" \/ course' = course
        /\ UNCHANGED <<device_type, saved_baud, heard>> /\ type' \notin Protocols
    BY DriverType DEF ReadSpoilt
  <1> QED
    BY <1>1, <1>2, <1>3, HuntKeeps

LEMMA OthersKeep ==
    ASSUME TypeOK, Standing, Proven, ReadComment \/ Release \/ Unplug \/ Plug \/ UNCHANGED vars
    PROVE  Proven'
  <1>1. CASE ReadComment
    <2>1. /\ UNCHANGED <<plugged, tty, port, ttyset, open, device_type, saved_baud, heard, gaveUp, listened>>
          /\ open /\ type' \notin Protocols /\ course' # "hunting"
      BY <1>1, DriverType DEF ReadComment, Reading, world, line
    <2> QED
      BY <2>1 DEF Proven, LineInv, SavedInv, SavedSpeedWasHeard, HuntInv, HuntIsComplete
  <1>2. CASE Release
    <2>1. /\ UNCHANGED <<tty, type, device_type, saved_baud, heard>>
          /\ open' = FALSE /\ gaveUp' = FALSE
      BY <1>2 DEF Release, Close, world, driver
    <2> QED
      BY <2>1 DEF Proven, LineInv, SavedInv, SavedSpeedWasHeard, HuntInv, HuntIsComplete
  <1>3. CASE Unplug
    <2>1. /\ UNCHANGED <<tty, open, type, device_type, saved_baud, heard, listened, course, gaveUp>>
          /\ plugged' = FALSE
      BY <1>3 DEF Unplug, driver, history
    <2> QED
      BY <2>1 DEF Proven, LineInv, SavedInv, SavedSpeedWasHeard, HuntInv, HuntIsComplete
  <1>4. CASE Plug
    <2>1. /\ UNCHANGED <<tty, open, type, device_type, saved_baud, heard, listened, course, gaveUp>>
          /\ ~open
      BY <1>4 DEF Plug, driver, history
    <2> QED
      BY <2>1 DEF Proven, LineInv, SavedInv, SavedSpeedWasHeard, HuntInv, HuntIsComplete
  <1>5. CASE UNCHANGED vars
    BY <1>5 DEF vars, world, line, hunt, driver, history, Proven, LineInv, SavedInv, SavedSpeedWasHeard,
                HuntInv, HuntIsComplete, Tuned, Setting
  <1> QED
    BY <1>1, <1>2, <1>3, <1>4, <1>5

LEMMA ConfigureKeeps ==
    ASSUME TypeOK, Standing, Proven, NEW speed \in Rates \cup OtherRates, Configure(speed)
    PROVE  Proven'
  <1>1. /\ UNCHANGED <<plugged, tty, device_type, saved_baud, open, heard, listened, gaveUp>>
        /\ open /\ course' = "disturbed" /\ (type' = type \/ type' \notin Protocols)
    BY DriverType DEF Configure
  <1>2. ASSUME tty, plugged PROVE ttyset' = port'
    <2> DEFINE parity == dev.parity
               stopbits == 1
               s == Now
               set == SetSpeed(s, TRUE, speed, parity, stopbits)
    <2>1. port' = set.port /\ ttyset' = set.ttyset
      BY <1>2 DEF Configure, SetLine
    <2>2. s.ttyset = s.port
      BY <1>1, <1>2, NowType DEF Proven, LineInv
    <2>0. s \in Lines
      BY NowType
    <2> HIDE DEF parity, stopbits, s
    <2>3. SetSpeed(s, TRUE, speed, parity, stopbits).ttyset = SetSpeed(s, TRUE, speed, parity, stopbits).port
      BY ONLY <2>0, <2>2, SetSpeedAgrees
    <2>4. set.ttyset = set.port
      BY <2>3
    <2> HIDE DEF set
    <2> QED
      BY <2>1, <2>4
  <1> QED
    BY <1>1, <1>2 DEF Proven, LineInv, SavedInv, SavedSpeedWasHeard, HuntInv, HuntIsComplete

LEMMA NextKeeps == TypeOK /\ Standing /\ Proven /\ [Next]_vars => Proven'
  <1> SUFFICES ASSUME TypeOK, Standing, Proven, [Next]_vars PROVE Proven'
    OBVIOUS
  <1>1. ASSUME NEW found \in BOOLEAN, Open(found) PROVE Proven'
    BY <1>1, OpenKeeps
  <1>2. CASE Read
    BY <1>2, RecogniseKeeps, ReadNoPacketKeeps, ReadSpoiltKeeps, OthersKeep DEF Read
  <1>3. ASSUME NEW speed \in Rates \cup OtherRates, Configure(speed) PROVE Proven'
    BY <1>3, ConfigureKeeps
  <1>4. CASE Release \/ Unplug \/ Plug \/ UNCHANGED vars
    BY <1>4, OthersKeep
  <1> QED
    BY <1>1, <1>2, <1>3, <1>4 DEF Next

LEMMA InitProven == Init => Proven
  BY DriverType DEF Init, Proven, LineInv, SavedInv, SavedSpeedWasHeard, HuntInv, HuntIsComplete

LEMMA Inductive == Spec => []IInv
  <1>1. Init => IInv
    BY InitType, InitProven DEF IInv, Proven
  <1>2. IInv /\ [Next]_vars => IInv'
    BY NextType, NextKeeps DEF IInv, Proven
  <1> QED
    BY <1>1, <1>2, PTL DEF Spec

\* The speed that later openings begin with is one at which a packet has come:
\* while a device is there and open, ttyset is what the kernel has, so that
\* gpsd_assert_sync() saves the speed of the line and not the speed asked for.
THEOREM SavedSpeed == Spec => []SavedSpeedWasHeard
  <1>1. IInv => SavedSpeedWasHeard
    BY DEF IInv, SavedInv
  <1> QED
    BY <1>1, Inductive, PTL

\* An undisturbed hunt that gives up has listened to every speed with one and
\* with two stop bits, for any list of speeds and any number of reads.
THEOREM HuntComplete == Spec => []HuntIsComplete
  <1>1. IInv => HuntIsComplete
    BY DEF IInv, HuntInv
  <1> QED
    BY <1>1, Inductive, PTL

=============================================================================
