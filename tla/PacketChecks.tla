---------------------------- MODULE PacketChecks ----------------------------
(***************************************************************************)
(* What packet_parse() of packet.c decides about the bytes of a packet that *)
(* the state machine has come to the end of: the checksum of each protocol, *)
(* the lengths TSIP messages are known to have, and which type of packet it *)
(* accepts.  Positions count from 1, where the code counts from 0.          *)
(***************************************************************************)
EXTENDS PacketStates, FiniteSetsExt

SumOf(packet, positions) == MapThenSumSet(LAMBDA i : packet[i], positions)

StartsWith(packet, letters) ==
    /\ Len(letters) <= Len(packet)
    /\ SubSeq(packet, 1, Len(letters)) = Text(letters)

-----------------------------------------------------------------------------
(* Text *)

HexDigits == Digit \cup 65..70 \cup {NUL}
HexDigit(n) == IF n < 10 THEN 48 + n ELSE 55 + n

\* The last position, looking back from the end, that is no white space and then
\* no digit; a sentence whose checksum is in lower case has no star there.
Star(packet) ==
    LET text == Max({i \in DOMAIN packet : packet[i] \notin Space})
    IN  Max({i \in 1..text : packet[i] \notin HexDigits})

NmeaOk(packet) ==
    LET star == Star(packet)
        sum == XorOf(packet, 2..(star - 1))
    IN  packet[star] = Chr("*") =>
            /\ packet[star + 1] = HexDigit(sum \div 16)
            /\ packet[star + 2] = HexDigit(sum % 16)

AisLeaders == {<<"!", "A", "I", "V", "D", "M">>, <<"!", "A", "I", "V", "D", "O">>,
               <<"!", "B", "S", "V", "D", "M">>, <<"!", "B", "S", "V", "D", "O">>}

NmeaType(packet) ==
    IF ~StartsWith(packet, <<"$", "P", "A", "S", "H", "R", ",">>) /\ ~NmeaOk(packet) THEN "BAD"
    ELSE IF \E leader \in AisLeaders : StartsWith(packet, leader) THEN "AIVDM" ELSE "NMEA"

-----------------------------------------------------------------------------
(* Checksums of the binary protocols *)

SirfOk(packet) ==
    LET last == Len(packet)
    IN  256 * packet[last - 3] + packet[last - 2] = SumOf(packet, 5..(last - 4)) % 32768

Superstar2Ok(packet) ==
    LET last == packet[4] + 6
    IN  SumOf(packet, 1..(last - 2)) = packet[last - 1] + 256 * packet[last]

OncoreOk(packet) == packet[Len(packet) - 2] = XorOf(packet, 3..(Len(packet) - 3))

\* The sum of the words of the payload, and of the checksum after them.
ZodiacOk(packet) ==
    LET len == Word(packet, 2)
    IN  len = 0 \/ MapThenSumSet(LAMBDA i : Word(packet, i), 5..(5 + len)) % 65536 = 0

\* The Fletcher sums of class, ID, length and payload.
UbxOk(packet) ==
    LET last == Len(packet)
        Weighted == MapThenSumSet(LAMBDA i : (last - 1 - i) * packet[i], 3..(last - 2))
    IN  packet[last - 1] = SumOf(packet, 3..(last - 2)) % 256 /\ packet[last] = Weighted % 256

\* Four columns of bytes that each cancel out.
GeostarOk(packet) ==
    \A column \in 1..4 : XorOf(packet, {i \in DOMAIN packet : i % 4 = column % 4}) = 0

\* The exclusive or of two 16-bit words.
Xor16(a, b) ==
    XorOf(<<a % 256, b % 256>>, 1..2) + 256 * XorOf(<<a \div 256, b \div 256>>, 1..2)

\* csum ^= the two halves of (csum + 1) * (word + n), which has 32 bits.
ItalkOk(packet) ==
    LET len == packet[7]
        Payload(n) == packet[2 * n + 8] + 256 * packet[2 * n + 9]
        Low(a, b) == (a % 256) * b + 256 * (((a \div 256) * b) % 256)
        High(a, b) == Low(a, b) \div 65536 + ((a \div 256) * b) \div 256
        csum[n \in 0..len] ==
            IF n = 0 THEN 0
            ELSE LET before == csum[n - 1]
                     a == before + 1
                     b == Payload(n - 1) + n - 1
                 IN  Xor16(before, Xor16(Low(a, b) % 65536, High(a, b) % 65536))
    IN  len = 0 \/ csum[len] = Payload(len)

\* A packet taken early: the check reads on past its end.
ItalkRunt(packet) == packet[7] # 0 /\ Len(packet) < 2 * packet[7] + 9

\* crc24q_check(): the remainder of the packet, checksum included, is 0.
Rtcm3Ok(packet) ==
    LET Poly == 8801531    \* 0x864CFB
        Xor24(a, b) == Xor16(a % 65536, b % 65536)
                           + 65536 * XorOf(<<a \div 65536, b \div 65536>>, 1..2)
        BitOf(n) == (packet[(n + 7) \div 8] \div 2^((8 - (n % 8)) % 8)) % 2
        Reduced(v) == IF v < 16777216 THEN v ELSE Xor24(v - 16777216, Poly)
        rest[n \in 0..(8 * Len(packet))] ==
            IF n = 0 THEN 0 ELSE CHOOSE r \in {Reduced(v) : v \in {2 * rest[n - 1] + BitOf(n)}} : TRUE
    IN  rest[8 * Len(packet)] = 0

-----------------------------------------------------------------------------
(* The protocols that double a DLE *)

\* The payload without its leader and trailer, each pair of DLEs as one.  Where
\* an odd DLE of a run stands, one is kept.
Unstuffed(packet) ==
    LET run[i \in 2..Len(packet)] ==
            IF i = 2 \/ packet[i] # DLE THEN 0 ELSE run[i - 1] + 1
    IN  LET kept == {i \in 3..(Len(packet) - 2) : packet[i] # DLE \/ run[i] % 2 = 1}
        IN  [n \in 1..Cardinality(kept) |->
                packet[CHOOSE i \in kept : Cardinality({j \in kept : j <= i}) = n]]

\* Length, data and checksum, which cancels out what precedes it.
GarminOk(packet) ==
    LET body == Unstuffed(packet)
    IN  /\ Len(body) >= 2 /\ Len(body) = body[1] + 2
        /\ (packet[2] + SumOf(body, DOMAIN body)) % 256 = 0

EvermoreOk(packet) ==
    LET body == Unstuffed(packet)
    IN  /\ Len(body) >= 2 /\ Len(body) = body[1]
        /\ body[Len(body)] = SumOf(body, 2..(Len(body) - 1)) % 256

\* The length of a TSIP packet, doubled DLEs counted once.
TsipLength(packet) ==
    LET dles == Cardinality({i \in DOMAIN packet : packet[i] = DLE})
    IN  Len(packet) - (IF dles > 2 THEN (dles - 2) \div 2 ELSE 0)

\* The messages a receiver is known to send and the lengths they may have.
TsipMessages ==
    {<<19, 1..1000>>, <<56, {3}>>, <<65, {14, 15}>>, <<66, {20}>>, <<67, {24}>>, <<69, {14}>>, <<70, {6}>>,
     <<72, {26}>>, <<73, {36}>>, <<74, {24}>>, <<75, {7}>>, <<76, {21}>>, <<84, {16}>>, <<85, {8}>>,
     <<86, {24}>>, <<87, {12}>>, <<90, 29..31>>, <<91, {36}>>, <<92, 28..30>>, <<94, {6}>>, <<95, {70}>>,
     <<109, 20..32>>, <<130, {5}>>, <<132, 40..41>>, <<142, 0..1000>>, <<143, 0..1000>>, <<187, {44}>>}

TsipOk(packet) ==
    \E m \in TsipMessages : m[1] = packet[2] /\ TsipLength(packet) \in m[2]

-----------------------------------------------------------------------------
(* Acceptance *)

Checked(ok, type) == IF ok THEN type ELSE "BAD"

\* The type of the packet that has just been recognized; last is the type of the
\* packet accepted before, which tells TSIP and Garmin apart.
TypeOf(state, packet, last) ==
    CASE state = "COMMENT_RECOGNIZED" -> "COMMENT"
      [] state = "NMEA_RECOGNIZED" -> NmeaType(packet)
      [] state = "SIRF_RECOGNIZED" -> Checked(SirfOk(packet), "SIRF")
      [] state = "SUPERSTAR2_RECOGNIZED" -> Checked(Superstar2Ok(packet), "SUPERSTAR2")
      [] state = "ONCORE_RECOGNIZED" -> Checked(OncoreOk(packet), "ONCORE")
      [] state = "TSIP_RECOGNIZED" ->
            IF last # "TSIP" /\ GarminOk(packet) THEN "GARMIN" ELSE Checked(TsipOk(packet), "TSIP")
      [] state = "RTCM3_RECOGNIZED" -> Checked(Rtcm3Ok(packet), "RTCM3")
      [] state = "ZODIAC_RECOGNIZED" -> Checked(ZodiacOk(packet), "ZODIAC")
      [] state = "UBX_RECOGNIZED" -> Checked(UbxOk(packet), "UBX")
      [] state = "EVERMORE_RECOGNIZED" -> Checked(EvermoreOk(packet), "EVERMORE")
      [] state = "ITALK_RECOGNIZED" -> Checked(ItalkOk(packet), "ITALK")
      [] state = "NAVCOM_RECOGNIZED" -> "NAVCOM"
      [] state = "GEOSTAR_RECOGNIZED" -> Checked(GeostarOk(packet), "GEOSTAR")
      [] state = "GTXT_RECOGNIZED" -> Checked(Len(packet) >= 57, "GARMINTXT")
      [] state = "JSON_RECOGNIZED" -> Checked(Len(packet) >= 11, "JSON")

Recognized ==
    {"COMMENT_RECOGNIZED", "NMEA_RECOGNIZED", "SIRF_RECOGNIZED", "SUPERSTAR2_RECOGNIZED", "ONCORE_RECOGNIZED",
     "TSIP_RECOGNIZED", "RTCM3_RECOGNIZED", "ZODIAC_RECOGNIZED", "UBX_RECOGNIZED", "EVERMORE_RECOGNIZED",
     "ITALK_RECOGNIZED", "NAVCOM_RECOGNIZED", "GEOSTAR_RECOGNIZED", "GTXT_RECOGNIZED", "JSON_RECOGNIZED"}

PacketTypes ==
    {"BAD", "COMMENT", "NMEA", "AIVDM", "SIRF", "SUPERSTAR2", "ONCORE", "TSIP", "GARMIN", "RTCM3", "ZODIAC",
     "UBX", "EVERMORE", "ITALK", "NAVCOM", "GEOSTAR", "GARMINTXT", "JSON"}

\* After a good packet most protocols expect another of the same kind.
StateAfter(state, type) ==
    IF type = "BAD" \/ state \in {"COMMENT_RECOGNIZED", "RTCM3_RECOGNIZED", "GTXT_RECOGNIZED", "JSON_RECOGNIZED"}
    THEN "GROUND_STATE" ELSE state
=============================================================================
