---------------------------- MODULE PacketStates ----------------------------
(***************************************************************************)
(* nextstate() of packet.c: the state machine that segments the bytes of a *)
(* receiver into packets of a dozen protocols.                             *)
(*                                                                         *)
(* The states that look at the byte alone form one table of rules; a byte  *)
(* without a rule sends the machine to GROUND_STATE.  What the other       *)
(* states do with the length of the payload, the nesting of JSON and the   *)
(* byte itself are operators of their own.  The text protocols, SiRF,      *)
(* SuperStar II, Oncore, TSIP and its relatives, NavCom, RTCM3, Zodiac,    *)
(* UBX, iTalk, GeoStar and JSON are here; the bitstream decoder of RTCM2   *)
(* (isgps.c), which the letters that start nothing else are also offered   *)
(* to, is taken never to lock.                                             *)
(***************************************************************************)
EXTENDS Integers, Sequences, FiniteSets

CONSTANT MaxPacketLength   \* MAX_PACKET_LENGTH

Byte == 0..255

-----------------------------------------------------------------------------
(* Characters *)

Graphic == << " ", "!", "\"", "#", "$", "%", "&", "'", "(", ")", "*", "+", ",", "-", ".", "/",
              "0", "1", "2", "3", "4", "5", "6", "7", "8", "9", ":", ";", "<", "=", ">", "?",
              "@", "A", "B", "C", "D", "E", "F", "G", "H", "I", "J", "K", "L", "M", "N", "O",
              "P", "Q", "R", "S", "T", "U", "V", "W", "X", "Y", "Z", "[", "\\", "]", "^", "_",
              "grave", "a", "b", "c", "d", "e", "f", "g", "h", "i", "j", "k", "l", "m", "n", "o",
              "p", "q", "r", "s", "t", "u", "v", "w", "x", "y", "z", "{", "|", "}", "~" >>

Chr(s) == IF s = "\r" THEN 13 ELSE IF s = "\n" THEN 10
          ELSE 31 + (CHOOSE i \in 1..95 : Graphic[i] = s)

Text(letters) == [i \in 1..Len(letters) |-> Chr(letters[i])]
OneOf(letters) == {Chr(s) : s \in letters}

\* isprint(), isspace(), isupper(), isalpha() in the C locale.
Printing == 32..126
Space == {32} \cup 9..13
Upper == 65..90
Alpha == Upper \cup 97..122
Digit == 48..57
Quote == Chr("\"")
Comma == Chr(",")
Brace == Chr("{")
Opening == OneOf({"{", "["})
Closing == OneOf({"}", "]"})
NUL == 0    \* strchr() finds the terminator of its string too

SOH == 1
STX == 2
ETX == 3
DLE == 16

-----------------------------------------------------------------------------
(* The states that look at the byte alone: <<state, bytes, next state>>.     *)

\* What starts a packet when none is expected, and how comments end.
GroundRules ==
    {<<"GROUND_STATE", OneOf({"#"}), "COMMENT_BODY">>, <<"GROUND_STATE", OneOf({"$"}), "NMEA_DOLLAR">>,
     <<"GROUND_STATE", OneOf({"!"}), "NMEA_BANG">>, <<"GROUND_STATE", OneOf({"@"}), "AT1_LEADER">>,
     <<"GROUND_STATE", {160}, "SIRF_LEADER_1">>, <<"GROUND_STATE", {SOH}, "SUPERSTAR2_LEADER">>,
     <<"GROUND_STATE", {DLE}, "DLE_LEADER">>, <<"GROUND_STATE", OneOf({"A"}), "ASTRAL_1">>,
     <<"GROUND_STATE", OneOf({"E"}), "EARTHA_1">>, <<"GROUND_STATE", {255}, "ZODIAC_LEADER_1">>,
     <<"GROUND_STATE", {181}, "UBX_LEADER_1">>, <<"GROUND_STATE", OneOf({"<"}), "ITALK_LEADER_1">>,
     <<"GROUND_STATE", {STX}, "NAVCOM_LEADER_1">>, <<"GROUND_STATE", OneOf({"P"}), "GEOSTAR_LEADER_1">>,
     <<"GROUND_STATE", {211}, "RTCM3_LEADER_1">>, <<"GROUND_STATE", {Brace}, "JSON_LEADER">>,
     <<"COMMENT_BODY", OneOf({"\n"}), "COMMENT_RECOGNIZED">>,
     <<"COMMENT_BODY", Printing, "COMMENT_BODY">>}

\* A dollar and the talker of an NMEA 0183 sentence.
LeaderRules ==
    {<<"NMEA_DOLLAR", OneOf({"G"}), "NMEA_PUB_LEAD">>, <<"NMEA_DOLLAR", OneOf({"P"}), "NMEA_VENDOR_LEAD">>,
     <<"NMEA_DOLLAR", OneOf({"I"}), "SEATALK_LEAD_1">>, <<"NMEA_DOLLAR", OneOf({"W"}), "WEATHER_LEAD_1">>,
     <<"NMEA_DOLLAR", OneOf({"H"}), "HEADCOMP_LEAD_1">>, <<"NMEA_DOLLAR", OneOf({"T"}), "TURN_LEAD_1">>,
     <<"NMEA_DOLLAR", OneOf({"A"}), "SIRF_ACK_LEAD_1">>, <<"NMEA_DOLLAR", OneOf({"E"}), "ECDIS_LEAD_1">>,
     <<"NMEA_DOLLAR", OneOf({"S"}), "SOUNDER_LEAD_1">>, <<"NMEA_DOLLAR", OneOf({"C"}), "NMEA_LEADER_END">>,
     <<"NMEA_PUB_LEAD", OneOf({"P", "N", "L"}), "NMEA_LEADER_END">>}

\* The sentences of a vendor; the body of $PASHR is binary up to a CR LF and a dollar.
VendorRules ==
    {<<"NMEA_VENDOR_LEAD", OneOf({"A"}), "NMEA_PASHR_A">>,
     <<"NMEA_VENDOR_LEAD", Alpha \ OneOf({"A"}), "NMEA_LEADER_END">>,
     <<"NMEA_PASHR_A", OneOf({"S"}), "NMEA_PASHR_S">>, <<"NMEA_PASHR_A", Alpha \ OneOf({"S"}), "NMEA_LEADER_END">>,
     <<"NMEA_PASHR_S", OneOf({"H"}), "NMEA_PASHR_H">>, <<"NMEA_PASHR_S", Alpha \ OneOf({"H"}), "NMEA_LEADER_END">>,
     <<"NMEA_PASHR_H", OneOf({"R"}), "NMEA_BINARY_BODY">>,
     <<"NMEA_PASHR_H", Alpha \ OneOf({"R"}), "NMEA_LEADER_END">>,
     <<"NMEA_BINARY_BODY", OneOf({"\r"}), "NMEA_BINARY_CR">>,
     <<"NMEA_BINARY_BODY", Byte \ OneOf({"\r"}), "NMEA_BINARY_BODY">>,
     <<"NMEA_BINARY_CR", OneOf({"\n"}), "NMEA_BINARY_NL">>,
     <<"NMEA_BINARY_CR", Byte \ OneOf({"\n"}), "NMEA_BINARY_BODY">>,
     <<"NMEA_BINARY_NL", OneOf({"$"}), "NMEA_RECOGNIZED">>,
     <<"NMEA_BINARY_NL", Byte \ OneOf({"$"}), "NMEA_BINARY_BODY">>}

\* The leaders of AIS sentences, after an exclamation mark.
AisRules ==
    {<<"NMEA_BANG", OneOf({"A"}), "AIS_LEAD_1">>, <<"NMEA_BANG", OneOf({"B"}), "AIS_LEAD_ALT1">>,
     <<"AIS_LEAD_1", OneOf({"I"}), "AIS_LEAD_2">>, <<"AIS_LEAD_2", Alpha, "NMEA_LEADER_END">>,
     <<"AIS_LEAD_ALT1", OneOf({"S"}), "AIS_LEAD_ALT2">>, <<"AIS_LEAD_ALT2", Alpha, "NMEA_LEADER_END">>}

\* TNT and Garmin text, the body and the end of a sentence and what may follow it.
BodyRules ==
    {<<"AT1_LEADER", OneOf({"@"}), "ONCORE_AT2">>, <<"AT1_LEADER", OneOf({"*"}), "NMEA_LEADER_END">>,
     <<"AT1_LEADER", OneOf({"\n"}), "GTXT_RECOGNIZED">>,
     <<"AT1_LEADER", (Printing \ OneOf({"@", "*"})) \cup OneOf({"\r"}), "AT1_LEADER">>,
     <<"NMEA_LEADER_END", OneOf({"\r"}), "NMEA_CR">>, <<"NMEA_LEADER_END", OneOf({"\n"}), "NMEA_RECOGNIZED">>,
     <<"NMEA_LEADER_END", Printing \ OneOf({"$"}), "NMEA_LEADER_END">>,
     <<"NMEA_CR", OneOf({"\n"}), "NMEA_RECOGNIZED">>, <<"NMEA_CR", OneOf({"\r"}), "NMEA_CR">>,
     <<"NMEA_RECOGNIZED", OneOf({"#"}), "COMMENT_BODY">>, <<"NMEA_RECOGNIZED", OneOf({"$"}), "NMEA_DOLLAR">>,
     <<"NMEA_RECOGNIZED", OneOf({"!"}), "NMEA_BANG">>, <<"NMEA_RECOGNIZED", {181}, "UBX_LEADER_1">>}

\* The second letters of the talkers that are no GPS.
TalkerRules ==
    {<<"SEATALK_LEAD_1", OneOf({"I", "N"}), "NMEA_LEADER_END">>,
     <<"WEATHER_LEAD_1", OneOf({"I"}), "NMEA_LEADER_END">>, <<"HEADCOMP_LEAD_1", OneOf({"C"}), "NMEA_LEADER_END">>,
     <<"TURN_LEAD_1", OneOf({"I"}), "NMEA_LEADER_END">>, <<"ECDIS_LEAD_1", OneOf({"C"}), "NMEA_LEADER_END">>,
     <<"SOUNDER_LEAD_1", OneOf({"D"}), "NMEA_LEADER_END">>}

\* The greetings of the DeLorme receivers, as far as the code spells them.
DelormeRules ==
    {<<"ASTRAL_1", OneOf({"S"}), "ASTRAL_2">>, <<"ASTRAL_2", OneOf({"T"}), "ASTRAL_3">>,
     <<"ASTRAL_3", OneOf({"R"}), "ASTRAL_5">>, <<"ASTRAL_4", OneOf({"A"}), "ASTRAL_2">>,
     <<"ASTRAL_5", OneOf({"L"}), "NMEA_RECOGNIZED">>,
     <<"EARTHA_1", OneOf({"A"}), "EARTHA_2">>, <<"EARTHA_2", OneOf({"R"}), "EARTHA_3">>,
     <<"EARTHA_3", OneOf({"T"}), "EARTHA_4">>, <<"EARTHA_4", OneOf({"H"}), "EARTHA_5">>,
     <<"EARTHA_5", OneOf({"A"}), "NMEA_RECOGNIZED">>}

\* SiRF, and the acknowledgement a SiRF receiver sends in NMEA mode.
SirfRules ==
    {<<"SIRF_ACK_LEAD_1", OneOf({"c"}), "SIRF_ACK_LEAD_2">>, <<"SIRF_ACK_LEAD_1", OneOf({"I"}), "AIS_LEAD_2">>,
     <<"SIRF_ACK_LEAD_2", OneOf({"k"}), "NMEA_LEADER_END">>,
     <<"SIRF_LEADER_1", {162}, "SIRF_LEADER_2">>, <<"SIRF_LEADER_2", Byte, "SIRF_LENGTH_1">>,
     <<"SIRF_DELIVERED", {176}, "SIRF_TRAILER_1">>, <<"SIRF_TRAILER_1", {179}, "SIRF_RECOGNIZED">>,
     <<"SIRF_RECOGNIZED", {160}, "SIRF_LEADER_1">>}

Superstar2Rules ==
    {<<"SUPERSTAR2_LEADER", Byte, "SUPERSTAR2_ID1">>, <<"SUPERSTAR2_CKSUM1", Byte, "SUPERSTAR2_CKSUM2">>,
     <<"SUPERSTAR2_CKSUM2", Byte, "SUPERSTAR2_RECOGNIZED">>,
     <<"SUPERSTAR2_RECOGNIZED", {SOH}, "SUPERSTAR2_LEADER">>}

OncoreRules ==
    {<<"ONCORE_AT2", Upper, "ONCORE_ID1">>, <<"ONCORE_CHECKSUM", OneOf({"\r"}), "ONCORE_CR">>,
     <<"ONCORE_CR", OneOf({"\n"}), "ONCORE_RECOGNIZED">>, <<"ONCORE_CR", Byte \ OneOf({"\n"}), "ONCORE_PAYLOAD">>,
     <<"ONCORE_RECOGNIZED", OneOf({"@"}), "AT1_LEADER">>}

\* TSIP, Garmin and EverMore share the leader.
DleRules == {<<"DLE_LEADER", {STX}, "EVERMORE_LEADER_2">>, <<"DLE_LEADER", 19..255, "TSIP_PAYLOAD">>}

NavcomRules ==
    {<<"NAVCOM_LEADER_1", {153}, "NAVCOM_LEADER_2">>, <<"NAVCOM_LEADER_2", {102}, "NAVCOM_LEADER_3">>,
     <<"NAVCOM_LEADER_3", Byte, "NAVCOM_ID">>, <<"NAVCOM_ID", Byte, "NAVCOM_LENGTH_1">>,
     <<"NAVCOM_LENGTH_1", Byte, "NAVCOM_LENGTH_2">>, <<"NAVCOM_CSUM", {ETX}, "NAVCOM_RECOGNIZED">>,
     <<"NAVCOM_RECOGNIZED", {STX}, "NAVCOM_LEADER_1">>}

Rtcm3Rules == {<<"RTCM3_LEADER_1", 0..3, "RTCM3_LEADER_2">>, <<"RTCM3_LEADER_2", Byte, "RTCM3_PAYLOAD">>}

ZodiacRules ==
    {<<"ZODIAC_RECOGNIZED", {255}, "ZODIAC_LEADER_1">>, <<"ZODIAC_LEADER_1", {129}, "ZODIAC_LEADER_2">>,
     <<"ZODIAC_LEADER_2", Byte, "ZODIAC_ID_1">>, <<"ZODIAC_ID_1", Byte, "ZODIAC_ID_2">>,
     <<"ZODIAC_ID_2", Byte, "ZODIAC_LENGTH_1">>, <<"ZODIAC_LENGTH_1", Byte, "ZODIAC_LENGTH_2">>,
     <<"ZODIAC_LENGTH_2", Byte, "ZODIAC_FLAGS_1">>, <<"ZODIAC_FLAGS_1", Byte, "ZODIAC_FLAGS_2">>,
     <<"ZODIAC_FLAGS_2", Byte, "ZODIAC_HSUM_1">>}

\* Mutant of UbxRules: after a UBX message no sentence is expected.
UbxRulesAlone ==
    {<<"UBX_LEADER_1", {98}, "UBX_LEADER_2">>, <<"UBX_LEADER_2", Byte, "UBX_CLASS_ID">>,
     <<"UBX_CLASS_ID", Byte, "UBX_MESSAGE_ID">>, <<"UBX_MESSAGE_ID", Byte, "UBX_LENGTH_1">>,
     <<"UBX_LENGTH_2", Byte, "UBX_PAYLOAD">>, <<"UBX_CHECKSUM_A", Byte, "UBX_RECOGNIZED">>,
     <<"UBX_RECOGNIZED", {181}, "UBX_LEADER_1">>}

UbxRules ==
    {<<"UBX_LEADER_1", {98}, "UBX_LEADER_2">>, <<"UBX_LEADER_2", Byte, "UBX_CLASS_ID">>,
     <<"UBX_CLASS_ID", Byte, "UBX_MESSAGE_ID">>, <<"UBX_MESSAGE_ID", Byte, "UBX_LENGTH_1">>,
     <<"UBX_LENGTH_2", Byte, "UBX_PAYLOAD">>, <<"UBX_CHECKSUM_A", Byte, "UBX_RECOGNIZED">>,
     <<"UBX_RECOGNIZED", {181}, "UBX_LEADER_1">>, <<"UBX_RECOGNIZED", OneOf({"$"}), "NMEA_DOLLAR">>}

\* In the payloads of EverMore and TSIP a DLE is doubled.
EvermoreRules ==
    {<<"EVERMORE_LEADER_1", {STX}, "EVERMORE_LEADER_2">>,
     <<"EVERMORE_LEADER_2", {DLE}, "EVERMORE_PAYLOAD_DLE">>,
     <<"EVERMORE_LEADER_2", Byte \ {DLE}, "EVERMORE_PAYLOAD">>,
     <<"EVERMORE_PAYLOAD_DLE", {DLE}, "EVERMORE_PAYLOAD">>,
     <<"EVERMORE_PAYLOAD_DLE", {ETX}, "EVERMORE_RECOGNIZED">>,
     <<"EVERMORE_RECOGNIZED", {DLE}, "EVERMORE_LEADER_1">>}

TsipRules ==
    {<<"TSIP_PAYLOAD", {DLE}, "TSIP_DLE">>, <<"TSIP_PAYLOAD", Byte \ {DLE}, "TSIP_PAYLOAD">>,
     <<"TSIP_DLE", {ETX}, "TSIP_RECOGNIZED">>, <<"TSIP_DLE", {DLE}, "TSIP_PAYLOAD">>,
     <<"TSIP_RECOGNIZED", {DLE}, "DLE_LEADER">>}

ItalkRules ==
    {<<"ITALK_LEADER_1", OneOf({"!"}), "ITALK_LEADER_2">>, <<"ITALK_LEADER_2", Byte, "ITALK_LENGTH">>,
     <<"ITALK_LENGTH", Byte, "ITALK_PAYLOAD">>, <<"ITALK_DELIVERED", OneOf({">"}), "ITALK_RECOGNIZED">>,
     <<"ITALK_RECOGNIZED", OneOf({"<"}), "ITALK_LEADER_1">>}

GeostarRules ==
    {<<"GEOSTAR_LEADER_1", OneOf({"S"}), "GEOSTAR_LEADER_2">>, <<"GEOSTAR_LEADER_2", OneOf({"G"}), "GEOSTAR_LEADER_3">>,
     <<"GEOSTAR_LEADER_3", OneOf({"G"}), "GEOSTAR_LEADER_4">>, <<"GEOSTAR_LEADER_4", Byte, "GEOSTAR_MESSAGE_ID_1">>,
     <<"GEOSTAR_MESSAGE_ID_1", Byte, "GEOSTAR_MESSAGE_ID_2">>, <<"GEOSTAR_MESSAGE_ID_2", Byte, "GEOSTAR_LENGTH_1">>,
     <<"GEOSTAR_LENGTH_2", Byte, "GEOSTAR_PAYLOAD">>, <<"GEOSTAR_CHECKSUM_A", Byte, "GEOSTAR_CHECKSUM_B">>,
     <<"GEOSTAR_CHECKSUM_B", Byte, "GEOSTAR_CHECKSUM_C">>, <<"GEOSTAR_CHECKSUM_C", Byte, "GEOSTAR_RECOGNIZED">>,
     <<"GEOSTAR_RECOGNIZED", OneOf({"P"}), "GEOSTAR_LEADER_1">>}

\* JSON, apart from the brackets and from what follows a string.
JsonRules ==
    {<<"JSON_LEADER", Opening \cup {Comma} \cup Space, "JSON_LEADER">>,
     <<"JSON_LEADER", {Quote}, "JSON_STRINGLITERAL">>,
     <<"JSON_STRINGLITERAL", OneOf({"\\"}), "JSON_STRING_SOLIDUS">>,
     <<"JSON_STRINGLITERAL", Byte \ (OneOf({"\\"}) \cup {Quote}), "JSON_STRINGLITERAL">>,
     <<"JSON_STRING_SOLIDUS", Byte, "JSON_STRINGLITERAL">>,
     <<"JSON_END_ATTRIBUTE", Space, "JSON_END_ATTRIBUTE">>, <<"JSON_END_ATTRIBUTE", OneOf({":"}), "JSON_EXPECT_VALUE">>,
     <<"JSON_EXPECT_VALUE", Space, "JSON_EXPECT_VALUE">>, <<"JSON_EXPECT_VALUE", {Quote}, "JSON_STRINGLITERAL">>,
     <<"JSON_EXPECT_VALUE", Opening, "JSON_LEADER">>,
     <<"JSON_EXPECT_VALUE", Digit \cup OneOf({"-"}) \cup {NUL}, "JSON_NUMBER">>,
     <<"JSON_EXPECT_VALUE", OneOf({"t", "f", "n"}), "JSON_SPECIAL">>,
     <<"JSON_NUMBER", Digit \cup OneOf({".", "e", "E", "+", "-"}) \cup {NUL}, "JSON_NUMBER">>,
     <<"JSON_NUMBER", Byte \ (Digit \cup OneOf({".", "e", "E", "+", "-"}) \cup {NUL}), "JSON_END_VALUE">>,
     <<"JSON_SPECIAL", OneOf({"t", "r", "u", "e", "f", "a", "l", "s", "n", "i"}) \cup {NUL}, "JSON_SPECIAL">>,
     <<"JSON_SPECIAL", Byte \ (OneOf({"t", "r", "u", "e", "f", "a", "l", "s", "n", "i"}) \cup {NUL}), "JSON_END_VALUE">>,
     <<"JSON_END_VALUE", Space, "JSON_END_VALUE">>, <<"JSON_END_VALUE", {Comma} \cup Closing, "JSON_LEADER">>}

Rules ==
    UNION {GroundRules, LeaderRules, VendorRules, AisRules, BodyRules, TalkerRules, DelormeRules, SirfRules,
           Superstar2Rules, OncoreRules, DleRules, NavcomRules, Rtcm3Rules, ZodiacRules, UbxRules,
           EvermoreRules, TsipRules, ItalkRules, GeostarRules, JsonRules}

\* The rules as a function of the state and the byte.
Transition ==
    [state \in {r[1] : r \in Rules} |->
        LET mine == {r \in Rules : r[1] = state}
        IN  [c \in Byte |-> IF \E r \in mine : c \in r[2] THEN (CHOOSE r \in mine : c \in r[2])[3]
                            ELSE "GROUND_STATE"]]

-----------------------------------------------------------------------------
(* The length of the payload: lexer->length, a size_t.                       *)

SIZE == 1048576    \* stands for 2^64: far more than any buffer holds

Decremented(length) == (length - 1) % SIZE

\* The payloads that are counted down, and what follows the last byte.
AfterPayload ==
    [SIRF_PAYLOAD |-> "SIRF_DELIVERED", SUPERSTAR2_PAYLOAD |-> "SUPERSTAR2_CKSUM1",
     ONCORE_PAYLOAD |-> "ONCORE_CHECKSUM", NAVCOM_LENGTH_2 |-> "NAVCOM_PAYLOAD",
     RTCM3_PAYLOAD |-> "RTCM3_RECOGNIZED", ZODIAC_PAYLOAD |-> "ZODIAC_RECOGNIZED",
     UBX_PAYLOAD |-> "UBX_CHECKSUM_A", ITALK_PAYLOAD |-> "ITALK_DELIVERED",
     GEOSTAR_PAYLOAD |-> "GEOSTAR_CHECKSUM_A"]

\* oncore_payload_cksum_length(): by the second letter, the first letters and the
\* length of the message.
OncoreMessages ==
    {<<"A", "b", 10>>, <<"A", "w", 8>>, <<"A", "c", 11>>, <<"A", "a", 10>>, <<"A", "d", 11>>, <<"A", "e", 11>>,
     <<"A", "f", 15>>, <<"E", "a", 76>>, <<"A", "g", 8>>, <<"B", "b", 92>>, <<"B", "j", 8>>, <<"A", "q", 8>>,
     <<"A", "p", 25>>, <<"C", "h", 9>>, <<"C", "b", 33>>, <<"S", "z", 8>>, <<"C", "j", 294>>, <<"F", "a", 9>>,
     <<"C", "f", 7>>, <<"E", "q", 96>>, <<"A", "u", 12>>, <<"A", "v", 8>>, <<"A", "N", 8>>, <<"A", "O", 8>>,
     <<"C", "c", 80>>, <<"C", "k", 7>>, <<"B", "o", 8>>, <<"A", "z", 11>>, <<"A", "y", 11>>, <<"A", "P", 8>>,
     <<"A", "s", 20>>, <<"A", "t", 8>>, <<"E", "n", 69>>}

OncoreLength(id1, id2) ==
    LET known == {m \in OncoreMessages : Chr(m[1]) = id1 /\ Chr(m[2]) = id2}
    IN  IF known = {} THEN 0 ELSE (CHOOSE m \in known : TRUE)[3] - 6

\* The exclusive or of the bytes at some positions of a packet, bit by bit.
XorOf(packet, positions) ==
    LET Bit(w) == w * (Cardinality({i \in positions : (packet[i] \div w) % 2 = 1}) % 2)
    IN  Bit(1) + Bit(2) + Bit(4) + Bit(8) + Bit(16) + Bit(32) + Bit(64) + Bit(128)

\* A 16-bit little-endian word, getword(i), of a packet.
Word(packet, i) == packet[2 * i + 1] + 256 * packet[2 * i + 2]

ZodiacHeaderOk(packet) ==
    (Word(packet, 0) + Word(packet, 1) + Word(packet, 2) + Word(packet, 3) + Word(packet, 4)) % 65536 = 0

\* The byte at offset i of the input buffer; beyond what has been read it is
\* whatever the buffer held before.
At(lexer, i, stale) == IF i < Len(lexer.inbuf) THEN lexer.inbuf[i + 1] ELSE stale

\* What of the buffer has been parsed, c included.
Parsed(lexer) == SubSeq(lexer.inbuf, 1, lexer.ptr)

NewLength(lexer, c, stale) ==
    LET state == lexer.state
        length == lexer.length
    IN  CASE state \in {"SUPERSTAR2_ID2", "UBX_MESSAGE_ID", "ZODIAC_ID_2", "EVERMORE_LEADER_2"} -> c
          [] state = "SIRF_LEADER_2" -> 256 * c
          [] state = "SIRF_LENGTH_1" -> length + c + 2
          [] state = "ONCORE_AT2" /\ c \in Upper -> c
          [] state = "ONCORE_ID1" /\ c \in Alpha -> OncoreLength(length, c)
          [] state = "NAVCOM_ID" -> (c - 4) % SIZE
          [] state \in {"NAVCOM_LENGTH_1", "ZODIAC_LENGTH_1", "UBX_LENGTH_1"} -> (length + 256 * c) % SIZE
          [] state = "RTCM3_LEADER_1" /\ c < 4 -> 256 * c
          [] state = "RTCM3_LEADER_2" -> length + c + 3
          [] state = "ZODIAC_HSUM_1" /\ ZodiacHeaderOk(Parsed(lexer)) /\ length # 0 -> 2 * length + 2
          [] state = "ITALK_LEADER_2" -> At(lexer, 6, stale[1])
          [] state = "ITALK_LENGTH" -> 2 * (length + 1) + 3
          [] state = "GEOSTAR_MESSAGE_ID_2" -> 4 * c
          [] state = "GEOSTAR_LENGTH_1" -> length + 1024 * c
          [] state = "EVERMORE_PAYLOAD" /\ c # DLE -> Decremented(length)
          [] state \in DOMAIN AfterPayload -> Decremented(length)
          [] OTHER -> length

-----------------------------------------------------------------------------
(* The next state *)

\* iTalk packets may be shorter than they say: the next two bytes start another.
RuntAhead(lexer, c, stale) ==
    /\ c = Chr(">")
    /\ At(lexer, lexer.ptr, stale[1]) = Chr("<")
    /\ At(lexer, lexer.ptr + 1, stale[2]) = Chr("!")

\* The states whose successor depends on more than the byte.
NewState(lexer, c, length, depth, stale) ==
    LET state == lexer.state
        Within(limit, next) == IF length <= limit THEN next ELSE "GROUND_STATE"
    IN  CASE state = "ITALK_PAYLOAD" /\ RuntAhead(lexer, c, stale) -> "ITALK_RECOGNIZED"
          [] state = "SIRF_LENGTH_1" -> Within(MaxPacketLength, "SIRF_PAYLOAD")
          [] state = "UBX_LENGTH_1" -> Within(MaxPacketLength, "UBX_LENGTH_2")
          [] state = "GEOSTAR_LENGTH_1" -> Within(MaxPacketLength, "GEOSTAR_LENGTH_2")
          [] state = "SUPERSTAR2_ID1" -> IF c = 255 - lexer.id THEN "SUPERSTAR2_ID2" ELSE "GROUND_STATE"
          [] state = "SUPERSTAR2_ID2" -> IF c # 0 THEN "SUPERSTAR2_PAYLOAD" ELSE "SUPERSTAR2_CKSUM1"
          [] state = "ONCORE_ID1" -> IF c \in Alpha /\ length # 0 THEN "ONCORE_PAYLOAD" ELSE "GROUND_STATE"
          [] state = "NAVCOM_PAYLOAD" -> IF c = XorOf(lexer.inbuf, 4..(lexer.ptr - 1)) THEN "NAVCOM_CSUM" ELSE "GROUND_STATE"
          [] state = "ZODIAC_HSUM_1" ->
                IF ~ZodiacHeaderOk(Parsed(lexer)) THEN "GROUND_STATE"
                ELSE IF length = 0 THEN "ZODIAC_RECOGNIZED" ELSE Within(MaxPacketLength - 10, "ZODIAC_PAYLOAD")
          [] state = "EVERMORE_PAYLOAD" ->
                IF c = DLE THEN "EVERMORE_PAYLOAD_DLE"
                ELSE IF length = 0 THEN "GROUND_STATE" ELSE "EVERMORE_PAYLOAD"
          [] state = "JSON_LEADER" /\ c \in Closing ->
                IF depth = 0 THEN "JSON_RECOGNIZED" ELSE "JSON_LEADER"
          [] state = "JSON_STRINGLITERAL" /\ c = Quote -> lexer.after
          [] state \in DOMAIN AfterPayload -> IF length = 0 THEN AfterPayload[state] ELSE state
          [] OTHER -> Transition[state][c]

\* lexer->json_depth and lexer->json_after.
NewDepth(lexer, c) ==
    IF lexer.state # "JSON_LEADER" THEN lexer.depth
    ELSE IF c \in Opening THEN lexer.depth + 1
    ELSE IF c \in Closing THEN lexer.depth - 1 ELSE lexer.depth

NewAfter(lexer, c) ==
    IF c = Quote /\ lexer.state = "JSON_LEADER" THEN "JSON_END_ATTRIBUTE"
    ELSE IF c = Quote /\ lexer.state = "JSON_EXPECT_VALUE" THEN "JSON_END_VALUE" ELSE lexer.after

\* Mutant of PushedBack: a bracket in a list of JSON is read again where it was read.
PushedBackAgain(state, c) ==
    \/ state \in {"JSON_LEADER", "JSON_EXPECT_VALUE"} /\ c \in Opening
    \/ state = "GROUND_STATE" /\ c = Brace

\* character_pushback(): the byte is read again in the new state.
PushedBack(state, c) ==
    \/ state = "GROUND_STATE" /\ c = Brace
    \/ state = "COMMENT_BODY" /\ c \notin Printing \cup OneOf({"\n"})
    \/ state \in {"NMEA_BINARY_NL", "NMEA_LEADER_END"} /\ c = Chr("$")
    \/ state = "JSON_EXPECT_VALUE" /\ c \in Opening
    \/ state \in {"JSON_NUMBER", "JSON_SPECIAL"} /\ Transition[state][c] = "JSON_END_VALUE"
    \/ state = "JSON_END_VALUE" /\ c \in Closing

\* nextstate(): c is the byte before lexer.ptr.
Nextstate(lexer, c, stale) ==
    LET length == NewLength(lexer, c, stale)
        depth == NewDepth(lexer, c)
    IN  [lexer EXCEPT !.state = NewState(lexer, c, length, depth, stale),
                      !.length = length, !.depth = depth, !.after = NewAfter(lexer, c),
                      !.id = IF lexer.state = "SUPERSTAR2_LEADER" THEN c ELSE @,
                      !.ptr = IF PushedBack(lexer.state, c) THEN @ - 1 ELSE @]
=============================================================================
