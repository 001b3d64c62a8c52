-------------------------- MODULE MCPacketSniffer --------------------------
(* Streams of short packets of every protocol, for PacketSniffer. *)
EXTENDS PacketSniffer

Packet(type, starts, ends, bytes) ==
    [type |-> type, starts |-> starts, ends |-> ends, wild |-> FALSE, brittle |-> FALSE, bytes |-> bytes]
Noise(bytes) == Packet("none", "none", "none", bytes)
Wild(bytes) == [Noise(bytes) EXCEPT !.wild = TRUE]
Brittle(packet) == [packet EXCEPT !.brittle = TRUE]

Comment == Packet("COMMENT", "COMMENT", "none", Text(<<"#", "c", "\n">>))
Position == Packet("NMEA", "NMEA", "NMEA", Text(<<"$", "G", "P", "*", "1", "7", "\r", "\n">>))
Vendor == Packet("NMEA", "NMEA", "NMEA", Text(<<"$", "P", "G", "a", "\r", "\r", "\n">>))
Ack == Packet("NMEA", "NMEA", "NMEA", Text(<<"$", "A", "c", "k", "\n">>))
Spoilt == Packet("BAD", "NMEA", "none", Text(<<"$", "G", "P", "*", "1", "8", "\r", "\n">>))
Ais == Packet("AIVDM", "AIS", "NMEA", Text(<<"!", "A", "I", "V", "D", "M", "*", "5", "7", "\r", "\n">>))
Tnt == Packet("NMEA", "AT", "NMEA", Text(<<"@", "*", "x", "\n">>))
\* Never recognised, since the code goes from ASTRAL_3 past ASTRAL_4.
TripMate == Noise(Text(<<"A", "S", "T", "R", "A", "L">>))
EarthMate == Packet("NMEA", "DELORME", "NMEA", Text(<<"E", "A", "R", "T", "H", "A">>))
GarminText == Packet("GARMINTXT", "AT", "none", Text([i \in 1..57 |-> IF i = 1 THEN "@" ELSE IF i = 57 THEN "\n" ELSE "0"]))
Sirf == Packet("SIRF", "SIRF", "SIRF", <<160, 162, 0, 1, 7, 0, 7, 176, 179>>)
SirfSpoilt == Packet("BAD", "SIRF", "none", <<160, 162, 0, 1, 7, 0, 8, 176, 179>>)
SirfTooLong == Noise(<<160, 162, 3, 232>>)
Superstar2 == Packet("SUPERSTAR2", "SUPERSTAR2", "SUPERSTAR2", <<1, 48, 207, 1, 5, 6, 1>>)
Oncore == Brittle(Packet("ONCORE", "AT", "AT", Text(<<"@", "@", "C", "f", "%", "\r", "\n">>)))
Tsip == Packet("TSIP", "DLE", "DLE", <<16, 130, 5, 16, 3>>)
TsipStuffed == Brittle(Packet("TSIP", "DLE", "DLE", <<16, 130, 16, 16, 16, 3>>))
Garmin == Brittle(Packet("GARMIN", "DLE", "DLE", <<16, 20, 1, 16, 16, 219, 16, 3>>))
Evermore == Packet("EVERMORE", "EVERMORE", "EVERMORE", <<16, 2, 3, 7, 7, 16, 3>>)
Navcom == Packet("NAVCOM", "NAVCOM", "NAVCOM", <<2, 153, 102, 177, 5, 0, 9, 189, 3>>)
Rtcm3 == Packet("RTCM3", "RTCM3", "none", <<211, 0, 0, 71, 234, 75>>)
Rtcm3Spoilt == Packet("BAD", "RTCM3", "none", <<211, 0, 0, 71, 234, 76>>)
Zodiac == Packet("ZODIAC", "ZODIAC", "ZODIAC", <<255, 129, 232, 3, 1, 0, 0, 0, 24, 122, 52, 18, 204, 237>>)
ZodiacEmpty == Packet("ZODIAC", "ZODIAC", "ZODIAC", <<255, 129, 232, 3, 0, 0, 0, 0, 25, 122>>)
Ubx == Packet("UBX", "UBX", "UBX", <<181, 98, 1, 2, 1, 0, 68, 72, 84>>)
UbxLong == Packet("UBX", "UBX", "UBX", <<181, 98, 1, 2, 3, 0, 36, 181, 98, 65, 90>>)
UbxSpoilt == Packet("BAD", "UBX", "none", <<181, 98, 1, 2, 1, 0, 68, 72, 85>>)
Geostar == Packet("GEOSTAR", "GEOSTAR", "GEOSTAR", <<80, 83, 71, 71, 32, 0, 1, 0, 17, 34, 51, 68, 97, 113, 117, 3>>)
Json == Packet("JSON", "JSON", "none",
               Text(<<"{", "\"", "a", "\"", ":", "-", "1", ",", "\"", "b", "\"", ":", "t", "}">>))
JsonNested == Packet("JSON", "JSON", "none",
               Text(<<"{", "\"", "a", "\"", ":", "[", "{", "}", "]", ",", "\"", "\\", "\"", "\"", ":", "\"", "\"", "}">>))

Tames == {Comment, Position, Vendor, Ack, Spoilt, Ais, Tnt, TripMate, EarthMate, Sirf, SirfSpoilt, SirfTooLong,
          Superstar2, Oncore, Tsip, TsipStuffed, Garmin, Evermore, Navcom, Rtcm3, Rtcm3Spoilt, Zodiac,
          ZodiacEmpty, Ubx, UbxSpoilt, Geostar, Json, Noise(<<0, 200>>), Noise(Text(<<"E", "x">>))}

\* A UBX message without payload, a GeoStar and a NavCom one, EverMore of length 0,
\* an Oncore trailer cut short: the length wraps.  iTalk is read ahead of.
Wilds == {Wild(<<181, 98, 10, 4, 0, 0, 14, 52>>), Wild(<<80, 83, 71, 71, 32, 0, 0, 0, 1, 2, 3, 4>>),
          Wild(<<2, 153, 102, 177, 4, 0, 9, 189, 3>>), Wild(<<16, 2, 0, 7, 7, 16, 3>>),
          Wild(Text(<<"@", "@", "C", "f", "%", "\r", "x">>)),
          Wild(<<60, 33, 0, 0, 5, 0, 1, 52, 18, 52, 18, 62>>), Wild(<<60, 33, 0, 0, 5, 0, 0, 7, 7, 62>>),
          Wild(<<60, 33, 0, 0, 5, 0, 9, 62, 60, 33>>),
          Wild(Text(<<"$", "P", "A", "S", "H", "R", ",">>) \o <<16, 13, 10>>), Wild(Text(<<"@", "x", "\n">>)),
          Wild(<<16, 130, 16, 3>>), Wild(Text(<<"{", "\"", "a">>)), Wild(<<160, 162, 0, 20, 7>>)}

Repeated(item, n) == [i \in 1..n |-> item]

MCStreams ==
    {<<a, b, b>> : a, b \in Tames}
        \cup {<<JsonNested, JsonNested>>, <<Position, GarminText, Position>>, <<GarminText, GarminText>>}
        \cup {<<w>> \o Repeated(b, 10) : w \in Wilds, b \in {Position, Ubx}}
        \cup {<<Position>> \o Repeated(Oncore, 11)}
        \cup [1..4 -> {Position, Ubx, UbxLong}]

MCReadSizes == {3, 61}
MCStaleBytes == {0, 60}
=============================================================================
