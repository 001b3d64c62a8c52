--------------------------- MODULE PacketSniffer ---------------------------
(***************************************************************************)
(* The packet sniffer of gpsd (packet.c): packet_get() reads what a device *)
(* has sent into the input buffer and packet_parse() takes bytes from it   *)
(* until a packet is complete.                                             *)
(*                                                                         *)
(* A failed attempt costs the first byte of the buffer only: the rest is   *)
(* parsed again from GROUND_STATE.  After a good packet the bytes it took  *)
(* leave the buffer, and the state it ended in expects the same protocol.  *)
(* A buffer that fills up without a packet is thrown away.                 *)
(*                                                                         *)
(* What the device sends is a sequence of items: packets, spoilt packets   *)
(* and noise.  The reads cut it anywhere.  One call of nextstate() with    *)
(* what packet_parse() does about its result is one step here.             *)
(***************************************************************************)
EXTENDS PacketChecks, SequencesExt

CONSTANTS
    Streams,     \* what the device may send: sequences of items
    ReadSizes,   \* how many bytes a read may return, at the most
    StaleBytes   \* what the buffer may hold beyond what has been read

\* An item has its bytes, the type it is accepted as ("none" for noise), the kind of
\* packet its first byte starts and the kind expected after it; and whether it can
\* fail to be found (wild), or to be passed over when it is not expected (brittle).
Item == [type : STRING, starts : STRING, ends : STRING, wild : BOOLEAN, brittle : BOOLEAN, bytes : Seq(Byte)]

ASSUME PacketSnifferAssumption ==
    /\ MaxPacketLength \in Nat \ {0}
    /\ ReadSizes \subseteq Nat \ {0}
    /\ StaleBytes \subseteq Byte
    /\ Streams \subseteq Seq(Item)

InBuffer == 2 * MaxPacketLength + 1   \* sizeof(inbuffer) and sizeof(outbuffer)

VARIABLES
    stream,    \* the items the device sends
    pos,       \* how many of their bytes have been read
    parsing,   \* packet_parse() is running
    lexer,     \* struct gps_packet_t
    log        \* history: type and length of every packet returned

vars == <<stream, pos, parsing, lexer, log>>

BytesOf == [s \in Streams |-> FlattenSeq([i \in DOMAIN s |-> s[i].bytes])]

Sent == BytesOf[stream]

\* packet_init()
FreshLexer ==
    [state |-> "GROUND_STATE", length |-> 0, depth |-> 0, after |-> "GROUND_STATE", id |-> 0,
     type |-> "BAD", inbuf |-> <<>>, ptr |-> 0, out |-> <<>>, accepted |-> FALSE]

-----------------------------------------------------------------------------
(* packet_get() *)

Buffered == Len(lexer.inbuf) - lexer.ptr

\* The read returns some bytes, as many as fit at the most, and parsing starts.
Read ==
    /\ ~parsing /\ pos < Len(Sent)
    /\ \E n \in ReadSizes :
          LET got == Min({n, InBuffer - Len(lexer.inbuf), Len(Sent) - pos})
          IN  /\ got > 0
              /\ pos' = pos + got
              /\ lexer' = [lexer EXCEPT !.inbuf = @ \o SubSeq(Sent, pos + 1, pos + got),
                                        !.out = <<>>, !.accepted = FALSE]
    /\ parsing' = TRUE
    /\ UNCHANGED <<stream, log>>

\* The read returns nothing, EAGAIN or the end, but there is input left from before.
ReadNothing ==
    /\ ~parsing /\ Buffered > 0
    /\ lexer' = [lexer EXCEPT !.out = <<>>, !.accepted = FALSE]
    /\ parsing' = TRUE
    /\ UNCHANGED <<stream, pos, log>>

\* Mutant of Flushed: a full buffer stays, and nothing more can be read.
FlushedNever(lx) == lx

\* A buffer that is full of what nothing was made of is emptied.
Flushed(lx) ==
    IF Len(lx.inbuf) < InBuffer THEN lx
    ELSE [lx EXCEPT !.inbuf = SubSeq(@, lx.ptr + 1, Len(@)), !.ptr = 0, !.state = "GROUND_STATE"]

\* packet_parse() has come to a packet, or to the end of the input.
Return ==
    /\ parsing /\ (lexer.accepted \/ Buffered = 0)
    /\ parsing' = FALSE
    /\ lexer' = [Flushed(lexer) EXCEPT !.accepted = FALSE]
    /\ log' = IF lexer.out = <<>> THEN log ELSE Append(log, <<lexer.type, Len(lexer.out)>>)
    /\ UNCHANGED <<stream, pos>>

-----------------------------------------------------------------------------
(* packet_parse() *)

\* Mutant of CharacterDiscard: what was parsed goes, as the comment on error
\* handling at the top of the file has it.
CharacterForget(lx) == [lx EXCEPT !.inbuf = SubSeq(@, lx.ptr + 1, Len(@)), !.ptr = 0]

\* Mutant of CharacterDiscard: one byte less is counted but none is moved.
CharacterUnmoved(lx) == [lx EXCEPT !.inbuf = Front(@), !.ptr = 0]

\* character_discard(): the first byte goes, the others are parsed again.
CharacterDiscard(lx) == [lx EXCEPT !.inbuf = Tail(@), !.ptr = 0]

\* Mutant of PacketDiscard: the byte after the packet goes too.
PacketDiscardMore(lx) == [lx EXCEPT !.inbuf = SubSeq(@, lx.ptr + 2, Len(@)), !.ptr = 0]

\* packet_discard(): what has been parsed goes.
PacketDiscard(lx) == [lx EXCEPT !.inbuf = SubSeq(@, lx.ptr + 1, Len(@)), !.ptr = 0]

\* packet_accept(): a packet that fills the buffer does not fit.
PacketAccept(lx, type) ==
    IF lx.ptr < InBuffer THEN [lx EXCEPT !.out = Parsed(lx), !.type = type] ELSE lx

\* What packet_parse() does about a packet that the state machine recognized.
Accepted(lx, type) ==
    IF lx.state = "TSIP_RECOGNIZED" /\ TsipLength(Parsed(lx)) < 5
    THEN [lx EXCEPT !.state = "GROUND_STATE"]
    ELSE IF lx.state = "GTXT_RECOGNIZED" /\ type = "BAD"
    THEN [PacketAccept(lx, type) EXCEPT !.state = "GROUND_STATE"]
    ELSE [PacketDiscard(PacketAccept(lx, type))
            EXCEPT !.state = StateAfter(lx.state, type), !.accepted = TRUE]

LookingAhead == {"ITALK_LEADER_2", "ITALK_PAYLOAD"}

\* The results nextstate() may have for the next byte.
Results ==
    {Nextstate([lexer EXCEPT !.ptr = @ + 1], lexer.inbuf[lexer.ptr + 1], stale) :
        stale \in IF lexer.state \in LookingAhead THEN StaleBytes \X StaleBytes ELSE {<<0, 0>>}}

\* The types that the packet just recognized may be accepted as.
Types(state, packet) ==
    IF state = "ITALK_RECOGNIZED" /\ ItalkRunt(packet) THEN {"ITALK", "BAD"}
    ELSE {TypeOf(state, packet, lexer.type)}

\* A byte is taken, the state machine makes a step, and its result is acted on.
Character ==
    /\ parsing /\ ~lexer.accepted /\ Buffered > 0
    /\ \E next \in Results :
          \/ next.state = "GROUND_STATE" /\ lexer' = CharacterDiscard(next)
          \/ next.state \notin Recognized \cup {"GROUND_STATE"} /\ lexer' = next
          \/ /\ next.state \in Recognized
             /\ \E packet \in {Parsed(next)} : \E type \in Types(next.state, packet) : lexer' = Accepted(next, type)
    /\ UNCHANGED <<stream, pos, parsing, log>>

-----------------------------------------------------------------------------

Init ==
    /\ stream \in Streams
    /\ pos = 0
    /\ parsing = FALSE
    /\ lexer = FreshLexer
    /\ log = <<>>

Next == Read \/ ReadNothing \/ Character \/ Return

Spec == Init /\ [][Next]_vars

\* The event loop calls packet_get() while the device has sent something or
\* something is buffered, and each call ends.
FairSpec == Spec /\ WF_vars(Next)

-----------------------------------------------------------------------------
(* Properties *)

\* The machine, its counters and its buffers have their types, the read pointer
\* stays inside the buffer and the buffer inside its array.
TypeOK ==
    /\ stream \in Streams
    /\ pos \in 0..Len(Sent)
    /\ parsing \in BOOLEAN
    /\ lexer.inbuf \in Seq(Byte) /\ Len(lexer.inbuf) <= InBuffer
    /\ lexer.ptr \in 0..Len(lexer.inbuf)
    /\ lexer.out \in Seq(Byte) /\ Len(lexer.out) < InBuffer
    /\ lexer.length \in 0..(SIZE - 1) /\ lexer.depth \in Nat
    /\ lexer.type \in PacketTypes

\* The buffer holds the bytes read last, in their order and without a gap,
\* whatever was discarded, pushed back or accepted.
BufferIsTail ==
    /\ Len(lexer.inbuf) <= pos
    /\ lexer.inbuf = SubSeq(Sent, pos - Len(lexer.inbuf) + 1, pos)

\* How many bytes of the input have left the buffer.
Start == pos - Len(lexer.inbuf)

\* Every packet is one piece of what the device sent, beginning where the last one or
\* what was discarded since ended; with its acceptance just its bytes leave the buffer,
\* and no byte that has left it ever comes back: packet_parse() neither invents, skips,
\* repeats nor reorders a byte inside of a packet, nor takes one for two packets.
PacketsAreCut ==
    [][ /\ Start' >= Start
        /\ lexer'.out \notin {lexer.out, <<>>} =>
              /\ lexer'.out = SubSeq(Sent, Start + 1, Start + Len(lexer'.out))
              /\ lexer'.accepted => Start' = Start + Len(lexer'.out) ]_vars

\* How many times the byte that follows can still be pushed back.
Patience(state) ==
    CASE state \in {"JSON_NUMBER", "JSON_SPECIAL"} -> 2
      [] state \in {"GROUND_STATE", "JSON_EXPECT_VALUE", "JSON_END_VALUE"} -> 1
      [] OTHER -> 0

\* The loop of packet_parse() comes to its end: each turn either lets go of a byte for
\* good, or takes one more, or pushes it back in a state with less patience; none goes
\* round with the same byte, though bytes are pushed back and buffers parsed again.
ParsingAdvances ==
    [][ parsing /\ parsing' =>
          \/ Start' > Start
          \/ Start' = Start /\ lexer'.ptr > lexer.ptr
          \/ Start' = Start /\ lexer'.ptr = lexer.ptr /\ Patience(lexer'.state) < Patience(lexer.state) ]_vars

\* A UBX message as a receiver sends it, with a payload, and a sentence of a GPS.
UbxFrame(bytes) ==
    LET payload == bytes[5] + 256 * bytes[6]
    IN  /\ 8 < Len(bytes) /\ Len(bytes) < InBuffer
        /\ bytes[1] = 181 /\ bytes[2] = 98
        /\ payload <= MaxPacketLength /\ Len(bytes) = payload + 8
        /\ UbxOk(bytes)

NmeaFrame(bytes) ==
    LET last == Len(bytes)
    IN  /\ 4 < last /\ last < InBuffer
        /\ bytes[1] = Chr("$") /\ bytes[2] = Chr("G") /\ bytes[3] \in OneOf({"P", "N", "L"})
        /\ \A i \in 4..(last - 2) : bytes[i] \in Printing \ OneOf({"$"})
        /\ bytes[last - 1] = Chr("\r") /\ bytes[last] = Chr("\n")
        /\ NmeaType(bytes) = "NMEA"

FrameType(bytes) == IF UbxFrame(bytes) THEN "UBX" ELSE "NMEA"

\* What a u-blox receiver sends: "NMEA and UBX back to back".
UbloxStreams ==
    {s \in Streams : \A i \in DOMAIN s : UbxFrame(s[i].bytes) \/ NmeaFrame(s[i].bytes)}

\* A receiver that mixes the two protocols is understood from the first byte to the last,
\* however the reads cut what it sends: its packets come in order with their bytes and
\* types, none is lost to a change of protocol, and once all that was read has been
\* parsed they have all come.
UbloxComesWhole ==
    stream \in UbloxStreams =>
        /\ Len(log) <= Len(stream)
        /\ \A n \in DOMAIN log : log[n] = <<FrameType(stream[n].bytes), Len(stream[n].bytes)>>
        /\ lexer.accepted => Len(log) < Len(stream) /\ lexer.out = stream[Len(log) + 1].bytes
        /\ ~parsing /\ pos = Len(Sent) /\ Buffered = 0 => Len(log) = Len(stream)

\* The kinds that may follow a packet of a kind at once: its own, and where NMEA
\* and UBX come back to back, or comments, each other.
MayFollow(kind) ==
    CASE kind = "none" -> {"COMMENT", "NMEA", "SIRF", "SUPERSTAR2", "AT", "DLE", "RTCM3", "ZODIAC", "UBX",
                           "EVERMORE", "ITALK", "NAVCOM", "GEOSTAR", "JSON", "DELORME", "AIS"}
      [] kind = "NMEA" -> {"COMMENT", "NMEA", "AIS", "UBX"}
      [] kind = "UBX" -> {"NMEA", "UBX"}
      [] kind = "DLE" -> {"DLE", "EVERMORE"}
      [] OTHER -> {kind}

\* The kind that is expected after each item: none after noise, a spoilt packet or
\* one that was not expected itself and has lost its first byte.
Kinds ==
    LET kind[i \in 0..Len(stream)] ==
            IF i = 0 \/ stream[i].starts \notin MayFollow(kind[i - 1]) THEN "none" ELSE stream[i].ends
    IN  kind

Follows(i) == stream[i].starts \in MayFollow(Kinds[i - 1])

\* What should come of a stream: every packet, except one that changes the
\* protocol; spoilt packets as bad ones.
Expected ==
    LET found == SelectSeq([i \in DOMAIN stream |-> i], LAMBDA i : stream[i].type # "none" /\ Follows(i))
    IN  [n \in DOMAIN found |-> <<stream[found[n]].type, Len(stream[found[n]].bytes)>>]

\* A stream of packets that are always found: none that the length or the lookahead
\* of the code goes wrong on, not both of the types that one flag tells apart, and
\* none that loses its first byte when the rest of it reads as another packet.
Tame ==
    /\ \A i \in DOMAIN stream : ~stream[i].wild /\ (stream[i].brittle => Follows(i))
    /\ {"TSIP", "GARMIN"} \cap {stream[i].type : i \in DOMAIN stream} # {"TSIP", "GARMIN"}

\* However the reads cut the stream, the packets returned are those it was made
\* of, whole, in order, with their types and once each.
PacketsAreTheItems == Tame => IsPrefix(log, Expected)

\* They all come.
PacketsArrive == Tame ~> (Tame => log = Expected)

\* The stream ends with more copies of a packet than the buffer has room for.
Final == Last(stream)
Enough == InBuffer \div Len(Final.bytes) + 2
Repeating ==
    /\ Final.type # "none" /\ Len(stream) > Enough
    /\ \A i \in (Len(stream) - Enough + 1)..Len(stream) : stream[i] = Final

\* Whatever came before, a packet that is repeated gets through in the end.
RepeatedPacketGetsThrough ==
    Repeating ~> (log # <<>> /\ Last(log) = <<Final.type, Len(Final.bytes)>>)
=============================================================================
