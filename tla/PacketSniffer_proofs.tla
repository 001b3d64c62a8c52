------------------------ MODULE PacketSniffer_proofs ------------------------
(***************************************************************************)
(* Proofs about PacketSniffer, for any streams, reads and size of the      *)
(* buffer: nothing that is discarded, pushed back or accepted opens a gap  *)
(* in the input buffer; the machine never leaves its states, its counters  *)
(* never wrap below 0 and the buffers are never overrun; packets are cut   *)
(* out of the input one after the other; packet_parse() comes to its end;  *)
(* and a stream of UBX messages and NMEA sentences comes whole.            *)
(*                                                                         *)
(* Leaves about numbers as large as SIZE name SMT alone, and leaves about  *)
(* characters and their codes Zenon alone.                                 *)
(***************************************************************************)
EXTENDS PacketSniffer, SequenceTheorems, WellFoundedInduction, TLAPS

Fields == {"state", "length", "depth", "after", "id", "type", "inbuf", "ptr", "out", "accepted"}

\* A buffer that ends with the byte read last.
TailOf(buffer, sent, at) ==
    /\ buffer \in Seq(Byte)
    /\ Len(buffer) <= at
    /\ \A i \in 1..Len(buffer) : buffer[i] = sent[at - Len(buffer) + i]

Held(lx, sent, at) == DOMAIN lx = Fields /\ TailOf(lx.inbuf, sent, at) /\ lx.ptr \in 0..Len(lx.inbuf)

Inv == stream \in Streams /\ pos \in 0..Len(Sent) /\ Held(lexer, Sent, pos)

-----------------------------------------------------------------------------
(* Induction, and what FlattenSeq makes of the items of a stream *)

\* A set of numbers that is not empty has a least member.
LEMMA LeastMember ==
    ASSUME NEW S, S \subseteq Nat, S # {}
    PROVE  \E x \in S : \A y \in S : x <= y
  <1> DEFINE less == OpToRel(<, Nat)
  <1>1. IsWellFoundedOn(less, Nat)
    BY NatLessThanWellFounded
  <1>2. ASSUME NEW x \in Nat, NEW y \in Nat PROVE <<y, x>> \in less <=> y < x
    BY DEF OpToRel
  <1> HIDE DEF less
  <1>3. \E x \in S : \A y \in S : ~(<<y, x>> \in less)
    BY <1>1, WFMin
  <1>4. PICK x \in S : \A y \in S : ~(<<y, x>> \in less)
    BY <1>3
  <1>5. ASSUME NEW y \in S PROVE x <= y
    <2>1. x \in Nat /\ y \in Nat
      OBVIOUS
    <2>2. ~(y < x)
      BY <1>2, <1>4, <2>1
    <2> QED
      BY <2>1, <2>2
  <1> QED
    BY <1>5

\* A set that has 0, and with a number the next one up to n, has all of them.
LEMMA Climbing ==
    ASSUME NEW n \in Nat, NEW S, 0 \in S, \A k \in 0..(n - 1) : k \in S => k + 1 \in S
    PROVE  0..n \subseteq S
  <1> DEFINE missed == (0..n) \ S
  <1> SUFFICES ASSUME missed # {} PROVE FALSE
    OBVIOUS
  <1>1. missed \subseteq Nat
    OBVIOUS
  <1> HIDE DEF missed
  <1>2. PICK m \in missed : \A y \in missed : m <= y
    BY <1>1, LeastMember
  <1>3. m \in 0..n /\ m \notin S
    BY <1>2 DEF missed
  <1>4. m # 0 /\ m - 1 \in 0..(n - 1)
    BY <1>3
  <1>5. m - 1 \in S
    BY <1>1, <1>2, <1>4 DEF missed
  <1>6. (m - 1) + 1 \in S
    BY <1>4, <1>5
  <1> QED
    BY <1>3, <1>6

\* What FlattenSeq puts together: the pieces one after the other, from their offsets on.
Laid(seqs, off) ==
    /\ off \in [0..Len(seqs) -> Nat] /\ off[0] = 0
    /\ \A i \in 1..Len(seqs) : off[i] = off[i - 1] + Len(seqs[i])
    /\ \A i, k \in 0..Len(seqs) : i <= k => off[i] <= off[k]
    /\ FlattenSeq(seqs) \in Seq(Byte) /\ Len(FlattenSeq(seqs)) = off[Len(seqs)]
    /\ \A i \in 1..Len(seqs) : \A j \in 1..Len(seqs[i]) : FlattenSeq(seqs)[off[i - 1] + j] = seqs[i][j]

\* The function that FlattenSeq is the last value of.
Joins(seqs, f) == f = [i \in 1..Len(seqs) |-> IF i = 1 THEN seqs[i] ELSE f[i - 1] \o seqs[i]]

LEMMA JoinExists ==
    ASSUME NEW seqs \in Seq(Seq(Byte))
    PROVE  \E f : Joins(seqs, f)
  <1> DEFINE n == Len(seqs)
             UpTo(k, f) == /\ f \in [1..k -> Seq(Byte)]
                           /\ \A i \in 1..k : f[i] = IF i = 1 THEN seqs[i] ELSE f[i - 1] \o seqs[i]
             S == {k \in 0..n : \E f : UpTo(k, f)}
  <1>1. n \in Nat /\ \A i \in 1..n : seqs[i] \in Seq(Byte)
    OBVIOUS
  <1> HIDE DEF n
  <1>2. 0 \in S
    <2>1. UpTo(0, [i \in 1..0 |-> <<>>])
      OBVIOUS
    <2>2. 0 \in 0..n
      BY <1>1
    <2> HIDE DEF UpTo
    <2> QED
      BY <2>1, <2>2
  <1>3. ASSUME NEW k \in 0..(n - 1), k \in S PROVE k + 1 \in S
    <2>1. PICK f : UpTo(k, f)
      BY <1>3
    <2> DEFINE next == IF k = 0 THEN seqs[k + 1] ELSE f[k] \o seqs[k + 1]
               g == [i \in 1..(k + 1) |-> IF i = k + 1 THEN next ELSE f[i]]
    <2>2. k + 1 \in 1..n /\ k + 1 \in 0..n /\ k \in Nat
      BY <1>1
    <2>3. next \in Seq(Byte)
      <3>1. k # 0 => f[k] \in Seq(Byte)
        BY <2>1, <2>2
      <3>2. k # 0 => f[k] \o seqs[k + 1] \in Seq(Byte)
        BY <1>1, <2>2, <3>1, ConcatProperties
      <3> QED
        BY <1>1, <2>2, <3>2
    <2> DEFINE last == next
    <2>4. \A i \in 1..k : i # k + 1 /\ i \in 1..(k + 1) /\ g[i] = f[i]
      BY <2>2
    <2>5. g[k + 1] = next
      BY <2>2
    <2>6. g \in [1..(k + 1) -> Seq(Byte)]
      <3> HIDE DEF next
      <3>1. \A i \in 1..(k + 1) : i # k + 1 => i \in 1..k
        BY <2>2
      <3> QED
        BY <2>1, <2>3, <3>1
    <2>7. ASSUME NEW i \in 1..(k + 1) PROVE g[i] = IF i = 1 THEN seqs[i] ELSE g[i - 1] \o seqs[i]
      <3>1. CASE i = k + 1
        <4>1. i # 1 => k \in 1..k /\ i - 1 = k
          BY <2>2, <3>1
        <4>2. i = 1 <=> k = 0
          BY <2>2, <3>1
        <4>3. i # 1 => g[i - 1] = f[k]
          BY <2>4, <4>1
        <4> HIDE DEF g
        <4> QED
          BY <2>5, <3>1, <4>1, <4>2, <4>3
      <3>2. CASE i # k + 1
        <4>1. i \in 1..k /\ (i # 1 => i - 1 \in 1..k)
          BY <2>2, <3>2
        <4>2. g[i] = f[i] /\ (i # 1 => g[i - 1] = f[i - 1])
          BY <2>4, <4>1
        <4> HIDE DEF g
        <4> QED
          BY <2>1, <4>1, <4>2
      <3> QED
        BY <3>1, <3>2
    <2> HIDE DEF g
    <2>8. UpTo(k + 1, g)
      BY <2>6, <2>7
    <2> QED
      BY <2>2, <2>8
  <1>4. n \in S
    <2> HIDE DEF S
    <2>1. 0..n \subseteq S
      BY <1>1, <1>2, <1>3, Climbing
    <2> QED
      BY <1>1, <2>1
  <1>5. PICK f : UpTo(n, f)
    BY <1>4
  <1>6. f = [i \in 1..n |-> IF i = 1 THEN seqs[i] ELSE f[i - 1] \o seqs[i]]
    BY <1>5
  <1> QED
    BY <1>6 DEF Joins, n

LEMMA FlattenLays ==
    ASSUME NEW seqs \in Seq(Seq(Byte))
    PROVE  \E off : Laid(seqs, off)
  <1> DEFINE n == Len(seqs)
             f == CHOOSE g : Joins(seqs, g)
             off == [k \in 0..n |-> IF k = 0 THEN 0 ELSE Len(f[k])]
  <1>1. n \in Nat /\ \A i \in 1..n : seqs[i] \in Seq(Byte) /\ Len(seqs[i]) \in Nat
    OBVIOUS
  <1>2. \A i \in 1..n : f[i] = IF i = 1 THEN seqs[i] ELSE f[i - 1] \o seqs[i]
    <2>1. Joins(seqs, f)
      BY JoinExists
    <2> HIDE DEF f
    <2> QED
      BY <2>1 DEF Joins
  <1>3. FlattenSeq(seqs) = IF n = 0 THEN seqs ELSE f[n]
    BY DEF FlattenSeq, Joins
  <1> HIDE DEF n, f
  <1> DEFINE Good(k) ==
                /\ off[k] \in Nat
                /\ k # 0 => f[k] \in Seq(Byte) /\ off[k] = off[k - 1] + Len(seqs[k])
                /\ \A i \in 0..k : off[i] <= off[k]
                /\ k # 0 => \A i \in 1..k : \A j \in 1..Len(seqs[i]) : f[k][off[i - 1] + j] = seqs[i][j]
             S == {k \in 0..n : Good(k)}
  <1>4. off[0] = 0 /\ \A k \in 1..n : off[k] = Len(f[k])
    BY <1>1
  <1> HIDE DEF off
  <1>5. 0 \in S
    BY <1>1, <1>4
  <1>6. ASSUME NEW k \in 0..(n - 1), \A i \in 0..k : i \in S PROVE k + 1 \in S
    <2>0. k \in Nat /\ k + 1 \in 1..n /\ k + 1 \in 0..n /\ (k + 1) - 1 = k /\ k \in 0..k
      BY <1>1
    <2>1. /\ k \in Nat /\ k + 1 \in 1..n /\ k + 1 \in 0..n /\ (k + 1) - 1 = k
          /\ Good(k) /\ \A i \in 0..k : off[i] \in Nat
      BY <1>6, <2>0
    <2>2. seqs[k + 1] \in Seq(Byte) /\ Len(seqs[k + 1]) \in Nat
      BY <1>1, <2>1
    <2> DEFINE piece == seqs[k + 1]
               size == Len(piece)
    <2>3. CASE k = 0
      <3>1. f[k + 1] = seqs[k + 1]
        BY <1>2, <2>1, <2>3
      <3>2. off[k + 1] = off[k] + size
        BY <1>4, <2>1, <2>2, <2>3, <3>1
      <3>3. \A i \in 1..(k + 1) : i = k + 1 /\ off[i - 1] = 0
        BY <1>4, <2>3
      <3>4. \A j \in 1..size : 0 + j = j
        BY <2>2
      <3>5. \A i \in 0..(k + 1) : off[i] <= off[k + 1]
        BY <1>4, <2>2, <2>3, <3>2
      <3>6. \A i \in 1..(k + 1) : \A j \in 1..Len(seqs[i]) : f[k + 1][off[i - 1] + j] = seqs[i][j]
        BY <3>1, <3>3, <3>4
      <3>7. k + 1 # 0 /\ (k + 1) - 1 = k /\ off[k + 1] \in Nat
        BY <1>4, <2>1, <2>2, <2>3, <3>2
      <3>8. Good(k + 1)
        BY <2>2, <3>1, <3>2, <3>5, <3>6, <3>7
      <3> HIDE DEF Good
      <3> QED
        BY <2>0, <3>8
    <2>4. CASE k # 0
      <3>0. k \in 1..n /\ k + 1 # 1
        BY <1>1, <2>0, <2>4
      <3>1. k \in 1..n /\ f[k] \in Seq(Byte) /\ off[k] = Len(f[k])
        BY <1>4, <2>1, <2>4, <3>0
      <3> DEFINE before == f[k]
      <3>2. f[k + 1] = before \o piece
        BY <1>2, <2>0, <3>0
      <3>3. before \in Seq(Byte) /\ piece \in Seq(Byte)
        BY <2>2, <3>1
      <3> HIDE DEF before, piece
      <3>3a. /\ before \o piece \in Seq(Byte) /\ Len(before \o piece) = Len(before) + size
            /\ \A i \in 1..(Len(before) + size) :
                  (before \o piece)[i] = IF i <= Len(before) THEN before[i] ELSE piece[i - Len(before)]
        BY <3>3, ConcatProperties
      <3>4. off[k + 1] = off[k] + size /\ off[k] = Len(before) /\ size \in Nat
        BY <1>4, <2>1, <2>2, <3>1, <3>2, <3>3a DEF before, piece
      <3>5. off[k + 1] \in Nat
        BY <2>1, <3>4
      <3> HIDE DEF size
      <3>6. ASSUME NEW i \in 0..(k + 1) PROVE off[i] <= off[k + 1]
        <4>1. CASE i = k + 1
          BY <3>5, <4>1
        <4>2. CASE i # k + 1
          <5>1. i \in 0..k
            BY <2>1, <4>2
          <5> QED
            BY <2>1, <3>4, <5>1
        <4> QED
          BY <4>1, <4>2
      <3>7. ASSUME NEW i \in 1..(k + 1), NEW j \in 1..Len(seqs[i])
            PROVE  f[k + 1][off[i - 1] + j] = seqs[i][j]
        <4>1. CASE i = k + 1
          <5>1. i - 1 = k /\ j \in 1..size
            BY <2>1, <4>1 DEF size, piece
          <5> DEFINE at == off[k] + j
          <5>2. at \in 1..(Len(before) + size) /\ ~(at <= Len(before)) /\ at - Len(before) = j
            BY <2>1, <3>4, <5>1
          <5> HIDE DEF at
          <5>3. (before \o piece)[at] = piece[at - Len(before)]
            BY <3>3a, <5>2
          <5>4. f[k + 1][at] = piece[j]
            BY <3>2, <5>2, <5>3
          <5> QED
            BY <4>1, <5>1, <5>4 DEF at, piece
        <4>2. CASE i # k + 1
          <5>1. i \in 1..k /\ i - 1 \in 0..k /\ i \in 0..k /\ i \in 1..n
            BY <1>1, <2>1, <4>2
          <5>2. off[i] = off[i - 1] + Len(seqs[i]) /\ off[i] <= off[k] /\ Len(seqs[i]) \in Nat
            <6>0. i # 0 /\ Len(seqs[i]) \in Nat
              BY <1>1, <5>1
            <6>1. i \in S
              BY <1>6, <5>1
            <6>2. Good(i)
              BY <6>1
            <6>3. \A m \in 0..k : off[m] <= off[k]
              BY <2>1
            <6> QED
              BY <5>1, <6>0, <6>2, <6>3
          <5>3. f[k][off[i - 1] + j] = seqs[i][j]
            BY <2>1, <2>4, <5>1
          <5>4. off[i - 1] + j \in 1..(Len(before) + size) /\ off[i - 1] + j <= Len(before)
            <6>1. off[i - 1] \in Nat /\ off[i] \in Nat /\ off[k] \in Nat
              BY <2>1, <5>1
            <6> DEFINE a == off[i - 1]
                       b == off[i]
                       p == Len(seqs[i])
                       w == Len(before)
            <6>2. /\ a \in Nat /\ b \in Nat /\ p \in Nat /\ w \in Nat /\ size \in Nat
                  /\ b = a + p /\ b <= w /\ j \in 1..p
              BY <3>4, <5>2, <6>1
            <6> HIDE DEF a, b, p, w
            <6>3. a + j \in 1..(w + size) /\ a + j <= w
              BY <6>2
            <6> QED
              BY <6>3 DEF a, w
          <5> QED
            BY <3>2, <3>3a, <5>3, <5>4 DEF before
        <4> QED
          BY <4>1, <4>2
      <3>8. k + 1 # 0 /\ (k + 1) - 1 = k
        BY <2>1
      <3>9. Good(k + 1)
        BY <3>2, <3>3a, <3>4, <3>5, <3>6, <3>7, <3>8 DEF size, piece
      <3> QED
        BY <2>1, <3>9
    <2> QED
      BY <2>3, <2>4
  <1>7. \A k \in 0..n : k \in S
    <2> DEFINE T == {k \in 0..n : \A i \in 0..k : i \in S}
    <2>1. 0 \in T
      BY <1>1, <1>5
    <2>2. ASSUME NEW k \in 0..(n - 1), k \in T PROVE k + 1 \in T
      <3> HIDE DEF S
      <3>1. k + 1 \in S
        BY <1>6, <2>2
      <3>2. \A i \in 0..(k + 1) : i \in 0..k \/ i = k + 1
        BY <1>1
      <3> QED
        BY <1>1, <2>2, <3>1, <3>2
    <2> HIDE DEF S
    <2>3. 0..n \subseteq T
      <3> HIDE DEF T
      <3> QED
        BY <1>1, <2>1, <2>2, Climbing
    <2>4. n \in T
      <3> HIDE DEF T
      <3> QED
        BY <1>1, <2>3
    <2> QED
      BY <2>4
  <1>8. \A k \in 0..n : Good(k)
    BY <1>7
  <1>9. off \in [0..n -> Nat]
    BY <1>8 DEF off
  <1>10. \A i \in 1..n : off[i] = off[i - 1] + Len(seqs[i])
    BY <1>1, <1>8
  <1>11. \A i, k \in 0..n : i <= k => off[i] <= off[k]
    <2> SUFFICES ASSUME NEW i \in 0..n, NEW k \in 0..n, i <= k PROVE off[i] <= off[k]
      OBVIOUS
    <2>1. i \in 0..k
      BY <1>1
    <2> QED
      BY <1>8, <2>1
  <1>12. /\ FlattenSeq(seqs) \in Seq(Byte) /\ Len(FlattenSeq(seqs)) = off[n]
         /\ \A i \in 1..n : \A j \in 1..Len(seqs[i]) : FlattenSeq(seqs)[off[i - 1] + j] = seqs[i][j]
    <2>1. CASE n = 0
      <3>1. seqs = <<>> /\ \A i \in 1..n : FALSE
        BY <2>1 DEF n
      <3> HIDE DEF Good, S
      <3> QED
        BY <1>3, <1>4, <2>1, <3>1
    <2>2. CASE n # 0
      <3>1. n \in 0..n /\ n \in 1..n
        BY <1>1, <2>2
      <3>2. Good(n) /\ FlattenSeq(seqs) = f[n]
        <4> HIDE DEF Good
        <4> QED
          BY <1>3, <1>8, <2>2, <3>1
      <3> QED
        BY <1>4, <2>2, <3>1, <3>2
    <2> QED
      BY <2>1, <2>2
  <1>13. Laid(seqs, off)
    <2>1. n = Len(seqs)
      BY DEF n
    <2> HIDE DEF Good, S
    <2> QED
      BY <1>4, <1>9, <1>10, <1>11, <1>12, <2>1 DEF Laid
  <1> QED
    BY <1>13

LEMMA ItemsAreLaid ==
    ASSUME NEW s \in Streams
    PROVE  \E off : Laid([i \in DOMAIN s |-> s[i].bytes], off)
  <1>1. s \in Seq(Item) /\ DOMAIN s = 1..Len(s) /\ Len(s) \in Nat
    BY PacketSnifferAssumption
  <1>2. \A i \in 1..Len(s) : s[i].bytes \in Seq(Byte)
    <2>1. \A item \in Item : item.bytes \in Seq(Byte)
      BY DEF Item
    <2> QED
      BY <1>1, <2>1, ElementOfSeq
  <1>3. [i \in DOMAIN s |-> s[i].bytes] \in Seq(Seq(Byte))
    <2> DEFINE pieces == [i \in 1..Len(s) |-> s[i].bytes]
    <2>1. pieces \in [1..Len(s) -> Seq(Byte)]
      BY <1>2
    <2> HIDE DEF pieces
    <2>2. pieces \in Seq(Seq(Byte))
      BY <1>1, <2>1
    <2> QED
      BY <1>1, <2>2 DEF pieces
  <1> QED
    BY <1>3, FlattenLays

LEMMA StreamsAreBytes == \A s \in Streams : BytesOf[s] \in Seq(Byte)
  BY ItemsAreLaid DEF Laid, BytesOf

-----------------------------------------------------------------------------
(* Buffers *)

LEMMA SuffixIsTail ==
    ASSUME NEW sent, NEW buffer, NEW at \in Nat, TailOf(buffer, sent, at), NEW n \in 0..Len(buffer)
    PROVE  TailOf(SubSeq(buffer, n + 1, Len(buffer)), sent, at)
  <1> DEFINE rest == SubSeq(buffer, n + 1, Len(buffer))
  <1>1. buffer \in Seq(Byte) /\ Len(buffer) \in Nat /\ Len(buffer) <= at
    BY DEF TailOf
  <1>2. /\ rest \in Seq(Byte) /\ Len(rest) = Len(buffer) - n
        /\ \A i \in 1..Len(rest) : rest[i] = buffer[n + i]
    <2>1. \A i \in (n + 1)..Len(buffer) : buffer[i] \in Byte
      BY <1>1
    <2>2. /\ rest \in Seq(Byte)
          /\ Len(rest) = IF n + 1 <= Len(buffer) THEN Len(buffer) - (n + 1) + 1 ELSE 0
          /\ \A i \in 1..(Len(buffer) - (n + 1) + 1) : rest[i] = buffer[(n + 1) + i - 1]
      BY <1>1, <2>1, SubSeqProperties
    <2> HIDE DEF rest
    <2> QED
      BY <1>1, <2>2
  <1> HIDE DEF rest
  <1>3. ASSUME NEW i \in 1..Len(rest) PROVE rest[i] = sent[at - Len(rest) + i]
    <2>1. n + i \in 1..Len(buffer)
      BY <1>1, <1>2
    <2>2. buffer[n + i] = sent[at - Len(buffer) + (n + i)]
      BY <2>1 DEF TailOf
    <2>3. at - Len(buffer) + (n + i) = at - Len(rest) + i
      BY <1>1, <1>2
    <2> QED
      BY <1>2, <2>2, <2>3
  <1>4. Len(rest) <= at
    BY <1>1, <1>2
  <1>5. TailOf(rest, sent, at)
    BY <1>2, <1>3, <1>4 DEF TailOf
  <1> QED
    BY <1>5 DEF rest

LEMMA ReadIsTail ==
    ASSUME NEW sent \in Seq(Byte), NEW at \in 0..Len(sent), NEW buffer, TailOf(buffer, sent, at),
           NEW got \in 1..(Len(sent) - at)
    PROVE  TailOf(buffer \o SubSeq(sent, at + 1, at + got), sent, at + got)
  <1> DEFINE read == SubSeq(sent, at + 1, at + got)
             all == buffer \o read
  <1>1. buffer \in Seq(Byte) /\ Len(buffer) \in Nat /\ Len(sent) \in Nat /\ Len(buffer) <= at
    BY DEF TailOf
  <1>2. read \in Seq(Byte) /\ Len(read) = got /\ \A i \in 1..got : read[i] = sent[at + i]
    <2>1. \A i \in (at + 1)..(at + got) : sent[i] \in Byte
      BY <1>1
    <2>2. /\ read \in Seq(Byte)
          /\ Len(read) = IF at + 1 <= at + got THEN (at + got) - (at + 1) + 1 ELSE 0
          /\ \A i \in 1..((at + got) - (at + 1) + 1) : read[i] = sent[(at + 1) + i - 1]
      BY <1>1, <2>1, SubSeqProperties
    <2> HIDE DEF read
    <2> QED
      BY <1>1, <2>2
  <1> HIDE DEF read
  <1>3. /\ all \in Seq(Byte) /\ Len(all) = Len(buffer) + got
        /\ \A i \in 1..Len(all) : all[i] = IF i <= Len(buffer) THEN buffer[i] ELSE read[i - Len(buffer)]
    BY <1>1, <1>2, ConcatProperties
  <1> HIDE DEF all
  <1>4. ASSUME NEW i \in 1..Len(all) PROVE all[i] = sent[(at + got) - Len(all) + i]
    <2>1. (at + got) - Len(all) + i = at - Len(buffer) + i
      BY <1>1, <1>3
    <2>2. CASE i <= Len(buffer)
      BY <1>1, <1>3, <2>1, <2>2, SMTT(30) DEF TailOf
    <2>3. CASE ~(i <= Len(buffer))
      <3>1. i - Len(buffer) \in 1..got /\ at + (i - Len(buffer)) = at - Len(buffer) + i
        BY <1>1, <1>3, <2>3
      <3>2. read[i - Len(buffer)] = sent[at + (i - Len(buffer))]
        BY <1>2, <3>1
      <3> QED
        BY <1>3, <2>1, <2>3, <3>1, <3>2
    <2> QED
      BY <2>2, <2>3
  <1> QED
    BY <1>1, <1>3, <1>4 DEF TailOf, all, read

LEMMA LeastOfThree ==
    ASSUME NEW a \in Int, NEW b \in Int, NEW c \in Int
    PROVE  Min({a, b, c}) \in Int /\ Min({a, b, c}) <= b /\ Min({a, b, c}) <= c
  <1>1. \E x \in {a, b, c} : \A y \in {a, b, c} : x <= y
    OBVIOUS
  <1> QED
    BY <1>1 DEF Min

-----------------------------------------------------------------------------
(* Steps of the state machine *)

\* nextstate() leaves the buffer alone and takes one byte, or pushes it back.
LEMMA NextstateHolds ==
    ASSUME Inv, Buffered > 0, NEW next \in Results
    PROVE  Held(next, Sent, pos) /\ next.inbuf # <<>>
  <1>1. DOMAIN lexer = Fields /\ TailOf(lexer.inbuf, Sent, pos) /\ lexer.ptr \in 0..Len(lexer.inbuf)
    BY DEF Inv, Held
  <1>2. lexer.inbuf \in Seq(Byte) /\ Len(lexer.inbuf) \in Nat /\ lexer.ptr + 1 \in 1..Len(lexer.inbuf)
    BY <1>1 DEF Buffered, TailOf
  <1> DEFINE taken == [lexer EXCEPT !.ptr = lexer.ptr + 1]
             c == lexer.inbuf[lexer.ptr + 1]
  <1>3. PICK stale : next = Nextstate(taken, c, stale)
    BY DEF Results
  <1>4. DOMAIN taken = Fields /\ taken.inbuf = lexer.inbuf /\ taken.ptr = lexer.ptr + 1
    BY <1>1 DEF Fields
  <1> HIDE DEF taken, c
  <1>5. DOMAIN next = Fields /\ next.inbuf = taken.inbuf /\ next.ptr \in {taken.ptr, taken.ptr - 1}
    BY <1>3, <1>4 DEF Nextstate, Fields
  <1> QED
    BY <1>1, <1>2, <1>4, <1>5 DEF Held

LEMMA CharacterDiscardHolds ==
    ASSUME pos \in Nat, NEW lx, Held(lx, Sent, pos), lx.inbuf # <<>>
    PROVE  Held(CharacterDiscard(lx), Sent, pos)
  <1>1. lx.inbuf \in Seq(Byte) /\ Len(lx.inbuf) \in Nat \ {0} /\ 1 \in 0..Len(lx.inbuf)
    BY DEF Held, TailOf
  <1>2. Tail(lx.inbuf) = SubSeq(lx.inbuf, 1 + 1, Len(lx.inbuf))
    BY <1>1
  <1>3. TailOf(Tail(lx.inbuf), Sent, pos)
    <2> DEFINE buffer == lx.inbuf
               n == 1
    <2>1. TailOf(buffer, Sent, pos) /\ n \in 0..Len(buffer)
      BY <1>1 DEF Held
    <2> HIDE DEF buffer, n
    <2>2. TailOf(SubSeq(buffer, n + 1, Len(buffer)), Sent, pos)
      BY <2>1, SuffixIsTail
    <2> QED
      BY <1>2, <2>2 DEF buffer, n
  <1>4. 0 \in 0..Len(Tail(lx.inbuf))
    BY <1>3 DEF TailOf
  <1> QED
    BY <1>3, <1>4 DEF Held, CharacterDiscard, Fields

LEMMA PacketDiscardHolds ==
    ASSUME pos \in Nat, NEW lx, Held(lx, Sent, pos)
    PROVE  /\ TailOf(SubSeq(lx.inbuf, lx.ptr + 1, Len(lx.inbuf)), Sent, pos)
           /\ Held(PacketDiscard(lx), Sent, pos)
  <1>1. TailOf(SubSeq(lx.inbuf, lx.ptr + 1, Len(lx.inbuf)), Sent, pos)
    <2> DEFINE buffer == lx.inbuf
               n == lx.ptr
    <2>1. TailOf(buffer, Sent, pos) /\ n \in 0..Len(buffer)
      BY DEF Held
    <2> HIDE DEF buffer, n
    <2>2. TailOf(SubSeq(buffer, n + 1, Len(buffer)), Sent, pos)
      BY <2>1, SuffixIsTail
    <2> QED
      BY <2>2 DEF buffer, n
  <1>2. 0 \in 0..Len(SubSeq(lx.inbuf, lx.ptr + 1, Len(lx.inbuf)))
    BY <1>1 DEF TailOf
  <1> QED
    BY <1>1, <1>2 DEF Held, PacketDiscard, Fields

LEMMA AcceptedHolds ==
    ASSUME pos \in Nat, NEW lx, Held(lx, Sent, pos), NEW type
    PROVE  Held(Accepted(lx, type), Sent, pos)
  <1>1. Held(PacketAccept(lx, type), Sent, pos)
    BY DEF Held, PacketAccept, Fields
  <1>2. Held(PacketDiscard(PacketAccept(lx, type)), Sent, pos)
    BY <1>1, PacketDiscardHolds
  <1>3. \A any : Held(any, Sent, pos) =>
            \A state, flag : /\ Held([any EXCEPT !.state = state], Sent, pos)
                             /\ Held([any EXCEPT !.state = state, !.accepted = flag], Sent, pos)
    BY DEF Held, Fields
  <1> QED
    BY <1>1, <1>2, <1>3 DEF Accepted

\* A read appends some of the bytes that follow, no more than there is room for.
LEMMA ReadAppends ==
    ASSUME Inv, Read
    PROVE  \E got \in 1..(Len(Sent) - pos) :
              /\ got <= InBuffer - Len(lexer.inbuf)
              /\ pos' = pos + got
              /\ lexer' = [lexer EXCEPT !.inbuf = lexer.inbuf \o SubSeq(Sent, pos + 1, pos + got),
                                        !.out = <<>>, !.accepted = FALSE]
  <1>1. PICK n \in ReadSizes :
            LET got == Min({n, InBuffer - Len(lexer.inbuf), Len(Sent) - pos})
            IN  /\ got > 0
                /\ pos' = pos + got
                /\ lexer' = [lexer EXCEPT !.inbuf = @ \o SubSeq(Sent, pos + 1, pos + got),
                                          !.out = <<>>, !.accepted = FALSE]
    BY DEF Read
  <1> DEFINE room == InBuffer - Len(lexer.inbuf)
             rest == Len(Sent) - pos
             got == Min({n, room, rest})
  <1>2. Sent \in Seq(Byte) /\ pos \in 0..Len(Sent) /\ TailOf(lexer.inbuf, Sent, pos)
    BY StreamsAreBytes DEF Inv, Held, Sent
  <1>3. n \in Int /\ room \in Int /\ rest \in Int
    BY <1>2, PacketSnifferAssumption DEF InBuffer, TailOf
  <1>4. got \in Int /\ got <= room /\ got <= rest
    <2> HIDE DEF room, rest
    <2> QED
      BY <1>3, LeastOfThree
  <1>5. got > 0 /\ got \in 1..(Len(Sent) - pos)
    BY <1>1, <1>2, <1>4
  <1> QED
    BY <1>1, <1>4, <1>5

LEMMA HeldAtFirst == Init => Inv
  <1> SUFFICES ASSUME Init PROVE Inv
    OBVIOUS
  <1>1. stream \in Streams /\ Sent \in Seq(Byte) /\ pos = 0
    BY StreamsAreBytes DEF Init, Sent
  <1>2. lexer.inbuf = <<>> /\ lexer.ptr = 0 /\ DOMAIN lexer = Fields
    BY DEF Init, FreshLexer, Fields
  <1> QED
    BY <1>1, <1>2 DEF Inv, Held, TailOf

LEMMA HeldInvariance == Spec => []Inv
  <1>1. Inv /\ [Next]_vars => Inv'
    <2> SUFFICES ASSUME Inv, [Next]_vars PROVE Inv'
      OBVIOUS
    <2>0. /\ stream \in Streams /\ Sent \in Seq(Byte) /\ Len(Sent) \in Nat
          /\ pos \in 0..Len(Sent) /\ Held(lexer, Sent, pos) /\ pos \in Nat
      BY StreamsAreBytes DEF Inv, Sent
    <2>1. stream' = stream /\ Sent' = Sent
      BY DEF Next, Read, ReadNothing, Character, Return, vars, Sent
    <2>2. CASE Read
      <3>1. PICK got \in 1..(Len(Sent) - pos) :
                /\ pos' = pos + got
                /\ lexer' = [lexer EXCEPT !.inbuf = lexer.inbuf \o SubSeq(Sent, pos + 1, pos + got),
                                          !.out = <<>>, !.accepted = FALSE]
        BY <2>2, ReadAppends
      <3> DEFINE buffer == lexer.inbuf
      <3>2. /\ got \in 1..(Len(Sent) - pos) /\ pos' = pos + got
            /\ lexer' = [lexer EXCEPT !.inbuf = buffer \o SubSeq(Sent, pos + 1, pos + got),
                                      !.out = <<>>, !.accepted = FALSE]
        BY <3>1
      <3>3. TailOf(buffer, Sent, pos) /\ lexer.ptr \in 0..Len(buffer) /\ DOMAIN lexer = Fields
        BY <2>0 DEF Held
      <3> HIDE DEF buffer
      <3>4. TailOf(buffer \o SubSeq(Sent, pos + 1, pos + got), Sent, pos + got)
        BY <2>0, <3>2, <3>3, ReadIsTail
      <3>5. Len(buffer) <= Len(buffer \o SubSeq(Sent, pos + 1, pos + got))
        <4>1. SubSeq(Sent, pos + 1, pos + got) \in Seq(Byte)
          <5>1. \A i \in (pos + 1)..(pos + got) : Sent[i] \in Byte
            BY <2>0, <3>2
          <5> QED
            BY <2>0, <3>2, <5>1, SubSeqProperties
        <4>2. buffer \in Seq(Byte)
          BY <3>3 DEF TailOf
        <4> QED
          BY <4>1, <4>2, ConcatProperties
      <3>6. /\ lexer'.inbuf = buffer \o SubSeq(Sent, pos + 1, pos + got)
            /\ lexer'.ptr = lexer.ptr /\ DOMAIN lexer' = Fields
        BY <3>2, <3>3 DEF Fields
      <3>7. TailOf(lexer'.inbuf, Sent', pos')
        BY <2>1, <3>2, <3>4, <3>6
      <3>8. lexer'.ptr \in 0..Len(lexer'.inbuf)
        <4>1. Len(buffer) \in Nat /\ Len(lexer'.inbuf) \in Nat
          BY <3>3, <3>7 DEF TailOf
        <4>2. Len(buffer) <= Len(lexer'.inbuf)
          BY <3>5, <3>6
        <4> DEFINE small == Len(buffer)
                   large == Len(lexer'.inbuf)
        <4>3. lexer'.ptr \in 0..small /\ small \in Nat /\ large \in Nat /\ small <= large
          BY <3>3, <3>6, <4>1, <4>2
        <4> HIDE DEF small, large
        <4>4. lexer'.ptr \in 0..large
          BY <4>3
        <4> QED
          BY <4>4 DEF large
      <3>9. pos' \in 0..Len(Sent)
        BY <2>0, <3>2
      <3> QED
        BY <2>0, <2>1, <3>6, <3>7, <3>8, <3>9 DEF Inv, Held
    <2>3. CASE ReadNothing
      <3>1. /\ lexer'.inbuf = lexer.inbuf /\ lexer'.ptr = lexer.ptr
            /\ DOMAIN lexer' = Fields /\ pos' = pos
        BY <2>0, <2>3 DEF ReadNothing, Held, Fields
      <3> QED
        BY <2>0, <2>1, <3>1 DEF Inv, Held, TailOf
    <2>4. CASE Character
      <3>1. pos' = pos
        BY <2>4 DEF Character
      <3>2. PICK next \in Results :
                \/ next.state = "GROUND_STATE" /\ lexer' = CharacterDiscard(next)
                \/ next.state \notin Recognized \cup {"GROUND_STATE"} /\ lexer' = next
                \/ /\ next.state \in Recognized
                   /\ \E packet \in {Parsed(next)} : \E type \in Types(next.state, packet) : lexer' = Accepted(next, type)
        BY <2>4 DEF Character
      <3>3. Held(next, Sent, pos) /\ next.inbuf # <<>>
        BY <2>4, NextstateHolds DEF Character
      <3>4. Held(lexer', Sent, pos)
        <4>1. CASE lexer' = CharacterDiscard(next)
          BY <2>0, <3>3, <4>1, CharacterDiscardHolds
        <4>2. CASE \E type : lexer' = Accepted(next, type)
          BY <2>0, <3>3, <4>2, AcceptedHolds
        <4> QED
          BY <3>2, <3>3, <4>1, <4>2
      <3> QED
        BY <2>0, <2>1, <3>1, <3>4 DEF Inv, Held, TailOf
    <2>5. CASE Return
      <3>1. pos' = pos /\ lexer' = [Flushed(lexer) EXCEPT !.accepted = FALSE]
        BY <2>5 DEF Return
      <3>2. Held(Flushed(lexer), Sent, pos)
        <4> DEFINE kept == SubSeq(lexer.inbuf, lexer.ptr + 1, Len(lexer.inbuf))
        <4>1. TailOf(kept, Sent, pos)
          BY <2>0, PacketDiscardHolds
        <4>2. 0 \in 0..Len(kept)
          BY <4>1 DEF TailOf
        <4>3. Flushed(lexer) = lexer \/ Flushed(lexer) = [lexer EXCEPT !.inbuf = kept, !.ptr = 0, !.state = "GROUND_STATE"]
          BY DEF Flushed
        <4> HIDE DEF kept
        <4> QED
          BY <2>0, <4>1, <4>2, <4>3 DEF Held, Fields
      <3>3. Held(lexer', Sent, pos)
        BY <3>1, <3>2 DEF Held, Fields
      <3> QED
        BY <2>0, <2>1, <3>1, <3>3 DEF Inv, Held, TailOf
    <2>6. CASE UNCHANGED vars
      BY <2>0, <2>1, <2>6 DEF vars, Inv, Held, TailOf
    <2> QED
      BY <2>2, <2>3, <2>4, <2>5, <2>6 DEF Next
  <1> QED
    BY <1>1, HeldAtFirst, PTL DEF Spec

\* The buffer is the end of the input, whatever became of the packets in it.
THEOREM BufferKept == Spec => []BufferIsTail
  <1>1. Inv => BufferIsTail
    <2> SUFFICES ASSUME Inv PROVE BufferIsTail
      OBVIOUS
    <2> DEFINE buffer == lexer.inbuf
               m == pos - Len(buffer) + 1
    <2>0. TailOf(buffer, Sent, pos) /\ Sent \in Seq(Byte) /\ pos \in 0..Len(Sent)
      BY StreamsAreBytes DEF Inv, Held, Sent
    <2>1. /\ TailOf(buffer, Sent, pos) /\ Sent \in Seq(Byte) /\ pos \in 0..Len(Sent)
          /\ buffer \in Seq(Byte) /\ Len(buffer) \in Nat /\ Len(buffer) <= pos /\ Len(Sent) \in Nat
      <3>1. buffer \in Seq(Byte) /\ Len(buffer) <= pos
        BY <2>0 DEF TailOf
      <3> HIDE DEF buffer
      <3>2. Len(buffer) \in Nat /\ Len(Sent) \in Nat
        BY <2>0, <3>1
      <3> QED
        BY <2>0, <3>1, <3>2
    <2>2. m \in Int /\ pos \in Int /\ \A i \in m..pos : Sent[i] \in Byte
      BY <2>1
    <2>3. pos - m + 1 = Len(buffer) /\ \A i \in Int : m + i - 1 = pos - Len(buffer) + i
      BY <2>1
    <2> HIDE DEF buffer, m
    <2>4. /\ SubSeq(Sent, m, pos) \in Seq(Byte)
          /\ Len(SubSeq(Sent, m, pos)) = IF m <= pos THEN pos - m + 1 ELSE 0
          /\ \A i \in 1..(pos - m + 1) : SubSeq(Sent, m, pos)[i] = Sent[m + i - 1]
      BY <2>2, SubSeqProperties
    <2>5. Len(SubSeq(Sent, m, pos)) = Len(buffer)
      BY <2>1, <2>2, <2>3, <2>4
    <2>6. \A i \in 1..Len(buffer) : buffer[i] = SubSeq(Sent, m, pos)[i]
      BY <2>1, <2>3, <2>4 DEF TailOf
    <2>7. buffer = SubSeq(Sent, m, pos)
      BY <2>1, <2>4, <2>5, <2>6, SeqEqual
    <2> QED
      BY <2>1, <2>7 DEF BufferIsTail, buffer, m
  <1> QED
    BY <1>1, HeldInvariance, PTL

-----------------------------------------------------------------------------
(* The table of rules: where the machine can be, and from where it gets there *)

GroundStates == {"GROUND_STATE", "COMMENT_BODY"}
LeaderStates == {"NMEA_DOLLAR", "NMEA_PUB_LEAD"}
VendorStates == {"NMEA_VENDOR_LEAD", "NMEA_PASHR_A", "NMEA_PASHR_S", "NMEA_PASHR_H",
    "NMEA_BINARY_BODY", "NMEA_BINARY_CR", "NMEA_BINARY_NL"}
AisStates == {"NMEA_BANG", "AIS_LEAD_1", "AIS_LEAD_2", "AIS_LEAD_ALT1", "AIS_LEAD_ALT2"}
BodyStates == {"AT1_LEADER", "NMEA_LEADER_END", "NMEA_CR", "NMEA_RECOGNIZED"}
TalkerStates == {"SEATALK_LEAD_1", "WEATHER_LEAD_1", "HEADCOMP_LEAD_1", "TURN_LEAD_1",
    "ECDIS_LEAD_1", "SOUNDER_LEAD_1"}
DelormeStates == {"ASTRAL_1", "ASTRAL_2", "ASTRAL_3", "ASTRAL_4", "ASTRAL_5", "EARTHA_1",
    "EARTHA_2", "EARTHA_3", "EARTHA_4", "EARTHA_5"}
SirfStates == {"SIRF_ACK_LEAD_1", "SIRF_ACK_LEAD_2", "SIRF_LEADER_1", "SIRF_LEADER_2",
    "SIRF_DELIVERED", "SIRF_TRAILER_1", "SIRF_RECOGNIZED"}
Superstar2States == {"SUPERSTAR2_LEADER", "SUPERSTAR2_CKSUM1", "SUPERSTAR2_CKSUM2",
    "SUPERSTAR2_RECOGNIZED"}
OncoreStates == {"ONCORE_AT2", "ONCORE_CHECKSUM", "ONCORE_CR", "ONCORE_RECOGNIZED"}
DleStates == {"DLE_LEADER"}
NavcomStates == {"NAVCOM_LEADER_1", "NAVCOM_LEADER_2", "NAVCOM_LEADER_3", "NAVCOM_ID",
    "NAVCOM_LENGTH_1", "NAVCOM_CSUM", "NAVCOM_RECOGNIZED"}
Rtcm3States == {"RTCM3_LEADER_1", "RTCM3_LEADER_2"}
ZodiacStates == {"ZODIAC_RECOGNIZED", "ZODIAC_LEADER_1", "ZODIAC_LEADER_2", "ZODIAC_ID_1",
    "ZODIAC_ID_2", "ZODIAC_LENGTH_1", "ZODIAC_LENGTH_2", "ZODIAC_FLAGS_1", "ZODIAC_FLAGS_2"}
UbxStates == {"UBX_LEADER_1", "UBX_LEADER_2", "UBX_CLASS_ID", "UBX_MESSAGE_ID", "UBX_LENGTH_2",
    "UBX_CHECKSUM_A", "UBX_RECOGNIZED"}
EvermoreStates == {"EVERMORE_LEADER_1", "EVERMORE_LEADER_2", "EVERMORE_PAYLOAD_DLE",
    "EVERMORE_RECOGNIZED"}
TsipStates == {"TSIP_PAYLOAD", "TSIP_DLE", "TSIP_RECOGNIZED"}
ItalkStates == {"ITALK_LEADER_1", "ITALK_LEADER_2", "ITALK_LENGTH", "ITALK_DELIVERED",
    "ITALK_RECOGNIZED"}
GeostarStates == {"GEOSTAR_LEADER_1", "GEOSTAR_LEADER_2", "GEOSTAR_LEADER_3", "GEOSTAR_LEADER_4",
    "GEOSTAR_MESSAGE_ID_1", "GEOSTAR_MESSAGE_ID_2", "GEOSTAR_LENGTH_2", "GEOSTAR_CHECKSUM_A",
    "GEOSTAR_CHECKSUM_B", "GEOSTAR_CHECKSUM_C", "GEOSTAR_RECOGNIZED"}
JsonStates == {"JSON_LEADER", "JSON_STRINGLITERAL", "JSON_STRING_SOLIDUS", "JSON_END_ATTRIBUTE",
    "JSON_EXPECT_VALUE", "JSON_NUMBER", "JSON_SPECIAL", "JSON_END_VALUE"}

Tabled ==
    GroundStates \cup LeaderStates \cup VendorStates \cup AisStates \cup BodyStates \cup
    TalkerStates \cup DelormeStates \cup SirfStates \cup Superstar2States \cup OncoreStates \cup
    DleStates \cup NavcomStates \cup Rtcm3States \cup ZodiacStates \cup UbxStates \cup
    EvermoreStates \cup TsipStates \cup ItalkStates \cup GeostarStates \cup JsonStates

\* The states that NewState looks at before the table.
Computed ==
    {"SIRF_LENGTH_1", "UBX_LENGTH_1", "GEOSTAR_LENGTH_1", "SUPERSTAR2_ID1", "SUPERSTAR2_ID2", "ONCORE_ID1",
     "NAVCOM_PAYLOAD", "ZODIAC_HSUM_1", "EVERMORE_PAYLOAD", "SIRF_PAYLOAD", "SUPERSTAR2_PAYLOAD",
     "ONCORE_PAYLOAD", "NAVCOM_LENGTH_2", "RTCM3_PAYLOAD", "ZODIAC_PAYLOAD", "UBX_PAYLOAD", "ITALK_PAYLOAD",
     "GEOSTAR_PAYLOAD"}

\* Where the machine can be between two bytes.
Places == Tabled \cup Computed

\* What is known of a step from one state to another with byte c: which state comes
\* before each one that reckons with the length, that JSON begins with a brace, and
\* that the line feed inside of $PASHR comes after a carriage return.
MayLead(from, c, to) ==
    /\ to \in Places \cup Recognized
    /\ to = "SIRF_LENGTH_1" => from = "SIRF_LEADER_2"
    /\ to = "RTCM3_LEADER_2" => from = "RTCM3_LEADER_1" /\ c < 4
    /\ to = "ITALK_LENGTH" => from = "ITALK_LEADER_2"
    /\ to = "GEOSTAR_LENGTH_1" => from = "GEOSTAR_MESSAGE_ID_2"
    /\ to = "ZODIAC_LENGTH_1" => from = "ZODIAC_ID_2"
    /\ to = "ZODIAC_LENGTH_2" => from = "ZODIAC_LENGTH_1"
    /\ to = "ZODIAC_FLAGS_1" => from = "ZODIAC_LENGTH_2"
    /\ to = "ZODIAC_FLAGS_2" => from = "ZODIAC_FLAGS_1"
    /\ to = "ZODIAC_HSUM_1" => from = "ZODIAC_FLAGS_2"
    /\ to = "NMEA_BINARY_NL" => from = "NMEA_BINARY_CR"
    /\ to \in JsonStates =>
          from \in JsonStates \/ (from = "GROUND_STATE" /\ c = Brace /\ to = "JSON_LEADER")

LEMMA RulesLead == \A r \in Rules : \A c \in r[2] : MayLead(r[1], c, r[3])
  <1> USE DEF MayLead, Places, Tabled, Computed, Recognized, JsonStates,
          GroundStates, LeaderStates, VendorStates, AisStates, BodyStates, TalkerStates,
          DelormeStates, SirfStates, Superstar2States, OncoreStates, DleStates, NavcomStates,
          Rtcm3States, ZodiacStates, UbxStates, EvermoreStates, TsipStates, ItalkStates,
          GeostarStates, JsonStates
  <1>1. \A r \in GroundRules : \A c \in r[2] : MayLead(r[1], c, r[3])
    BY DEF GroundRules
  <1>2. \A r \in LeaderRules : \A c \in r[2] : MayLead(r[1], c, r[3])
    BY DEF LeaderRules
  <1>3. \A r \in VendorRules : \A c \in r[2] : MayLead(r[1], c, r[3])
    BY DEF VendorRules
  <1>4. \A r \in AisRules : \A c \in r[2] : MayLead(r[1], c, r[3])
    BY DEF AisRules
  <1>5. \A r \in BodyRules : \A c \in r[2] : MayLead(r[1], c, r[3])
    BY DEF BodyRules
  <1>6. \A r \in TalkerRules : \A c \in r[2] : MayLead(r[1], c, r[3])
    BY DEF TalkerRules
  <1>7. \A r \in DelormeRules : \A c \in r[2] : MayLead(r[1], c, r[3])
    BY DEF DelormeRules
  <1>8. \A r \in SirfRules : \A c \in r[2] : MayLead(r[1], c, r[3])
    BY DEF SirfRules
  <1>9. \A r \in Superstar2Rules : \A c \in r[2] : MayLead(r[1], c, r[3])
    BY DEF Superstar2Rules
  <1>10. \A r \in OncoreRules : \A c \in r[2] : MayLead(r[1], c, r[3])
    BY DEF OncoreRules
  <1>11. \A r \in DleRules : \A c \in r[2] : MayLead(r[1], c, r[3])
    BY DEF DleRules
  <1>12. \A r \in NavcomRules : \A c \in r[2] : MayLead(r[1], c, r[3])
    BY DEF NavcomRules
  <1>13. \A r \in Rtcm3Rules : \A c \in r[2] : MayLead(r[1], c, r[3])
    BY DEF Rtcm3Rules
  <1>14. \A r \in ZodiacRules : \A c \in r[2] : MayLead(r[1], c, r[3])
    BY DEF ZodiacRules
  <1>15. \A r \in UbxRules : \A c \in r[2] : MayLead(r[1], c, r[3])
    BY DEF UbxRules
  <1>16. \A r \in EvermoreRules : \A c \in r[2] : MayLead(r[1], c, r[3])
    BY DEF EvermoreRules
  <1>17. \A r \in TsipRules : \A c \in r[2] : MayLead(r[1], c, r[3])
    BY DEF TsipRules
  <1>18. \A r \in ItalkRules : \A c \in r[2] : MayLead(r[1], c, r[3])
    BY DEF ItalkRules
  <1>19. \A r \in GeostarRules : \A c \in r[2] : MayLead(r[1], c, r[3])
    BY DEF GeostarRules
  <1>20. \A r \in JsonRules : \A c \in r[2] : MayLead(r[1], c, r[3])
    BY DEF JsonRules
  <1> HIDE DEF MayLead
  <1> QED
    BY <1>1, <1>2, <1>3, <1>4, <1>5, <1>6, <1>7, <1>8, <1>9, <1>10, <1>11, <1>12, <1>13, <1>14,
       <1>15, <1>16, <1>17, <1>18, <1>19, <1>20, ZenonT(40) DEF Rules

LEMMA TabledHaveRules == Tabled \subseteq {r[1] : r \in Rules}
  <1>1. \A s \in GroundStates : \E r \in GroundRules : r[1] = s
    BY DEF GroundStates, GroundRules
  <1>2. \A s \in LeaderStates : \E r \in LeaderRules : r[1] = s
    BY DEF LeaderStates, LeaderRules
  <1>3. \A s \in VendorStates : \E r \in VendorRules : r[1] = s
    BY DEF VendorStates, VendorRules
  <1>4. \A s \in AisStates : \E r \in AisRules : r[1] = s
    BY DEF AisStates, AisRules
  <1>5. \A s \in BodyStates : \E r \in BodyRules : r[1] = s
    BY DEF BodyStates, BodyRules
  <1>6. \A s \in TalkerStates : \E r \in TalkerRules : r[1] = s
    BY DEF TalkerStates, TalkerRules
  <1>7. \A s \in DelormeStates : \E r \in DelormeRules : r[1] = s
    BY DEF DelormeStates, DelormeRules
  <1>8. \A s \in SirfStates : \E r \in SirfRules : r[1] = s
    BY DEF SirfStates, SirfRules
  <1>9. \A s \in Superstar2States : \E r \in Superstar2Rules : r[1] = s
    BY DEF Superstar2States, Superstar2Rules
  <1>10. \A s \in OncoreStates : \E r \in OncoreRules : r[1] = s
    BY DEF OncoreStates, OncoreRules
  <1>11. \A s \in DleStates : \E r \in DleRules : r[1] = s
    BY DEF DleStates, DleRules
  <1>12. \A s \in NavcomStates : \E r \in NavcomRules : r[1] = s
    BY DEF NavcomStates, NavcomRules
  <1>13. \A s \in Rtcm3States : \E r \in Rtcm3Rules : r[1] = s
    BY DEF Rtcm3States, Rtcm3Rules
  <1>14. \A s \in ZodiacStates : \E r \in ZodiacRules : r[1] = s
    BY DEF ZodiacStates, ZodiacRules
  <1>15. \A s \in UbxStates : \E r \in UbxRules : r[1] = s
    BY DEF UbxStates, UbxRules
  <1>16. \A s \in EvermoreStates : \E r \in EvermoreRules : r[1] = s
    BY DEF EvermoreStates, EvermoreRules
  <1>17. \A s \in TsipStates : \E r \in TsipRules : r[1] = s
    BY DEF TsipStates, TsipRules
  <1>18. \A s \in ItalkStates : \E r \in ItalkRules : r[1] = s
    BY DEF ItalkStates, ItalkRules
  <1>19. \A s \in GeostarStates : \E r \in GeostarRules : r[1] = s
    BY DEF GeostarStates, GeostarRules
  <1>20. \A s \in JsonStates : \E r \in JsonRules : r[1] = s
    BY DEF JsonStates, JsonRules
  <1>21. \A s \in Tabled : \E r \in Rules : r[1] = s
    BY <1>1, <1>2, <1>3, <1>4, <1>5, <1>6, <1>7, <1>8, <1>9, <1>10, <1>11, <1>12, <1>13, <1>14,
       <1>15, <1>16, <1>17, <1>18, <1>19, <1>20, ZenonT(40) DEF Tabled, Rules
  <1> QED
    BY <1>21

\* A byte takes the table to a state of one of the rules, or to GROUND_STATE.
LEMMA TransitionLeads ==
    ASSUME NEW state \in Tabled, NEW c \in Byte
    PROVE  MayLead(state, c, Transition[state][c])
  <1> DEFINE mine == {r \in Rules : r[1] = state}
             next == IF \E r \in mine : c \in r[2] THEN (CHOOSE r \in mine : c \in r[2])[3] ELSE "GROUND_STATE"
  <1>1. Transition[state][c] = next
    <2>1. state \in {r[1] : r \in Rules}
      BY TabledHaveRules
    <2> HIDE DEF next
    <2> QED
      BY <2>1 DEF Transition, next
  <1>2. CASE \E r \in mine : c \in r[2]
    <2>1. PICK r \in mine : c \in r[2] /\ next = r[3]
      BY <1>2
    <2> QED
      BY <1>1, <2>1, RulesLead
  <1>3. CASE ~ \E r \in mine : c \in r[2]
    <2>1. next = "GROUND_STATE"
      BY <1>3
    <2>2. "GROUND_STATE" \in Tabled /\ "GROUND_STATE" \notin JsonStates
      BY DEF Tabled, GroundStates, JsonStates
    <2> HIDE DEF next
    <2> QED
      BY <1>1, <2>1, <2>2 DEF MayLead, Places
  <1> QED
    BY <1>2, <1>3

\* The states in which a length is put together.
Measured ==
    {"SIRF_LENGTH_1", "RTCM3_LEADER_2", "ITALK_LENGTH", "GEOSTAR_LENGTH_1", "ZODIAC_LENGTH_1", "ZODIAC_LENGTH_2",
     "ZODIAC_FLAGS_1", "ZODIAC_FLAGS_2", "ZODIAC_HSUM_1"}

LEMMA OthersMayFollow ==
    ASSUME NEW from, NEW c, NEW to \in Places \cup Recognized, to \notin Measured \cup JsonStates,
           to # "NMEA_BINARY_NL"
    PROVE  MayLead(from, c, to)
  BY DEF MayLead, Measured

\* The payloads that are counted down, and where they end.
Counted ==
    {"SIRF_PAYLOAD", "SUPERSTAR2_PAYLOAD", "ONCORE_PAYLOAD", "NAVCOM_LENGTH_2", "RTCM3_PAYLOAD",
     "ZODIAC_PAYLOAD", "UBX_PAYLOAD", "ITALK_PAYLOAD", "GEOSTAR_PAYLOAD"}

Delivered ==
    {"SIRF_DELIVERED", "SUPERSTAR2_CKSUM1", "ONCORE_CHECKSUM", "NAVCOM_PAYLOAD", "RTCM3_RECOGNIZED",
     "ZODIAC_RECOGNIZED", "UBX_CHECKSUM_A", "ITALK_DELIVERED", "GEOSTAR_CHECKSUM_A"}

LEMMA PayloadsEnd ==
    DOMAIN AfterPayload = Counted /\ \A state \in Counted : AfterPayload[state] \in Delivered
  BY DEF AfterPayload, Counted, Delivered

\* What may come after a string of JSON.
AfterStrings == {"GROUND_STATE", "JSON_END_ATTRIBUTE", "JSON_END_VALUE"}

\* A byte takes any state, of the table or not, to one that it may lead to.
LEMMA StateLeads ==
    ASSUME NEW lx, lx.state \in Places, lx.after \in AfterStrings, NEW c \in Byte,
           NEW length, NEW depth, NEW stale
    PROVE  MayLead(lx.state, c, NewState(lx, c, length, depth, stale))
  <1> DEFINE next == NewState(lx, c, length, depth, stale)
  <1> SUFFICES MayLead(lx.state, c, next)
    OBVIOUS
  <1>1. CASE lx.state \in Computed
    <2>1. next \in Delivered \cup Counted \cup {"GROUND_STATE", "ITALK_RECOGNIZED", "UBX_LENGTH_2", "GEOSTAR_LENGTH_2",
                   "SUPERSTAR2_ID2", "SUPERSTAR2_CKSUM1", "NAVCOM_CSUM", "EVERMORE_PAYLOAD_DLE", "EVERMORE_PAYLOAD"}
      <3>1. CASE lx.state \in Counted
        BY <3>1, PayloadsEnd DEF NewState, Counted
      <3>2. CASE lx.state \notin Counted
        BY <1>1, <3>2, PayloadsEnd DEF NewState, Counted, Delivered, Computed
      <3> QED
        BY <3>1, <3>2
    <2> HIDE DEF next
    <2>2. next \in Places \cup Recognized
      BY <2>1 DEF Places, Computed, Delivered, Counted, Recognized, Tabled, GroundStates, UbxStates, GeostarStates,
                  Superstar2States, NavcomStates, EvermoreStates, ZodiacStates, ItalkStates, SirfStates, OncoreStates
    <2>3. next \notin Measured \cup JsonStates /\ next # "NMEA_BINARY_NL"
      BY <2>1 DEF Delivered, Counted, Measured, JsonStates
    <2> QED
      BY <2>2, <2>3, OthersMayFollow
  <1>2. CASE lx.state \in JsonStates /\ next # Transition[lx.state][c]
    <2>1. next \in AfterStrings \cup {"JSON_LEADER", "JSON_RECOGNIZED"}
      BY <1>2, PayloadsEnd DEF NewState, Counted, JsonStates
    <2> HIDE DEF next
    <2>2. next \in Places \cup Recognized
      BY <2>1 DEF Places, Recognized, Tabled, GroundStates, JsonStates, AfterStrings
    <2>3. next \notin Measured /\ next # "NMEA_BINARY_NL"
      BY <2>1 DEF Measured, AfterStrings
    <2> QED
      BY <1>2, <2>2, <2>3 DEF MayLead, Measured
  <1>3. CASE lx.state \in Tabled /\ next = Transition[lx.state][c]
    BY <1>3, TransitionLeads
  <1>4. lx.state \in Tabled /\ lx.state \notin Computed \cup JsonStates => next = Transition[lx.state][c]
    BY PayloadsEnd DEF NewState, Counted, Computed, JsonStates
  <1> QED
    BY <1>1, <1>2, <1>3, <1>4 DEF Places

-----------------------------------------------------------------------------
(* The length, which stays far below where it would wrap unless it is counted  *)
(* down below 0, and the nesting of JSON, which is never counted below 0       *)

\* The most the length can be in a state in which more is added to it.
Limit(state) ==
    IF state \in {"ZODIAC_LENGTH_1", "ITALK_LENGTH"} THEN 255
    ELSE IF state = "RTCM3_LEADER_2" THEN 768
    ELSE IF state = "GEOSTAR_LENGTH_1" THEN 1020
    ELSE IF state = "SIRF_LENGTH_1" THEN 65280
    ELSE IF state \in {"ZODIAC_LENGTH_2", "ZODIAC_FLAGS_1", "ZODIAC_FLAGS_2", "ZODIAC_HSUM_1"} THEN 65535
    ELSE SIZE - 1

LEMMA Limits ==
    /\ Limit("ZODIAC_LENGTH_1") = 255 /\ Limit("ITALK_LENGTH") = 255
    /\ Limit("RTCM3_LEADER_2") = 768 /\ Limit("GEOSTAR_LENGTH_1") = 1020 /\ Limit("SIRF_LENGTH_1") = 65280
    /\ Limit("ZODIAC_LENGTH_2") = 65535 /\ Limit("ZODIAC_FLAGS_1") = 65535
    /\ Limit("ZODIAC_FLAGS_2") = 65535 /\ Limit("ZODIAC_HSUM_1") = 65535
    /\ \A s : s \notin Measured => Limit(s) = SIZE - 1
  BY SMT DEF Limit, Measured

\* Numbers modulo SIZE.
LEMMA Sizes ==
    /\ SIZE \in Nat /\ 1000000 < SIZE
    /\ \A n \in Int : n % SIZE \in Nat /\ n % SIZE < SIZE
    /\ \A n \in Nat : n < SIZE => n % SIZE = n
  BY SMT DEF SIZE

LEMMA Bytes == \A b \in Byte : b \in Nat /\ b <= 255
  BY DEF Byte

LEMMA OncoreLengthIsSmall ==
    ASSUME NEW id1, NEW id2
    PROVE  OncoreLength(id1, id2) \in Nat /\ OncoreLength(id1, id2) <= 1000
  <1> DEFINE known == {m \in OncoreMessages : Chr(m[1]) = id1 /\ Chr(m[2]) = id2}
  <1>1. \A m \in OncoreMessages : m[3] - 6 \in Nat /\ m[3] - 6 <= 1000
    BY DEF OncoreMessages
  <1>2. CASE known = {}
    BY <1>2 DEF OncoreLength
  <1>3. CASE known # {}
    <2>1. PICK m \in known : m = CHOOSE n \in known : TRUE
      BY <1>3
    <2>2. OncoreLength(id1, id2) = m[3] - 6
      BY <1>3, <2>1 DEF OncoreLength
    <2> QED
      BY <1>1, <2>1, <2>2
  <1> QED
    BY <1>2, <1>3

\* The states in which NewLength does something.
Reckoning ==
    Counted \cup
    {"SUPERSTAR2_ID2", "UBX_MESSAGE_ID", "ZODIAC_ID_2", "EVERMORE_LEADER_2", "SIRF_LEADER_2", "SIRF_LENGTH_1",
     "ONCORE_AT2", "ONCORE_ID1", "NAVCOM_ID", "NAVCOM_LENGTH_1", "ZODIAC_LENGTH_1", "UBX_LENGTH_1",
     "RTCM3_LEADER_1", "RTCM3_LEADER_2", "ZODIAC_HSUM_1", "ITALK_LEADER_2", "ITALK_LENGTH",
     "GEOSTAR_MESSAGE_ID_2", "GEOSTAR_LENGTH_1", "EVERMORE_PAYLOAD"}

\* NewLength, state by state.
LEMMA Lengths ==
    ASSUME NEW lx, NEW c, NEW stale
    PROVE  LET state == lx.state
               length == lx.length
               new == NewLength(lx, c, stale)
           IN  /\ state \in {"SUPERSTAR2_ID2", "UBX_MESSAGE_ID", "ZODIAC_ID_2", "EVERMORE_LEADER_2"} => new = c
               /\ state \in {"SIRF_LEADER_2", "RTCM3_LEADER_1"} => new \in {256 * c, length}
               /\ state = "SIRF_LEADER_2" \/ (state = "RTCM3_LEADER_1" /\ c < 4) => new = 256 * c
               /\ state = "GEOSTAR_MESSAGE_ID_2" => new = 4 * c
               /\ state = "ITALK_LEADER_2" => new = At(lx, 6, stale[1])
               /\ state = "ONCORE_AT2" => new \in {c, length}
               /\ state = "ONCORE_ID1" => new \in {OncoreLength(length, c), length}
               /\ state = "NAVCOM_ID" => new = (c - 4) % SIZE
               /\ state \in {"NAVCOM_LENGTH_1", "ZODIAC_LENGTH_1", "UBX_LENGTH_1"} => new = (length + 256 * c) % SIZE
               /\ state = "SIRF_LENGTH_1" => new = length + c + 2
               /\ state = "RTCM3_LEADER_2" => new = length + c + 3
               /\ state = "ZODIAC_HSUM_1" => new \in {2 * length + 2, length}
               /\ state = "ITALK_LENGTH" => new = 2 * (length + 1) + 3
               /\ state = "GEOSTAR_LENGTH_1" => new = length + 1024 * c
               /\ state \in Counted \cup {"EVERMORE_PAYLOAD"} => new \in {(length - 1) % SIZE, length}
               /\ state \notin Reckoning => new = length
  <1> DEFINE state == lx.state
             length == lx.length
             new == NewLength(lx, c, stale)
  <1>1. state \in {"SUPERSTAR2_ID2", "UBX_MESSAGE_ID", "ZODIAC_ID_2", "EVERMORE_LEADER_2"} => new = c
    BY PayloadsEnd, SMT DEF NewLength, Decremented, Counted
  <1>2. state \in {"SIRF_LEADER_2", "RTCM3_LEADER_1"} => new \in {256 * c, length}
    BY PayloadsEnd, SMT DEF NewLength, Decremented, Counted
  <1>3. state = "SIRF_LEADER_2" \/ (state = "RTCM3_LEADER_1" /\ c < 4) => new = 256 * c
    BY PayloadsEnd, SMT DEF NewLength, Decremented, Counted
  <1>4. state = "GEOSTAR_MESSAGE_ID_2" => new = 4 * c
    BY PayloadsEnd, SMT DEF NewLength, Decremented, Counted
  <1>5. state = "ITALK_LEADER_2" => new = At(lx, 6, stale[1])
    BY PayloadsEnd, SMT DEF NewLength, Decremented, Counted
  <1>6. state = "ONCORE_AT2" => new \in {c, length}
    BY PayloadsEnd, SMT DEF NewLength, Decremented, Counted
  <1>7. state = "ONCORE_ID1" => new \in {OncoreLength(length, c), length}
    BY PayloadsEnd, SMT DEF NewLength, Decremented, Counted
  <1>8. state = "NAVCOM_ID" => new = (c - 4) % SIZE
    BY PayloadsEnd, SMT DEF NewLength, Decremented, Counted
  <1>9. state \in {"NAVCOM_LENGTH_1", "ZODIAC_LENGTH_1", "UBX_LENGTH_1"} => new = (length + 256 * c) % SIZE
    BY PayloadsEnd, SMT DEF NewLength, Decremented, Counted
  <1>10. state = "SIRF_LENGTH_1" => new = length + c + 2
    BY PayloadsEnd, SMT DEF NewLength, Decremented, Counted
  <1>11. state = "RTCM3_LEADER_2" => new = length + c + 3
    BY PayloadsEnd, SMT DEF NewLength, Decremented, Counted
  <1>12. state = "ZODIAC_HSUM_1" => new \in {2 * length + 2, length}
    BY PayloadsEnd, SMT DEF NewLength, Decremented, Counted
  <1>13. state = "ITALK_LENGTH" => new = 2 * (length + 1) + 3
    BY PayloadsEnd, SMT DEF NewLength, Decremented, Counted
  <1>14. state = "GEOSTAR_LENGTH_1" => new = length + 1024 * c
    BY PayloadsEnd, SMT DEF NewLength, Decremented, Counted
  <1>15. state \in Counted \cup {"EVERMORE_PAYLOAD"} => new \in {(length - 1) % SIZE, length}
    BY PayloadsEnd, SMT DEF NewLength, Decremented, Counted
  <1>16. state \notin Reckoning => new = length
    BY PayloadsEnd, SMT DEF NewLength, Decremented, Counted, Reckoning
  <1> HIDE DEF new
  <1> QED
    BY <1>1, <1>2, <1>3, <1>4, <1>5, <1>6, <1>7, <1>8, <1>9, <1>10, <1>11, <1>12, <1>13, <1>14, <1>15, <1>16 DEF new

LEMMA LengthFits ==
    ASSUME NEW lx, lx.state \in Places, lx.length \in Nat, lx.length <= Limit(lx.state), lx.inbuf \in Seq(Byte),
           NEW c \in Byte, NEW stale \in Byte \X Byte, NEW next, MayLead(lx.state, c, next)
    PROVE  NewLength(lx, c, stale) \in Nat /\ NewLength(lx, c, stale) <= Limit(next)
  <1> DEFINE new == NewLength(lx, c, stale)
             state == lx.state
             length == lx.length
  <1> SUFFICES new \in Nat /\ new <= Limit(next)
    OBVIOUS
  <1>1. c \in Nat /\ c <= 255
    BY Bytes
  <1>2. At(lx, 6, stale[1]) \in Nat /\ At(lx, 6, stale[1]) <= 255
    <2>1. stale[1] \in Byte
      OBVIOUS
    <2>2. 6 < Len(lx.inbuf) => lx.inbuf[6 + 1] \in Byte
      OBVIOUS
    <2>3. At(lx, 6, stale[1]) \in Byte
      BY <2>1, <2>2 DEF At
    <2> QED
      BY <2>3, Bytes
  <1>3. CASE next \in {"ZODIAC_LENGTH_1", "ITALK_LENGTH"}
    <2>1. state = "ZODIAC_ID_2" \/ state = "ITALK_LEADER_2"
      BY <1>3 DEF MayLead
    <2>2. new = c \/ new = At(lx, 6, stale[1])
      BY <2>1, Lengths
    <2>3. Limit(next) = 255
      BY <1>3, Limits
    <2> QED
      BY <1>1, <1>2, <2>2, <2>3
  <1>4. CASE next = "RTCM3_LEADER_2"
    <2>1. state = "RTCM3_LEADER_1" /\ c < 4
      BY <1>4 DEF MayLead
    <2>2. new = 256 * c
      BY <2>1, Lengths
    <2>3. Limit(next) = 768
      BY <1>4, Limits
    <2> QED
      BY <1>1, <2>1, <2>2, <2>3
  <1>5. CASE next = "GEOSTAR_LENGTH_1"
    <2>1. new = 4 * c
      BY <1>5, Lengths DEF MayLead
    <2>2. Limit(next) = 1020
      BY <1>5, Limits
    <2> QED
      BY <1>1, <2>1, <2>2
  <1>6. CASE next = "SIRF_LENGTH_1"
    <2>1. new = 256 * c
      BY <1>6, Lengths DEF MayLead
    <2>2. Limit(next) = 65280
      BY <1>6, Limits
    <2> QED
      BY <1>1, <2>1, <2>2, SMT
  <1>7. CASE next = "ZODIAC_LENGTH_2"
    <2>1. state = "ZODIAC_LENGTH_1"
      BY <1>7 DEF MayLead
    <2>2. new = (length + 256 * c) % SIZE
      BY <2>1, Lengths
    <2>3. Limit(state) = 255 /\ Limit(next) = 65535
      BY <1>7, <2>1, Limits
    <2> HIDE DEF new
    <2>4. length <= 255
      BY <2>3
    <2>5. length + 256 * c \in Nat /\ length + 256 * c <= 65535
      BY <1>1, <2>4, SMT
    <2>6. new = length + 256 * c
      BY <2>2, <2>5, Sizes, SMT
    <2> QED
      BY <2>3, <2>5, <2>6, SMT
  <1>8. CASE next \in {"ZODIAC_FLAGS_1", "ZODIAC_FLAGS_2", "ZODIAC_HSUM_1"}
    <2>1. state \in {"ZODIAC_LENGTH_2", "ZODIAC_FLAGS_1", "ZODIAC_FLAGS_2"}
      BY <1>8 DEF MayLead
    <2>2. state \notin Reckoning
      BY <2>1 DEF Reckoning, Counted
    <2>3. new = length
      BY <2>2, Lengths
    <2>4. Limit(next) = Limit(state)
      BY <1>8, <2>1, Limits
    <2> QED
      BY <2>3, <2>4
  <1>9. CASE next \notin Measured
    <2>1. Limit(next) = SIZE - 1
      BY <1>9, Limits
    <2>2. CASE state \in {"SIRF_LENGTH_1", "RTCM3_LEADER_2", "ZODIAC_HSUM_1", "ITALK_LENGTH", "GEOSTAR_LENGTH_1"}
      <3>1. new \in {length + c + 2, length + c + 3, 2 * length + 2, length, 2 * (length + 1) + 3, length + 1024 * c}
        BY <2>2, Lengths
      <3>2. length <= 65535
        BY <2>2, Limits, SMT
      <3>3. length \in Nat
        OBVIOUS
      <3> HIDE DEF new, length
      <3>4. new \in Nat /\ new < 1000000
        BY <1>1, <3>1, <3>2, <3>3, SMT
      <3> QED
        BY <2>1, <3>4, Sizes, SMT
    <2>3. CASE state \notin {"SIRF_LENGTH_1", "RTCM3_LEADER_2", "ZODIAC_HSUM_1", "ITALK_LENGTH", "GEOSTAR_LENGTH_1"}
      <3>1. \/ new \in {c, 4 * c, 256 * c, At(lx, 6, stale[1]), OncoreLength(length, c)}
            \/ new = length
            \/ new \in {(c - 4) % SIZE, (length + 256 * c) % SIZE, (length - 1) % SIZE}
        BY <2>3, Lengths DEF Reckoning
      <3> DEFINE ahead == At(lx, 6, stale[1])
                 message == OncoreLength(length, c)
      <3>2. message \in Nat /\ message <= 1000
        BY OncoreLengthIsSmall
      <3>3. length < SIZE
        BY Limits, Sizes, SMTT(30) DEF Measured
      <3>4. c - 4 \in Int /\ length + 256 * c \in Int /\ length - 1 \in Int
        BY <1>1
      <3> HIDE DEF new, length
      <3>5. new \in Nat /\ new < SIZE
        <4>1. CASE new \in {c, 4 * c, 256 * c, ahead, message}
          <5>1. ahead \in Nat /\ ahead <= 255
            BY <1>2
          <5> HIDE DEF ahead, message
          <5> QED
            BY <1>1, <3>2, <4>1, <5>1, Sizes, SMT
        <4>2. CASE new \in {(c - 4) % SIZE, (length + 256 * c) % SIZE, (length - 1) % SIZE}
          BY <3>4, <4>2, Sizes, SMTT(30)
        <4> QED
          BY <3>1, <3>3, <4>1, <4>2 DEF length
      <3> QED
        BY <2>1, <3>5, Sizes, SMT
    <2> QED
      BY <2>2, <2>3
  <1> QED
    BY <1>3, <1>4, <1>5, <1>6, <1>7, <1>8, <1>9 DEF Measured

\* Braces and brackets are counted up, and down only inside of one: what a pushed
\* back brace leads to counts it first.
LEMMA DepthFits ==
    ASSUME NEW lx, lx.state \in Places, lx.after \in AfterStrings, lx.depth \in Nat, NEW c \in Byte,
           lx.state \in JsonStates => lx.depth > 0 \/ (lx.state = "JSON_LEADER" /\ c = Brace),
           NEW length, NEW stale
    PROVE  LET depth == NewDepth(lx, c)
               next == NewState(lx, c, length, depth, stale)
           IN  /\ depth \in Nat
               /\ next \in JsonStates =>
                     depth > 0 \/ (next = "JSON_LEADER" /\ c = Brace /\ PushedBack(lx.state, c))
  <1> DEFINE depth == NewDepth(lx, c)
             next == NewState(lx, c, length, depth, stale)
  <1>1. Brace \in Opening
    BY Zenon DEF Brace, Opening, OneOf
  <1>2. CASE lx.state \notin JsonStates
    <2>1. MayLead(lx.state, c, next)
      BY StateLeads
    <2>2. depth = lx.depth
      BY <1>2 DEF NewDepth, JsonStates
    <2> HIDE DEF next, depth
    <2>3. next \in JsonStates => lx.state = "GROUND_STATE" /\ c = Brace /\ next = "JSON_LEADER"
      BY <1>2, <2>1 DEF MayLead
    <2>4. lx.state = "GROUND_STATE" /\ c = Brace => PushedBack(lx.state, c)
      BY DEF PushedBack
    <2>5. depth \in Nat /\ (next \in JsonStates => next = "JSON_LEADER" /\ c = Brace /\ PushedBack(lx.state, c))
      BY <2>2, <2>3, <2>4
    <2> QED
      BY <2>5 DEF next, depth
  <1>3. CASE lx.state \in JsonStates \ {"JSON_LEADER"}
    BY <1>3 DEF NewDepth
  <1>4. CASE lx.state = "JSON_LEADER"
    <2>1. CASE c \in Opening
      BY <1>4, <2>1 DEF NewDepth
    <2>2. CASE c \notin Opening
      <3>1. lx.depth > 0
        BY <1>1, <1>4, <2>2 DEF JsonStates
      <3>2. CASE c \in Closing
        <4>1. depth = lx.depth - 1
          BY <1>4, <2>2, <3>2 DEF NewDepth
        <4>2. depth = 0 => next = "JSON_RECOGNIZED"
          BY <1>4, <3>2, PayloadsEnd DEF NewState, Counted
        <4> HIDE DEF next, depth
        <4>3. depth \in Nat /\ (next \in JsonStates => depth > 0)
          BY <3>1, <4>1, <4>2 DEF JsonStates
        <4> QED
          BY <4>3 DEF next, depth
      <3>3. CASE c \notin Closing
        BY <1>4, <2>2, <3>1, <3>3 DEF NewDepth
      <3> QED
        BY <3>2, <3>3
    <2> QED
      BY <2>1, <2>2
  <1> QED
    BY <1>2, <1>3, <1>4

-----------------------------------------------------------------------------
(* The machine and its buffers *)

\* A machine between two bytes, or before what it recognized has been acted on.
Sane(lx) ==
    /\ lx.state \in Places \cup Recognized
    /\ lx.length \in Nat /\ lx.length <= Limit(lx.state)
    /\ lx.depth \in Nat
    /\ lx.state \in JsonStates =>
          \/ lx.depth > 0
          \/ lx.state = "JSON_LEADER" /\ lx.ptr < Len(lx.inbuf) /\ lx.inbuf[lx.ptr + 1] = Brace
    /\ lx.after \in AfterStrings
    /\ lx.type \in PacketTypes
    /\ Len(lx.inbuf) <= InBuffer
    /\ lx.out \in Seq(Byte) /\ Len(lx.out) < InBuffer

MachineInv == Inv /\ parsing \in BOOLEAN /\ Sane(lexer) /\ lexer.state \in Places

\* nextstate() keeps the machine sane.
LEMMA NextstateIsSane ==
    ASSUME MachineInv, Buffered > 0, NEW next \in Results
    PROVE  Sane(next)
  <1>1. DOMAIN lexer = Fields /\ lexer.inbuf \in Seq(Byte) /\ lexer.ptr \in 0..Len(lexer.inbuf)
    BY DEF MachineInv, Inv, Held, TailOf
  <1>2. Len(lexer.inbuf) \in Nat /\ lexer.ptr + 1 \in 1..Len(lexer.inbuf)
    BY <1>1 DEF Buffered
  <1> DEFINE taken == [lexer EXCEPT !.ptr = lexer.ptr + 1]
             c == lexer.inbuf[lexer.ptr + 1]
  <1>3. PICK stale \in Byte \X Byte : next = Nextstate(taken, c, stale)
    <2>1. 0 \in Byte
      BY DEF Byte
    <2>2. StaleBytes \X StaleBytes \subseteq Byte \X Byte /\ <<0, 0>> \in Byte \X Byte
      BY <2>1, PacketSnifferAssumption
    <2> QED
      BY <2>2 DEF Results
  <1>4. /\ DOMAIN taken = Fields /\ taken.inbuf = lexer.inbuf /\ taken.ptr = lexer.ptr + 1
        /\ taken.state = lexer.state /\ taken.length = lexer.length /\ taken.depth = lexer.depth
        /\ taken.after = lexer.after /\ taken.type = lexer.type /\ taken.out = lexer.out
    BY <1>1 DEF Fields
  <1>5. c \in Byte
    BY <1>1, <1>2
  <1> DEFINE length == NewLength(taken, c, stale)
             depth == NewDepth(taken, c)
             state == NewState(taken, c, length, depth, stale)
             after == NewAfter(taken, c)
  <1>6. /\ lexer.state \in Places /\ lexer.after \in AfterStrings /\ lexer.depth \in Nat
        /\ lexer.length \in Nat /\ lexer.length <= Limit(lexer.state)
        /\ lexer.state \in JsonStates => lexer.depth > 0 \/ (lexer.state = "JSON_LEADER" /\ c = Brace)
        /\ lexer.type \in PacketTypes /\ Len(lexer.inbuf) <= InBuffer
        /\ lexer.out \in Seq(Byte) /\ Len(lexer.out) < InBuffer
    BY DEF MachineInv, Sane
  <1> HIDE DEF taken, c
  <1>7. /\ next.state = state /\ next.length = length /\ next.depth = depth /\ next.after = after
        /\ next.type = taken.type /\ next.inbuf = taken.inbuf /\ next.out = taken.out
        /\ next.ptr = IF PushedBack(taken.state, c) THEN taken.ptr - 1 ELSE taken.ptr
    <2> HIDE DEF length, depth, state, after
    <2>1. next = [taken EXCEPT !.state = state, !.length = length, !.depth = depth, !.after = after,
                               !.id = IF taken.state = "SUPERSTAR2_LEADER" THEN c ELSE taken.id,
                               !.ptr = IF PushedBack(taken.state, c) THEN taken.ptr - 1 ELSE taken.ptr]
      BY <1>3 DEF Nextstate, length, depth, state, after
    <2> QED
      BY <1>4, <2>1 DEF Fields
  <1>8. MayLead(taken.state, c, state)
    BY <1>4, <1>5, <1>6, StateLeads
  <1>9. length \in Nat /\ length <= Limit(state)
    <2>1. taken.inbuf \in Seq(Byte) /\ taken.state \in Places /\ taken.length \in Nat
          /\ taken.length <= Limit(taken.state)
      BY <1>1, <1>4, <1>6
    <2> HIDE DEF state
    <2> QED
      BY <1>5, <1>8, <2>1, LengthFits
  <1>10. /\ depth \in Nat
         /\ state \in JsonStates => depth > 0 \/ (state = "JSON_LEADER" /\ c = Brace /\ PushedBack(taken.state, c))
    <2> HIDE DEF length
    <2> QED
      BY <1>4, <1>5, <1>6, DepthFits
  <1>11. after \in AfterStrings
    BY <1>4, <1>6 DEF NewAfter, AfterStrings
  <1>12. state \in Places \cup Recognized
    BY <1>8 DEF MayLead
  <1> HIDE DEF length, depth, state, after
  <1>13. state \in JsonStates =>
            \/ depth > 0
            \/ state = "JSON_LEADER" /\ next.ptr < Len(next.inbuf) /\ next.inbuf[next.ptr + 1] = Brace
    <2>1. PushedBack(taken.state, c) => next.ptr = lexer.ptr /\ next.ptr < Len(next.inbuf)
      BY <1>1, <1>2, <1>4, <1>7
    <2>2. next.inbuf[lexer.ptr + 1] = c
      BY <1>4, <1>7 DEF c
    <2> QED
      BY <1>10, <2>1, <2>2
  <1> QED
    BY <1>4, <1>6, <1>7, <1>9, <1>10, <1>11, <1>12, <1>13 DEF Sane

LEMMA TypesAreKnown ==
    ASSUME NEW state \in Recognized, NEW packet, NEW type \in Types(state, packet)
    PROVE  type \in PacketTypes
  <1>1. NmeaType(packet) \in {"BAD", "AIVDM", "NMEA"}
    BY Zenon DEF NmeaType
  <1>2. \A ok, known : Checked(ok, known) \in {known, "BAD"}
    BY DEF Checked
  <1>3. TypeOf(state, packet, lexer.type) \in PacketTypes
    BY <1>1, <1>2 DEF TypeOf, Recognized, PacketTypes
  <1> QED
    BY <1>3 DEF Types, PacketTypes

\* After a packet the machine is where it takes up the next one.
LEMMA StatesAfter ==
    ASSUME NEW state \in Recognized, NEW type
    PROVE  StateAfter(state, type) \in Places /\ StateAfter(state, type) \notin Measured \cup JsonStates
  <1>1. StateAfter(state, type) \in {"GROUND_STATE"} \cup
            (Recognized \ {"COMMENT_RECOGNIZED", "RTCM3_RECOGNIZED", "GTXT_RECOGNIZED", "JSON_RECOGNIZED"})
    BY DEF StateAfter
  <1> HIDE DEF StateAfter
  <1> QED
    BY <1>1 DEF Recognized, Places, Tabled, Measured, JsonStates, GroundStates, BodyStates, SirfStates, Superstar2States,
                OncoreStates, ZodiacStates, UbxStates, EvermoreStates, TsipStates, ItalkStates, NavcomStates, GeostarStates

LEMMA LimitsAreSizes ==
    ASSUME NEW lx, Sane(lx)
    PROVE  lx.length \in Nat /\ lx.length <= SIZE - 1
  BY SMT DEF Sane, Limit, SIZE

LEMMA Settled ==
    ASSUME NEW lx, Sane(lx), NEW state \in Places, state \notin Measured \cup JsonStates
    PROVE  state \in Places \cup Recognized /\ lx.length <= Limit(state)
  <1>1. Limit(state) = SIZE - 1
    BY Limits
  <1> QED
    BY <1>1, LimitsAreSizes

LEMMA CharacterDiscardIsSane ==
    ASSUME pos \in Nat, NEW lx, Sane(lx), Held(lx, Sent, pos), lx.inbuf # <<>>, lx.state = "GROUND_STATE"
    PROVE  Sane(CharacterDiscard(lx))
  <1> DEFINE new == CharacterDiscard(lx)
  <1>1. /\ new.inbuf = Tail(lx.inbuf) /\ new.state = lx.state /\ new.length = lx.length
        /\ new.depth = lx.depth /\ new.after = lx.after /\ new.type = lx.type /\ new.out = lx.out
    BY DEF CharacterDiscard, Held, Fields
  <1>2. Len(Tail(lx.inbuf)) <= InBuffer
    <2>1. lx.inbuf \in Seq(Byte) /\ Len(Tail(lx.inbuf)) = Len(lx.inbuf) - 1 /\ Len(lx.inbuf) \in Nat
      BY DEF Held, TailOf
    <2>2. Len(lx.inbuf) <= InBuffer /\ InBuffer \in Nat
      BY PacketSnifferAssumption DEF Sane, InBuffer
    <2> QED
      BY <2>1, <2>2
  <1>3. new.state \notin JsonStates
    BY <1>1 DEF JsonStates
  <1> HIDE DEF new
  <1>4. Sane(new)
    BY <1>1, <1>2, <1>3 DEF Sane
  <1> QED
    BY <1>4 DEF new

\* What remains of a buffer is no longer than it was.
LEMMA SuffixFits ==
    ASSUME NEW buffer \in Seq(Byte), Len(buffer) <= InBuffer, NEW n \in 0..Len(buffer)
    PROVE  Len(SubSeq(buffer, n + 1, Len(buffer))) <= InBuffer
  <1>1. Len(buffer) \in Nat /\ InBuffer \in Nat /\ \A i \in (n + 1)..Len(buffer) : buffer[i] \in Byte
    BY PacketSnifferAssumption DEF InBuffer
  <1>2. Len(SubSeq(buffer, n + 1, Len(buffer))) =
            IF n + 1 <= Len(buffer) THEN Len(buffer) - (n + 1) + 1 ELSE 0
    BY <1>1, SubSeqProperties
  <1> QED
    BY <1>1, <1>2

\* What has been parsed is the beginning of the buffer.
LEMMA ParsedIsPrefix ==
    ASSUME NEW lx, lx.inbuf \in Seq(Byte), lx.ptr \in 0..Len(lx.inbuf)
    PROVE  /\ Parsed(lx) \in Seq(Byte) /\ Len(Parsed(lx)) = lx.ptr
           /\ \A i \in 1..lx.ptr : Parsed(lx)[i] = lx.inbuf[i]
  <1> DEFINE buffer == lx.inbuf
             n == lx.ptr
  <1>1. buffer \in Seq(Byte) /\ Len(buffer) \in Nat /\ n \in 0..Len(buffer)
    OBVIOUS
  <1>2. \A i \in 1..n : buffer[i] \in Byte
    BY <1>1
  <1> HIDE DEF buffer, n
  <1>3. /\ SubSeq(buffer, 1, n) \in Seq(Byte)
        /\ Len(SubSeq(buffer, 1, n)) = IF 1 <= n THEN n - 1 + 1 ELSE 0
        /\ \A i \in 1..(n - 1 + 1) : SubSeq(buffer, 1, n)[i] = buffer[1 + i - 1]
    BY <1>1, <1>2, SubSeqProperties
  <1>4. Len(SubSeq(buffer, 1, n)) = n /\ \A i \in 1..n : SubSeq(buffer, 1, n)[i] = buffer[i]
    BY <1>1, <1>3
  <1> QED
    BY <1>3, <1>4 DEF Parsed, buffer, n

LEMMA AcceptedIsSane ==
    ASSUME pos \in Nat, NEW lx, Sane(lx), Held(lx, Sent, pos), lx.state \in Recognized, NEW type \in PacketTypes
    PROVE  Sane(Accepted(lx, type)) /\ Accepted(lx, type).state \in Places
  <1> DEFINE packet == PacketAccept(lx, type)
             rest == SubSeq(lx.inbuf, lx.ptr + 1, Len(lx.inbuf))
             new == Accepted(lx, type)
  <1>1. lx.inbuf \in Seq(Byte) /\ lx.ptr \in 0..Len(lx.inbuf) /\ DOMAIN lx = Fields
    BY DEF Held, TailOf
  <1>2. /\ DOMAIN packet = Fields /\ packet.inbuf = lx.inbuf /\ packet.length = lx.length
        /\ packet.ptr = lx.ptr /\ packet.depth = lx.depth /\ packet.after = lx.after
    BY <1>1 DEF PacketAccept, Fields
  <1>3. packet.type \in PacketTypes /\ packet.out \in Seq(Byte) /\ Len(packet.out) < InBuffer
    <2>1. CASE lx.ptr < InBuffer
      <3>1. packet.type = type /\ packet.out = Parsed(lx)
        BY <1>1, <2>1 DEF PacketAccept, Fields
      <3> HIDE DEF packet
      <3> QED
        BY <1>1, <2>1, <3>1, ParsedIsPrefix
    <2>2. CASE ~(lx.ptr < InBuffer)
      BY <2>2 DEF PacketAccept, Sane
    <2> QED
      BY <2>1, <2>2
  <1>4. Len(rest) <= InBuffer /\ Len(lx.inbuf) <= InBuffer
    BY <1>1, SuffixFits DEF Sane
  <1>5. /\ new.state \in {"GROUND_STATE", StateAfter(lx.state, type)}
        /\ new.length = lx.length /\ new.depth = lx.depth /\ new.after = lx.after
        /\ new.inbuf \in {lx.inbuf, rest}
        /\ \/ new.type = lx.type /\ new.out = lx.out
           \/ new.type = packet.type /\ new.out = packet.out
    <2> HIDE DEF packet
    <2>1. CASE lx.state = "TSIP_RECOGNIZED" /\ TsipLength(Parsed(lx)) < 5
      BY <1>1, <2>1 DEF Accepted, Fields
    <2>2. CASE /\ ~(lx.state = "TSIP_RECOGNIZED" /\ TsipLength(Parsed(lx)) < 5)
               /\ lx.state = "GTXT_RECOGNIZED" /\ type = "BAD"
      <3>1. new = [packet EXCEPT !.state = "GROUND_STATE"]
        BY <2>2 DEF Accepted, packet
      <3> HIDE DEF new
      <3> QED
        BY <1>2, <3>1 DEF Fields
    <2>3. CASE /\ ~(lx.state = "TSIP_RECOGNIZED" /\ TsipLength(Parsed(lx)) < 5)
               /\ ~(lx.state = "GTXT_RECOGNIZED" /\ type = "BAD")
      <3>1. new = [PacketDiscard(packet) EXCEPT !.state = StateAfter(lx.state, type), !.accepted = TRUE]
        BY <2>3 DEF Accepted, packet
      <3>2. PacketDiscard(packet) = [packet EXCEPT !.inbuf = rest, !.ptr = 0]
        BY <1>2 DEF PacketDiscard, Fields
      <3> HIDE DEF new, rest
      <3> QED
        BY <1>2, <3>1, <3>2 DEF Fields
    <2> QED
      BY <2>1, <2>2, <2>3
  <1>6. new.state \in Places /\ new.state \notin Measured \cup JsonStates
    <2>1. "GROUND_STATE" \in Places /\ "GROUND_STATE" \notin Measured \cup JsonStates
      BY DEF Places, Tabled, GroundStates, Measured, JsonStates
    <2> HIDE DEF new
    <2> QED
      BY <1>5, <2>1, StatesAfter
  <1> HIDE DEF new, packet, rest
  <1>7. lx.length <= Limit(new.state)
    BY <1>6, Settled
  <1> QED
    BY <1>3, <1>4, <1>5, <1>6, <1>7 DEF Sane, new

\* The machine is sane between two bytes, whatever comes and however it is read.
LEMMA MachineInvariance == Spec => []MachineInv
  <1>1. Init => MachineInv
    <2> SUFFICES ASSUME Init, Inv PROVE MachineInv
      BY HeldAtFirst
    <2>1. lexer = FreshLexer /\ parsing \in BOOLEAN
      BY DEF Init
    <2>2. lexer.state = "GROUND_STATE" /\ "GROUND_STATE" \in Places /\ "GROUND_STATE" \notin Measured \cup JsonStates
      BY <2>1 DEF FreshLexer, Places, Tabled, GroundStates, Measured, JsonStates
    <2>3. lexer.length \in Nat /\ lexer.length <= Limit(lexer.state)
      <3>1. Limit(lexer.state) = SIZE - 1
        BY <2>2, Limits
      <3> QED
        BY <2>1, <3>1, Sizes DEF FreshLexer
    <2>4. lexer.depth \in Nat /\ lexer.after \in AfterStrings /\ lexer.type \in PacketTypes
      BY <2>1 DEF FreshLexer, AfterStrings, PacketTypes
    <2>5. /\ lexer.out \in Seq(Byte) /\ Len(lexer.inbuf) <= InBuffer /\ Len(lexer.out) < InBuffer
      BY <2>1, PacketSnifferAssumption DEF FreshLexer, InBuffer
    <2> QED
      BY <2>1, <2>2, <2>3, <2>4, <2>5 DEF MachineInv, Sane
  <1>2. Inv' /\ MachineInv /\ [Next]_vars => MachineInv'
    <2> SUFFICES ASSUME Inv', MachineInv, [Next]_vars PROVE MachineInv'
      OBVIOUS
    <2>0. Sent \in Seq(Byte)
      BY StreamsAreBytes DEF MachineInv, Inv, Sent
    <2>1. /\ Inv /\ Sane(lexer) /\ lexer.state \in Places /\ DOMAIN lexer = Fields /\ pos \in Nat
          /\ lexer.inbuf \in Seq(Byte) /\ lexer.ptr \in 0..Len(lexer.inbuf) /\ Sent \in Seq(Byte)
          /\ Held(lexer, Sent, pos)
      <3>1. Inv /\ Sane(lexer) /\ lexer.state \in Places
        BY DEF MachineInv
      <3>2. pos \in 0..Len(Sent) /\ Held(lexer, Sent, pos)
        BY <3>1 DEF Inv
      <3> QED
        BY <2>0, <3>1, <3>2 DEF Held, TailOf
    <2>2. InBuffer \in Nat /\ InBuffer > 0
      BY PacketSnifferAssumption DEF InBuffer
    <2>3. CASE Read
      <3>1. parsing' \in BOOLEAN
        BY <2>3 DEF Read
      <3>2. PICK got \in 1..(Len(Sent) - pos) :
                /\ got <= InBuffer - Len(lexer.inbuf)
                /\ pos' = pos + got
                /\ lexer' = [lexer EXCEPT !.inbuf = lexer.inbuf \o SubSeq(Sent, pos + 1, pos + got),
                                          !.out = <<>>, !.accepted = FALSE]
        BY <2>1, <2>3, ReadAppends
      <3> DEFINE read == SubSeq(Sent, pos + 1, pos + got)
      <3>3. read \in Seq(Byte) /\ Len(read) = got
        <4>1. \A i \in (pos + 1)..(pos + got) : Sent[i] \in Byte
          BY <2>1
        <4> QED
          BY <2>1, <4>1, SubSeqProperties
      <3> HIDE DEF read
      <3>4. /\ lexer'.inbuf = lexer.inbuf \o read /\ lexer'.out = <<>> /\ lexer'.ptr = lexer.ptr
            /\ lexer'.state = lexer.state /\ lexer'.length = lexer.length /\ lexer'.depth = lexer.depth
            /\ lexer'.after = lexer.after /\ lexer'.type = lexer.type
        BY <2>1, <3>2 DEF Fields, read
      <3>5. /\ Len(lexer'.inbuf) = Len(lexer.inbuf) + got
            /\ \A i \in 1..Len(lexer.inbuf) : lexer'.inbuf[i] = lexer.inbuf[i]
        <4> DEFINE buffer == lexer.inbuf
        <4>1. buffer \in Seq(Byte) /\ Len(buffer) \in Nat /\ got \in Nat
          BY <2>1
        <4> HIDE DEF buffer
        <4>2. /\ Len(buffer \o read) = Len(buffer) + Len(read)
              /\ \A i \in 1..Len(buffer \o read) :
                    (buffer \o read)[i] = IF i <= Len(buffer) THEN buffer[i] ELSE read[i - Len(buffer)]
          BY <3>3, <4>1, ConcatProperties, SMTT(30)
        <4>3. Len(buffer \o read) = Len(buffer) + got /\ \A i \in 1..Len(buffer) : (buffer \o read)[i] = buffer[i]
          BY <3>3, <4>1, <4>2
        <4> QED
          BY <3>4, <4>3 DEF buffer
      <3>6. Len(lexer'.inbuf) <= InBuffer
        <4>1. Len(lexer.inbuf) \in Nat /\ got \in Nat /\ got <= InBuffer - Len(lexer.inbuf)
          BY <2>1, <3>2
        <4> QED
          BY <2>2, <3>5, <4>1
      <3>7. lexer.ptr < Len(lexer.inbuf) =>
                lexer'.ptr < Len(lexer'.inbuf) /\ lexer'.inbuf[lexer'.ptr + 1] = lexer.inbuf[lexer.ptr + 1]
        <4>1. lexer.ptr \in Nat /\ Len(lexer.inbuf) \in Nat /\ Len(lexer'.inbuf) >= Len(lexer.inbuf)
          BY <2>1, <3>5
        <4>2. lexer.ptr < Len(lexer.inbuf) => lexer.ptr + 1 \in 1..Len(lexer.inbuf)
          BY <4>1
        <4> QED
          BY <3>4, <3>5, <4>1, <4>2
      <3>8. lexer'.out \in Seq(Byte) /\ Len(lexer'.out) < InBuffer
        BY <2>2, <3>4
      <3> QED
        BY <2>1, <3>1, <3>4, <3>6, <3>7, <3>8 DEF MachineInv, Sane
    <2>4. CASE ReadNothing
      <3>1. /\ parsing' \in BOOLEAN
            /\ lexer'.inbuf = lexer.inbuf /\ lexer'.out = <<>> /\ lexer'.ptr = lexer.ptr
            /\ lexer'.state = lexer.state /\ lexer'.length = lexer.length /\ lexer'.depth = lexer.depth
            /\ lexer'.after = lexer.after /\ lexer'.type = lexer.type
        BY <2>1, <2>4 DEF ReadNothing, Fields
      <3>2. lexer'.out \in Seq(Byte) /\ Len(lexer'.out) < InBuffer
        BY <2>2, <3>1
      <3> QED
        BY <2>1, <3>1, <3>2 DEF MachineInv, Sane
    <2>5. CASE Character
      <3>1. parsing' \in BOOLEAN
        BY <2>5 DEF Character, MachineInv
      <3>2. PICK next \in Results :
                \/ next.state = "GROUND_STATE" /\ lexer' = CharacterDiscard(next)
                \/ next.state \notin Recognized \cup {"GROUND_STATE"} /\ lexer' = next
                \/ /\ next.state \in Recognized
                   /\ \E packet \in {Parsed(next)} : \E type \in Types(next.state, packet) : lexer' = Accepted(next, type)
        BY <2>5 DEF Character
      <3>3. Sane(next) /\ Held(next, Sent, pos) /\ next.inbuf # <<>>
        BY <2>1, <2>5, NextstateIsSane, NextstateHolds DEF Character
      <3>4. Sane(lexer') /\ lexer'.state \in Places
        <4>1. CASE next.state = "GROUND_STATE" /\ lexer' = CharacterDiscard(next)
          <5>1. Sane(lexer')
            BY <2>1, <3>3, <4>1, CharacterDiscardIsSane
          <5>2. lexer'.state = "GROUND_STATE"
            BY <3>3, <4>1 DEF CharacterDiscard, Held, Fields
          <5> QED
            BY <5>1, <5>2 DEF Places, Tabled, GroundStates
        <4>2. CASE next.state \notin Recognized \cup {"GROUND_STATE"} /\ lexer' = next
          BY <3>3, <4>2 DEF Sane
        <4>3. CASE /\ next.state \in Recognized
                   /\ \E packet \in {Parsed(next)} : \E type \in Types(next.state, packet) : lexer' = Accepted(next, type)
          <5>1. PICK type \in PacketTypes : lexer' = Accepted(next, type)
            BY <4>3, TypesAreKnown
          <5> QED
            BY <2>1, <3>3, <4>3, <5>1, AcceptedIsSane
        <4> QED
          BY <3>2, <4>1, <4>2, <4>3
      <3> QED
        BY <3>1, <3>4 DEF MachineInv, Sane
    <2>6. CASE Return
      <3>1. parsing' \in BOOLEAN /\ lexer' = [Flushed(lexer) EXCEPT !.accepted = FALSE]
        BY <2>6 DEF Return
      <3>2. CASE Len(lexer.inbuf) < InBuffer
        <4>1. /\ lexer'.inbuf = lexer.inbuf /\ lexer'.out = lexer.out /\ lexer'.ptr = lexer.ptr
              /\ lexer'.state = lexer.state /\ lexer'.length = lexer.length /\ lexer'.depth = lexer.depth
              /\ lexer'.after = lexer.after /\ lexer'.type = lexer.type
          BY <2>1, <3>1, <3>2 DEF Flushed, Fields
        <4> QED
          BY <2>1, <3>1, <4>1 DEF MachineInv, Sane
      <3>3. CASE ~(Len(lexer.inbuf) < InBuffer)
        <4> DEFINE rest == SubSeq(lexer.inbuf, lexer.ptr + 1, Len(lexer.inbuf))
        <4>1. /\ lexer'.inbuf = rest /\ lexer'.out = lexer.out /\ lexer'.state = "GROUND_STATE"
              /\ lexer'.length = lexer.length /\ lexer'.depth = lexer.depth
              /\ lexer'.after = lexer.after /\ lexer'.type = lexer.type
          BY <2>1, <3>1, <3>3 DEF Flushed, Fields
        <4>2. Len(rest) <= InBuffer
          BY <2>1, SuffixFits DEF Sane
        <4>3. "GROUND_STATE" \in Places /\ "GROUND_STATE" \notin Measured \cup JsonStates
          BY DEF Places, Tabled, GroundStates, Measured, JsonStates
        <4>4. lexer.length <= Limit("GROUND_STATE")
          BY <2>1, <4>3, Settled
        <4> HIDE DEF rest
        <4> QED
          BY <2>1, <3>1, <4>1, <4>2, <4>3, <4>4 DEF MachineInv, Sane
      <3> QED
        BY <3>2, <3>3
    <2>7. CASE UNCHANGED vars
      BY <2>7 DEF vars, MachineInv, Sane
    <2> QED
      BY <2>3, <2>4, <2>5, <2>6, <2>7 DEF Next
  <1> QED
    BY <1>1, <1>2, HeldInvariance, PTL DEF Spec

\* The machine is in a state that nextstate() has a rule for, and while the payload
\* length is still being put together from several bytes it is below what they can say:
\* no sum wraps.  (Counting it down may: see Decremented.)
StateIsKnown == lexer.state \in Places /\ lexer.length <= Limit(lexer.state)

\* No byte, read or packet takes the machine out of its states, a length out of the
\* range of its state, the nesting of JSON below 0 or either buffer over its end.
THEOREM TypeCorrect == Spec => [](TypeOK /\ StateIsKnown)
  <1>1. MachineInv => TypeOK /\ StateIsKnown
    <2> SUFFICES ASSUME MachineInv PROVE TypeOK /\ StateIsKnown
      OBVIOUS
    <2>0. StateIsKnown
      BY DEF MachineInv, Sane, StateIsKnown
    <2>1. stream \in Streams /\ pos \in 0..Len(Sent) /\ parsing \in BOOLEAN
      BY DEF MachineInv, Inv
    <2>2. lexer.inbuf \in Seq(Byte) /\ lexer.ptr \in 0..Len(lexer.inbuf)
      BY DEF MachineInv, Inv, Held, TailOf
    <2>3. /\ Len(lexer.inbuf) <= InBuffer /\ lexer.out \in Seq(Byte) /\ Len(lexer.out) < InBuffer
          /\ lexer.depth \in Nat /\ lexer.type \in PacketTypes
      BY DEF MachineInv, Sane
    <2>4. lexer.length \in 0..(SIZE - 1)
      <3>1. lexer.length \in Nat /\ lexer.length <= SIZE - 1
        BY LimitsAreSizes DEF MachineInv, Sane
      <3> QED
        BY <3>1, Sizes
    <2> QED
      BY <2>0, <2>1, <2>2, <2>3, <2>4 DEF TypeOK
  <1> QED
    BY <1>1, MachineInvariance, PTL

-----------------------------------------------------------------------------
(* Packets and the input *)

\* nextstate() changes neither buffer.
LEMMA NextstateKeeps ==
    ASSUME Inv, NEW next \in Results
    PROVE  next.inbuf = lexer.inbuf /\ next.out = lexer.out /\ next.accepted = lexer.accepted
  <1> DEFINE taken == [lexer EXCEPT !.ptr = lexer.ptr + 1]
             c == lexer.inbuf[lexer.ptr + 1]
  <1>1. PICK stale : next = Nextstate(taken, c, stale)
    BY DEF Results
  <1>2. /\ DOMAIN taken = Fields /\ taken.inbuf = lexer.inbuf /\ taken.out = lexer.out
        /\ taken.accepted = lexer.accepted
    BY DEF Inv, Held, Fields
  <1> HIDE DEF taken, c
  <1> QED
    BY <1>1, <1>2 DEF Nextstate, Fields

\* What has been parsed is a piece of the input.
LEMMA ParsedIsCut ==
    ASSUME Inv, NEW lx, Held(lx, Sent, pos), lx.inbuf = lexer.inbuf
    PROVE  /\ Parsed(lx) = SubSeq(Sent, Start + 1, Start + lx.ptr) /\ Len(Parsed(lx)) = lx.ptr
           /\ lx.ptr \in Nat /\ Start \in Nat
           /\ Len(SubSeq(lx.inbuf, lx.ptr + 1, Len(lx.inbuf))) = Len(lx.inbuf) - lx.ptr
  <1> DEFINE buffer == lx.inbuf
             n == lx.ptr
  <1>1. /\ buffer \in Seq(Byte) /\ n \in 0..Len(buffer) /\ Sent \in Seq(Byte) /\ pos \in 0..Len(Sent)
        /\ Len(buffer) <= pos /\ Start = pos - Len(buffer)
        /\ \A i \in 1..Len(buffer) : buffer[i] = Sent[pos - Len(buffer) + i]
    BY StreamsAreBytes DEF Inv, Held, TailOf, Start, Sent
  <1>2. Parsed(lx) \in Seq(Byte) /\ Len(Parsed(lx)) = n /\ \A i \in 1..n : Parsed(lx)[i] = buffer[i]
    BY <1>1, ParsedIsPrefix
  <1> HIDE DEF buffer, n
  <1>3. Len(buffer) \in Nat /\ n \in Nat /\ n <= Len(buffer) /\ Len(Sent) \in Nat /\ pos \in Nat /\ pos <= Len(Sent)
    BY <1>1
  <1>4. Start \in Nat /\ Start + n <= pos
    BY <1>1, <1>3
  <1> DEFINE piece == SubSeq(Sent, Start + 1, Start + n)
  <1>5. piece \in Seq(Byte) /\ Len(piece) = n /\ \A i \in 1..n : piece[i] = Sent[Start + i]
    <2>1. \A i \in (Start + 1)..(Start + n) : Sent[i] \in Byte
      BY <1>1, <1>3, <1>4
    <2>2. /\ piece \in Seq(Byte)
          /\ Len(piece) = IF Start + 1 <= Start + n THEN (Start + n) - (Start + 1) + 1 ELSE 0
          /\ \A i \in 1..((Start + n) - (Start + 1) + 1) : piece[i] = Sent[(Start + 1) + i - 1]
      BY <1>3, <1>4, <2>1, SubSeqProperties
    <2> HIDE DEF piece
    <2> QED
      BY <1>3, <1>4, <2>2
  <1> HIDE DEF piece
  <1>6. ASSUME NEW i \in 1..n PROVE Parsed(lx)[i] = piece[i]
    <2>1. i \in 1..Len(buffer)
      BY <1>3
    <2>2. buffer[i] = Sent[Start + i]
      BY <1>1, <2>1
    <2> QED
      BY <1>2, <1>5, <2>2
  <1>7. Parsed(lx) = piece
    BY <1>2, <1>5, <1>6, SeqEqual
  <1>8. Len(SubSeq(buffer, n + 1, Len(buffer))) = Len(buffer) - n
    <2>1. \A i \in (n + 1)..Len(buffer) : buffer[i] \in Byte
      BY <1>1, <1>3
    <2>2. Len(SubSeq(buffer, n + 1, Len(buffer))) = IF n + 1 <= Len(buffer) THEN Len(buffer) - (n + 1) + 1 ELSE 0
      BY <1>1, <1>3, <2>1, SubSeqProperties
    <2> QED
      BY <1>3, <2>2
  <1> QED
    BY <1>2, <1>3, <1>4, <1>7, <1>8 DEF buffer, n, piece

\* What becomes of both buffers with a packet.
LEMMA AcceptedCuts ==
    ASSUME Inv, NEW lx, Held(lx, Sent, pos), NEW type, ~lx.accepted
    PROVE  LET new == Accepted(lx, type)
               rest == SubSeq(lx.inbuf, lx.ptr + 1, Len(lx.inbuf))
           IN  /\ new.out \in {lx.out, Parsed(lx)}
               /\ (new.inbuf = lx.inbuf /\ ~new.accepted) \/ new.inbuf = rest
  <1> DEFINE packet == PacketAccept(lx, type)
             rest == SubSeq(lx.inbuf, lx.ptr + 1, Len(lx.inbuf))
             new == Accepted(lx, type)
  <1>1. DOMAIN lx = Fields
    BY DEF Held
  <1>2. /\ DOMAIN packet = Fields /\ packet.inbuf = lx.inbuf /\ packet.ptr = lx.ptr
        /\ packet.accepted = lx.accepted /\ packet.out \in {lx.out, Parsed(lx)}
    BY <1>1 DEF PacketAccept, Fields
  <1> HIDE DEF packet
  <1>3. CASE lx.state = "TSIP_RECOGNIZED" /\ TsipLength(Parsed(lx)) < 5
    BY <1>1, <1>3 DEF Accepted, Fields
  <1>4. CASE /\ ~(lx.state = "TSIP_RECOGNIZED" /\ TsipLength(Parsed(lx)) < 5)
             /\ lx.state = "GTXT_RECOGNIZED" /\ type = "BAD"
    <2>1. new = [packet EXCEPT !.state = "GROUND_STATE"]
      BY <1>4 DEF Accepted, packet
    <2> HIDE DEF new
    <2>2. new.out = packet.out /\ new.inbuf = lx.inbuf /\ ~new.accepted
      BY <1>2, <2>1 DEF Fields
    <2> QED
      BY <1>2, <2>2 DEF new
  <1>5. CASE /\ ~(lx.state = "TSIP_RECOGNIZED" /\ TsipLength(Parsed(lx)) < 5)
             /\ ~(lx.state = "GTXT_RECOGNIZED" /\ type = "BAD")
    <2>1. new = [PacketDiscard(packet) EXCEPT !.state = StateAfter(lx.state, type), !.accepted = TRUE]
      BY <1>5 DEF Accepted, packet
    <2>2. PacketDiscard(packet) = [packet EXCEPT !.inbuf = rest, !.ptr = 0]
      BY <1>2 DEF PacketDiscard, Fields
    <2> HIDE DEF new, rest
    <2>3. new.out = packet.out /\ new.inbuf = rest
      BY <1>2, <2>1, <2>2 DEF Fields
    <2> QED
      BY <1>2, <2>3 DEF new, rest
  <1> QED
    BY <1>3, <1>4, <1>5

\* A read adds to the buffer, and leaves the machine where it was.
LEMMA ReadStays ==
    ASSUME Inv, Read \/ ReadNothing
    PROVE  /\ Start' = Start /\ lexer'.out = <<>> /\ lexer'.accepted = FALSE
           /\ lexer'.state = lexer.state /\ lexer'.length = lexer.length /\ lexer'.ptr = lexer.ptr
           /\ UNCHANGED <<stream, log>>
  <1>1. /\ DOMAIN lexer = Fields /\ pos \in Nat /\ lexer.inbuf \in Seq(Byte) /\ Len(lexer.inbuf) \in Nat
        /\ Sent \in Seq(Byte) /\ Len(Sent) \in Nat /\ pos <= Len(Sent)
    <2>1. /\ DOMAIN lexer = Fields /\ pos \in 0..Len(Sent) /\ lexer.inbuf \in Seq(Byte) /\ Sent \in Seq(Byte)
      BY StreamsAreBytes DEF Inv, Held, TailOf, Sent
    <2> QED
      BY <2>1
  <1> DEFINE size == Len(lexer.inbuf)
             left == Len(lexer'.inbuf)
  <1>2. Start = pos - size /\ Start' = pos' - left
    BY DEF Start
  <1> HIDE DEF left
  <1>3. CASE Read
    <2>1. PICK got \in 1..(Len(Sent) - pos) :
              /\ pos' = pos + got
              /\ lexer' = [lexer EXCEPT !.inbuf = lexer.inbuf \o SubSeq(Sent, pos + 1, pos + got),
                                        !.out = <<>>, !.accepted = FALSE]
      BY <1>3, ReadAppends
    <2> DEFINE read == SubSeq(Sent, pos + 1, pos + got)
    <2>2. read \in Seq(Byte) /\ Len(read) = got
      <3>1. \A i \in (pos + 1)..(pos + got) : Sent[i] \in Byte
        BY <1>1
      <3> QED
        BY <1>1, <3>1, SubSeqProperties
    <2> HIDE DEF read
    <2>3. /\ lexer'.inbuf = lexer.inbuf \o read /\ lexer'.out = <<>> /\ lexer'.accepted = FALSE
          /\ lexer'.state = lexer.state /\ lexer'.length = lexer.length /\ lexer'.ptr = lexer.ptr
      BY <1>1, <2>1 DEF Fields, read
    <2>4. left = size + got
      <3>1. Len(lexer.inbuf \o read) = Len(lexer.inbuf) + Len(read)
        BY <1>1, <2>2, ConcatProperties, Zenon
      <3> QED
        BY <2>2, <2>3, <3>1 DEF left
    <2> HIDE DEF size
    <2>5. Start' = Start
      <3>1. size \in Nat
        BY <1>1 DEF size
      <3> QED
        BY <1>1, <1>2, <2>1, <2>4, <3>1
    <2> QED
      BY <1>3, <2>3, <2>5 DEF Read
  <1>4. CASE ReadNothing
    <2>1. /\ lexer' = [lexer EXCEPT !.out = <<>>, !.accepted = FALSE] /\ UNCHANGED <<stream, pos, log>>
      BY <1>4 DEF ReadNothing
    <2>2. /\ lexer'.inbuf = lexer.inbuf /\ lexer'.out = <<>> /\ lexer'.accepted = FALSE
          /\ lexer'.state = lexer.state /\ lexer'.length = lexer.length /\ lexer'.ptr = lexer.ptr
      BY <1>1, <2>1 DEF Fields
    <2>3. Start' = Start
      BY <1>2, <2>1, <2>2 DEF left
    <2> QED
      BY <2>1, <2>2, <2>3
  <1> QED
    BY <1>3, <1>4

\* Packets are cut out of the input one after the other.
THEOREM PacketsCut == Spec => PacketsAreCut
  <1> DEFINE Cut == /\ Start' >= Start
                    /\ lexer'.out \notin {lexer.out, <<>>} =>
                          /\ lexer'.out = SubSeq(Sent, Start + 1, Start + Len(lexer'.out))
                          /\ lexer'.accepted => Start' = Start + Len(lexer'.out)
  <1>1. Inv /\ Inv' /\ Next => Cut
    <2> SUFFICES ASSUME Inv, Inv', Next PROVE Cut
      OBVIOUS
    <2>1. /\ Held(lexer, Sent, pos) /\ DOMAIN lexer = Fields /\ pos \in Nat
          /\ lexer.inbuf \in Seq(Byte) /\ lexer.ptr \in 0..Len(lexer.inbuf) /\ Len(lexer.inbuf) \in Nat
          /\ Sent \in Seq(Byte) /\ Len(Sent) \in Nat /\ pos <= Len(Sent)
      <3>1. /\ Held(lexer, Sent, pos) /\ DOMAIN lexer = Fields /\ pos \in 0..Len(Sent)
            /\ lexer.inbuf \in Seq(Byte) /\ lexer.ptr \in 0..Len(lexer.inbuf) /\ Sent \in Seq(Byte)
        BY StreamsAreBytes DEF Inv, Held, TailOf, Sent
      <3> QED
        BY <3>1
    <2> DEFINE size == Len(lexer.inbuf)
               left == Len(lexer'.inbuf)
    <2>2. size \in Nat /\ Start = pos - size /\ Start' = pos' - left /\ Start \in Int
      BY <2>1 DEF Start
    <2> HIDE DEF left
    <2>3. CASE Read \/ ReadNothing
      <3>1. Start' = Start /\ lexer'.out = <<>>
        BY <2>3, ReadStays
      <3> QED
        BY <2>2, <3>1
    <2>4. CASE Character
      <3>1. PICK next \in Results :
                \/ next.state = "GROUND_STATE" /\ lexer' = CharacterDiscard(next)
                \/ next.state \notin Recognized \cup {"GROUND_STATE"} /\ lexer' = next
                \/ /\ next.state \in Recognized
                   /\ \E packet \in {Parsed(next)} : \E type \in Types(next.state, packet) : lexer' = Accepted(next, type)
        BY <2>4 DEF Character
      <3>2. Held(next, Sent, pos) /\ next.inbuf # <<>> /\ pos' = pos /\ ~lexer.accepted
        BY <2>4, NextstateHolds DEF Character
      <3>3. next.inbuf = lexer.inbuf /\ next.out = lexer.out /\ next.accepted = lexer.accepted
        BY NextstateKeeps
      <3>4. CASE lexer' = CharacterDiscard(next)
        <4>1. lexer'.inbuf = Tail(next.inbuf) /\ lexer'.out = next.out
          BY <3>2, <3>4 DEF CharacterDiscard, Held, Fields
        <4>2. left = size - 1
          BY <2>1, <3>2, <3>3, <4>1 DEF left
        <4> HIDE DEF size
        <4>3. Start' = Start + 1
          BY <2>1, <2>2, <3>2, <4>2
        <4> QED
          BY <2>2, <3>3, <4>1, <4>3
      <3>5. CASE lexer' = next
        <4>1. left = size
          BY <3>3, <3>5 DEF left
        <4> QED
          BY <2>2, <3>2, <3>3, <3>5, <4>1
      <3>6. CASE \E type : lexer' = Accepted(next, type)
        <4> DEFINE rest == SubSeq(next.inbuf, next.ptr + 1, Len(next.inbuf))
        <4>1. /\ lexer'.out \in {next.out, Parsed(next)}
              /\ (lexer'.inbuf = next.inbuf /\ ~lexer'.accepted) \/ lexer'.inbuf = rest
          BY <3>2, <3>3, <3>6, AcceptedCuts
        <4>2. /\ Parsed(next) = SubSeq(Sent, Start + 1, Start + next.ptr) /\ Len(Parsed(next)) = next.ptr
              /\ next.ptr \in Nat /\ Start \in Nat /\ Len(rest) = Len(next.inbuf) - next.ptr
          BY <3>2, <3>3, ParsedIsCut
        <4> HIDE DEF rest
        <4>3. (Start' = Start /\ ~lexer'.accepted) \/ Start' = Start + next.ptr
          <5>1. CASE lexer'.inbuf = next.inbuf /\ ~lexer'.accepted
            BY <2>2, <3>2, <3>3, <5>1 DEF left
          <5>2. CASE lexer'.inbuf = rest
            <6>1. left = size - next.ptr
              BY <3>3, <4>2, <5>2 DEF left
            <6> HIDE DEF size
            <6> QED
              BY <2>1, <2>2, <3>2, <4>2, <6>1
          <5> QED
            BY <4>1, <5>1, <5>2
        <4>4. Start' >= Start
          BY <4>2, <4>3
        <4>5. lexer'.out \notin {lexer.out, <<>>} => lexer'.out = Parsed(next)
          BY <3>3, <4>1
        <4> QED
          BY <4>2, <4>3, <4>4, <4>5
      <3> QED
        BY <3>1, <3>4, <3>5, <3>6
    <2>5. CASE Return
      <3>1. pos' = pos /\ lexer' = [Flushed(lexer) EXCEPT !.accepted = FALSE]
        BY <2>5 DEF Return
      <3> DEFINE rest == SubSeq(lexer.inbuf, lexer.ptr + 1, Len(lexer.inbuf))
      <3>2. lexer'.out = lexer.out /\ lexer'.inbuf \in {lexer.inbuf, rest}
        BY <2>1, <3>1 DEF Flushed, Fields
      <3>3. Len(rest) = Len(lexer.inbuf) - lexer.ptr /\ lexer.ptr \in Nat
        BY <2>1, ParsedIsCut
      <3>4. left \in {size, size - lexer.ptr}
        BY <3>2, <3>3 DEF left
      <3> HIDE DEF size
      <3>5. Start' \in {Start, Start + lexer.ptr}
        BY <2>1, <2>2, <3>1, <3>3, <3>4
      <3> QED
        BY <2>2, <3>2, <3>3, <3>5
    <2> QED
      BY <2>3, <2>4, <2>5 DEF Next
  <1>2. Spec => [][Cut]_vars
    BY <1>1, HeldInvariance, PTL DEF Spec
  <1> QED
    BY <1>2 DEF PacketsAreCut

-----------------------------------------------------------------------------
(* Characters *)

\* A letter has the code of its place in the table, and no other letter has it.
Letter(s) == /\ s \notin {"\r", "\n"}
             /\ \E k \in 1..95 : Graphic[k] = s

LEMMA LetterCode ==
    ASSUME NEW s, Letter(s)
    PROVE  \E i \in 1..95 : Graphic[i] = s /\ Chr(s) = 31 + i
  BY DEF Chr, Letter

LEMMA LettersDiffer ==
    ASSUME NEW s, NEW t, Letter(s), Letter(t), s # t
    PROVE  Chr(s) # Chr(t)
  <1>1. PICK i \in 1..95 : Graphic[i] = s /\ Chr(s) = 31 + i
    BY LetterCode
  <1>2. PICK k \in 1..95 : Graphic[k] = t /\ Chr(t) = 31 + k
    BY LetterCode
  <1> QED
    BY <1>1, <1>2

LEMMA SomeLetters ==
    /\ Letter("$") /\ Letter("{") /\ Letter("}") /\ Letter("[") /\ Letter("]") /\ Letter("\"")
    /\ Letter("G") /\ Letter("P") /\ Letter("N") /\ Letter("L") /\ Letter("-")
    /\ Letter("t") /\ Letter("f") /\ Letter("n")
  <1>0. \A k \in {3, 5, 14, 40, 45, 47, 49, 60, 62, 71, 79, 85, 92, 94} : k \in 1..95
    OBVIOUS
  <1>1. Letter("$")
    <2>1. Graphic[5] = "$"
      BY DEF Graphic
    <2>2. 5 \in 1..95 /\ "$" # "\r" /\ "$" # "\n"
      BY <1>0, Zenon
    <2> QED
      BY <2>1, <2>2, Zenon DEF Letter
  <1>2. Letter("{")
    <2>1. Graphic[92] = "{"
      BY DEF Graphic
    <2>2. 92 \in 1..95 /\ "{" # "\r" /\ "{" # "\n"
      BY <1>0, Zenon
    <2> QED
      BY <2>1, <2>2, Zenon DEF Letter
  <1>3. Letter("}")
    <2>1. Graphic[94] = "}"
      BY DEF Graphic
    <2>2. 94 \in 1..95 /\ "}" # "\r" /\ "}" # "\n"
      BY <1>0, Zenon
    <2> QED
      BY <2>1, <2>2, Zenon DEF Letter
  <1>4. Letter("[")
    <2>1. Graphic[60] = "["
      BY DEF Graphic
    <2>2. 60 \in 1..95 /\ "[" # "\r" /\ "[" # "\n"
      BY <1>0, Zenon
    <2> QED
      BY <2>1, <2>2, Zenon DEF Letter
  <1>5. Letter("]")
    <2>1. Graphic[62] = "]"
      BY DEF Graphic
    <2>2. 62 \in 1..95 /\ "]" # "\r" /\ "]" # "\n"
      BY <1>0, Zenon
    <2> QED
      BY <2>1, <2>2, Zenon DEF Letter
  <1>6. Letter("\"")
    <2>1. Graphic[3] = "\""
      BY DEF Graphic
    <2>2. 3 \in 1..95 /\ "\"" # "\r" /\ "\"" # "\n"
      BY <1>0, Zenon
    <2> QED
      BY <2>1, <2>2, Zenon DEF Letter
  <1>7. Letter("G")
    <2>1. Graphic[40] = "G"
      BY DEF Graphic
    <2>2. 40 \in 1..95 /\ "G" # "\r" /\ "G" # "\n"
      BY <1>0, Zenon
    <2> QED
      BY <2>1, <2>2, Zenon DEF Letter
  <1>8. Letter("P")
    <2>1. Graphic[49] = "P"
      BY DEF Graphic
    <2>2. 49 \in 1..95 /\ "P" # "\r" /\ "P" # "\n"
      BY <1>0, Zenon
    <2> QED
      BY <2>1, <2>2, Zenon DEF Letter
  <1>9. Letter("N")
    <2>1. Graphic[47] = "N"
      BY DEF Graphic
    <2>2. 47 \in 1..95 /\ "N" # "\r" /\ "N" # "\n"
      BY <1>0, Zenon
    <2> QED
      BY <2>1, <2>2, Zenon DEF Letter
  <1>10. Letter("L")
    <2>1. Graphic[45] = "L"
      BY DEF Graphic
    <2>2. 45 \in 1..95 /\ "L" # "\r" /\ "L" # "\n"
      BY <1>0, Zenon
    <2> QED
      BY <2>1, <2>2, Zenon DEF Letter
  <1>11. Letter("-")
    <2>1. Graphic[14] = "-"
      BY DEF Graphic
    <2>2. 14 \in 1..95 /\ "-" # "\r" /\ "-" # "\n"
      BY <1>0, Zenon
    <2> QED
      BY <2>1, <2>2, Zenon DEF Letter
  <1>12. Letter("t")
    <2>1. Graphic[85] = "t"
      BY DEF Graphic
    <2>2. 85 \in 1..95 /\ "t" # "\r" /\ "t" # "\n"
      BY <1>0, Zenon
    <2> QED
      BY <2>1, <2>2, Zenon DEF Letter
  <1>13. Letter("f")
    <2>1. Graphic[71] = "f"
      BY DEF Graphic
    <2>2. 71 \in 1..95 /\ "f" # "\r" /\ "f" # "\n"
      BY <1>0, Zenon
    <2> QED
      BY <2>1, <2>2, Zenon DEF Letter
  <1>14. Letter("n")
    <2>1. Graphic[79] = "n"
      BY DEF Graphic
    <2>2. 79 \in 1..95 /\ "n" # "\r" /\ "n" # "\n"
      BY <1>0, Zenon
    <2> QED
      BY <2>1, <2>2, Zenon DEF Letter
  <1> QED
    BY <1>1, <1>2, <1>3, <1>4, <1>5, <1>6, <1>7, <1>8, <1>9, <1>10, <1>11, <1>12, <1>13, <1>14, Zenon

\* Letters are printed, and they are neither white space nor ends of lines.
LEMMA LettersPrint ==
    ASSUME NEW s, Letter(s), s # Graphic[1]
    PROVE  /\ Chr(s) \in Printing /\ Chr(s) \in Byte /\ Chr(s) \notin Space
           /\ Chr(s) # 13 /\ Chr(s) # 10 /\ Chr(s) # NUL
  <1>1. PICK i \in 1..95 : Graphic[i] = s /\ Chr(s) = 31 + i
    BY LetterCode
  <1>2. i # 1
    BY <1>1
  <1> DEFINE c == Chr(s)
  <1>3. c \in 33..126
    BY <1>1, <1>2
  <1> HIDE DEF c
  <1>4. c \in Printing /\ c \in Byte /\ c \notin Space /\ c # 13 /\ c # 10 /\ c # NUL
    BY <1>3 DEF Printing, Byte, Space, NUL
  <1> QED
    BY <1>4 DEF c

LEMMA NoDigit ==
    ASSUME NEW s, Letter(s), \A k \in 17..26 : Graphic[k] # s
    PROVE  Chr(s) \notin Digit
  <1>1. PICK i \in 1..95 : Graphic[i] = s /\ Chr(s) = 31 + i
    BY LetterCode
  <1>2. i \notin 17..26
    BY <1>1
  <1>3. 31 + i \notin 48..57
    BY <1>2
  <1> QED
    BY <1>1, <1>3 DEF Digit

\* The brackets of JSON: no byte of another rule of the states they are pushed back in.
LEMMA Brackets ==
    ASSUME NEW c \in Opening \cup Closing
    PROVE  /\ c \in Printing /\ c \in Byte /\ c \notin Space /\ c # NUL /\ c \notin Digit
           /\ c # Chr("-") /\ c # Chr("t") /\ c # Chr("f") /\ c # Chr("n") /\ c # Quote
  <1>0. \A k \in 17..26 : k \in {17, 18, 19, 20, 21, 22, 23, 24, 25, 26}
    OBVIOUS
  <1>1. PICK s \in {"{", "[", "}", "]"} : c = Chr(s)
    BY Zenon DEF Opening, Closing, OneOf
  <1>2. Letter(s) /\ s # "-" /\ s # "t" /\ s # "f" /\ s # "n" /\ s # "\""
    BY SomeLetters, Zenon
  <1>3. s # Graphic[1] /\ \A k \in 17..26 : Graphic[k] # s
    <2>1. Graphic[1] = " "
      BY DEF Graphic
    <2>2. /\ Graphic[17] = "0" /\ Graphic[18] = "1" /\ Graphic[19] = "2" /\ Graphic[20] = "3" /\ Graphic[21] = "4"
          /\ Graphic[22] = "5" /\ Graphic[23] = "6" /\ Graphic[24] = "7" /\ Graphic[25] = "8" /\ Graphic[26] = "9"
      BY DEF Graphic
    <2>3. s \notin {" ", "0", "1", "2", "3", "4", "5", "6", "7", "8", "9"}
      BY <1>1, Zenon
    <2>4. ASSUME NEW k \in 17..26 PROVE Graphic[k] # s
      <3>1. k \in {17, 18, 19, 20, 21, 22, 23, 24, 25, 26}
        BY <1>0, Zenon
      <3> QED
        BY <2>2, <2>3, <3>1, ZenonT(30)
    <2> QED
      BY <2>1, <2>3, <2>4, Zenon
  <1>4. c # Chr("-") /\ c # Chr("t") /\ c # Chr("f") /\ c # Chr("n") /\ c # Quote
    BY <1>1, <1>2, LettersDiffer, SomeLetters, Zenon DEF Quote
  <1> QED
    BY <1>1, <1>2, <1>3, <1>4, LettersPrint, NoDigit, Zenon

-----------------------------------------------------------------------------
(* The table, state by state *)

\* Which rules some of the states have.
Belongs(r) ==
    /\ r[1] \in GroundStates => r \in GroundRules
    /\ r[1] \in LeaderStates => r \in LeaderRules
    /\ r[1] \in VendorStates => r \in VendorRules
    /\ r[1] \in BodyStates => r \in BodyRules
    /\ r[1] \in UbxStates => r \in UbxRules
    /\ r[1] \in JsonStates => r \in JsonRules

LEMMA RulesBelong == \A r \in Rules : Belongs(r)
  <1> DEFINE Traced == GroundStates \cup LeaderStates \cup VendorStates \cup BodyStates \cup UbxStates \cup JsonStates
  <1>1. \A r \in GroundRules : Belongs(r)
    <2>1. \A r \in GroundRules : r[1] \in GroundStates
      BY DEF GroundRules, GroundStates
    <2>2. \A s \in GroundStates : s \notin LeaderStates \cup VendorStates \cup BodyStates \cup UbxStates \cup JsonStates
      BY DEF GroundStates, LeaderStates, VendorStates, BodyStates, UbxStates, JsonStates
    <2> QED
      BY <2>1, <2>2, Zenon DEF Belongs
  <1>2. \A r \in LeaderRules : Belongs(r)
    <2>1. \A r \in LeaderRules : r[1] \in LeaderStates
      BY DEF LeaderRules, LeaderStates
    <2>2. \A s \in LeaderStates : s \notin GroundStates \cup VendorStates \cup BodyStates \cup UbxStates \cup JsonStates
      BY DEF GroundStates, LeaderStates, VendorStates, BodyStates, UbxStates, JsonStates
    <2> QED
      BY <2>1, <2>2, Zenon DEF Belongs
  <1>3. \A r \in VendorRules : Belongs(r)
    <2>1. \A r \in VendorRules : r[1] \in VendorStates
      BY DEF VendorRules, VendorStates
    <2>2. \A s \in VendorStates : s \notin GroundStates \cup LeaderStates \cup BodyStates \cup UbxStates \cup JsonStates
      BY DEF GroundStates, LeaderStates, VendorStates, BodyStates, UbxStates, JsonStates
    <2> QED
      BY <2>1, <2>2, Zenon DEF Belongs
  <1>4. \A r \in BodyRules : Belongs(r)
    <2>1. \A r \in BodyRules : r[1] \in BodyStates
      BY DEF BodyRules, BodyStates
    <2>2. \A s \in BodyStates : s \notin GroundStates \cup LeaderStates \cup VendorStates \cup UbxStates \cup JsonStates
      BY DEF GroundStates, LeaderStates, VendorStates, BodyStates, UbxStates, JsonStates
    <2> QED
      BY <2>1, <2>2, Zenon DEF Belongs
  <1>5. \A r \in UbxRules : Belongs(r)
    <2>1. \A r \in UbxRules : r[1] \in UbxStates
      BY DEF UbxRules, UbxStates
    <2>2. \A s \in UbxStates : s \notin GroundStates \cup LeaderStates \cup VendorStates \cup BodyStates \cup JsonStates
      BY DEF GroundStates, LeaderStates, VendorStates, BodyStates, UbxStates, JsonStates
    <2> QED
      BY <2>1, <2>2, Zenon DEF Belongs
  <1>6. \A r \in JsonRules : Belongs(r)
    <2>1. \A r \in JsonRules : r[1] \in JsonStates
      BY DEF JsonRules, JsonStates
    <2>2. \A s \in JsonStates : s \notin GroundStates \cup LeaderStates \cup VendorStates \cup BodyStates \cup UbxStates
      BY DEF GroundStates, LeaderStates, VendorStates, BodyStates, UbxStates, JsonStates
    <2> QED
      BY <2>1, <2>2, Zenon DEF Belongs
  <1>7. \A r : r[1] \notin Traced => Belongs(r)
    BY Zenon DEF Belongs
  <1>8. \A r \in AisRules \cup TalkerRules \cup DelormeRules \cup SirfRules : Belongs(r)
    <2> USE <1>7 DEF Traced, GroundStates, LeaderStates, VendorStates, BodyStates, UbxStates, JsonStates
    <2>1. \A r \in AisRules : r[1] \notin Traced
      BY DEF AisRules
    <2>2. \A r \in TalkerRules : r[1] \notin Traced
      BY DEF TalkerRules
    <2>3. \A r \in DelormeRules : r[1] \notin Traced
      BY DEF DelormeRules
    <2>4. \A r \in SirfRules : r[1] \notin Traced
      BY DEF SirfRules
    <2> HIDE DEF Traced, GroundStates, LeaderStates, VendorStates, BodyStates, UbxStates, JsonStates
    <2> QED
      BY <2>1, <2>2, <2>3, <2>4
  <1>9. \A r \in Superstar2Rules \cup OncoreRules \cup DleRules \cup NavcomRules \cup Rtcm3Rules : Belongs(r)
    <2> USE <1>7 DEF Traced, GroundStates, LeaderStates, VendorStates, BodyStates, UbxStates, JsonStates
    <2>1. \A r \in Superstar2Rules : r[1] \notin Traced
      BY DEF Superstar2Rules
    <2>2. \A r \in OncoreRules : r[1] \notin Traced
      BY DEF OncoreRules
    <2>3. \A r \in DleRules : r[1] \notin Traced
      BY DEF DleRules
    <2>4. \A r \in NavcomRules : r[1] \notin Traced
      BY DEF NavcomRules
    <2>5. \A r \in Rtcm3Rules : r[1] \notin Traced
      BY DEF Rtcm3Rules
    <2> HIDE DEF Traced, GroundStates, LeaderStates, VendorStates, BodyStates, UbxStates, JsonStates
    <2> QED
      BY <2>1, <2>2, <2>3, <2>4, <2>5
  <1>10. \A r \in ZodiacRules \cup EvermoreRules \cup TsipRules \cup ItalkRules \cup GeostarRules : Belongs(r)
    <2> USE <1>7 DEF Traced, GroundStates, LeaderStates, VendorStates, BodyStates, UbxStates, JsonStates
    <2>1. \A r \in ZodiacRules : r[1] \notin Traced
      BY DEF ZodiacRules
    <2>2. \A r \in EvermoreRules : r[1] \notin Traced
      BY DEF EvermoreRules
    <2>3. \A r \in TsipRules : r[1] \notin Traced
      BY DEF TsipRules
    <2>4. \A r \in ItalkRules : r[1] \notin Traced
      BY DEF ItalkRules
    <2>5. \A r \in GeostarRules : r[1] \notin Traced
      BY DEF GeostarRules
    <2> HIDE DEF Traced, GroundStates, LeaderStates, VendorStates, BodyStates, UbxStates, JsonStates
    <2> QED
      BY <2>1, <2>2, <2>3, <2>4, <2>5
  <1> QED
    BY <1>1, <1>2, <1>3, <1>4, <1>5, <1>6, <1>8, <1>9, <1>10, ZenonT(40) DEF Rules

\* The next state is that of one of the rules that have the byte, or GROUND_STATE.
LEMMA Tabulated ==
    ASSUME NEW state \in Tabled, NEW c \in Byte
    PROVE  \/ \E r \in Rules : r[1] = state /\ c \in r[2] /\ Transition[state][c] = r[3]
           \/ /\ \A r \in Rules : r[1] = state => c \notin r[2]
              /\ Transition[state][c] = "GROUND_STATE"
  <1> DEFINE mine == {r \in Rules : r[1] = state}
             next == IF \E r \in mine : c \in r[2] THEN (CHOOSE r \in mine : c \in r[2])[3] ELSE "GROUND_STATE"
  <1>1. Transition[state][c] = next
    <2>1. state \in {r[1] : r \in Rules}
      BY TabledHaveRules
    <2> HIDE DEF next
    <2> QED
      BY <2>1 DEF Transition, next
  <1>2. CASE \E r \in mine : c \in r[2]
    <2>1. PICK r \in mine : c \in r[2] /\ next = r[3]
      BY <1>2
    <2> QED
      BY <1>1, <2>1
  <1>3. CASE ~ \E r \in mine : c \in r[2]
    <2>1. next = "GROUND_STATE" /\ \A r \in Rules : r[1] = state => c \notin r[2]
      BY <1>3
    <2> HIDE DEF next
    <2> QED
      BY <1>1, <2>1
  <1> QED
    BY <1>2, <1>3

-----------------------------------------------------------------------------
(* Bytes that are pushed back *)

LEMMA Patient ==
    /\ \A state : Patience(state) \in Nat
    /\ Patience("JSON_NUMBER") = 2 /\ Patience("JSON_SPECIAL") = 2
    /\ Patience("GROUND_STATE") = 1 /\ Patience("JSON_EXPECT_VALUE") = 1 /\ Patience("JSON_END_VALUE") = 1
    /\ Patience("JSON_LEADER") = 0
    /\ \A state : state \notin JsonStates \cup {"GROUND_STATE"} => Patience(state) = 0
  BY DEF Patience, JsonStates

\* A byte that is pushed back makes the machine give up, ends $PASHR, or takes it to a
\* state with less patience.
LEMMA PushBacks ==
    ASSUME NEW lx, NEW c \in Byte, PushedBack(lx.state, c), NEW length, NEW depth, NEW stale
    PROVE  LET next == NewState(lx, c, length, depth, stale)
           IN  \/ next = "GROUND_STATE"
               \/ lx.state = "NMEA_BINARY_NL" /\ next = "NMEA_RECOGNIZED"
               \/ next \notin Recognized /\ Patience(next) < Patience(lx.state)
  <1> DEFINE state == lx.state
             next == NewState(lx, c, length, depth, stale)
  <1>1. state \in {"GROUND_STATE", "COMMENT_BODY", "NMEA_BINARY_NL", "NMEA_LEADER_END", "JSON_EXPECT_VALUE",
                   "JSON_NUMBER", "JSON_SPECIAL", "JSON_END_VALUE"}
    BY Zenon DEF PushedBack
  <1>2. next = Transition[state][c]
    BY <1>1, PayloadsEnd DEF NewState, Counted
  <1>3. state \in Tabled
    BY <1>1 DEF Tabled, GroundStates, VendorStates, BodyStates, JsonStates
  <1> HIDE DEF state, next
  <1>4. \/ \E r \in Rules : r[1] = state /\ c \in r[2] /\ next = r[3]
        \/ next = "GROUND_STATE"
    BY <1>2, <1>3, Tabulated
  <1> SUFFICES ASSUME NEW r \in Rules, r[1] = state, c \in r[2], next = r[3]
               PROVE  \/ state = "NMEA_BINARY_NL" /\ next = "NMEA_RECOGNIZED"
                      \/ next \notin Recognized /\ Patience(next) < Patience(state)
    BY <1>4 DEF state, next
  <1>5. CASE state = "GROUND_STATE" /\ c = Brace
    <2>1. r \in GroundRules
      BY <1>5, RulesBelong DEF Belongs, GroundStates
    <2>2. \A rule \in GroundRules : rule[1] = "GROUND_STATE" => rule[3] \notin Recognized \cup {"GROUND_STATE"}
      BY DEF GroundRules, Recognized
    <2>3. MayLead(state, c, next)
      BY RulesLead
    <2>4. next \notin JsonStates \ {"JSON_LEADER"}
      BY <1>5, <2>3 DEF MayLead, JsonStates
    <2>5. Patience(next) = 0 /\ Patience(state) = 1
      BY <1>5, <2>1, <2>2, <2>4, Patient
    <2> QED
      BY <1>5, <2>1, <2>2, <2>5
  <1>6. CASE state = "COMMENT_BODY" /\ c \notin Printing \cup OneOf({"\n"})
    <2>1. r \in GroundRules
      BY <1>6, RulesBelong DEF Belongs, GroundStates
    <2>2. \A rule \in GroundRules : rule[1] = "COMMENT_BODY" => rule[2] \in {OneOf({"\n"}), Printing}
      BY DEF GroundRules
    <2> QED
      BY <1>6, <2>1, <2>2
  <1>7. CASE state = "NMEA_BINARY_NL" /\ c = Chr("$")
    <2>1. r \in VendorRules
      BY <1>7, RulesBelong DEF Belongs, VendorStates
    <2>2. \A rule \in VendorRules : rule[1] = "NMEA_BINARY_NL" =>
              rule[3] = "NMEA_RECOGNIZED" \/ rule[2] = Byte \ OneOf({"$"})
      BY DEF VendorRules
    <2>3. c \in OneOf({"$"})
      BY <1>7, Zenon DEF OneOf
    <2> QED
      BY <1>7, <2>1, <2>2, <2>3
  <1>8. CASE state = "NMEA_LEADER_END" /\ c = Chr("$")
    <2>1. r \in BodyRules
      BY <1>8, RulesBelong DEF Belongs, BodyStates
    <2>2. \A rule \in BodyRules : rule[1] = "NMEA_LEADER_END" =>
              rule[2] \in {OneOf({"\r"}), OneOf({"\n"}), Printing \ OneOf({"$"})}
      BY DEF BodyRules
    <2>3. c \in OneOf({"$"})
      BY <1>8, Zenon DEF OneOf
    <2>4. c # 13 /\ c # 10
      BY <1>8, LettersPrint, SomeLetters, Zenon DEF Graphic
    <2>5. OneOf({"\r"}) = {13} /\ OneOf({"\n"}) = {10}
      BY DEF OneOf, Chr
    <2> QED
      BY <2>1, <2>2, <2>3, <2>4, <2>5, <1>8, Zenon
  <1>9. CASE state = "JSON_EXPECT_VALUE" /\ c \in Opening
    <2>1. r \in JsonRules
      BY <1>9, RulesBelong DEF Belongs, JsonStates
    <2>2. \A rule \in JsonRules : rule[1] = "JSON_EXPECT_VALUE" =>
              \/ rule[3] = "JSON_LEADER"
              \/ rule[2] \in {Space, {Quote}, Digit \cup OneOf({"-"}) \cup {NUL}, OneOf({"t", "f", "n"})}
      BY DEF JsonRules
    <2>3. c \notin OneOf({"-"}) /\ c \notin OneOf({"t", "f", "n"}) /\ c \notin Space \cup {Quote} \cup Digit \cup {NUL}
      BY <1>9, Brackets, Zenon DEF OneOf
    <2>4. next = "JSON_LEADER"
      BY <1>9, <2>1, <2>2, <2>3
    <2> QED
      BY <1>9, <2>4, Patient DEF Recognized
  <1>10. CASE state \in {"JSON_NUMBER", "JSON_SPECIAL"} /\ Transition[state][c] = "JSON_END_VALUE"
    BY <1>2, <1>10, Patient DEF Recognized
  <1>11. CASE state = "JSON_END_VALUE" /\ c \in Closing
    <2>1. r \in JsonRules
      BY <1>11, RulesBelong DEF Belongs, JsonStates
    <2>2. \A rule \in JsonRules : rule[1] = "JSON_END_VALUE" => rule[3] = "JSON_LEADER" \/ rule[2] = Space
      BY DEF JsonRules
    <2>3. next = "JSON_LEADER"
      BY <1>11, <2>1, <2>2, Brackets
    <2> QED
      BY <1>11, <2>3, Patient DEF Recognized
  <1> QED
    BY <1>5, <1>6, <1>7, <1>8, <1>9, <1>10, <1>11, Zenon DEF PushedBack, state

\* nextstate() takes the byte at the pointer, and leaves it there when it is pushed back.
LEMMA NextstateSteps ==
    ASSUME MachineInv, Buffered > 0, NEW next \in Results
    PROVE  LET c == lexer.inbuf[lexer.ptr + 1]
               taken == [lexer EXCEPT !.ptr = lexer.ptr + 1]
           IN  /\ c \in Byte
               /\ next.ptr = IF PushedBack(lexer.state, c) THEN lexer.ptr ELSE lexer.ptr + 1
               /\ \E stale : /\ next.length = NewLength(taken, c, stale)
                             /\ next.state = NewState(taken, c, next.length, next.depth, stale)
               /\ MayLead(lexer.state, c, next.state)
  <1> DEFINE taken == [lexer EXCEPT !.ptr = lexer.ptr + 1]
             c == lexer.inbuf[lexer.ptr + 1]
  <1>1. PICK stale : next = Nextstate(taken, c, stale)
    BY DEF Results
  <1>2. /\ DOMAIN lexer = Fields /\ lexer.inbuf \in Seq(Byte) /\ lexer.ptr \in 0..Len(lexer.inbuf)
        /\ lexer.state \in Places /\ lexer.after \in AfterStrings
    BY DEF MachineInv, Inv, Held, TailOf, Sane
  <1>3. c \in Byte
    BY <1>2 DEF Buffered
  <1>4. /\ DOMAIN taken = Fields /\ taken.ptr = lexer.ptr + 1 /\ lexer.ptr \in Nat
        /\ taken.state = lexer.state /\ taken.after = lexer.after
    BY <1>2 DEF Fields
  <1> HIDE DEF taken, c
  <1> DEFINE length == NewLength(taken, c, stale)
             depth == NewDepth(taken, c)
             state == NewState(taken, c, length, depth, stale)
  <1>5. /\ next.state = state /\ next.length = length /\ next.depth = depth
        /\ next.ptr = IF PushedBack(taken.state, c) THEN taken.ptr - 1 ELSE taken.ptr
    <2> HIDE DEF length, depth, state
    <2>1. next = [taken EXCEPT !.state = state, !.length = length, !.depth = depth, !.after = NewAfter(taken, c),
                               !.id = IF taken.state = "SUPERSTAR2_LEADER" THEN c ELSE taken.id,
                               !.ptr = IF PushedBack(taken.state, c) THEN taken.ptr - 1 ELSE taken.ptr]
      BY <1>1 DEF Nextstate, length, depth, state
    <2> QED
      BY <1>4, <2>1 DEF Fields
  <1>6. MayLead(taken.state, c, state)
    <2> HIDE DEF length, depth
    <2> QED
      BY <1>2, <1>3, <1>4, StateLeads
  <1>7. next.ptr = IF PushedBack(lexer.state, c) THEN lexer.ptr ELSE lexer.ptr + 1
    BY <1>4, <1>5
  <1> HIDE DEF length, depth
  <1> QED
    BY <1>3, <1>4, <1>5, <1>6, <1>7 DEF taken, c, length

\* With a packet its bytes leave the buffer, but for what could be either of two
\* protocols: then the machine stays before the next byte.
LEMMA AcceptedStarts ==
    ASSUME Inv, NEW lx, Held(lx, Sent, pos), NEW type
    PROVE  LET new == Accepted(lx, type)
               rest == SubSeq(lx.inbuf, lx.ptr + 1, Len(lx.inbuf))
           IN  \/ /\ lx.state \in {"TSIP_RECOGNIZED", "GTXT_RECOGNIZED"} /\ new.state = "GROUND_STATE"
                  /\ new.inbuf = lx.inbuf /\ new.ptr = lx.ptr
               \/ /\ new.state = StateAfter(lx.state, type) /\ new.accepted
                  /\ new.inbuf = rest /\ new.ptr = 0
                  /\ lx.ptr < InBuffer => new.out = Parsed(lx) /\ new.type = type
  <1> DEFINE packet == PacketAccept(lx, type)
             rest == SubSeq(lx.inbuf, lx.ptr + 1, Len(lx.inbuf))
             new == Accepted(lx, type)
  <1>1. DOMAIN lx = Fields
    BY DEF Held
  <1>2. /\ DOMAIN packet = Fields /\ packet.inbuf = lx.inbuf /\ packet.ptr = lx.ptr
        /\ lx.ptr < InBuffer => packet.out = Parsed(lx) /\ packet.type = type
    BY <1>1 DEF PacketAccept, Fields
  <1> HIDE DEF packet
  <1>3. CASE lx.state = "TSIP_RECOGNIZED" /\ TsipLength(Parsed(lx)) < 5
    BY <1>1, <1>3 DEF Accepted, Fields
  <1>4. CASE /\ ~(lx.state = "TSIP_RECOGNIZED" /\ TsipLength(Parsed(lx)) < 5)
             /\ lx.state = "GTXT_RECOGNIZED" /\ type = "BAD"
    <2>1. new = [packet EXCEPT !.state = "GROUND_STATE"]
      BY <1>4 DEF Accepted, packet
    <2> HIDE DEF new
    <2>2. new.state = "GROUND_STATE" /\ new.inbuf = lx.inbuf /\ new.ptr = lx.ptr
      BY <1>2, <2>1 DEF Fields
    <2> QED
      BY <1>4, <2>2 DEF new
  <1>5. CASE /\ ~(lx.state = "TSIP_RECOGNIZED" /\ TsipLength(Parsed(lx)) < 5)
             /\ ~(lx.state = "GTXT_RECOGNIZED" /\ type = "BAD")
    <2>1. new = [PacketDiscard(packet) EXCEPT !.state = StateAfter(lx.state, type), !.accepted = TRUE]
      BY <1>5 DEF Accepted, packet
    <2>2. PacketDiscard(packet) = [packet EXCEPT !.inbuf = rest, !.ptr = 0]
      BY <1>2 DEF PacketDiscard, Fields
    <2> HIDE DEF new, rest
    <2>3. /\ new.state = StateAfter(lx.state, type) /\ new.accepted /\ new.inbuf = rest /\ new.ptr = 0
          /\ new.out = packet.out /\ new.type = packet.type
      BY <1>2, <2>1, <2>2 DEF Fields
    <2> QED
      BY <1>2, <2>3 DEF new, rest
  <1> QED
    BY <1>3, <1>4, <1>5

-----------------------------------------------------------------------------
(* The loop of packet_parse() *)

\* The machine that stands before the dollar which ends $PASHR has bytes behind it.
AdvanceInv == MachineInv /\ (lexer.state = "NMEA_BINARY_NL" => lexer.ptr > 0)

LEMMA AdvanceInvariance == Spec => []AdvanceInv
  <1>1. Init => (lexer.state = "NMEA_BINARY_NL" => lexer.ptr > 0)
    BY DEF Init, FreshLexer
  <1>2. AdvanceInv /\ [Next]_vars => (lexer.state = "NMEA_BINARY_NL" => lexer.ptr > 0)'
    <2> SUFFICES ASSUME AdvanceInv, [Next]_vars, lexer'.state = "NMEA_BINARY_NL" PROVE lexer'.ptr > 0
      OBVIOUS
    <2>1. MachineInv /\ Inv /\ DOMAIN lexer = Fields /\ (lexer.state = "NMEA_BINARY_NL" => lexer.ptr > 0)
      BY DEF AdvanceInv, MachineInv, Inv, Held
    <2>2. CASE Read
      <3>1. lexer'.state = lexer.state /\ lexer'.ptr = lexer.ptr
        BY <2>1, <2>2 DEF Read, Fields
      <3> QED
        BY <2>1, <3>1
    <2>3. CASE ReadNothing
      BY <2>1, <2>3 DEF ReadNothing, Fields
    <2>4. CASE Character
      <3>1. PICK next \in Results :
                \/ next.state = "GROUND_STATE" /\ lexer' = CharacterDiscard(next)
                \/ next.state \notin Recognized \cup {"GROUND_STATE"} /\ lexer' = next
                \/ /\ next.state \in Recognized
                   /\ \E packet \in {Parsed(next)} : \E type \in Types(next.state, packet) : lexer' = Accepted(next, type)
        BY <2>4 DEF Character
      <3>2. Held(next, Sent, pos) /\ DOMAIN next = Fields
        BY <2>1, <2>4, NextstateHolds DEF Character, Held
      <3>3. CASE next.state = "GROUND_STATE" /\ lexer' = CharacterDiscard(next)
        BY <3>2, <3>3 DEF CharacterDiscard, Fields
      <3>4. CASE lexer' = next
        <4> DEFINE c == lexer.inbuf[lexer.ptr + 1]
        <4>1. /\ MayLead(lexer.state, c, next.state) /\ lexer.ptr \in Nat
              /\ next.ptr = IF PushedBack(lexer.state, c) THEN lexer.ptr ELSE lexer.ptr + 1
          BY <2>1, <2>4, NextstateSteps DEF Character, Inv, Held
        <4> HIDE DEF c
        <4>2. lexer.state = "NMEA_BINARY_CR"
          BY <3>4, <4>1 DEF MayLead
        <4>3. ~PushedBack(lexer.state, c)
          BY <4>2, Zenon DEF PushedBack
        <4> QED
          BY <3>4, <4>1, <4>3
      <3>5. CASE next.state \in Recognized /\ \E type : lexer' = Accepted(next, type)
        <4>1. PICK type : lexer' = Accepted(next, type)
          BY <3>5
        <4>2. lexer'.state \in {"GROUND_STATE", StateAfter(next.state, type)}
          BY <2>1, <3>2, <4>1, AcceptedStarts
        <4>3. lexer'.state \in Recognized \cup {"GROUND_STATE"}
          BY <3>5, <4>2 DEF StateAfter
        <4> QED
          BY <4>3 DEF Recognized
      <3> QED
        BY <3>1, <3>3, <3>4, <3>5
    <2>5. CASE Return
      <3>1. lexer' = [Flushed(lexer) EXCEPT !.accepted = FALSE]
        BY <2>5 DEF Return
      <3>2. lexer'.state = "GROUND_STATE" \/ (lexer'.state = lexer.state /\ lexer'.ptr = lexer.ptr)
        BY <2>1, <3>1 DEF Flushed, Fields
      <3> QED
        BY <2>1, <3>2
    <2>6. CASE UNCHANGED vars
      BY <2>1, <2>6 DEF vars
    <2> QED
      BY <2>2, <2>3, <2>4, <2>5, <2>6 DEF Next
  <1> QED
    BY <1>1, <1>2, MachineInvariance, PTL DEF Spec, AdvanceInv

\* The loop comes to its end: no turn of it goes round with the same byte.
THEOREM ParsingEnds == Spec => ParsingAdvances
  <1> DEFINE Onward ==
                parsing /\ parsing' =>
                    \/ Start' > Start
                    \/ Start' = Start /\ lexer'.ptr > lexer.ptr
                    \/ Start' = Start /\ lexer'.ptr = lexer.ptr /\ Patience(lexer'.state) < Patience(lexer.state)
  <1>1. AdvanceInv /\ Next => Onward
    <2> SUFFICES ASSUME AdvanceInv, Next, parsing, parsing'
                 PROVE  \/ Start' > Start
                        \/ Start' = Start /\ lexer'.ptr > lexer.ptr
                        \/ Start' = Start /\ lexer'.ptr = lexer.ptr /\ Patience(lexer'.state) < Patience(lexer.state)
      OBVIOUS
    <2>1. /\ MachineInv /\ Inv /\ DOMAIN lexer = Fields /\ pos \in Nat /\ lexer.ptr \in Nat
          /\ Len(lexer.inbuf) \in Nat /\ (lexer.state = "NMEA_BINARY_NL" => lexer.ptr > 0)
      <3>1. /\ MachineInv /\ Inv /\ DOMAIN lexer = Fields /\ pos \in 0..Len(Sent) /\ lexer.inbuf \in Seq(Byte)
            /\ lexer.ptr \in 0..Len(lexer.inbuf) /\ (lexer.state = "NMEA_BINARY_NL" => lexer.ptr > 0)
        BY DEF AdvanceInv, MachineInv, Inv, Held, TailOf
      <3> QED
        BY <3>1
    <2>2. Character
      BY DEF Next, Read, ReadNothing, Return
    <2>3. PICK next \in Results :
              \/ next.state = "GROUND_STATE" /\ lexer' = CharacterDiscard(next)
              \/ next.state \notin Recognized \cup {"GROUND_STATE"} /\ lexer' = next
              \/ /\ next.state \in Recognized
                 /\ \E packet \in {Parsed(next)} : \E type \in Types(next.state, packet) : lexer' = Accepted(next, type)
      BY <2>2 DEF Character
    <2>4. Held(next, Sent, pos) /\ next.inbuf # <<>> /\ pos' = pos /\ next.inbuf = lexer.inbuf /\ DOMAIN next = Fields
      BY <2>1, <2>2, NextstateHolds, NextstateKeeps DEF Character, Held
    <2>5. Start = pos - Len(lexer.inbuf) /\ Start' = pos - Len(lexer'.inbuf) /\ Start \in Int
      BY <2>1, <2>4 DEF Start
    <2> DEFINE c == lexer.inbuf[lexer.ptr + 1]
               back == PushedBack(lexer.state, c)
    <2>6. next.ptr = IF back THEN lexer.ptr ELSE lexer.ptr + 1
      BY <2>1, <2>2, NextstateSteps DEF Character
    <2>7. back => \/ next.state = "GROUND_STATE"
                  \/ lexer.state = "NMEA_BINARY_NL" /\ next.state = "NMEA_RECOGNIZED"
                  \/ next.state \notin Recognized /\ Patience(next.state) < Patience(lexer.state)
      <3> DEFINE taken == [lexer EXCEPT !.ptr = lexer.ptr + 1]
      <3>1. c \in Byte /\ \E stale : next.state = NewState(taken, c, next.length, next.depth, stale)
        BY <2>1, <2>2, NextstateSteps DEF Character
      <3>2. taken.state = lexer.state
        BY <2>1 DEF Fields
      <3> HIDE DEF taken, c
      <3> QED
        BY <3>1, <3>2, PushBacks
    <2> HIDE DEF c, back
    <2>8. CASE lexer' = CharacterDiscard(next)
      <3>1. lexer'.inbuf = Tail(next.inbuf)
        BY <2>4, <2>8 DEF CharacterDiscard, Fields
      <3>2. Len(lexer'.inbuf) = Len(lexer.inbuf) - 1
        BY <2>4, <3>1 DEF Held, TailOf
      <3> DEFINE size == Len(lexer.inbuf)
                 left == Len(lexer'.inbuf)
      <3>3. size \in Nat /\ left = size - 1 /\ Start = pos - size /\ Start' = pos - left
        BY <2>1, <2>5, <3>2
      <3> HIDE DEF size, left
      <3> QED
        BY <2>1, <3>3
    <2>9. CASE next.state \notin Recognized \cup {"GROUND_STATE"} /\ lexer' = next
      <3>1. Start' = Start
        BY <2>4, <2>5, <2>9
      <3>2. CASE back
        BY <2>6, <2>7, <2>9, <3>1, <3>2 DEF Recognized
      <3>3. CASE ~back
        BY <2>1, <2>6, <2>9, <3>1, <3>3
      <3> QED
        BY <3>2, <3>3
    <2>10. CASE next.state \in Recognized /\ \E type : lexer' = Accepted(next, type)
      <3> DEFINE rest == SubSeq(next.inbuf, next.ptr + 1, Len(next.inbuf))
      <3>1. \/ next.state \in {"TSIP_RECOGNIZED", "GTXT_RECOGNIZED"} /\ lexer'.inbuf = next.inbuf /\ lexer'.ptr = next.ptr
            \/ lexer'.inbuf = rest
        BY <2>1, <2>4, <2>10, AcceptedStarts
      <3>2. next.ptr > 0 /\ next.ptr \in Nat
        BY <2>1, <2>6, <2>7, <2>10 DEF Recognized
      <3>3. CASE lexer'.inbuf = rest
        <4>1. Len(rest) = Len(next.inbuf) - next.ptr
          BY <2>1, <2>4, ParsedIsCut
        <4> HIDE DEF rest
        <4>2. Len(lexer'.inbuf) = Len(lexer.inbuf) - next.ptr
          BY <2>4, <3>3, <4>1
        <4> QED
          BY <2>1, <2>5, <3>2, <4>2
      <3>4. CASE next.state \in {"TSIP_RECOGNIZED", "GTXT_RECOGNIZED"} /\ lexer'.inbuf = next.inbuf /\ lexer'.ptr = next.ptr
        <4>1. ~back
          BY <2>7, <3>4 DEF Recognized
        <4> QED
          BY <2>1, <2>4, <2>5, <2>6, <3>4, <4>1
      <3> QED
        BY <3>1, <3>3, <3>4
    <2> QED
      BY <2>3, <2>8, <2>9, <2>10
  <1>2. Spec => [][Onward]_vars
    BY <1>1, AdvanceInvariance, PTL DEF Spec
  <1> QED
    BY <1>2 DEF ParsingAdvances

-----------------------------------------------------------------------------
(* The rules that UBX messages and NMEA sentences go by *)

LEMMA OneLetter == \A s : OneOf({s}) = {Chr(s)}
  BY Zenon DEF OneOf

LEMMA LineEnds == OneOf({"\r"}) = {13} /\ OneOf({"\n"}) = {10} /\ Chr("\r") = 13 /\ Chr("\n") = 10
  BY DEF OneOf, Chr

\* What a receiver that is between two packets may go on with, and cannot confuse.
LEMMA OtherLetters ==
    /\ Letter("#") /\ Letter("!") /\ Letter("@") /\ Letter("<") /\ Letter("A") /\ Letter("E")
    /\ Letter("I") /\ Letter("W") /\ Letter("H") /\ Letter("T") /\ Letter("S") /\ Letter("C")
  <1>0. \A k \in {2, 4, 29, 33, 34, 36, 38, 41, 42, 52, 53, 56} : k \in 1..95
    OBVIOUS
  <1>1. Letter("#")
    <2>1. Graphic[4] = "#"
      BY DEF Graphic
    <2>2. 4 \in 1..95 /\ "#" # "\r" /\ "#" # "\n"
      BY <1>0, Zenon
    <2> QED
      BY <2>1, <2>2, Zenon DEF Letter
  <1>2. Letter("!")
    <2>1. Graphic[2] = "!"
      BY DEF Graphic
    <2>2. 2 \in 1..95 /\ "!" # "\r" /\ "!" # "\n"
      BY <1>0, Zenon
    <2> QED
      BY <2>1, <2>2, Zenon DEF Letter
  <1>3. Letter("@")
    <2>1. Graphic[33] = "@"
      BY DEF Graphic
    <2>2. 33 \in 1..95 /\ "@" # "\r" /\ "@" # "\n"
      BY <1>0, Zenon
    <2> QED
      BY <2>1, <2>2, Zenon DEF Letter
  <1>4. Letter("<")
    <2>1. Graphic[29] = "<"
      BY DEF Graphic
    <2>2. 29 \in 1..95 /\ "<" # "\r" /\ "<" # "\n"
      BY <1>0, Zenon
    <2> QED
      BY <2>1, <2>2, Zenon DEF Letter
  <1>5. Letter("A")
    <2>1. Graphic[34] = "A"
      BY DEF Graphic
    <2>2. 34 \in 1..95 /\ "A" # "\r" /\ "A" # "\n"
      BY <1>0, Zenon
    <2> QED
      BY <2>1, <2>2, Zenon DEF Letter
  <1>6. Letter("E")
    <2>1. Graphic[38] = "E"
      BY DEF Graphic
    <2>2. 38 \in 1..95 /\ "E" # "\r" /\ "E" # "\n"
      BY <1>0, Zenon
    <2> QED
      BY <2>1, <2>2, Zenon DEF Letter
  <1>7. Letter("I")
    <2>1. Graphic[42] = "I"
      BY DEF Graphic
    <2>2. 42 \in 1..95 /\ "I" # "\r" /\ "I" # "\n"
      BY <1>0, Zenon
    <2> QED
      BY <2>1, <2>2, Zenon DEF Letter
  <1>8. Letter("W")
    <2>1. Graphic[56] = "W"
      BY DEF Graphic
    <2>2. 56 \in 1..95 /\ "W" # "\r" /\ "W" # "\n"
      BY <1>0, Zenon
    <2> QED
      BY <2>1, <2>2, Zenon DEF Letter
  <1>9. Letter("H")
    <2>1. Graphic[41] = "H"
      BY DEF Graphic
    <2>2. 41 \in 1..95 /\ "H" # "\r" /\ "H" # "\n"
      BY <1>0, Zenon
    <2> QED
      BY <2>1, <2>2, Zenon DEF Letter
  <1>10. Letter("T")
    <2>1. Graphic[53] = "T"
      BY DEF Graphic
    <2>2. 53 \in 1..95 /\ "T" # "\r" /\ "T" # "\n"
      BY <1>0, Zenon
    <2> QED
      BY <2>1, <2>2, Zenon DEF Letter
  <1>11. Letter("S")
    <2>1. Graphic[52] = "S"
      BY DEF Graphic
    <2>2. 52 \in 1..95 /\ "S" # "\r" /\ "S" # "\n"
      BY <1>0, Zenon
    <2> QED
      BY <2>1, <2>2, Zenon DEF Letter
  <1>12. Letter("C")
    <2>1. Graphic[36] = "C"
      BY DEF Graphic
    <2>2. 36 \in 1..95 /\ "C" # "\r" /\ "C" # "\n"
      BY <1>0, Zenon
    <2> QED
      BY <2>1, <2>2, Zenon DEF Letter
  <1> QED
    BY <1>1, <1>2, <1>3, <1>4, <1>5, <1>6, <1>7, <1>8, <1>9, <1>10, <1>11, <1>12, Zenon

LEMMA LettersAreText ==
    ASSUME NEW s, Letter(s)
    PROVE  Chr(s) \in Printing /\ Chr(s) \in Byte /\ Chr(s) > 31 /\ Chr(s) < 127
  <1>1. PICK i \in 1..95 : Graphic[i] = s /\ Chr(s) = 31 + i
    BY LetterCode
  <1> DEFINE c == Chr(s)
  <1>2. c = 31 + i
    BY <1>1
  <1> HIDE DEF c
  <1>3. c \in Printing /\ c \in Byte /\ c > 31 /\ c < 127
    BY <1>2 DEF Printing, Byte
  <1> QED
    BY <1>3 DEF c

LEMMA SomeRules ==
    /\ GroundRules \subseteq Rules /\ LeaderRules \subseteq Rules
    /\ BodyRules \subseteq Rules /\ UbxRules \subseteq Rules
  BY Zenon DEF Rules

Idle == {"GROUND_STATE", "UBX_RECOGNIZED", "NMEA_RECOGNIZED"}

\* What starts other packets than UBX messages and sentences.
OtherStarts ==
    {OneOf({"#"}), OneOf({"!"}), OneOf({"@"}), OneOf({"A"}), OneOf({"E"}), OneOf({"<"}), OneOf({"P"}), {Brace},
     {160}, {SOH}, {DLE}, {255}, {STX}, {211}}

LEMMA NoOtherStart ==
    ASSUME NEW bytes \in OtherStarts
    PROVE  181 \notin bytes /\ Chr("$") \notin bytes
  <1> DEFINE dollar == Chr("$")
  <1>1. dollar > 31 /\ dollar < 127 /\ dollar \in Nat
    BY SomeLetters, LettersAreText, Bytes, Zenon
  <1>2. ASSUME NEW s, Letter(s), s # "$", bytes = {Chr(s)}
        PROVE  181 \notin bytes /\ dollar \notin bytes
    <2>1. Chr(s) # dollar
      BY <1>2, LettersDiffer, SomeLetters, Zenon
    <2> DEFINE c == Chr(s)
    <2>2. c \in Byte /\ c < 127 /\ bytes = {c}
      BY <1>2, LettersAreText
    <2> HIDE DEF c, dollar
    <2>3. 181 # c
      BY <2>2, Bytes
    <2> QED
      BY <2>1, <2>2, <2>3 DEF c
  <1>3. ASSUME bytes \in {{160}, {SOH}, {DLE}, {255}, {STX}, {211}}
        PROVE  181 \notin bytes /\ dollar \notin bytes
    <2> HIDE DEF dollar
    <2> QED
      BY <1>1, <1>3 DEF SOH, DLE, STX
  <1> HIDE DEF dollar
  <1>4. CASE bytes \in {{160}, {SOH}, {DLE}, {255}, {STX}, {211}}
    BY <1>3, <1>4, Zenon DEF dollar
  <1>5. CASE bytes \notin {{160}, {SOH}, {DLE}, {255}, {STX}, {211}}
    <2>1. \E s \in {"#", "!", "@", "A", "E", "<", "P", "{"} : bytes = {Chr(s)}
      <3>1. bytes \in {OneOf({"#"}), OneOf({"!"}), OneOf({"@"}), OneOf({"A"}), OneOf({"E"}), OneOf({"<"}),
                       OneOf({"P"}), {Brace}}
        BY <1>5, Zenon DEF OtherStarts
      <3>2. /\ OneOf({"#"}) = {Chr("#")} /\ OneOf({"!"}) = {Chr("!")} /\ OneOf({"@"}) = {Chr("@")}
            /\ OneOf({"A"}) = {Chr("A")} /\ OneOf({"E"}) = {Chr("E")} /\ OneOf({"<"}) = {Chr("<")}
            /\ OneOf({"P"}) = {Chr("P")} /\ {Brace} = {Chr("{")}
        BY OneLetter, Zenon DEF Brace
      <3> QED
        BY <3>1, <3>2, Zenon
    <2>2. PICK s \in {"#", "!", "@", "A", "E", "<", "P", "{"} : bytes = {Chr(s)}
      BY <2>1, Zenon
    <2>3. Letter(s) /\ s # "$"
      <3>1. Letter("P") /\ Letter("{")
        BY SomeLetters, Zenon
      <3>2. Letter("#") /\ Letter("!") /\ Letter("@") /\ Letter("<") /\ Letter("A") /\ Letter("E")
        BY OtherLetters, Zenon
      <3> QED
        BY <2>2, <3>1, <3>2, Zenon
    <2> QED
      BY <1>2, <2>2, <2>3, Zenon DEF dollar
  <1> QED
    BY <1>4, <1>5

\* Both kinds are taken up wherever the last packet ended.
LEMMA IdleTakesUp ==
    ASSUME NEW state \in Idle
    PROVE  /\ Transition[state][181] = "UBX_LEADER_1"
           /\ Transition[state][Chr("$")] = "NMEA_DOLLAR"
  <1>1. \A r \in Rules : r[1] = state =>
            \/ r[2] = {181} /\ r[3] = "UBX_LEADER_1"
            \/ r[2] = OneOf({"$"}) /\ r[3] = "NMEA_DOLLAR"
            \/ r[2] \in OtherStarts
    <2>1. \A r \in GroundRules : r[1] = "GROUND_STATE" =>
              \/ r[2] = {181} /\ r[3] = "UBX_LEADER_1"
              \/ r[2] = OneOf({"$"}) /\ r[3] = "NMEA_DOLLAR"
              \/ r[2] \in OtherStarts
      BY DEF GroundRules, OtherStarts
    <2>2. \A r \in BodyRules : r[1] = "NMEA_RECOGNIZED" =>
              \/ r[2] = {181} /\ r[3] = "UBX_LEADER_1"
              \/ r[2] = OneOf({"$"}) /\ r[3] = "NMEA_DOLLAR"
              \/ r[2] \in OtherStarts
      BY DEF BodyRules, OtherStarts
    <2>3. \A r \in UbxRules : r[1] = "UBX_RECOGNIZED" =>
              \/ r[2] = {181} /\ r[3] = "UBX_LEADER_1"
              \/ r[2] = OneOf({"$"}) /\ r[3] = "NMEA_DOLLAR"
              \/ r[2] \in OtherStarts
      BY DEF UbxRules
    <2>4. \A r \in Rules : Belongs(r)
      BY RulesBelong
    <2> QED
      BY <2>1, <2>2, <2>3, <2>4, Zenon DEF Belongs, Idle, GroundStates, BodyStates, UbxStates
  <1>2. \E r \in Rules : r[1] = state /\ r[2] = {181}
    <2>1. /\ <<"GROUND_STATE", {181}, "UBX_LEADER_1">> \in GroundRules
          /\ <<"NMEA_RECOGNIZED", {181}, "UBX_LEADER_1">> \in BodyRules
          /\ <<"UBX_RECOGNIZED", {181}, "UBX_LEADER_1">> \in UbxRules
      BY ZenonT(30) DEF GroundRules, BodyRules, UbxRules
    <2> QED
      BY <2>1, SomeRules DEF Idle
  <1>3. \E r \in Rules : r[1] = state /\ r[2] = OneOf({"$"})
    <2>1. /\ <<"GROUND_STATE", OneOf({"$"}), "NMEA_DOLLAR">> \in GroundRules
          /\ <<"NMEA_RECOGNIZED", OneOf({"$"}), "NMEA_DOLLAR">> \in BodyRules
          /\ <<"UBX_RECOGNIZED", OneOf({"$"}), "NMEA_DOLLAR">> \in UbxRules
      BY Zenon DEF GroundRules, BodyRules, UbxRules
    <2> DEFINE dollars == OneOf({"$"})
    <2>2. /\ <<"GROUND_STATE", dollars, "NMEA_DOLLAR">> \in Rules
          /\ <<"NMEA_RECOGNIZED", dollars, "NMEA_DOLLAR">> \in Rules
          /\ <<"UBX_RECOGNIZED", dollars, "NMEA_DOLLAR">> \in Rules
      BY <2>1, SomeRules, Zenon
    <2> HIDE DEF dollars
    <2>3. \E r \in Rules : r[1] = state /\ r[2] = dollars
      BY <2>2 DEF Idle
    <2> QED
      BY <2>3 DEF dollars
  <1>4. state \in Tabled
    BY DEF Idle, Tabled, GroundStates, BodyStates, UbxStates
  <1>5. 181 \in Byte /\ Chr("$") \in Byte /\ 181 # Chr("$")
    <2> DEFINE dollar == Chr("$")
    <2>1. dollar \in Byte /\ dollar < 127
      BY SomeLetters, LettersAreText, Zenon
    <2> HIDE DEF dollar
    <2>2. 181 \in Byte /\ dollar \in Byte /\ 181 # dollar
      BY <2>1, Bytes DEF Byte
    <2> QED
      BY <2>2 DEF dollar
  <1>6. OneOf({"$"}) = {Chr("$")}
    BY OneLetter, Zenon
  <1>9. \A bytes \in OtherStarts : 181 \notin bytes /\ Chr("$") \notin bytes
    BY NoOtherStart, Zenon
  <1>7. Transition[state][181] = "UBX_LEADER_1"
    <2>1. \A r \in Rules : r[1] = state /\ 181 \in r[2] => r[3] = "UBX_LEADER_1"
      BY <1>1, <1>5, <1>6, <1>9, ZenonT(30)
    <2>2. 181 \in {181}
      OBVIOUS
    <2>3. \/ \E r \in Rules : r[1] = state /\ 181 \in r[2] /\ Transition[state][181] = r[3]
          \/ /\ \A r \in Rules : r[1] = state => 181 \notin r[2]
             /\ Transition[state][181] = "GROUND_STATE"
      BY <1>4, <1>5, Tabulated
    <2> QED
      BY <1>2, <2>1, <2>2, <2>3, ZenonT(30)
  <1>8. Transition[state][Chr("$")] = "NMEA_DOLLAR"
    <2>1. ASSUME NEW r \in Rules, r[1] = state, Chr("$") \in r[2] PROVE r[3] = "NMEA_DOLLAR"
      <3>0. Chr("$") \notin {181}
        BY <1>5, Zenon
      <3>1. r[2] # {181} /\ r[2] \notin OtherStarts
        <4>1. r[2] # {181}
          BY <2>1, <3>0, Zenon
        <4>2. r[2] \notin OtherStarts
          BY <1>9, <2>1, Zenon
        <4> QED
          BY <4>1, <4>2
      <3> QED
        BY <1>1, <2>1, <3>1, Zenon
    <2>2. Chr("$") \in OneOf({"$"})
      BY <1>6, Zenon
    <2> DEFINE dollar == Chr("$")
    <2>3. \/ \E r \in Rules : r[1] = state /\ dollar \in r[2] /\ Transition[state][dollar] = r[3]
          \/ /\ \A r \in Rules : r[1] = state => dollar \notin r[2]
             /\ Transition[state][dollar] = "GROUND_STATE"
      <3> HIDE DEF dollar
      <3> QED
        BY <1>4, <1>5, Tabulated DEF dollar
    <2> QED
      BY <1>3, <2>1, <2>2, <2>3, Zenon
  <1> QED
    BY <1>7, <1>8

LEMMA Ruled ==
    ASSUME NEW state \in Tabled, NEW c \in Byte, NEW next,
           \E r \in Rules : r[1] = state /\ c \in r[2],
           \A r \in Rules : r[1] = state /\ c \in r[2] => r[3] = next
    PROVE  Transition[state][c] = next
  BY Tabulated

\* The way of a UBX message, but for its length.
LEMMA UbxGoesOn ==
    /\ Transition["UBX_LEADER_1"][98] = "UBX_LEADER_2"
    /\ \A c \in Byte :
          /\ Transition["UBX_LEADER_2"][c] = "UBX_CLASS_ID"
          /\ Transition["UBX_CLASS_ID"][c] = "UBX_MESSAGE_ID"
          /\ Transition["UBX_MESSAGE_ID"][c] = "UBX_LENGTH_1"
          /\ Transition["UBX_LENGTH_2"][c] = "UBX_PAYLOAD"
          /\ Transition["UBX_CHECKSUM_A"][c] = "UBX_RECOGNIZED"
  <1> DEFINE way == {<<"UBX_LEADER_2", "UBX_CLASS_ID">>, <<"UBX_CLASS_ID", "UBX_MESSAGE_ID">>,
                     <<"UBX_MESSAGE_ID", "UBX_LENGTH_1">>, <<"UBX_LENGTH_2", "UBX_PAYLOAD">>,
                     <<"UBX_CHECKSUM_A", "UBX_RECOGNIZED">>}
  <1>1. \A s \in UbxStates : s \in Tabled /\ \A r \in Rules : r[1] = s => r \in UbxRules
    BY RulesBelong DEF Belongs, Tabled
  <1>2. ASSUME NEW leg \in way, NEW c \in Byte PROVE Transition[leg[1]][c] = leg[2]
    <2>1. leg[1] \in UbxStates
      BY DEF UbxStates
    <2>2. <<leg[1], Byte, leg[2]>> \in UbxRules
      BY DEF UbxRules
    <2>3. \A r \in UbxRules : r[1] = leg[1] => r[3] = leg[2]
      BY DEF UbxRules
    <2> HIDE DEF way
    <2>4. \E r \in Rules : r[1] = leg[1] /\ c \in r[2]
      BY <2>2, SomeRules
    <2>5. \A r \in Rules : r[1] = leg[1] /\ c \in r[2] => r[3] = leg[2]
      BY <1>1, <2>1, <2>3
    <2> QED
      BY <1>1, <2>1, <2>4, <2>5, Ruled
  <1>3. Transition["UBX_LEADER_1"][98] = "UBX_LEADER_2"
    <2>1. "UBX_LEADER_1" \in UbxStates /\ 98 \in Byte
      BY DEF UbxStates, Byte
    <2>2. <<"UBX_LEADER_1", {98}, "UBX_LEADER_2">> \in UbxRules
      BY DEF UbxRules
    <2>3. \A r \in UbxRules : r[1] = "UBX_LEADER_1" => r[3] = "UBX_LEADER_2"
      BY DEF UbxRules
    <2>4. \E r \in Rules : r[1] = "UBX_LEADER_1" /\ 98 \in r[2]
      BY <2>2, SomeRules
    <2>5. \A r \in Rules : r[1] = "UBX_LEADER_1" /\ 98 \in r[2] => r[3] = "UBX_LEADER_2"
      BY <1>1, <2>1, <2>3
    <2> QED
      BY <1>1, <2>1, <2>4, <2>5, Ruled
  <1>4. /\ <<"UBX_LEADER_2", "UBX_CLASS_ID">> \in way /\ <<"UBX_CLASS_ID", "UBX_MESSAGE_ID">> \in way
        /\ <<"UBX_MESSAGE_ID", "UBX_LENGTH_1">> \in way /\ <<"UBX_LENGTH_2", "UBX_PAYLOAD">> \in way
        /\ <<"UBX_CHECKSUM_A", "UBX_RECOGNIZED">> \in way
    OBVIOUS
  <1> HIDE DEF way
  <1> QED
    BY <1>2, <1>3, <1>4

\* The way of a sentence.
LEMMA NmeaGoesOn ==
    /\ Transition["NMEA_DOLLAR"][Chr("G")] = "NMEA_PUB_LEAD"
    /\ \A c \in OneOf({"P", "N", "L"}) : Transition["NMEA_PUB_LEAD"][c] = "NMEA_LEADER_END"
    /\ \A c \in Printing \ OneOf({"$"}) : Transition["NMEA_LEADER_END"][c] = "NMEA_LEADER_END"
    /\ Transition["NMEA_LEADER_END"][13] = "NMEA_CR"
    /\ Transition["NMEA_CR"][10] = "NMEA_RECOGNIZED"
  <1>1. /\ \A s \in LeaderStates : s \in Tabled /\ \A r \in Rules : r[1] = s => r \in LeaderRules
        /\ \A s \in BodyStates : s \in Tabled /\ \A r \in Rules : r[1] = s => r \in BodyRules
    BY RulesBelong DEF Belongs, Tabled
  <1>2. /\ "NMEA_DOLLAR" \in LeaderStates /\ "NMEA_PUB_LEAD" \in LeaderStates
        /\ "NMEA_LEADER_END" \in BodyStates /\ "NMEA_CR" \in BodyStates
    BY DEF LeaderStates, BodyStates
  <1>3. 13 \in Byte /\ 10 \in Byte /\ 13 \notin Printing /\ 10 \notin Printing /\ Printing \subseteq Byte
    BY DEF Byte, Printing
  <1>4. Transition["NMEA_DOLLAR"][Chr("G")] = "NMEA_PUB_LEAD"
    <2> DEFINE g == Chr("G")
               Others == {"P", "I", "W", "H", "T", "A", "E", "S", "C"}
    <2>1. \A r \in LeaderRules : r[1] = "NMEA_DOLLAR" =>
              r[3] = "NMEA_PUB_LEAD" \/ \E s \in Others : r[2] = OneOf({s})
      <3>1. \A r \in LeaderRules : r[1] = "NMEA_DOLLAR" =>
                \/ r[3] = "NMEA_PUB_LEAD"
                \/ r[2] \in {OneOf({"P"}), OneOf({"I"}), OneOf({"W"}), OneOf({"H"}), OneOf({"T"}), OneOf({"A"}),
                             OneOf({"E"}), OneOf({"S"}), OneOf({"C"})}
        BY DEF LeaderRules
      <3> QED
        BY <3>1, Zenon
    <2>2. ASSUME NEW s \in Others PROVE g \notin OneOf({s})
      <3>1. Letter(s) /\ s # "G"
        BY SomeLetters, OtherLetters, Zenon
      <3>2. Chr(s) # g
        BY <3>1, LettersDiffer, SomeLetters, Zenon
      <3>3. OneOf({s}) = {Chr(s)}
        BY OneLetter
      <3> QED
        BY <3>2, <3>3
    <2>3. g \in Byte
      BY SomeLetters, LettersAreText, Zenon
    <2>4. <<"NMEA_DOLLAR", OneOf({"G"}), "NMEA_PUB_LEAD">> \in LeaderRules
      BY DEF LeaderRules
    <2>5. g \in OneOf({"G"})
      BY Zenon DEF OneOf
    <2> HIDE DEF g, Others
    <2>6. \E r \in Rules : r[1] = "NMEA_DOLLAR" /\ g \in r[2]
      BY <2>4, <2>5, SomeRules
    <2>7. \A r \in Rules : r[1] = "NMEA_DOLLAR" /\ g \in r[2] => r[3] = "NMEA_PUB_LEAD"
      BY <1>1, <1>2, <2>1, <2>2
    <2>8. Transition["NMEA_DOLLAR"][g] = "NMEA_PUB_LEAD"
      BY <1>1, <1>2, <2>3, <2>6, <2>7, Ruled
    <2> QED
      BY <2>8 DEF g
  <1>5. ASSUME NEW c \in OneOf({"P", "N", "L"}) PROVE Transition["NMEA_PUB_LEAD"][c] = "NMEA_LEADER_END"
    <2>1. <<"NMEA_PUB_LEAD", OneOf({"P", "N", "L"}), "NMEA_LEADER_END">> \in LeaderRules
      BY DEF LeaderRules
    <2>2. \A r \in LeaderRules : r[1] = "NMEA_PUB_LEAD" => r[3] = "NMEA_LEADER_END"
      BY DEF LeaderRules
    <2>3. c \in Byte
      <3>1. PICK s \in {"P", "N", "L"} : c = Chr(s)
        BY DEF OneOf
      <3>2. Letter(s)
        BY SomeLetters, Zenon
      <3> QED
        BY <3>1, <3>2, LettersAreText
    <2>4. \E r \in Rules : r[1] = "NMEA_PUB_LEAD" /\ c \in r[2]
      BY <2>1, SomeRules
    <2>5. \A r \in Rules : r[1] = "NMEA_PUB_LEAD" /\ c \in r[2] => r[3] = "NMEA_LEADER_END"
      BY <1>1, <1>2, <2>2
    <2> QED
      BY <1>1, <1>2, <2>3, <2>4, <2>5, Ruled
  <1> DEFINE body == Printing \ OneOf({"$"})
  <1>6. /\ <<"NMEA_LEADER_END", body, "NMEA_LEADER_END">> \in BodyRules
        /\ <<"NMEA_LEADER_END", OneOf({"\r"}), "NMEA_CR">> \in BodyRules
        /\ <<"NMEA_CR", OneOf({"\n"}), "NMEA_RECOGNIZED">> \in BodyRules
    BY Zenon DEF BodyRules
  <1>7. /\ \A r \in BodyRules : r[1] = "NMEA_LEADER_END" =>
              \/ r[2] = body /\ r[3] = "NMEA_LEADER_END"
              \/ r[2] = OneOf({"\r"}) /\ r[3] = "NMEA_CR"
              \/ r[2] = OneOf({"\n"}) /\ r[3] = "NMEA_RECOGNIZED"
        /\ \A r \in BodyRules : r[1] = "NMEA_CR" => r[3] = "NMEA_RECOGNIZED" \/ r[2] = OneOf({"\r"})
    BY DEF BodyRules
  <1>8. body \subseteq Byte /\ 13 \notin body /\ 10 \notin body
    BY <1>3
  <1> HIDE DEF body
  <1>9. ASSUME NEW c \in body PROVE Transition["NMEA_LEADER_END"][c] = "NMEA_LEADER_END"
    <2>1. \E r \in Rules : r[1] = "NMEA_LEADER_END" /\ c \in r[2]
      BY <1>6, SomeRules
    <2>2. \A r \in Rules : r[1] = "NMEA_LEADER_END" /\ c \in r[2] => r[3] = "NMEA_LEADER_END"
      BY <1>1, <1>2, <1>7, <1>8, LineEnds
    <2> QED
      BY <1>1, <1>2, <1>8, <2>1, <2>2, Ruled
  <1>10. Transition["NMEA_LEADER_END"][13] = "NMEA_CR"
    <2>1. \E r \in Rules : r[1] = "NMEA_LEADER_END" /\ 13 \in r[2]
      BY <1>6, SomeRules, LineEnds
    <2>2. \A r \in Rules : r[1] = "NMEA_LEADER_END" /\ 13 \in r[2] => r[3] = "NMEA_CR"
      BY <1>1, <1>2, <1>7, <1>8, LineEnds
    <2> QED
      BY <1>1, <1>2, <1>3, <2>1, <2>2, Ruled
  <1>11. Transition["NMEA_CR"][10] = "NMEA_RECOGNIZED"
    <2>1. \E r \in Rules : r[1] = "NMEA_CR" /\ 10 \in r[2]
      BY <1>6, SomeRules, LineEnds
    <2>2. \A r \in Rules : r[1] = "NMEA_CR" /\ 10 \in r[2] => r[3] = "NMEA_RECOGNIZED"
      BY <1>1, <1>2, <1>7, LineEnds
    <2> QED
      BY <1>1, <1>2, <1>3, <2>1, <2>2, Ruled
  <1> QED
    BY <1>4, <1>5, <1>9, <1>10, <1>11 DEF body

-----------------------------------------------------------------------------
(* The way of the machine through a packet of a u-blox receiver *)

\* Where the machine is inside of a UBX message, and what is left of its length.
InUbx(bytes, lx) ==
    LET payload == bytes[5] + 256 * bytes[6]
    IN  \/ lx.ptr = 1 /\ lx.state = "UBX_LEADER_1"
        \/ lx.ptr = 2 /\ lx.state = "UBX_LEADER_2"
        \/ lx.ptr = 3 /\ lx.state = "UBX_CLASS_ID"
        \/ lx.ptr = 4 /\ lx.state = "UBX_MESSAGE_ID"
        \/ lx.ptr = 5 /\ lx.state = "UBX_LENGTH_1" /\ lx.length = bytes[5]
        \/ lx.ptr = 6 /\ lx.state = "UBX_LENGTH_2" /\ lx.length = payload
        \/ lx.ptr \in 7..(payload + 6) /\ lx.state = "UBX_PAYLOAD" /\ lx.length = payload - (lx.ptr - 7)
        \/ lx.ptr = payload + 7 /\ lx.state = "UBX_CHECKSUM_A"

\* And inside of a sentence.
InNmea(bytes, lx) ==
    \/ lx.ptr = 1 /\ lx.state = "NMEA_DOLLAR"
    \/ lx.ptr = 2 /\ lx.state = "NMEA_PUB_LEAD"
    \/ lx.ptr \in 3..(Len(bytes) - 2) /\ lx.state = "NMEA_LEADER_END"
    \/ lx.ptr = Len(bytes) - 1 /\ lx.state = "NMEA_CR"

\* A step of the machine with a byte, which leaves or takes it.
Takes(lx, c, next) ==
    \E taken, stale :
        /\ taken.state = lx.state /\ taken.length = lx.length
        /\ next.length = NewLength(taken, c, stale)
        /\ next.state = NewState(taken, c, next.length, next.depth, stale)
        /\ next.ptr = IF PushedBack(lx.state, c) THEN lx.ptr ELSE lx.ptr + 1

LEMMA UbxFrames ==
    ASSUME NEW b \in Seq(Byte), UbxFrame(b)
    PROVE  LET payload == b[5] + 256 * b[6]
           IN  /\ payload \in Nat /\ 1 <= payload /\ payload <= MaxPacketLength /\ payload <= 65535
               /\ Len(b) = payload + 8 /\ b[1] = 181 /\ b[2] = 98
               /\ b[5] \in Nat /\ b[6] \in Nat /\ \A i \in 1..(payload + 8) : b[i] \in Byte
  <1> DEFINE payload == b[5] + 256 * b[6]
             n == Len(b)
  <1>1. /\ 8 < n /\ n \in Nat /\ payload <= MaxPacketLength /\ n = payload + 8 /\ b[1] = 181 /\ b[2] = 98
        /\ \A i \in 1..n : b[i] \in Byte
    BY DEF UbxFrame
  <1> HIDE DEF n
  <1>2. b[5] \in Byte /\ b[6] \in Byte
    BY <1>1
  <1>3. b[5] \in Nat /\ b[5] <= 255 /\ b[6] \in Nat /\ b[6] <= 255
    BY <1>2, Bytes
  <1>4. payload \in Nat /\ payload <= 65535
    BY <1>3
  <1> HIDE DEF payload
  <1>5. 1 <= payload
    BY <1>1, <1>4
  <1> QED
    BY <1>1, <1>3, <1>4, <1>5 DEF payload, n

\* In the states of both ways a byte goes by the table, but for the length.
LEMMA GoesByTable ==
    ASSUME NEW lx, lx.state \in Idle \cup {"UBX_LEADER_1", "UBX_LEADER_2", "UBX_CLASS_ID", "UBX_MESSAGE_ID",
                                           "UBX_LENGTH_2", "UBX_CHECKSUM_A", "NMEA_DOLLAR", "NMEA_PUB_LEAD",
                                           "NMEA_LEADER_END", "NMEA_CR"},
           NEW c, NEW length, NEW depth, NEW stale
    PROVE  NewState(lx, c, length, depth, stale) = Transition[lx.state][c]
  BY PayloadsEnd DEF NewState, Counted, Idle

LEMMA NotPushedBack ==
    ASSUME NEW state, NEW c,
           \/ state \in {"NMEA_RECOGNIZED", "UBX_RECOGNIZED", "UBX_LEADER_1", "UBX_LEADER_2", "UBX_CLASS_ID",
                         "UBX_MESSAGE_ID", "UBX_LENGTH_1", "UBX_LENGTH_2", "UBX_PAYLOAD", "UBX_CHECKSUM_A",
                         "NMEA_DOLLAR", "NMEA_PUB_LEAD", "NMEA_CR"}
           \/ state = "GROUND_STATE" /\ c # Brace
           \/ state = "NMEA_LEADER_END" /\ c # Chr("$")
    PROVE  ~PushedBack(state, c)
  BY Zenon DEF PushedBack

\* A byte takes the machine one place further through a UBX message.
LEMMA UbxAdvances ==
    ASSUME NEW b \in Seq(Byte), UbxFrame(b), NEW lx, NEW next,
           (lx.ptr = 0 /\ lx.state \in Idle) \/ InUbx(b, lx), Takes(lx, b[lx.ptr + 1], next)
    PROVE  /\ next.ptr = lx.ptr + 1
           /\ \/ next.ptr = Len(b) /\ next.state = "UBX_RECOGNIZED"
              \/ next.ptr < Len(b) /\ InUbx(b, next)
  <1> SUFFICES ASSUME NEW taken, NEW stale, taken.state = lx.state, taken.length = lx.length,
                      LET c == b[lx.ptr + 1]
                      IN  /\ next.length = NewLength(taken, c, stale)
                          /\ next.state = NewState(taken, c, next.length, next.depth, stale)
                          /\ next.ptr = IF PushedBack(lx.state, c) THEN lx.ptr ELSE lx.ptr + 1
               PROVE  /\ next.ptr = lx.ptr + 1
                      /\ \/ next.ptr = Len(b) /\ next.state = "UBX_RECOGNIZED"
                         \/ next.ptr < Len(b) /\ InUbx(b, next)
    BY Zenon DEF Takes
  <1> DEFINE payload == b[5] + 256 * b[6]
             c == b[lx.ptr + 1]
             state == lx.state
  <1>1. /\ payload \in Nat /\ 1 <= payload /\ payload <= MaxPacketLength /\ payload <= 65535
        /\ Len(b) = payload + 8 /\ b[1] = 181 /\ b[2] = 98
        /\ b[5] \in Nat /\ b[6] \in Nat /\ \A i \in 1..(payload + 8) : b[i] \in Byte
    BY UbxFrames
  <1>2. /\ next.length = NewLength(taken, c, stale)
        /\ next.state = NewState(taken, c, next.length, next.depth, stale)
        /\ next.ptr = IF PushedBack(state, c) THEN lx.ptr ELSE lx.ptr + 1
    OBVIOUS
  <1>3. \/ lx.ptr = 0 /\ state \in Idle
        \/ lx.ptr = 1 /\ state = "UBX_LEADER_1"
        \/ lx.ptr = 2 /\ state = "UBX_LEADER_2"
        \/ lx.ptr = 3 /\ state = "UBX_CLASS_ID"
        \/ lx.ptr = 4 /\ state = "UBX_MESSAGE_ID"
        \/ lx.ptr = 5 /\ state = "UBX_LENGTH_1" /\ lx.length = b[5]
        \/ lx.ptr = 6 /\ state = "UBX_LENGTH_2" /\ lx.length = payload
        \/ lx.ptr \in 7..(payload + 6) /\ state = "UBX_PAYLOAD" /\ lx.length = payload - (lx.ptr - 7)
        \/ lx.ptr = payload + 7 /\ state = "UBX_CHECKSUM_A"
    BY DEF InUbx
  <1> HIDE DEF payload
  <1>4. lx.ptr \in 0..(payload + 7) /\ c \in Byte
    <2> DEFINE at == lx.ptr
    <2>1. at \in 0..(payload + 7)
      <3>1. at \in 0..6 \/ at \in 7..(payload + 6) \/ at = payload + 7
        BY <1>3
      <3>2. payload \in Nat /\ 1 <= payload
        BY <1>1
      <3> HIDE DEF at
      <3> QED
        BY <3>1, <3>2
    <2> HIDE DEF at
    <2>2. at + 1 \in 1..(payload + 8)
      BY <1>1, <2>1
    <2> QED
      BY <1>1, <2>1, <2>2 DEF at
  <1> HIDE DEF state
  <1>5. CASE lx.ptr = 0 /\ state \in Idle
    <2>1. c = 181
      BY <1>1, <1>5
    <2>2. c # Brace
      <3>1. Letter("{")
        BY SomeLetters, Zenon
      <3>2. Brace < 127 /\ Brace \in Byte
        BY <3>1, LettersAreText, Zenon DEF Brace
      <3> QED
        BY <2>1, <3>2, Bytes
    <2> HIDE DEF c
    <2>3. ~PushedBack(state, c)
      BY <1>5, <2>2, NotPushedBack DEF Idle
    <2>4. next.state = "UBX_LEADER_1"
      BY <1>2, <1>5, <2>1, GoesByTable, IdleTakesUp DEF state
    <2>5. next.ptr = 1 /\ next.ptr = lx.ptr + 1 /\ next.ptr < Len(b)
      BY <1>1, <1>2, <1>5, <2>3
    <2> QED
      BY <2>4, <2>5 DEF InUbx
  <1>6. CASE state \in {"UBX_LEADER_1", "UBX_LEADER_2", "UBX_CLASS_ID", "UBX_MESSAGE_ID", "UBX_LENGTH_2",
                        "UBX_CHECKSUM_A"}
    <2>1. next.state = Transition[state][c] /\ ~PushedBack(state, c) /\ next.ptr = lx.ptr + 1
      <3>1. next.state = Transition[state][c]
        BY <1>2, <1>6, GoesByTable DEF state
      <3>2. ~PushedBack(state, c)
        BY <1>6, NotPushedBack
      <3> QED
        BY <1>2, <3>1, <3>2
    <2>2. CASE state = "UBX_LEADER_1"
      <3>1. lx.ptr = 1
        BY <1>3, <2>2 DEF Idle
      <3>2. next.ptr = 2 /\ next.state = "UBX_LEADER_2"
        BY <1>1, <1>4, <2>1, <2>2, <3>1, UbxGoesOn
      <3>3. next.ptr < Len(b)
        BY <1>1, <3>2
      <3> QED
        BY <2>1, <3>2, <3>3 DEF InUbx
    <2>3. CASE state = "UBX_LEADER_2"
      <3>1. lx.ptr = 2
        BY <1>3, <2>3 DEF Idle
      <3>2. next.ptr = 3 /\ next.state = "UBX_CLASS_ID"
        BY <1>1, <1>4, <2>1, <2>3, <3>1, UbxGoesOn
      <3>3. next.ptr < Len(b)
        BY <1>1, <3>2
      <3> QED
        BY <2>1, <3>2, <3>3 DEF InUbx
    <2>4. CASE state = "UBX_CLASS_ID"
      <3>1. lx.ptr = 3
        BY <1>3, <2>4 DEF Idle
      <3>2. next.ptr = 4 /\ next.state = "UBX_MESSAGE_ID"
        BY <1>1, <1>4, <2>1, <2>4, <3>1, UbxGoesOn
      <3>3. next.ptr < Len(b)
        BY <1>1, <3>2
      <3> QED
        BY <2>1, <3>2, <3>3 DEF InUbx
    <2>5. CASE state = "UBX_MESSAGE_ID"
      <3>1. next.length = c
        BY <1>2, <2>5, Lengths DEF state
      <3>2. lx.ptr = 4 /\ c = b[5] /\ next.state = "UBX_LENGTH_1"
        BY <1>3, <1>4, <2>1, <2>5, UbxGoesOn DEF Idle
      <3> HIDE DEF c
      <3>3. next.ptr = 5 /\ next.length = b[5]
        BY <2>1, <3>1, <3>2
      <3>4. next.ptr < Len(b)
        BY <1>1, <3>3
      <3> QED
        BY <2>1, <3>2, <3>3, <3>4 DEF InUbx
    <2>6. CASE state = "UBX_LENGTH_2"
      <3>1. next.length = lx.length
        <4>1. taken.state \notin Reckoning
          BY <2>6 DEF state, Reckoning, Counted
        <4> QED
          BY <1>2, <4>1, Lengths
      <3>2. lx.ptr = 6 /\ lx.length = payload /\ next.state = "UBX_PAYLOAD"
        BY <1>3, <1>4, <2>1, <2>6, UbxGoesOn DEF Idle
      <3> HIDE DEF c
      <3>3. next.ptr = 7 /\ next.ptr \in 7..(payload + 6) /\ next.length = payload - (next.ptr - 7)
        BY <1>1, <2>1, <3>1, <3>2
      <3> QED
        BY <1>1, <2>1, <3>2, <3>3 DEF InUbx, payload
    <2>7. CASE state = "UBX_CHECKSUM_A"
      <3>1. lx.ptr = payload + 7 /\ next.state = "UBX_RECOGNIZED"
        BY <1>3, <1>4, <2>1, <2>7, UbxGoesOn DEF Idle
      <3> QED
        BY <1>1, <2>1, <3>1
    <2> QED
      BY <1>6, <2>2, <2>3, <2>4, <2>5, <2>6, <2>7
  <1>7. CASE state = "UBX_LENGTH_1"
    <2>1. ~PushedBack(state, c)
      BY <1>7, NotPushedBack
    <2>2. lx.ptr = 5 /\ lx.length = b[5] /\ c = b[6]
      BY <1>3, <1>7 DEF Idle
    <2>3. next.length = (lx.length + 256 * c) % SIZE
      BY <1>2, <1>7, Lengths DEF state
    <2>4. next.length = payload
      <3>1. lx.length + 256 * c = payload
        BY <2>2 DEF payload
      <3> QED
        BY <1>1, <2>3, <3>1, Sizes, SMT
    <2>5. next.state = IF next.length <= MaxPacketLength THEN "UBX_LENGTH_2" ELSE "GROUND_STATE"
      BY <1>2, <1>7, PayloadsEnd DEF state, NewState, Counted
    <2> HIDE DEF c
    <2>6. next.state = "UBX_LENGTH_2"
      BY <1>1, <2>4, <2>5
    <2>7. next.ptr = 6
      BY <1>2, <2>1, <2>2
    <2>8. InUbx(b, next)
      BY <2>4, <2>6, <2>7, Zenon DEF InUbx, payload
    <2> QED
      BY <1>1, <2>2, <2>7, <2>8
  <1>8. CASE state = "UBX_PAYLOAD"
    <2> DEFINE at == lx.ptr
               left == lx.length
               on == next.ptr
               length == next.length
    <2>1. ~PushedBack(state, c)
      BY <1>8, NotPushedBack
    <2>2. at \in 7..(payload + 6) /\ left = payload - (at - 7)
      BY <1>3, <1>8 DEF Idle
    <2>3. length = (left - 1) % SIZE
      BY <1>2, <1>8, PayloadsEnd, SMT DEF state, NewLength, Decremented, Counted
    <2>4. next.state = IF length = 0 THEN "UBX_CHECKSUM_A" ELSE "UBX_PAYLOAD"
      BY <1>2, <1>8, PayloadsEnd DEF state, NewState, Counted, AfterPayload
    <2>5. on = at + 1
      BY <1>2, <2>1
    <2>6. payload \in Nat /\ payload <= 65535 /\ Len(b) = payload + 8
      BY <1>1
    <2> HIDE DEF at, left, on, length
    <2>7. length = payload - (on - 7)
      <3> DEFINE less == left - 1
      <3>1. less \in Nat /\ less < 1000000 /\ less = payload - (on - 7)
        BY <2>2, <2>5, <2>6
      <3>2. length = less % SIZE
        BY <2>3
      <3> HIDE DEF less
      <3>3. less < SIZE
        BY <3>1, Sizes
      <3>4. less % SIZE = less
        BY <3>1, <3>3, Sizes
      <3> QED
        BY <3>1, <3>2, <3>4
    <2>8. CASE length = 0
      <3>1. on = payload + 7 /\ on < payload + 8
        BY <2>2, <2>5, <2>6, <2>7, <2>8
      <3>2. next.state = "UBX_CHECKSUM_A"
        BY <2>4, <2>8
      <3> QED
        BY <2>5, <2>6, <3>1, <3>2 DEF InUbx, payload, on, at
    <2>9. CASE length # 0
      <3>1. on \in 7..(payload + 6) /\ on < payload + 8
        BY <2>2, <2>5, <2>6, <2>7, <2>9
      <3>2. next.state = "UBX_PAYLOAD"
        BY <2>4, <2>9
      <3> QED
        BY <2>5, <2>6, <2>7, <3>1, <3>2 DEF InUbx, payload, on, at, length
    <2> QED
      BY <2>8, <2>9
  <1> QED
    BY <1>3, <1>5, <1>6, <1>7, <1>8

\* And one place further through a sentence.
LEMMA NmeaAdvances ==
    ASSUME NEW b \in Seq(Byte), NmeaFrame(b), NEW lx, NEW next,
           (lx.ptr = 0 /\ lx.state \in Idle) \/ InNmea(b, lx), Takes(lx, b[lx.ptr + 1], next)
    PROVE  /\ next.ptr = lx.ptr + 1
           /\ \/ next.ptr = Len(b) /\ next.state = "NMEA_RECOGNIZED"
              \/ next.ptr < Len(b) /\ InNmea(b, next)
  <1> SUFFICES ASSUME NEW taken, NEW stale, taken.state = lx.state, taken.length = lx.length,
                      LET c == b[lx.ptr + 1]
                      IN  /\ next.length = NewLength(taken, c, stale)
                          /\ next.state = NewState(taken, c, next.length, next.depth, stale)
                          /\ next.ptr = IF PushedBack(lx.state, c) THEN lx.ptr ELSE lx.ptr + 1
               PROVE  /\ next.ptr = lx.ptr + 1
                      /\ \/ next.ptr = Len(b) /\ next.state = "NMEA_RECOGNIZED"
                         \/ next.ptr < Len(b) /\ InNmea(b, next)
    BY Zenon DEF Takes
  <1> DEFINE last == Len(b)
             c == b[lx.ptr + 1]
             state == lx.state
             at == lx.ptr
  <1>1. /\ 4 < last /\ last \in Nat /\ b[1] = Chr("$") /\ b[2] = Chr("G") /\ b[3] \in OneOf({"P", "N", "L"})
        /\ \A i \in 4..(last - 2) : b[i] \in Printing \ OneOf({"$"})
        /\ b[last - 1] = 13 /\ b[last] = 10
    <2>1. last \in Nat
      OBVIOUS
    <2>2. /\ 4 < last /\ b[1] = Chr("$") /\ b[2] = Chr("G") /\ b[3] \in OneOf({"P", "N", "L"})
          /\ \A i \in 4..(last - 2) : b[i] \in Printing \ OneOf({"$"})
          /\ b[last - 1] = Chr("\r") /\ b[last] = Chr("\n")
      BY Zenon DEF NmeaFrame
    <2> HIDE DEF last
    <2> QED
      BY <2>1, <2>2, LineEnds, Zenon
  <1>2. /\ next.state = NewState(taken, c, next.length, next.depth, stale)
        /\ next.ptr = IF PushedBack(state, c) THEN at ELSE at + 1
    OBVIOUS
  <1>3. \/ at = 0 /\ state \in Idle
        \/ at = 1 /\ state = "NMEA_DOLLAR"
        \/ at = 2 /\ state = "NMEA_PUB_LEAD"
        \/ at \in 3..(last - 2) /\ state = "NMEA_LEADER_END"
        \/ at = last - 1 /\ state = "NMEA_CR"
    BY DEF InNmea
  <1>4. next.state = Transition[state][c]
    <2>1. taken.state \in Idle \cup {"NMEA_DOLLAR", "NMEA_PUB_LEAD", "NMEA_LEADER_END", "NMEA_CR"}
      BY <1>3
    <2> QED
      BY <1>2, <2>1, GoesByTable
  <1>5. c = b[at + 1]
    OBVIOUS
  <1> HIDE DEF c, state, at
  <1>6. Chr("$") # Brace /\ Chr("$") # 13
    <2>1. Letter("$") /\ Letter("{")
      BY SomeLetters, Zenon
    <2>2. Chr("$") # Chr("{")
      BY <2>1, LettersDiffer, Zenon
    <2> DEFINE dollar == Chr("$")
    <2>3. dollar \in Byte /\ dollar > 31
      BY <2>1, LettersAreText, Zenon
    <2> HIDE DEF dollar
    <2>4. dollar # 13
      <3>1. dollar \in Nat
        BY <2>3, Bytes
      <3> QED
        BY <2>3, <3>1
    <2>5. Chr("$") # Brace
      BY <2>2, Zenon DEF Brace
    <2> QED
      BY <2>4, <2>5, Zenon DEF dollar
  <1>7. CASE at = 0 /\ state \in Idle
    <2>1. c = Chr("$")
      <3>1. c = b[1]
        BY <1>5, <1>7
      <3> QED
        BY <1>1, <3>1, Zenon
    <2>2. ~PushedBack(state, c)
      <3>1. c # Brace
        BY <1>6, <2>1, Zenon
      <3> QED
        BY <1>7, <3>1, NotPushedBack DEF Idle
    <2>3. next.state = "NMEA_DOLLAR"
      <3>1. Transition[state][Chr("$")] = "NMEA_DOLLAR"
        BY <1>7, IdleTakesUp
      <3> QED
        BY <1>4, <2>1, <3>1, Zenon
    <2>4. next.ptr = 1 /\ next.ptr = at + 1 /\ next.ptr < last
      BY <1>1, <1>2, <1>7, <2>2
    <2> QED
      BY <2>3, <2>4 DEF InNmea, at
  <1>8. CASE at = 1 /\ state = "NMEA_DOLLAR"
    <2>1. ~PushedBack(state, c)
      BY <1>8, NotPushedBack
    <2>2. c = Chr("G")
      BY <1>1, <1>5, <1>8
    <2>3. next.state = "NMEA_PUB_LEAD"
      BY <1>4, <1>8, <2>2, NmeaGoesOn
    <2>4. next.ptr = 2 /\ next.ptr = at + 1 /\ next.ptr < last
      BY <1>1, <1>2, <1>8, <2>1
    <2> QED
      BY <2>3, <2>4 DEF InNmea, at
  <1>9. CASE at = 2 /\ state = "NMEA_PUB_LEAD"
    <2>1. ~PushedBack(state, c)
      BY <1>9, NotPushedBack
    <2>2. c \in OneOf({"P", "N", "L"})
      BY <1>1, <1>5, <1>9
    <2>3. next.state = "NMEA_LEADER_END"
      BY <1>4, <1>9, <2>2, NmeaGoesOn
    <2>4. next.ptr = 3 /\ next.ptr = at + 1 /\ next.ptr < last /\ next.ptr \in 3..(last - 2)
      BY <1>1, <1>2, <1>9, <2>1
    <2> QED
      BY <2>3, <2>4 DEF InNmea, at
  <1>10. CASE at \in 3..(last - 2) /\ state = "NMEA_LEADER_END" /\ at # last - 2
    <2>1. at + 1 \in 4..(last - 2) /\ at + 1 \in 3..(last - 2) /\ at + 1 < last
      BY <1>1, <1>10
    <2>2. c \in Printing \ OneOf({"$"})
      BY <1>1, <1>5, <2>1
    <2>3. next.state = "NMEA_LEADER_END"
      BY <1>4, <1>10, <2>2, NmeaGoesOn
    <2>4. ~PushedBack(state, c)
      <3>1. c # Chr("$")
        BY <2>2, OneLetter, Zenon
      <3> QED
        BY <1>10, <3>1, NotPushedBack, Zenon
    <2>5. next.ptr = at + 1 /\ next.ptr < last /\ next.ptr \in 3..(last - 2)
      BY <1>2, <2>1, <2>4
    <2> QED
      BY <2>3, <2>5 DEF InNmea, at
  <1>11. CASE at = last - 2 /\ state = "NMEA_LEADER_END"
    <2>1. at + 1 = last - 1 /\ at + 1 < last
      BY <1>1, <1>11
    <2>2. c = 13
      BY <1>1, <1>5, <2>1
    <2>3. next.state = "NMEA_CR"
      BY <1>4, <1>11, <2>2, NmeaGoesOn
    <2>4. ~PushedBack(state, c)
      <3>1. c # Chr("$")
        BY <1>6, <2>2, Zenon
      <3> QED
        BY <1>11, <3>1, NotPushedBack, Zenon
    <2>5. next.ptr = at + 1 /\ next.ptr < last /\ next.ptr = last - 1
      BY <1>2, <2>1, <2>4
    <2> QED
      BY <2>3, <2>5 DEF InNmea, at
  <1>12. CASE at = last - 1 /\ state = "NMEA_CR"
    <2>1. at + 1 = last
      BY <1>1, <1>12
    <2>2. c = 10
      BY <1>1, <1>5, <2>1
    <2>3. next.state = "NMEA_RECOGNIZED"
      BY <1>4, <1>12, <2>2, NmeaGoesOn
    <2>4. ~PushedBack(state, c)
      BY <1>12, NotPushedBack
    <2>5. next.ptr = at + 1 /\ next.ptr = last
      BY <1>2, <2>1, <2>4
    <2> QED
      BY <2>3, <2>5 DEF at
  <1> QED
    BY <1>3, <1>7, <1>8, <1>9, <1>10, <1>11, <1>12

\* Inside of a packet, of the one kind or of the other.
Underway(bytes, lx) ==
    /\ lx.ptr < Len(bytes)
    /\ IF UbxFrame(bytes) THEN InUbx(bytes, lx) ELSE InNmea(bytes, lx)

FrameEnd(bytes) == IF UbxFrame(bytes) THEN "UBX_RECOGNIZED" ELSE "NMEA_RECOGNIZED"

LEMMA FrameAdvances ==
    ASSUME NEW b \in Seq(Byte), UbxFrame(b) \/ NmeaFrame(b), NEW lx, NEW next,
           (lx.ptr = 0 /\ lx.state \in Idle) \/ Underway(b, lx), Takes(lx, b[lx.ptr + 1], next)
    PROVE  /\ next.ptr = lx.ptr + 1
           /\ \/ next.ptr = Len(b) /\ next.state = FrameEnd(b)
              \/ Underway(b, next) /\ next.state \notin Recognized \cup {"GROUND_STATE"}
  <1>1. CASE UbxFrame(b)
    <2>1. (lx.ptr = 0 /\ lx.state \in Idle) \/ InUbx(b, lx)
      BY <1>1 DEF Underway
    <2>2. /\ next.ptr = lx.ptr + 1
          /\ \/ next.ptr = Len(b) /\ next.state = "UBX_RECOGNIZED"
             \/ next.ptr < Len(b) /\ InUbx(b, next)
      BY <1>1, <2>1, UbxAdvances, Zenon
    <2>3. InUbx(b, next) => next.state \notin Recognized \cup {"GROUND_STATE"}
      <3>1. InUbx(b, next) => next.state \in {"UBX_LEADER_1", "UBX_LEADER_2", "UBX_CLASS_ID", "UBX_MESSAGE_ID",
                                             "UBX_LENGTH_1", "UBX_LENGTH_2", "UBX_PAYLOAD", "UBX_CHECKSUM_A"}
        BY Zenon DEF InUbx
      <3> QED
        BY <3>1 DEF Recognized
    <2> QED
      BY <1>1, <2>2, <2>3, Zenon DEF Underway, FrameEnd
  <1>2. CASE ~UbxFrame(b)
    <2>1. NmeaFrame(b) /\ ((lx.ptr = 0 /\ lx.state \in Idle) \/ InNmea(b, lx))
      BY <1>2 DEF Underway
    <2>2. /\ next.ptr = lx.ptr + 1
          /\ \/ next.ptr = Len(b) /\ next.state = "NMEA_RECOGNIZED"
             \/ next.ptr < Len(b) /\ InNmea(b, next)
      BY <2>1, NmeaAdvances, Zenon
    <2>3. InNmea(b, next) => next.state \notin Recognized \cup {"GROUND_STATE"}
      BY Zenon DEF InNmea, Recognized
    <2> QED
      BY <1>2, <2>2, <2>3, Zenon DEF Underway, FrameEnd
  <1> QED
    BY <1>1, <1>2

\* What comes of it has the type it was sent as, and the machine goes on from there.
LEMMA FrameAccepted ==
    ASSUME NEW b \in Seq(Byte), UbxFrame(b) \/ NmeaFrame(b), NEW type \in Types(FrameEnd(b), b)
    PROVE  type = FrameType(b) /\ type \in PacketTypes /\ StateAfter(FrameEnd(b), type) \in Idle
  <1>1. type = TypeOf(FrameEnd(b), b, lexer.type)
    BY DEF Types, FrameEnd
  <1>2. type = FrameType(b)
    <2>1. CASE UbxFrame(b)
      <3>1. UbxOk(b)
        BY <2>1, Zenon DEF UbxFrame
      <3> QED
        BY <1>1, <2>1, <3>1 DEF FrameEnd, FrameType, TypeOf, Checked
    <2>2. CASE ~UbxFrame(b)
      <3>1. NmeaType(b) = "NMEA"
        BY <2>2, Zenon DEF NmeaFrame
      <3> QED
        BY <1>1, <2>2, <3>1 DEF FrameEnd, FrameType, TypeOf
    <2> QED
      BY <2>1, <2>2
  <1> QED
    BY <1>2 DEF FrameType, FrameEnd, PacketTypes, StateAfter, Idle

-----------------------------------------------------------------------------
(* Streams of u-blox packets *)

\* How many packets have left the buffer.
Done == Len(log) + (IF lexer.accepted THEN 1 ELSE 0)

\* The items lie in the input one after the other.
Lies(off) ==
    /\ off \in [0..Len(stream) -> Nat] /\ off[0] = 0 /\ off[Len(stream)] = Len(Sent)
    /\ \A i, k \in 0..Len(stream) : i <= k => off[i] <= off[k]
    /\ \A n \in 1..Len(stream) :
          /\ off[n] = off[n - 1] + Len(stream[n].bytes)
          /\ \A j \in 1..Len(stream[n].bytes) : Sent[off[n - 1] + j] = stream[n].bytes[j]

\* The buffer begins with the item after those that have been taken from it, and the
\* machine is at the beginning of that or inside of it.
Placed(off) ==
    /\ lexer.accepted \in BOOLEAN /\ Done <= Len(stream) /\ Start = off[Done]
    /\ \A n \in DOMAIN log : log[n] = <<FrameType(stream[n].bytes), Len(stream[n].bytes)>>
    /\ lexer.accepted =>
          /\ parsing /\ lexer.ptr = 0 /\ Len(lexer.inbuf) < InBuffer
          /\ lexer.out = stream[Done].bytes /\ lexer.type = FrameType(stream[Done].bytes)
    /\ parsing /\ ~lexer.accepted => lexer.out = <<>>
    /\ IF lexer.ptr = 0 THEN lexer.state \in Idle
       ELSE Done < Len(stream) /\ Underway(stream[Done + 1].bytes, lexer)

UbloxInv ==
    /\ MachineInv /\ log \in Seq(PacketTypes \X Nat)
    /\ stream \in UbloxStreams => \E off : Lies(off) /\ Placed(off)

LEMMA Frames ==
    ASSUME stream \in UbloxStreams
    PROVE  /\ stream \in Seq(Item) /\ Len(stream) \in Nat
           /\ \A n \in 1..Len(stream) :
                 LET b == stream[n].bytes
                 IN  /\ b \in Seq(Byte) /\ Len(b) \in Nat /\ 4 < Len(b) /\ Len(b) < InBuffer
                     /\ UbxFrame(b) \/ NmeaFrame(b)
  <1>1. stream \in Seq(Item) /\ Len(stream) \in Nat /\ DOMAIN stream = 1..Len(stream)
    BY PacketSnifferAssumption DEF UbloxStreams
  <1>2. ASSUME NEW n \in 1..Len(stream)
        PROVE  LET b == stream[n].bytes
               IN  /\ b \in Seq(Byte) /\ Len(b) \in Nat /\ 4 < Len(b) /\ Len(b) < InBuffer
                   /\ UbxFrame(b) \/ NmeaFrame(b)
    <2> DEFINE b == stream[n].bytes
    <2>1. UbxFrame(b) \/ NmeaFrame(b)
      BY <1>1 DEF UbloxStreams
    <2>2. b \in Seq(Byte)
      <3>1. stream[n] \in Item
        BY <1>1, ElementOfSeq
      <3> QED
        BY <3>1 DEF Item
    <2> HIDE DEF b
    <2>3. Len(b) \in Nat
      BY <2>2
    <2>4. UbxFrame(b) => 8 < Len(b) /\ Len(b) < InBuffer
      BY Zenon DEF UbxFrame
    <2>5. NmeaFrame(b) => 4 < Len(b) /\ Len(b) < InBuffer
      BY Zenon DEF NmeaFrame
    <2>6. 8 < Len(b) => 4 < Len(b)
      BY <2>3
    <2> QED
      BY <2>1, <2>2, <2>3, <2>4, <2>5, <2>6 DEF b
  <1> QED
    BY <1>1, <1>2

LEMMA FramesLie ==
    ASSUME stream \in UbloxStreams
    PROVE  \E off : Lies(off)
  <1> DEFINE pieces == [i \in DOMAIN stream |-> stream[i].bytes]
  <1>1. PICK off : Laid(pieces, off)
    BY ItemsAreLaid DEF UbloxStreams
  <1>2. Len(stream) \in Nat /\ DOMAIN stream = 1..Len(stream) /\ \A n \in 1..Len(stream) : pieces[n] = stream[n].bytes
    BY Frames
  <1>3. Len(pieces) = Len(stream)
    BY <1>2
  <1>4. Sent = FlattenSeq(pieces)
    BY DEF Sent, BytesOf, UbloxStreams
  <1> HIDE DEF pieces
  <1>5. /\ off \in [0..Len(stream) -> Nat] /\ off[0] = 0 /\ off[Len(stream)] = Len(Sent)
        /\ \A i, k \in 0..Len(stream) : i <= k => off[i] <= off[k]
    BY <1>1, <1>3, <1>4, Zenon DEF Laid
  <1>6. \A n \in 1..Len(stream) :
            /\ off[n] = off[n - 1] + Len(stream[n].bytes)
            /\ \A j \in 1..Len(stream[n].bytes) : Sent[off[n - 1] + j] = stream[n].bytes[j]
    <2> TAKE n \in 1..Len(stream)
    <2>1. pieces[n] = stream[n].bytes
      BY <1>2
    <2>2. n \in 1..Len(pieces)
      BY <1>3
    <2>3. /\ off[n] = off[n - 1] + Len(pieces[n])
          /\ \A j \in 1..Len(pieces[n]) : FlattenSeq(pieces)[off[n - 1] + j] = pieces[n][j]
      BY <1>1, <2>2, Zenon DEF Laid
    <2> QED
      BY <1>4, <2>1, <2>3, Zenon
  <1>7. Lies(off)
    BY <1>5, <1>6, Zenon DEF Lies
  <1> QED
    BY <1>7

\* A byte of the input takes a u-blox packet further, or ends it.
LEMMA CharacterPlaces ==
    ASSUME UbloxInv, MachineInv', stream \in UbloxStreams, NEW off, Lies(off), Placed(off), Character
    PROVE  Placed(off)'
  <1>1. /\ MachineInv /\ Inv /\ Sane(lexer) /\ Held(lexer, Sent, pos) /\ DOMAIN lexer = Fields
        /\ pos \in 0..Len(Sent) /\ Sent \in Seq(Byte) /\ lexer.inbuf \in Seq(Byte)
        /\ lexer.ptr \in 0..Len(lexer.inbuf) /\ Len(lexer.inbuf) <= pos /\ Len(lexer.inbuf) <= InBuffer
        /\ \A i \in 1..Len(lexer.inbuf) : lexer.inbuf[i] = Sent[pos - Len(lexer.inbuf) + i]
        /\ log \in Seq(PacketTypes \X Nat)
    BY StreamsAreBytes DEF UbloxInv, MachineInv, Inv, Held, TailOf, Sane, Sent
  <1>2. parsing /\ ~lexer.accepted /\ Buffered > 0 /\ UNCHANGED <<stream, pos, parsing, log>>
    BY DEF Character
  <1> DEFINE n == Len(log)
             at == lexer.ptr
             size == Len(lexer.inbuf)
             total == Len(Sent)
             items == Len(stream)
             b == stream[n + 1].bytes
             long == Len(b)
  <1>3. Done = n /\ n \in Nat /\ at \in Nat /\ size \in Nat /\ total \in Nat /\ items \in Nat
    <2>1. Done = n
      BY <1>1, <1>2 DEF Done
    <2> QED
      BY <1>1, <2>1, Frames
  <1>4. /\ at < size /\ size <= pos /\ pos <= total /\ pos \in Nat /\ size <= InBuffer
        /\ Start = pos - size /\ Start = off[n] /\ n <= items /\ off[items] = total
    <2>1. /\ Start = pos - size /\ Start = off[n] /\ n <= items /\ off[items] = total
      BY <1>3, Zenon DEF Start, Placed, Lies
    <2>2. size - at > 0
      BY <1>2 DEF Buffered
    <2> HIDE DEF n, items
    <2> QED
      BY <1>1, <1>3, <2>1, <2>2
  <1>5. n < items /\ n + 1 \in 1..items /\ n \in 0..items
    <2> HIDE DEF n, at, size, total, items
    <2>1. n # items
      BY <1>3, <1>4
    <2> QED
      BY <1>3, <1>4, <2>1
  <1>6. /\ b \in Seq(Byte) /\ long \in Nat /\ 4 < long /\ long < InBuffer /\ (UbxFrame(b) \/ NmeaFrame(b))
        /\ off[n + 1] = off[n] + long /\ \A j \in 1..long : Sent[off[n] + j] = b[j]
    <2>1. /\ off[n + 1] = off[(n + 1) - 1] + long
          /\ \A j \in 1..long : Sent[off[(n + 1) - 1] + j] = b[j]
      BY <1>5 DEF Lies
    <2>2. (n + 1) - 1 = n
      BY <1>3
    <2> QED
      BY <1>5, <2>1, <2>2, Frames
  <1>7. IF at = 0 THEN lexer.state \in Idle ELSE Underway(b, lexer)
    BY <1>3, Zenon DEF Placed
  <1>8. at < long
    <2>1. at # 0 => at < long
      BY <1>7 DEF Underway
    <2> HIDE DEF long, at
    <2> QED
      BY <1>6, <2>1
  <1>9. ASSUME NEW i \in 1..size, i <= long PROVE lexer.inbuf[i] = b[i]
    <2>1. lexer.inbuf[i] = Sent[off[n] + i]
      BY <1>1, <1>4
    <2>2. i \in 1..long
      BY <1>6, <1>9
    <2> QED
      BY <1>6, <2>1, <2>2
  <1>10. lexer.inbuf[at + 1] = b[at + 1]
    <2>1. at + 1 \in 1..size /\ at + 1 <= long
      <3> HIDE DEF at, size, long
      <3> QED
        BY <1>3, <1>4, <1>6, <1>8
    <2> QED
      BY <1>9, <2>1
  <1>11. PICK next \in Results :
              \/ next.state = "GROUND_STATE" /\ lexer' = CharacterDiscard(next)
              \/ next.state \notin Recognized \cup {"GROUND_STATE"} /\ lexer' = next
              \/ /\ next.state \in Recognized
                 /\ \E packet \in {Parsed(next)} : \E type \in Types(next.state, packet) : lexer' = Accepted(next, type)
    BY DEF Character
  <1>12. /\ Held(next, Sent, pos) /\ next.inbuf = lexer.inbuf /\ next.out = lexer.out /\ ~next.accepted
         /\ DOMAIN next = Fields /\ next.ptr \in 0..size
    BY <1>1, <1>2, NextstateHolds, NextstateKeeps DEF Held
  <1>13. /\ next.ptr = at + 1
         /\ \/ next.ptr = long /\ next.state = FrameEnd(b)
            \/ Underway(b, next) /\ next.state \notin Recognized \cup {"GROUND_STATE"}
    <2> DEFINE taken == [lexer EXCEPT !.ptr = lexer.ptr + 1]
    <2>1. PICK stale :
              LET c == lexer.inbuf[lexer.ptr + 1]
              IN  /\ next.length = NewLength(taken, c, stale)
                  /\ next.state = NewState(taken, c, next.length, next.depth, stale)
                  /\ next.ptr = IF PushedBack(lexer.state, c) THEN lexer.ptr ELSE lexer.ptr + 1
      BY <1>1, <1>2, NextstateSteps
    <2>2. taken.state = lexer.state /\ taken.length = lexer.length
      BY <1>1 DEF Fields
    <2> HIDE DEF taken
    <2>3. Takes(lexer, lexer.inbuf[lexer.ptr + 1], next)
      BY <2>1, <2>2, Zenon DEF Takes
    <2>4. Takes(lexer, b[lexer.ptr + 1], next)
      BY <1>10, <2>3
    <2>5. (lexer.ptr = 0 /\ lexer.state \in Idle) \/ Underway(b, lexer)
      BY <1>7
    <2> HIDE DEF b
    <2>6. /\ next.ptr = lexer.ptr + 1
          /\ \/ next.ptr = Len(b) /\ next.state = FrameEnd(b)
             \/ Underway(b, next) /\ next.state \notin Recognized \cup {"GROUND_STATE"}
      BY <1>6, <2>4, <2>5, FrameAdvances
    <2> QED
      BY <2>6
  <1>14. Start' = pos - Len(lexer'.inbuf) /\ Len(log)' = n /\ Done' = n + (IF lexer'.accepted THEN 1 ELSE 0)
    BY <1>2 DEF Start, Done
  <1>15. \A k \in DOMAIN log' : log'[k] = <<FrameType(stream'[k].bytes), Len(stream'[k].bytes)>>
    BY <1>2 DEF Placed
  <1>16. CASE next.ptr = long /\ next.state = FrameEnd(b)
    <2>1. PICK type \in Types(FrameEnd(b), Parsed(next)) : lexer' = Accepted(next, type)
      BY <1>11, <1>16 DEF FrameEnd, Recognized
    <2>2. Parsed(next) = b
      <3>1. Parsed(next) \in Seq(Byte) /\ Len(Parsed(next)) = long /\ \A i \in 1..long : Parsed(next)[i] = lexer.inbuf[i]
        <4>1. next.inbuf \in Seq(Byte) /\ next.ptr \in 0..Len(next.inbuf)
          BY <1>1, <1>12
        <4>2. /\ Parsed(next) \in Seq(Byte) /\ Len(Parsed(next)) = next.ptr
              /\ \A i \in 1..next.ptr : Parsed(next)[i] = next.inbuf[i]
          BY <4>1, ParsedIsPrefix
        <4> HIDE DEF long
        <4> QED
          BY <1>12, <1>16, <4>2
      <3>2. \A i \in 1..long : i \in 1..size /\ i <= long
        <4>1. long \in 0..size
          BY <1>12, <1>16
        <4> HIDE DEF long, size
        <4> QED
          BY <1>3, <4>1
      <3>3. \A i \in 1..long : Parsed(next)[i] = b[i]
        BY <1>9, <3>1, <3>2
      <3> QED
        BY <1>6, <3>1, <3>3, SeqEqual
    <2>3. type = FrameType(b) /\ StateAfter(FrameEnd(b), type) \in Idle
      BY <1>6, <2>1, <2>2, FrameAccepted
    <2> DEFINE rest == SubSeq(next.inbuf, next.ptr + 1, Len(next.inbuf))
    <2>4. /\ lexer'.state = StateAfter(next.state, type) /\ lexer'.accepted
          /\ lexer'.inbuf = rest /\ lexer'.ptr = 0
          /\ next.ptr < InBuffer => lexer'.out = Parsed(next) /\ lexer'.type = type
      <3>1. next.state \notin {"TSIP_RECOGNIZED", "GTXT_RECOGNIZED"}
        BY <1>16 DEF FrameEnd
      <3> QED
        <4> DEFINE new == Accepted(next, type)
        <4>0. Inv /\ Held(next, Sent, pos)
          BY <1>1, <1>12
        <4>1. \/ next.state \in {"TSIP_RECOGNIZED", "GTXT_RECOGNIZED"}
              \/ /\ new.state = StateAfter(next.state, type) /\ new.accepted
                 /\ new.inbuf = rest /\ new.ptr = 0
                 /\ next.ptr < InBuffer => new.out = Parsed(next) /\ new.type = type
          BY <4>0, AcceptedStarts
        <4> HIDE DEF new, rest
        <4>2. lexer' = new
          BY <2>1 DEF new
        <4> QED
          BY <3>1, <4>1, <4>2
    <2>5. lexer'.state \in Idle /\ lexer'.out = b /\ lexer'.type = FrameType(b)
      BY <1>6, <1>16, <2>2, <2>3, <2>4
    <2>6. Len(rest) = size - long
      BY <1>1, <1>12, <1>16, ParsedIsCut
    <2> HIDE DEF rest, b
    <2>7. Done' = n + 1 /\ Start' = off[n + 1] /\ Len(lexer'.inbuf) < InBuffer
      <3> DEFINE left == Len(lexer'.inbuf)
      <3>1. left = size - long /\ Start' = pos - left /\ Done' = n + 1
        BY <1>14, <2>4, <2>6
      <3> HIDE DEF left, size, long, n
      <3>2. long \in Nat /\ 4 < long /\ off[n + 1] = off[n] + long
        BY <1>6
      <3>3. size \in Nat /\ pos \in Nat /\ size <= InBuffer /\ pos - size = off[n] /\ InBuffer \in Nat
        BY <1>3, <1>4, PacketSnifferAssumption DEF InBuffer
      <3> DEFINE before == off[n]
                 after == off[n + 1]
      <3>4. after = before + long /\ pos - size = before
        BY <3>2, <3>3
      <3> HIDE DEF before, after
      <3>5. Start' = after /\ left < InBuffer
        BY <3>1, <3>2, <3>3, <3>4
      <3> QED
        BY <3>1, <3>5 DEF left, after
    <2>8. stream'[Done'].bytes = b /\ parsing' /\ Done' <= Len(stream')
      <3>1. n + 1 <= items
        BY <1>5
      <3> QED
        BY <1>2, <2>7, <3>1 DEF b
    <2> QED
      BY <1>15, <2>4, <2>5, <2>7, <2>8 DEF Placed
  <1>17. CASE Underway(b, next) /\ next.state \notin Recognized \cup {"GROUND_STATE"}
    <2>1. lexer' = next
      BY <1>11, <1>17
    <2>2. lexer'.accepted = FALSE /\ lexer'.out = <<>> /\ lexer'.ptr # 0 /\ Start' = off[n] /\ Done' = n
      <3>1. lexer.out = <<>> /\ lexer.accepted = FALSE
        BY <1>2 DEF Placed
      <3>2. lexer'.accepted = FALSE /\ lexer'.out = <<>> /\ lexer'.inbuf = lexer.inbuf /\ lexer'.ptr = at + 1
        BY <1>1, <1>13, <2>1, <3>1, NextstateKeeps
      <3>3. lexer'.ptr # 0
        <4> HIDE DEF at
        <4> QED
          BY <1>3, <3>2
      <3>4. Start' = off[n]
        BY <1>4, <1>14, <3>2
      <3>5. Done' = n
        <4> HIDE DEF n
        <4> QED
          BY <1>3, <1>14, <3>2
      <3> QED
        BY <3>2, <3>3, <3>4, <3>5
    <2>3. Done' < Len(stream') /\ Done' <= Len(stream') /\ Underway(stream'[Done' + 1].bytes, lexer')
      BY <1>2, <1>3, <1>5, <1>17, <2>1, <2>2
    <2>4. Start' = off[Done']
      BY <2>2
    <2> HIDE DEF b, at, n
    <2> QED
      BY <1>15, <2>2, <2>3, <2>4 DEF Placed
  <1> QED
    BY <1>13, <1>16, <1>17

LEMMA StillUnderway ==
    ASSUME NEW b, NEW lx, Underway(b, lx), NEW new,
           new.state = lx.state, new.length = lx.length, new.ptr = lx.ptr
    PROVE  Underway(b, new)
  <1>1. InUbx(b, lx) => InUbx(b, new)
    BY DEF InUbx
  <1>2. InNmea(b, lx) => InNmea(b, new)
    BY DEF InNmea
  <1> QED
    BY <1>1, <1>2, Zenon DEF Underway

LEMMA ReadPlaces ==
    ASSUME UbloxInv, NEW off, Placed(off), Read \/ ReadNothing
    PROVE  Placed(off)'
  <1>1. /\ Start' = Start /\ lexer'.out = <<>> /\ lexer'.accepted = FALSE
        /\ lexer'.state = lexer.state /\ lexer'.length = lexer.length /\ lexer'.ptr = lexer.ptr
        /\ UNCHANGED <<stream, log>>
    BY ReadStays DEF UbloxInv, MachineInv
  <1>2. ~lexer.accepted
    BY DEF Placed, Read, ReadNothing
  <1>3. Done' = Done
    BY <1>1, <1>2 DEF Done
  <1>4. lexer.ptr # 0 => Underway(stream[Done + 1].bytes, lexer')
    <2>1. lexer.ptr # 0 => Underway(stream[Done + 1].bytes, lexer)
      BY DEF Placed
    <2> QED
      BY <1>1, <2>1, StillUnderway
  <1> QED
    BY <1>1, <1>3, <1>4 DEF Placed

\* packet_parse() returns what it took, and leaves the buffer as it is.
LEMMA ReturnPlaces ==
    ASSUME UbloxInv, stream \in UbloxStreams, NEW off, Placed(off), Return
    PROVE  Placed(off)'
  <1>1. /\ DOMAIN lexer = Fields /\ lexer.inbuf \in Seq(Byte) /\ lexer.ptr \in 0..Len(lexer.inbuf)
        /\ log \in Seq(PacketTypes \X Nat) /\ lexer.accepted \in BOOLEAN /\ Len(log) \in Nat
        /\ InBuffer \in Nat /\ InBuffer > 0
    BY PacketSnifferAssumption DEF UbloxInv, MachineInv, Inv, Held, TailOf, InBuffer, Placed
  <1>2. Done = Len(log) + (IF lexer.accepted THEN 1 ELSE 0) /\ Done \in Nat /\ Done <= Len(stream)
    BY <1>1 DEF Done, Placed
  <1>3. Len(lexer.inbuf) < InBuffer
    <2>1. CASE lexer.accepted
      BY <2>1 DEF Placed
    <2>2. CASE ~lexer.accepted
      <3>1. lexer.ptr = Len(lexer.inbuf)
        BY <1>1, <2>2 DEF Return, Buffered
      <3>2. CASE lexer.ptr = 0
        BY <1>1, <3>1, <3>2
      <3>3. CASE lexer.ptr # 0
        <4> DEFINE b == stream[Done + 1].bytes
        <4>1. Done < Len(stream) /\ lexer.ptr < Len(b)
          BY <3>3 DEF Placed, Underway
        <4>2. Done + 1 \in 1..Len(stream)
          BY <1>2, <4>1, Frames
        <4>3. Len(b) \in Nat /\ Len(b) < InBuffer
          BY <4>2, Frames
        <4> HIDE DEF b
        <4> QED
          BY <1>1, <3>1, <4>1, <4>3
      <3> QED
        BY <3>2, <3>3
    <2> QED
      BY <2>1, <2>2
  <1>4. /\ parsing' = FALSE /\ UNCHANGED <<stream, pos>>
        /\ lexer' = [lexer EXCEPT !.accepted = FALSE]
        /\ log' = IF lexer.out = <<>> THEN log ELSE Append(log, <<lexer.type, Len(lexer.out)>>)
    BY <1>3 DEF Return, Flushed
  <1>5. /\ lexer'.accepted = FALSE /\ lexer'.inbuf = lexer.inbuf
        /\ lexer'.state = lexer.state /\ lexer'.length = lexer.length /\ lexer'.ptr = lexer.ptr
    BY <1>1, <1>4 DEF Fields
  <1>6. Start' = Start
    BY <1>4, <1>5 DEF Start
  <1>7. lexer.ptr # 0 => Underway(stream[Done + 1].bytes, lexer')
    <2>1. lexer.ptr # 0 => Underway(stream[Done + 1].bytes, lexer)
      BY DEF Placed
    <2> QED
      BY <1>5, <2>1, StillUnderway
  <1>8. Done' = Done /\ \A n \in DOMAIN log' : log'[n] = <<FrameType(stream[n].bytes), Len(stream[n].bytes)>>
    <2>1. CASE lexer.accepted
      <3>1. Done = Len(log) + 1 /\ Done \in 1..Len(stream)
        BY <1>1, <1>2, <2>1, Frames
      <3> DEFINE b == stream[Done].bytes
      <3>2. lexer.out = b /\ lexer.type = FrameType(b)
        BY <2>1 DEF Placed
      <3>3. b # <<>>
        BY <3>1, Frames
      <3> DEFINE entry == <<FrameType(b), Len(b)>>
      <3>4. log' = Append(log, entry)
        BY <1>4, <3>2, <3>3
      <3> HIDE DEF b
      <3>5. Len(log') = Len(log) + 1 /\ log'[Len(log) + 1] = entry /\ \A n \in 1..Len(log) : log'[n] = log[n]
        BY <1>1, <3>4
      <3>6. DOMAIN log' = 1..(Len(log) + 1)
        BY <1>1, <3>4
      <3>7. \A n \in 1..Len(log) : log[n] = <<FrameType(stream[n].bytes), Len(stream[n].bytes)>>
        <4>1. DOMAIN log = 1..Len(log)
          BY <1>1
        <4> QED
          BY <4>1, Zenon DEF Placed
      <3>8. Done' = Done
        BY <1>5, <3>1, <3>5 DEF Done
      <3>9. ASSUME NEW n \in DOMAIN log' PROVE log'[n] = <<FrameType(stream[n].bytes), Len(stream[n].bytes)>>
        <4>1. n = Len(log) + 1 \/ n \in 1..Len(log)
          BY <1>1, <3>6
        <4>2. CASE n = Len(log) + 1
          BY <3>1, <3>5, <4>2 DEF b
        <4>3. CASE n \in 1..Len(log)
          BY <3>5, <3>7, <4>3
        <4> QED
          BY <4>1, <4>2, <4>3
      <3> QED
        BY <3>8, <3>9
    <2>2. CASE ~lexer.accepted
      <3>1. log' = log
        BY <1>4, <2>2 DEF Placed, Return
      <3> QED
        BY <1>5, <2>2, <3>1 DEF Done, Placed
    <2> QED
      BY <2>1, <2>2
  <1> QED
    BY <1>4, <1>5, <1>6, <1>7, <1>8 DEF Placed

LEMMA UbloxInvariance == Spec => []UbloxInv
  <1>1. Init /\ MachineInv => UbloxInv
    <2> SUFFICES ASSUME Init, MachineInv PROVE UbloxInv
      OBVIOUS
    <2>1. /\ log = <<>> /\ parsing = FALSE /\ pos = 0
          /\ lexer.accepted = FALSE /\ lexer.ptr = 0 /\ lexer.state \in Idle /\ lexer.inbuf = <<>>
      BY DEF Init, FreshLexer, Idle
    <2>2. Done = 0 /\ Start = 0
      <3>1. Len(log) = 0 /\ Len(lexer.inbuf) = 0
        BY <2>1
      <3>2. Done = 0 + 0 /\ Start = 0 - 0
        BY <2>1, <3>1, Zenon DEF Done, Start
      <3> QED
        BY <3>2
    <2>3. ASSUME stream \in UbloxStreams PROVE \E off : Lies(off) /\ Placed(off)
      <3>1. PICK off : Lies(off)
        BY <2>3, FramesLie
      <3>2. off[0] = 0
        BY <3>1, Zenon DEF Lies
      <3>3. 0 <= Len(stream)
        BY <2>3, Frames
      <3>4. DOMAIN log = {} /\ ~lexer.accepted /\ ~parsing
        BY <2>1
      <3>5. Placed(off)
        BY <2>1, <2>2, <3>2, <3>3, <3>4 DEF Placed
      <3> QED
        BY <3>1, <3>5
    <2> QED
      BY <2>1, <2>3 DEF UbloxInv
  <1>2. UbloxInv /\ MachineInv' /\ [Next]_vars => UbloxInv'
    <2> SUFFICES ASSUME UbloxInv, MachineInv', [Next]_vars PROVE UbloxInv'
      OBVIOUS
    <2>1. stream' = stream
      BY DEF Next, Read, ReadNothing, Character, Return, vars
    <2>2. log' \in Seq(PacketTypes \X Nat)
      <3>1. log' = log \/ log' = Append(log, <<lexer.type, Len(lexer.out)>>)
        BY DEF Next, Read, ReadNothing, Character, Return, vars
      <3>2. log \in Seq(PacketTypes \X Nat) /\ lexer.type \in PacketTypes /\ lexer.out \in Seq(Byte)
        BY DEF UbloxInv, MachineInv, Sane
      <3>3. <<lexer.type, Len(lexer.out)>> \in PacketTypes \X Nat
        BY <3>2
      <3> DEFINE entry == <<lexer.type, Len(lexer.out)>>
                 Entries == PacketTypes \X Nat
      <3>4. log \in Seq(Entries) /\ entry \in Entries
        BY <3>2, <3>3
      <3>5. log' = log \/ log' = Append(log, entry)
        BY <3>1
      <3> HIDE DEF entry, Entries
      <3>6. Append(log, entry) \in Seq(Entries)
        BY <3>4, AppendProperties
      <3>7. log' \in Seq(Entries)
        BY <3>4, <3>5, <3>6
      <3> QED
        BY <3>7 DEF Entries
    <2>3. ASSUME stream' \in UbloxStreams' PROVE (\E off : Lies(off) /\ Placed(off))'
      <3>1. stream \in UbloxStreams
        BY <2>1, <2>3 DEF UbloxStreams
      <3>2. PICK off : Lies(off) /\ Placed(off)
        BY <3>1 DEF UbloxInv
      <3>3. Lies(off)'
        BY <2>1, <3>2 DEF Lies, Sent
      <3>4. Placed(off)'
        <4>1. CASE Read \/ ReadNothing
          BY <3>2, <4>1, ReadPlaces
        <4>2. CASE Character
          BY <3>1, <3>2, <4>2, CharacterPlaces
        <4>3. CASE Return
          BY <3>1, <3>2, <4>3, ReturnPlaces
        <4>4. CASE UNCHANGED vars
          BY <3>2, <4>4 DEF Placed, Done, Start, vars
        <4> QED
          BY <4>1, <4>2, <4>3, <4>4 DEF Next
      <3> QED
        BY <3>3, <3>4
    <2> QED
      BY <2>2, <2>3 DEF UbloxInv
  <1> QED
    BY <1>1, <1>2, MachineInvariance, PTL DEF Spec

\* What a u-blox receiver sends comes whole, in order and as what it is, and all of it.
THEOREM UbloxWhole == Spec => []UbloxComesWhole
  <1>1. UbloxInv => UbloxComesWhole
    <2> SUFFICES ASSUME UbloxInv, stream \in UbloxStreams
                 PROVE  /\ Len(log) <= Len(stream)
                        /\ \A n \in DOMAIN log : log[n] = <<FrameType(stream[n].bytes), Len(stream[n].bytes)>>
                        /\ lexer.accepted => Len(log) < Len(stream) /\ lexer.out = stream[Len(log) + 1].bytes
                        /\ ~parsing /\ pos = Len(Sent) /\ Buffered = 0 => Len(log) = Len(stream)
      BY DEF UbloxComesWhole
    <2>1. PICK off : Lies(off) /\ Placed(off)
      BY DEF UbloxInv
    <2> DEFINE n == Len(log)
               items == Len(stream)
               size == Len(lexer.inbuf)
               at == lexer.ptr
    <2>2. /\ n \in Nat /\ items \in Nat /\ size \in Nat /\ at \in 0..size /\ lexer.accepted \in BOOLEAN
          /\ Done = n + (IF lexer.accepted THEN 1 ELSE 0) /\ Done <= items
      BY <2>1, Frames DEF UbloxInv, MachineInv, Inv, Held, TailOf, Done, Placed
    <2>3. n <= items
      <3> HIDE DEF n, items
      <3> QED
        BY <2>2
    <2>4. \A k \in DOMAIN log : log[k] = <<FrameType(stream[k].bytes), Len(stream[k].bytes)>>
      BY <2>1 DEF Placed
    <2>5. lexer.accepted => n < items /\ lexer.out = stream[n + 1].bytes
      <3> SUFFICES ASSUME lexer.accepted PROVE n < items /\ lexer.out = stream[n + 1].bytes
        OBVIOUS
      <3>1. Done = n + 1 /\ lexer.out = stream[Done].bytes
        BY <2>1, <2>2 DEF Placed
      <3> HIDE DEF n, items
      <3> QED
        BY <2>2, <3>1
    <2>6. ASSUME ~parsing, pos = Len(Sent), Buffered = 0, n # items PROVE FALSE
      <3> DEFINE long == Len(stream[n + 1].bytes)
                 before == off[n]
                 after == off[n + 1]
                 end == off[items]
      <3>1. Done = n /\ ~lexer.accepted
        <4>1. ~lexer.accepted
          BY <2>1, <2>6 DEF Placed
        <4> HIDE DEF n
        <4> QED
          BY <2>2, <4>1
      <3>2. n + 1 \in 1..items /\ n + 1 \in 0..items /\ items \in 0..items /\ (n + 1) - 1 = n /\ n + 1 <= items
        <4> HIDE DEF n, items
        <4> QED
          BY <2>2, <2>3, <2>6
      <3>3. long \in Nat /\ 4 < long
        BY <3>2, Frames
      <3>4. after = before + long /\ after <= end /\ end = Len(Sent)
        <4>1. off[n + 1] = off[(n + 1) - 1] + long /\ off[n + 1] <= off[items] /\ off[items] = Len(Sent)
          BY <2>1, <3>2 DEF Lies
        <4> QED
          BY <3>2, <4>1
      <3>5. before = end - size /\ at = size
        <4>1. before = Start
          BY <2>1, <3>1, Zenon DEF Placed
        <4>2. Start = end - size
          BY <2>6, <3>4, Zenon DEF Start
        <4>3. at = size
          <5>1. size - at = 0
            BY <2>6 DEF Buffered
          <5> HIDE DEF size, at
          <5> QED
            BY <2>2, <5>1
        <4> QED
          BY <4>1, <4>2, <4>3
      <3>6. at < long
        <4>1. at = 0 \/ at < long
          BY <2>1, <3>1 DEF Placed, Underway
        <4> HIDE DEF at, long
        <4> QED
          BY <3>3, <4>1
      <3>7. end \in Nat
        BY <3>4, StreamsAreBytes DEF Sent, UbloxStreams
      <3> HIDE DEF n, items, size, at, long, before, after, end
      <3> QED
        BY <2>2, <3>3, <3>4, <3>5, <3>6, <3>7
    <2> QED
      BY <2>3, <2>4, <2>5, <2>6
  <1> QED
    BY <1>1, UbloxInvariance, PTL

=============================================================================
