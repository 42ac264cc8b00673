--------------------------- MODULE FramingProofs ----------------------------
(***************************************************************************)
(* Proofs about Wire, Framing and Cuts, for any stream of a peer cut       *)
(* anywhere, any sizes of addresses, keys and buffers.                     *)
(*                                                                         *)
(* First what one reader has and loses.  Then that the network's cuts make *)
(* no difference: both readers of Cuts are at every moment where a third   *)
(* is or was, the one that gets the stream byte by byte.  For that a piece *)
(* must do what its last byte does after the others, which is shown for    *)
(* each of the ten phases: either the others are only kept, because a      *)
(* verdict that asks for more stays until that is there, or what they made *)
(* of the reader stands and the last byte goes where it would have gone,   *)
(* behind the frames, the head or what the fallback gets.                  *)
(***************************************************************************)
EXTENDS Cuts, SequenceTheorems, FiniteSetTheorems, WellFoundedInduction, TLAPS

-----------------------------------------------------------------------------
(* Sequences of bytes. *)

\* A byte is a number below 256.
LEMMA ByteRange == \A h : h \in Byte <=> h \in Nat /\ h < 256
  BY DEF Byte

\* A sequence is what it is cut into.
LEMMA Cut ==
    ASSUME NEW b \in Bytes, NEW n \in 0 .. Len(b)
    PROVE  /\ SubSeq(b, 1, n) \in Bytes /\ Len(SubSeq(b, 1, n)) = n
           /\ From(b, n + 1) \in Bytes /\ Len(From(b, n + 1)) = Len(b) - n
           /\ SubSeq(b, 1, n) \o From(b, n + 1) = b
           /\ \A i \in 1 .. n : SubSeq(b, 1, n)[i] = b[i]
           /\ \A i \in 1 .. Len(b) - n : From(b, n + 1)[i] = b[n + i]
<1>1. Len(b) \in Nat /\ n \in Nat /\ n <= Len(b)
  BY DEF Bytes
<1>2. \A i \in 1 .. n : b[i] \in Byte
  BY DEF Bytes
<1>3. \A i \in n + 1 .. Len(b) : b[i] \in Byte
  BY DEF Bytes
<1>4. /\ SubSeq(b, 1, n) \in Bytes /\ Len(SubSeq(b, 1, n)) = n
      /\ \A i \in 1 .. n : SubSeq(b, 1, n)[i] = b[i]
  BY <1>1, <1>2, SubSeqProperties DEF Bytes
<1>5. /\ SubSeq(b, n + 1, Len(b)) \in Bytes /\ Len(SubSeq(b, n + 1, Len(b))) = Len(b) - n
      /\ \A i \in 1 .. Len(b) - n : SubSeq(b, n + 1, Len(b))[i] = b[n + i]
  BY <1>1, <1>3, SubSeqProperties DEF Bytes
<1>6. SubSeq(b, 1, n) \o SubSeq(b, n + 1, Len(b)) = SubSeq(b, 1, Len(b))
  <2>1. 1 \in 1 .. Len(b) + 1 /\ n \in 1 - 1 .. Len(b) /\ Len(b) \in n .. Len(b)
    BY <1>1
  <2>2. QED
    BY <2>1, ConcatAdjacentSubSeq DEF Bytes
<1>7. SubSeq(b, 1, Len(b)) = b
  BY SubSeqFull DEF Bytes
<1>8. QED
  BY <1>1, <1>4, <1>5, <1>6, <1>7 DEF From

\* Two sequences of bytes, one behind the other.
LEMMA Joined ==
    ASSUME NEW b \in Bytes, NEW c \in Bytes
    PROVE  /\ b \o c \in Bytes /\ Len(b \o c) = Len(b) + Len(c)
           /\ \A i \in 1 .. Len(b) : (b \o c)[i] = b[i]
           /\ \A i \in 1 .. Len(c) : (b \o c)[Len(b) + i] = c[i]
<1>1. Len(b) \in Nat /\ Len(c) \in Nat
  BY DEF Bytes
<1>2. /\ b \o c \in Bytes /\ Len(b \o c) = Len(b) + Len(c)
      /\ \A i \in 1 .. Len(b) + Len(c) : (b \o c)[i] =
             IF i <= Len(b) THEN b[i] ELSE c[i - Len(b)]
  BY ConcatProperties DEF Bytes
<1>3. QED
  BY <1>1, <1>2

\* A byte is a sequence of one.
LEMMA Singleton ==
    ASSUME NEW h \in Byte
    PROVE  <<h>> \in Bytes /\ Len(<<h>>) = 1 /\ <<h>>[1] = h
  BY DEF Bytes

\* Two bytes.
LEMMA Pair ==
    ASSUME NEW h \in Byte, NEW l \in Byte
    PROVE  <<h, l>> \in Bytes /\ Len(<<h, l>>) = 2 /\ <<h, l>>[1] = h /\ <<h, l>>[2] = l
  BY DEF Bytes

\* A piece of one byte.
LEMMA OneByte ==
    ASSUME NEW b \in Bytes, NEW i \in 1 .. Len(b)
    PROVE  SubSeq(b, i, i) = <<b[i]>> /\ b[i] \in Byte
<1>1. b[i] \in Byte
  BY DEF Bytes
<1>2. SubSeq(b, i, i) \in Bytes /\ Len(SubSeq(b, i, i)) = 1 /\ SubSeq(b, i, i)[1] = b[i]
  BY <1>1, SubSeqProperties DEF Bytes
<1>3. SubSeq(b, i, i) = <<b[i]>>
  <2>1. \A j \in 1 .. 1 : SubSeq(b, i, i)[j] = <<b[i]>>[j]
    BY <1>1, <1>2, Singleton
  <2>2. QED
    BY <1>1, <1>2, <2>1, SeqEqual, Singleton DEF Bytes
<1>4. QED
  BY <1>1, <1>3

\* A piece of two bytes.
LEMMA TwoBytes ==
    ASSUME NEW b \in Bytes, NEW i \in 1 .. Len(b) - 1
    PROVE  /\ SubSeq(b, i, i + 1) = <<b[i], b[i + 1]>>
           /\ b[i] \in Byte /\ b[i + 1] \in Byte
<1>0. Len(b) \in Nat /\ i \in 1 .. Len(b) /\ i + 1 \in 1 .. Len(b)
  BY DEF Bytes
<1>1. b[i] \in Byte /\ b[i + 1] \in Byte
  BY <1>0 DEF Bytes
<1>2. \A j \in i .. i + 1 : b[j] \in Byte
  BY <1>0, <1>1
<1>3. /\ SubSeq(b, i, i + 1) \in Bytes /\ Len(SubSeq(b, i, i + 1)) = 2
      /\ SubSeq(b, i, i + 1)[1] = b[i] /\ SubSeq(b, i, i + 1)[2] = b[i + 1]
  BY <1>0, <1>2, SubSeqProperties DEF Bytes
<1>4. /\ <<b[i], b[i + 1]>> \in Bytes /\ Len(<<b[i], b[i + 1]>>) = 2
      /\ <<b[i], b[i + 1]>>[1] = b[i] /\ <<b[i], b[i + 1]>>[2] = b[i + 1]
  BY <1>1, Pair
<1>5. \A j \in 1 .. 2 : SubSeq(b, i, i + 1)[j] = <<b[i], b[i + 1]>>[j]
  <2>1. \A j \in 1 .. 2 : j = 1 \/ j = 2
    OBVIOUS
  <2>2. QED
    BY <1>3, <1>4, <2>1
<1>6. SubSeq(b, i, i + 1) = <<b[i], b[i + 1]>>
  BY <1>3, <1>4, <1>5, SeqEqual DEF Bytes
<1>7. QED
  BY <1>1, <1>6

\* Two bytes, one behind the other.
LEMMA PairJoined ==
    ASSUME NEW h \in Byte, NEW l \in Byte
    PROVE  <<h>> \o <<l>> = <<h, l>>
<1> DEFINE b == <<h>>
           c == <<l>>
           d == <<h, l>>
<1>1. b \in Bytes /\ Len(b) = 1 /\ b[1] = h /\ c \in Bytes /\ Len(c) = 1 /\ c[1] = l
  BY Singleton
<1>2. d \in Bytes /\ Len(d) = 2 /\ d[1] = h /\ d[2] = l
  BY Pair
<1> HIDE DEF b, c, d
<1>3. b \o c \in Bytes /\ Len(b \o c) = 2 /\ (b \o c)[1] = h /\ (b \o c)[2] = l
  <2>1. /\ b \o c \in Bytes /\ Len(b \o c) = Len(b) + Len(c)
        /\ \A i \in 1 .. Len(b) : (b \o c)[i] = b[i]
        /\ \A i \in 1 .. Len(c) : (b \o c)[Len(b) + i] = c[i]
    BY <1>1, Joined
  <2>2. (b \o c)[1] = b[1] /\ (b \o c)[1 + 1] = c[1]
    BY <1>1, <2>1
  <2>3. QED
    BY <1>1, <2>1, <2>2
<1>4. \A j \in 1 .. 2 : (b \o c)[j] = d[j]
  BY <1>2, <1>3
<1>5. b \o c = d
  BY <1>2, <1>3, <1>4, SeqEqual DEF Bytes
<1>6. QED
  BY <1>5 DEF b, c, d

\* A number of two bytes, and back.
LEMMA WordOfBytes ==
    ASSUME NEW h \in Byte, NEW l \in Byte
    PROVE  /\ 256 * h + l \in Nat /\ 256 * h + l < 65536
           /\ Be16(256 * h + l) = <<h, l>>
<1>1. h \in Nat /\ h < 256 /\ l \in Nat /\ l < 256
  BY ByteRange
<1>2. (256 * h + l) \div 256 = h /\ (256 * h + l) % 256 = l
  BY <1>1
<1>3. QED
  BY <1>1, <1>2 DEF Be16

\* A number below 2^16 in two bytes, and back.
LEMMA BytesOfWord ==
    ASSUME NEW n \in Nat, n < 65536
    PROVE  /\ Be16(n) \in Bytes /\ Len(Be16(n)) = 2
           /\ 256 * Be16(n)[1] + Be16(n)[2] = n
<1> DEFINE h == n \div 256
           l == n % 256
<1>1. h \in Nat /\ h < 256 /\ l \in Nat /\ l < 256 /\ 256 * h + l = n
  OBVIOUS
<1>2. h \in Byte /\ l \in Byte
  BY <1>1, ByteRange
<1>3. Be16(n) = <<h, l>>
  BY DEF Be16
<1> HIDE DEF h, l
<1>4. QED
  BY <1>1, <1>2, <1>3, Pair

-----------------------------------------------------------------------------
(* Addresses are read as they are written. *)

\* Where the host begins.
Before(type) == IF type = Domain THEN 2 ELSE 1

\* What ParseAddr finds.
ParsedAddr(b, n) ==
    LET end == Before(b[1]) + n + 2 IN
    /\ b # <<>> /\ HostFits(b[1], n) /\ (b[1] = Domain => b[2] = n)
    /\ end <= Len(b)
    /\ ParseAddr(b) = [addr |-> Addr(b[1], SubSeq(b, Before(b[1]) + 1, Before(b[1]) + n),
                                    U16(b, end - 1)),
                       payload |-> <<>>, wire_len |-> end]

\* ParseAddr fails or finds an address that is all there.
LEMMA ParseAddrCases ==
    ASSUME NEW b \in Bytes
    PROVE  \/ ParseAddr(b) = Failed
           \/ \E n \in Nat \ {0} : ParsedAddr(b, n)
<1>1. CASE b = <<>>
  BY <1>1 DEF ParseAddr, Bytes
<1>2. CASE b # <<>>
  <2>1. Len(b) \in Nat \ {0} /\ b[1] \in Byte
    BY <1>2 DEF Bytes
  <2>2. CASE b[1] = Ipv4
    BY <1>2, <2>1, <2>2, WireAssumption
    DEF ParseAddr, ParsedAddr, HostFits, Before, Ipv4, Ipv6, Domain
  <2>3. CASE b[1] = Ipv6
    BY <1>2, <2>1, <2>3, WireAssumption
    DEF ParseAddr, ParsedAddr, HostFits, Before, Ipv4, Ipv6, Domain
  <2>4. CASE b[1] = Domain /\ Len(b) >= 2
    <3>1. b[2] \in Byte
      BY <2>4 DEF Bytes
    <3>2. CASE b[2] = 0
      BY <1>2, <2>1, <2>4, <3>2 DEF ParseAddr, Ipv4, Ipv6, Domain
    <3>3. CASE b[2] # 0
      <4>1. b[2] \in Nat \ {0} /\ b[2] < 256
        BY <3>1, <3>3, ByteRange
      <4>2. CASE Len(b) < 2 + b[2] + 2
        BY <1>2, <2>1, <2>4, <4>1, <4>2 DEF ParseAddr, Ipv4, Ipv6, Domain
      <4>3. CASE Len(b) >= 2 + b[2] + 2
        <5>1. ParseAddr(b) = [addr |-> Addr(b[1], SubSeq(b, 2 + 1, 2 + b[2]),
                                            U16(b, 2 + b[2] + 2 - 1)),
                              payload |-> <<>>, wire_len |-> 2 + b[2] + 2]
          BY <1>2, <2>1, <2>4, <4>1, <4>3 DEF ParseAddr, Ipv4, Ipv6, Domain
        <5>2. ParsedAddr(b, b[2])
          BY <1>2, <2>4, <4>1, <4>3, <5>1 DEF ParsedAddr, HostFits, Before
        <5>3. QED
          BY <4>1, <5>2
      <4>4. QED
        BY <2>1, <4>1, <4>2, <4>3
    <3>4. QED
      BY <3>2, <3>3
  <2>5. CASE b[1] = Domain /\ Len(b) < 2
    BY <1>2, <2>1, <2>5 DEF ParseAddr, Ipv4, Ipv6, Domain
  <2>6. CASE b[1] \notin {Ipv4, Ipv6, Domain}
    BY <1>2, <2>1, <2>6 DEF ParseAddr, Ipv4, Ipv6, Domain
  <2>7. QED
    BY <2>1, <2>2, <2>3, <2>4, <2>5, <2>6
<1>3. QED
  BY <1>1, <1>2

\* The bytes an address was read from are those it is written as.
LEMMA ParsedAsPut ==
    ASSUME NEW b \in Bytes, ParseAddr(b).wire_len # 0
    PROVE  /\ ParseAddr(b).wire_len \in 4 .. Len(b)
           /\ IsAddress(ParseAddr(b).addr)
           /\ PutAddr(ParseAddr(b).addr) = SubSeq(b, 1, ParseAddr(b).wire_len)
<1>1. PICK n \in Nat \ {0} : ParsedAddr(b, n)
  BY ParseAddrCases DEF Failed
<1> DEFINE t == b[1]
           k == Before(t)
           end == k + n + 2
           host == SubSeq(b, k + 1, k + n)
           a == ParseAddr(b).addr
<1>2. /\ ParseAddr(b).wire_len = end /\ a = Addr(t, host, U16(b, end - 1))
      /\ HostFits(t, n) /\ end <= Len(b) /\ (t = Domain => b[2] = n)
  BY <1>1 DEF ParsedAddr
<1>3. k \in {1, 2} /\ Len(b) \in Nat /\ end \in 4 .. Len(b)
  BY <1>2 DEF Before, Bytes
<1> HIDE DEF k
<1>4. host \in Bytes /\ Len(host) = n
  <2>1. \A i \in k + 1 .. k + n : b[i] \in Byte
    BY <1>2, <1>3 DEF Bytes
  <2>2. QED
    BY <1>3, <2>1, SubSeqProperties DEF Bytes
<1>4a. end = k + n + 2 /\ host = SubSeq(b, k + 1, k + n)
  OBVIOUS
<1> HIDE DEF host, end, a, t
<1> DEFINE h == b[end - 1]
           l == b[end]
           p == U16(b, end - 1)
<1>5. h \in Byte /\ l \in Byte /\ SubSeq(b, end - 1, end) = <<h, l>>
  <2>1. end - 1 \in 1 .. Len(b) - 1 /\ end - 1 + 1 = end
    BY <1>3
  <2>2. QED
    BY <2>1, TwoBytes
<1>6. p \in Nat /\ p < 65536 /\ Be16(p) = SubSeq(b, end - 1, end)
  <2> DEFINE w == 256 * h + l
             pair == <<h, l>>
  <2>1. p = w
    BY <1>3 DEF U16
  <2>2. w \in Nat /\ w < 65536 /\ Be16(w) = pair
    BY <1>5, WordOfBytes
  <2>3. SubSeq(b, end - 1, end) = pair
    BY <1>5
  <2> HIDE DEF p, h, l, w, pair
  <2>4. QED
    BY <2>1, <2>2, <2>3
<1> HIDE DEF p, h, l
<1>7. a = Addr(t, host, p) /\ a.type = t /\ a.host = host /\ a.port = p
  <2>1. a = Addr(t, host, p)
    BY <1>2 DEF p
  <2>2. QED
    BY <2>1 DEF Addr
<1>8. IsAddress(a)
  BY <1>2, <1>4, <1>6, <1>7 DEF IsAddress
<1>9. <<t>> \o (IF t = Domain THEN <<n>> ELSE <<>>) = SubSeq(b, 1, k)
  <2>1. CASE t = Domain
    BY <1>2, <1>3, <2>1, TwoBytes DEF k, t, Before
  <2>2. CASE t # Domain
    BY <1>3, <2>2, OneByte DEF k, t, Before
  <2>3. QED
    BY <2>1, <2>2
<1>10. SubSeq(b, 1, k) \o SubSeq(b, k + 1, k + n) = SubSeq(b, 1, k + n)
  <2>1. 1 \in 1 .. Len(b) + 1 /\ k \in 1 - 1 .. Len(b) /\ k + n \in k .. Len(b)
    BY <1>3, <1>4a
  <2>2. QED
    BY <2>1, ConcatAdjacentSubSeq DEF Bytes
<1>11. SubSeq(b, 1, k + n) \o SubSeq(b, end - 1, end) = SubSeq(b, 1, end)
  <2>1. 1 \in 1 .. Len(b) + 1 /\ k + n \in 1 - 1 .. Len(b) /\ end \in k + n .. Len(b)
    BY <1>3, <1>4a
  <2>2. SubSeq(b, 1, k + n) \o SubSeq(b, k + n + 1, end) = SubSeq(b, 1, end)
    BY <2>1, ConcatAdjacentSubSeq DEF Bytes
  <2>3. k + n + 1 = end - 1
    BY <1>3, <1>4a
  <2>4. QED
    BY <2>2, <2>3
<1>12. PutAddr(a) = SubSeq(b, 1, end)
  <2>1. PutAddr(a) = <<t>> \o (IF t = Domain THEN <<n>> ELSE <<>>) \o host
                         \o SubSeq(b, end - 1, end)
    <3>1. PutAddr(a) = <<a.type>> \o (IF a.type = Domain THEN <<Len(a.host)>> ELSE <<>>)
                         \o a.host \o Be16(a.port)
      BY DEF PutAddr
    <3>2. a.type = t /\ a.host = host /\ Len(a.host) = n /\ Be16(a.port) = SubSeq(b, end - 1, end)
      BY <1>4, <1>6, <1>7
    <3>3. QED
      BY <3>1, <3>2, Zenon
  <2>2. QED
    BY <1>4a, <1>9, <1>10, <1>11, <2>1
<1>13. QED
  BY <1>2, <1>3, <1>8, <1>12 DEF a

\* What is written for an address.
LEMMA PutBytes ==
    ASSUME NEW a, IsAddress(a)
    PROVE  LET n == Len(a.host)
               k == Before(a.type)
           IN  /\ n \in Nat \ {0} /\ PutAddr(a) \in Bytes /\ Len(PutAddr(a)) = k + n + 2
               /\ PutAddr(a)[1] = a.type /\ (a.type = Domain => PutAddr(a)[2] = n)
               /\ SubSeq(PutAddr(a), k + 1, k + n) = a.host
               /\ U16(PutAddr(a), k + n + 1) = a.port
<1> DEFINE n == Len(a.host)
           k == Before(a.type)
           front == <<a.type>> \o (IF a.type = Domain THEN <<n>> ELSE <<>>)
           q == Be16(a.port)
           w == front \o a.host
<1>1. n \in Nat \ {0} /\ a.host \in Bytes /\ HostFits(a.type, n)
  BY WireAssumption DEF IsAddress, HostFits
<1> HIDE DEF n
<1>2. front \in Bytes /\ Len(front) = k /\ front[1] = a.type /\ (a.type = Domain => front[2] = n)
  <2>0. a.type \in Byte
    BY <1>1, ByteRange DEF HostFits, Ipv4, Ipv6, Domain
  <2>1. CASE a.type = Domain
    <3>1. n \in Byte
      BY <1>1, <2>1, ByteRange DEF HostFits, Ipv4, Ipv6, Domain
    <3>2. front = <<a.type, n>>
      <4>1. front = <<a.type>> \o <<n>>
        BY <2>1
      <4>2. QED
        BY <2>0, <3>1, <4>1, PairJoined
    <3>3. k = 2
      BY <2>1 DEF Before
    <3> HIDE DEF front, k
    <3>4. QED
      BY <2>0, <2>1, <3>1, <3>2, <3>3, Pair
  <2>2. CASE a.type # Domain
    <3>1. front = <<a.type>>
      <4>1. front = <<a.type>> \o <<>>
        BY <2>2
      <4>2. QED
        BY <2>0, <4>1, Singleton, ConcatEmptySeq DEF Bytes
    <3>2. QED
      BY <2>0, <2>2, <3>1, Singleton DEF Before
  <2>3. QED
    BY <2>1, <2>2
<1>3. q \in Bytes /\ Len(q) = 2 /\ 256 * q[1] + q[2] = a.port
  BY BytesOfWord DEF IsAddress
<1>4. PutAddr(a) = w \o q
  BY DEF PutAddr, n
<1> HIDE DEF front, q
<1>5. k \in {1, 2}
  BY DEF Before
<1> HIDE DEF k
<1>6. /\ w \in Bytes /\ Len(w) = k + n
      /\ \A i \in 1 .. k : w[i] = front[i]
      /\ \A i \in 1 .. n : w[k + i] = a.host[i]
  BY <1>1, <1>2, Joined DEF n
<1> HIDE DEF w
<1>7. /\ w \o q \in Bytes /\ Len(w \o q) = k + n + 2
      /\ \A i \in 1 .. k + n : (w \o q)[i] = w[i]
      /\ (w \o q)[k + n + 1] = q[1] /\ (w \o q)[k + n + 2] = q[2]
  <2>1. /\ w \o q \in Bytes /\ Len(w \o q) = Len(w) + Len(q)
        /\ \A i \in 1 .. Len(w) : (w \o q)[i] = w[i]
        /\ \A i \in 1 .. Len(q) : (w \o q)[Len(w) + i] = q[i]
    BY <1>3, <1>6, Joined
  <2>2. QED
    BY <1>1, <1>3, <1>5, <1>6, <2>1
<1> DEFINE b == w \o q
<1> HIDE DEF b
<1>8. SubSeq(b, k + 1, k + n) = a.host
  <2>1. \A i \in 1 .. n : a.host[i] \in Byte
    BY <1>1 DEF Bytes, n
  <2>2. \A i \in 1 .. n : b[k + i] = a.host[i]
    BY <1>1, <1>5, <1>6, <1>7 DEF b
  <2>3. \A i \in k + 1 .. k + n : b[i] \in Byte
    <3>1. ASSUME NEW i \in k + 1 .. k + n PROVE b[i] \in Byte
      <4>1. i - k \in 1 .. n /\ i = k + (i - k)
        BY <1>1, <1>5
      <4>2. QED
        BY <2>1, <2>2, <4>1
    <3>2. QED
      BY <3>1
  <2>4. /\ SubSeq(b, k + 1, k + n) \in Bytes /\ Len(SubSeq(b, k + 1, k + n)) = n
        /\ \A i \in 1 .. n : SubSeq(b, k + 1, k + n)[i] = b[k + i]
    BY <1>1, <1>5, <2>3, SubSeqProperties DEF Bytes
  <2>5. \A i \in 1 .. n : SubSeq(b, k + 1, k + n)[i] = a.host[i]
    BY <2>2, <2>4
  <2>6. Len(a.host) = n
    BY DEF n
  <2>7. QED
    BY <1>1, <2>4, <2>5, <2>6, SeqEqual DEF Bytes
<1>9. U16(b, k + n + 1) = a.port
  BY <1>1, <1>3, <1>5, <1>7 DEF U16, b
<1>10. b[1] = a.type /\ (a.type = Domain => b[2] = n)
  <2>1. b[1] = w[1] /\ w[1] = front[1]
    BY <1>1, <1>5, <1>6, <1>7 DEF b
  <2>2. a.type = Domain => b[2] = w[2] /\ w[2] = front[2]
    BY <1>1, <1>5, <1>6, <1>7 DEF b, k, Before
  <2>3. QED
    BY <1>2, <2>1, <2>2
<1>11. QED
  BY <1>1, <1>4, <1>7, <1>8, <1>9, <1>10 DEF b, n, k


\* A host of the length its type says, with a port behind it, is an address.
LEMMA ParseAddrOf ==
    ASSUME NEW b \in Bytes, b # <<>>, NEW n \in Nat \ {0}, HostFits(b[1], n),
           b[1] = Domain => Len(b) >= 2 /\ b[2] = n,
           Before(b[1]) + n + 2 <= Len(b)
    PROVE  ParsedAddr(b, n)
<1>1. Len(b) \in Nat \ {0}
  BY DEF Bytes
<1>2. CASE b[1] = Ipv4
  BY <1>1, <1>2, WireAssumption
    DEF ParseAddr, ParsedAddr, HostFits, Before, Ipv4, Ipv6, Domain
<1>3. CASE b[1] = Ipv6
  BY <1>1, <1>3, WireAssumption
    DEF ParseAddr, ParsedAddr, HostFits, Before, Ipv4, Ipv6, Domain
<1>4. CASE b[1] = Domain
  <2>1. ParseAddr(b) = [addr |-> Addr(b[1], SubSeq(b, 2 + 1, 2 + n), U16(b, 2 + n + 2 - 1)),
                        payload |-> <<>>, wire_len |-> 2 + n + 2]
    BY <1>1, <1>4 DEF ParseAddr, Ipv4, Ipv6, Domain, Before
  <2>2. QED
    BY <1>4, <2>1 DEF ParsedAddr, HostFits, Before
<1>5. QED
  BY <1>2, <1>3, <1>4 DEF HostFits

\* The same with names for the lengths.
LEMMA ParsedAddrIs ==
    ASSUME NEW b, NEW n \in Nat, NEW k \in Nat, Before(b[1]) = k, ParsedAddr(b, n)
    PROVE  ParseAddr(b) = [addr |-> Addr(b[1], SubSeq(b, k + 1, k + n), U16(b, k + n + 2 - 1)),
                           payload |-> <<>>, wire_len |-> k + n + 2]
  BY DEF ParsedAddr

\* What was written for an address is read as that address, whatever follows.
LEMMA PutAsParsed ==
    ASSUME NEW a, IsAddress(a), NEW q \in Bytes
    PROVE  ParseAddr(PutAddr(a) \o q) =
               [addr |-> a, payload |-> <<>>, wire_len |-> Len(PutAddr(a))]
<1> DEFINE w == PutAddr(a)
           b == w \o q
           n == Len(a.host)
           k == Before(a.type)
<1>1. /\ n \in Nat \ {0} /\ w \in Bytes /\ Len(w) = k + n + 2
      /\ w[1] = a.type /\ (a.type = Domain => w[2] = n)
      /\ SubSeq(w, k + 1, k + n) = a.host
      /\ U16(w, k + n + 1) = a.port
  BY PutBytes
<1>2. HostFits(a.type, n) /\ a = Addr(a.type, a.host, a.port)
  BY DEF IsAddress
<1>3. k \in {1, 2} /\ (a.type = Domain => k = 2)
  BY DEF Before
<1> HIDE DEF w, n
<1>4. /\ b \in Bytes /\ Len(b) = k + n + 2 + Len(q) /\ Len(q) \in Nat
      /\ \A i \in 1 .. k + n + 2 : b[i] = w[i]
  <2>1. /\ w \o q \in Bytes /\ Len(w \o q) = Len(w) + Len(q)
        /\ \A i \in 1 .. Len(w) : (w \o q)[i] = w[i]
    BY <1>1, Joined
  <2>2. QED
    BY <1>1, <2>1 DEF Bytes
<1>5. SubSeq(b, k + 1, k + n) = SubSeq(w, k + 1, k + n)
  <2>1. k + 1 \in 1 .. Len(w) /\ k + n \in 1 .. Len(w)
    BY <1>1, <1>3
  <2>2. QED
    BY <1>1, <2>1, SubSeqOfConcat1 DEF Bytes
<1> HIDE DEF b
<1>6. U16(b, k + n + 1) = a.port
  <2>1. k + n + 1 \in 1 .. k + n + 2 /\ k + n + 2 \in 1 .. k + n + 2 /\ k + n + 1 + 1 = k + n + 2
    BY <1>1, <1>3
  <2>2. b[k + n + 1] = w[k + n + 1] /\ b[k + n + 1 + 1] = w[k + n + 1 + 1]
    BY <1>4, <2>1
  <2>3. QED
    BY <1>1, <2>2 DEF U16
<1>7. b[1] = a.type /\ b # <<>> /\ (a.type = Domain => b[2] = n)
  <2>1. 1 \in 1 .. k + n + 2 /\ 2 \in 1 .. k + n + 2 /\ Len(b) >= 2
    BY <1>1, <1>3, <1>4
  <2>2. QED
    BY <1>1, <1>4, <2>1
<1> HIDE DEF k
<1>8. ParsedAddr(b, n)
  <2>1. Before(b[1]) = k /\ k + n + 2 <= Len(b) /\ Len(b) >= 2
    BY <1>1, <1>3, <1>4, <1>7 DEF k
  <2>2. QED
    BY <1>1, <1>2, <1>4, <1>7, <2>1, ParseAddrOf
<1>9. ParseAddr(b) = [addr |-> Addr(a.type, a.host, a.port), payload |-> <<>>,
                      wire_len |-> k + n + 2]
  <2>1. Before(b[1]) = k /\ k + n + 2 - 1 = k + n + 1
    BY <1>1, <1>3, <1>7 DEF k
  <2>2. ParseAddr(b) = [addr |-> Addr(b[1], SubSeq(b, k + 1, k + n), U16(b, k + n + 2 - 1)),
                        payload |-> <<>>, wire_len |-> k + n + 2]
    <3>1. n \in Nat /\ k \in Nat
      BY <1>1, <1>3
    <3>2. QED
      BY <1>8, <2>1, <3>1, ParsedAddrIs
  <2>3. QED
    BY <1>1, <1>5, <1>6, <1>7, <2>1, <2>2
<1>10. QED
  BY <1>1, <1>2, <1>9 DEF b, w

-----------------------------------------------------------------------------
(* Frames are read as they are packed, and packets as they are built. *)

\* A piece from the middle.
LEMMA Part ==
    ASSUME NEW b \in Bytes, NEW i \in 0 .. Len(b), NEW j \in i .. Len(b)
    PROVE  /\ SubSeq(b, i + 1, j) \in Bytes /\ Len(SubSeq(b, i + 1, j)) = j - i
           /\ \A x \in 1 .. j - i : SubSeq(b, i + 1, j)[x] = b[i + x]
           /\ SubSeq(b, 1, i) \o SubSeq(b, i + 1, j) = SubSeq(b, 1, j)
<1>1. Len(b) \in Nat /\ i \in Nat /\ j \in Nat /\ i <= j /\ j <= Len(b)
  BY DEF Bytes
<1>2. \A x \in i + 1 .. j : b[x] \in Byte
  BY <1>1 DEF Bytes
<1>3. /\ SubSeq(b, i + 1, j) \in Bytes /\ Len(SubSeq(b, i + 1, j)) = j - i
      /\ \A x \in 1 .. j - i : SubSeq(b, i + 1, j)[x] = b[i + x]
  BY <1>1, <1>2, SubSeqProperties DEF Bytes
<1>4. SubSeq(b, 1, i) \o SubSeq(b, i + 1, j) = SubSeq(b, 1, j)
  <2>1. 1 \in 1 .. Len(b) + 1 /\ i \in 1 - 1 .. Len(b) /\ j \in i .. Len(b)
    BY <1>1
  <2>2. QED
    BY <2>1, ConcatAdjacentSubSeq DEF Bytes
<1>5. QED
  BY <1>3, <1>4

\* What was joined is cut again.
LEMMA Behind ==
    ASSUME NEW u \in Bytes, NEW v \in Bytes
    PROVE  SubSeq(u \o v, 1, Len(u)) = u /\ From(u \o v, Len(u) + 1) = v
<1> DEFINE b == u \o v
           n == Len(u)
<1>1. /\ b \in Bytes /\ Len(b) = n + Len(v) /\ n \in Nat /\ Len(v) \in Nat
      /\ \A i \in 1 .. n : b[i] = u[i]
      /\ \A i \in 1 .. Len(v) : b[n + i] = v[i]
  <2>1. n \in Nat /\ Len(v) \in Nat
    BY DEF Bytes
  <2>2. QED
    BY <2>1, Joined
<1>2. Len(u) = n
  OBVIOUS
<1> HIDE DEF b, n
<1>3. n \in 0 .. Len(b) /\ Len(b) - n = Len(v)
  BY <1>1
<1>4. /\ SubSeq(b, 1, n) \in Bytes /\ Len(SubSeq(b, 1, n)) = n
      /\ From(b, n + 1) \in Bytes /\ Len(From(b, n + 1)) = Len(v)
      /\ \A i \in 1 .. n : SubSeq(b, 1, n)[i] = b[i]
      /\ \A i \in 1 .. Len(v) : From(b, n + 1)[i] = b[n + i]
  <2>1. /\ SubSeq(b, 1, n) \in Bytes /\ Len(SubSeq(b, 1, n)) = n
        /\ From(b, n + 1) \in Bytes /\ Len(From(b, n + 1)) = Len(b) - n
        /\ \A i \in 1 .. n : SubSeq(b, 1, n)[i] = b[i]
        /\ \A i \in 1 .. Len(b) - n : From(b, n + 1)[i] = b[n + i]
    BY <1>1, <1>3, Cut
  <2>2. QED
    BY <1>3, <2>1
<1>5. SubSeq(b, 1, n) = u
  <2>1. \A i \in 1 .. n : SubSeq(b, 1, n)[i] = u[i]
    BY <1>1, <1>4
  <2>2. QED
    BY <1>2, <1>4, <2>1, SeqEqual DEF Bytes
<1>6. From(b, n + 1) = v
  <2>1. \A i \in 1 .. Len(v) : From(b, n + 1)[i] = v[i]
    BY <1>1, <1>4
  <2>2. QED
    BY <1>4, <2>1, SeqEqual DEF Bytes
<1>7. QED
  BY <1>5, <1>6 DEF b, n

\* The bytes a frame was read from are those it is packed into.
LEMMA FrameAsPacked ==
    ASSUME NEW b \in Bytes, NEW f, f = ParseUdpFrame(b), f.wire_len # 0
    PROVE  /\ f.wire_len \in 8 .. Len(b)
           /\ IsAddress(f.addr) /\ f.payload \in Bytes
           /\ PackUdpFrame(f.addr, f.payload) = SubSeq(b, 1, f.wire_len)
<1> DEFINE a == ParseAddr(b)
           m == a.wire_len
           n == U16(b, m + 1)
<1>1. /\ m # 0 /\ Len(b) >= m + 4 /\ b[m + 4 - 1] = CR /\ b[m + 4] = LF /\ Len(b) >= m + 4 + n
      /\ f = [addr |-> a.addr, payload |-> SubSeq(b, m + 4 + 1, m + 4 + n), wire_len |-> m + 4 + n]
  <2>1. Failed.wire_len = 0
    BY DEF Failed
  <2>2. m # 0
    BY <2>1 DEF ParseUdpFrame
  <2>3. m \in Nat /\ Len(b) \in Nat
    BY <2>2, ParsedAsPut DEF Bytes
  <2> DEFINE head == m + 4
  <2>4. ParseUdpFrame(b) =
            IF \/ m = 0 \/ Len(b) < head
               \/ b[head - 1] # CR \/ b[head] # LF \/ ~Reached(b, head + n)
            THEN Failed
            ELSE [addr |-> a.addr, payload |-> SubSeq(b, head + 1, head + n), wire_len |-> head + n]
    BY DEF ParseUdpFrame
  <2>5. f = ParseUdpFrame(b) /\ f.wire_len # 0
    OBVIOUS
  <2> HIDE DEF m, n, a, head
  <2>6. /\ ~(Len(b) < head) /\ b[head - 1] = CR /\ b[head] = LF /\ Reached(b, head + n)
        /\ f = [addr |-> a.addr, payload |-> SubSeq(b, head + 1, head + n), wire_len |-> head + n]
    BY <2>1, <2>4, <2>5
  <2>7. QED
    BY <2>2, <2>3, <2>6 DEF Reached, head
<1>2. m \in 4 .. Len(b) /\ IsAddress(a.addr) /\ PutAddr(a.addr) = SubSeq(b, 1, m)
  BY <1>1, ParsedAsPut
<1>3. Len(b) \in Nat /\ m \in Nat /\ m >= 4
  BY <1>2 DEF Bytes
<1> DEFINE h == b[m + 1]
           l == b[m + 2]
<1>4. h \in Byte /\ l \in Byte /\ SubSeq(b, m + 1, m + 2) = <<h, l>>
  <2>1. m + 1 \in 1 .. Len(b) - 1 /\ m + 1 + 1 = m + 2
    BY <1>1, <1>3
  <2>2. QED
    BY <2>1, TwoBytes
<1>5. n \in Nat /\ Be16(n) = SubSeq(b, m + 1, m + 2)
  <2> DEFINE w == 256 * h + l
             pair == <<h, l>>
  <2>1. n = w
    <3>1. m + 1 + 1 = m + 2
      BY <1>3
    <3>2. QED
      BY <3>1 DEF U16
  <2>2. w \in Nat /\ w < 65536 /\ Be16(w) = pair
    BY <1>4, WordOfBytes
  <2>3. SubSeq(b, m + 1, m + 2) = pair
    BY <1>4
  <2> HIDE DEF n, h, l, w, pair
  <2>4. QED
    BY <2>1, <2>2, <2>3
<1>6. SubSeq(b, m + 3, m + 4) = <<CR, LF>>
  <2>1. m + 3 \in 1 .. Len(b) - 1 /\ m + 3 + 1 = m + 4 /\ m + 4 - 1 = m + 3
    BY <1>1, <1>3
  <2>2. QED
    BY <1>1, <2>1, TwoBytes
<1> HIDE DEF m, n, a
<1> DEFINE end == m + 4 + n
           payload == SubSeq(b, m + 4 + 1, end)
<1>7. /\ m \in 0 .. Len(b) /\ m + 2 \in m .. Len(b) /\ m + 2 \in 0 .. Len(b)
      /\ m + 4 \in m + 2 .. Len(b) /\ m + 4 \in 0 .. Len(b) /\ end \in m + 4 .. Len(b)
      /\ m + 2 + 1 = m + 3 /\ end - (m + 4) = n /\ end \in 8 .. Len(b)
  BY <1>1, <1>3, <1>5
<1>8. payload \in Bytes /\ Len(payload) = n
  BY <1>7, Part
<1>9. f.addr = a.addr /\ f.payload = payload /\ f.wire_len = end
  <2>1. f = [addr |-> a.addr, payload |-> payload, wire_len |-> end]
    BY <1>1
  <2> HIDE DEF payload, end
  <2>2. QED
    BY <2>1
<1>10. SubSeq(b, 1, m) \o SubSeq(b, m + 1, m + 2) = SubSeq(b, 1, m + 2)
  BY <1>7, Part
<1>11. SubSeq(b, 1, m + 2) \o SubSeq(b, m + 3, m + 4) = SubSeq(b, 1, m + 4)
  BY <1>7, Part
<1>12. SubSeq(b, 1, m + 4) \o payload = SubSeq(b, 1, end)
  BY <1>7, Part
<1> HIDE DEF end, payload
<1>13. PackUdpFrame(a.addr, payload) = SubSeq(b, 1, end)
  <2>1. PackUdpFrame(a.addr, payload)
            = PutAddr(a.addr) \o Be16(Len(payload)) \o <<CR, LF>> \o payload
    BY DEF PackUdpFrame
  <2>2. Be16(Len(payload)) = SubSeq(b, m + 1, m + 2)
    BY <1>5, <1>8
  <2>3. PackUdpFrame(a.addr, payload) =
            SubSeq(b, 1, m) \o SubSeq(b, m + 1, m + 2) \o SubSeq(b, m + 3, m + 4) \o payload
    BY <1>2, <1>6, <2>1, <2>2, Zenon DEF m
  <2>4. QED
    BY <1>10, <1>11, <1>12, <2>3
<1>14. QED
  BY <1>2, <1>7, <1>8, <1>9, <1>13

\* A packet for a SOCKS5 server is read as what it was built from.
LEMMA PacketAgain ==
    ASSUME NEW a, IsAddress(a), NEW q \in Bytes
    PROVE  /\ ParseUdpPacket(BuildUdpPacket(a, q)).addr = a
           /\ ParseUdpPacket(BuildUdpPacket(a, q)).payload = q
<1> DEFINE zeros == <<0, 0, 0>>
           w == PutAddr(a)
           b == BuildUdpPacket(a, q)
           m == Len(w)
<1>1. w \in Bytes /\ m \in Nat /\ m # 0
  <2> DEFINE n == Len(a.host)
             k == Before(a.type)
  <2>1. n \in Nat \ {0} /\ w \in Bytes /\ Len(w) = k + n + 2
    BY PutBytes
  <2>2. k \in {1, 2}
    BY DEF Before
  <2> HIDE DEF n, k
  <2>3. QED
    BY <2>1, <2>2
<1>2. zeros \in Bytes /\ Len(zeros) = 3
  BY ByteRange DEF Bytes
<1>3. w \o q \in Bytes /\ Len(w \o q) = m + Len(q) /\ Len(q) \in Nat
  BY <1>1, Joined DEF Bytes
<1>4. b = (zeros \o w) \o q /\ b = zeros \o (w \o q)
  BY <1>1, <1>2, ConcatAssociative DEF BuildUdpPacket, Bytes
<1> HIDE DEF w, b, m, zeros
<1>5. /\ b \in Bytes /\ Len(b) = 3 + m + Len(q)
      /\ SubSeq(b, 1, 3) = zeros /\ From(b, 4) = w \o q
  <2>1. b \in Bytes /\ Len(b) = Len(zeros) + Len(w \o q)
    <3>1. /\ zeros \o (w \o q) \in Bytes
          /\ Len(zeros \o (w \o q)) = Len(zeros) + Len(w \o q)
      BY <1>2, <1>3, Joined
    <3>2. QED
      BY <1>4, <3>1
  <2>2. SubSeq(b, 1, Len(zeros)) = zeros /\ From(b, Len(zeros) + 1) = w \o q
    BY <1>2, <1>3, <1>4, Behind
  <2>3. Len(zeros) + 1 = 4
    BY <1>2
  <2>4. QED
    BY <1>1, <1>2, <1>3, <2>1, <2>2, <2>3
<1>6. ParseAddr(From(b, 4)) = [addr |-> a, payload |-> <<>>, wire_len |-> m]
  BY <1>5, PutAsParsed DEF w, m
<1>7. From(b, 4 + m) = q
  <2>1. From(w \o q, m + 1) = q
    BY <1>1, Behind DEF m
  <2>2. From(b, 4 + m) = From(w \o q, m + 1)
    <3> DEFINE t == 3 + m
    <3>1. zeros \o w \in Bytes /\ Len(zeros \o w) = t /\ t + 1 = 4 + m
      <4>1. zeros \o w \in Bytes /\ Len(zeros \o w) = Len(zeros) + Len(w)
        BY <1>1, <1>2, Joined
      <4>2. Len(w) = m
        BY DEF m
      <4>3. QED
        BY <1>1, <1>2, <4>1, <4>2
    <3>3. From(b, Len(zeros \o w) + 1) = q
      BY <1>4, <3>1, Behind
    <3>4. QED
      BY <2>1, <3>1, <3>3
  <2>3. QED
    BY <2>1, <2>2
<1>8. ParseUdpPacket(b) = [addr |-> a, payload |-> From(b, 4 + m), wire_len |-> Len(b)]
  <2>1. ~(Len(b) < 4) /\ ~(SubSeq(b, 1, 3) # <<0, 0, 0>>)
    BY <1>1, <1>3, <1>5 DEF zeros
  <2> DEFINE p == ParseAddr(From(b, 4))
  <2>2. p.addr = a /\ p.wire_len = m
    BY <1>6
  <2>3. ParseUdpPacket(b) =
            IF Len(b) < 4 \/ SubSeq(b, 1, 3) # <<0, 0, 0>> \/ p.wire_len = 0 THEN Failed
            ELSE [addr |-> p.addr, payload |-> From(b, 4 + p.wire_len), wire_len |-> Len(b)]
    BY DEF ParseUdpPacket
  <2> HIDE DEF p
  <2>4. QED
    BY <1>1, <2>1, <2>2, <2>3
<1>9. QED
  BY <1>7, <1>8 DEF b

-----------------------------------------------------------------------------
(* How much of a message is needed does not shrink while it comes. *)

\* Where the address behind so many bytes ends, as far as one can say.
AddrEnd(b, counted) ==
    CASE b[counted + 1] = Ipv4 -> counted + 1 + V4Len + 2
      [] b[counted + 1] = Ipv6 -> counted + 1 + V6Len + 2
      [] OTHER -> counted + 2 + b[counted + 2] + 2

\* The length of a name has not come.
NameAhead(b, counted) == Len(b) = counted + 1 /\ b[counted + 1] = Domain

\* AddrLen says bad, waits for the length of a name, or knows the end.
LEMMA AddrLenIs ==
    ASSUME NEW b \in Bytes, NEW counted \in Nat, counted < Len(b)
    PROVE  \/ AddrLen(b, counted) = Bad /\ b[counted + 1] \notin {Ipv4, Ipv6, Domain}
           \/ AddrLen(b, counted) = More(counted + 2) /\ NameAhead(b, counted)
           \/ /\ b[counted + 1] \in {Ipv4, Ipv6, Domain} /\ ~NameAhead(b, counted)
              /\ AddrEnd(b, counted) \in Nat /\ AddrEnd(b, counted) >= counted + 4
              /\ AddrLen(b, counted) = Reach(b, AddrEnd(b, counted))
<1> DEFINE at == counted + 1
           m == Len(b)
<1>1. m \in Nat /\ m >= at /\ at \in Nat
  BY DEF Bytes
<1>2. /\ b[at] = Ipv4 => b[at] # Ipv6 /\ b[at] # Domain
      /\ b[at] = Ipv6 => b[at] # Ipv4 /\ b[at] # Domain
      /\ b[at] = Domain => b[at] # Ipv4 /\ b[at] # Ipv6
  BY DEF Ipv4, Ipv6, Domain
<1> HIDE DEF m
<1>3. CASE b[at] = Ipv4
  BY <1>1, <1>2, <1>3, WireAssumption DEF AddrLen, AddrEnd, NameAhead, m
<1>4. CASE b[at] = Ipv6
  BY <1>1, <1>2, <1>4, WireAssumption DEF AddrLen, AddrEnd, NameAhead, m
<1>5. CASE b[at] = Domain /\ m = at
  BY <1>1, <1>2, <1>5 DEF AddrLen, AddrEnd, NameAhead, m
<1>6. CASE b[at] = Domain /\ m > at
  <2>1. at + 1 \in 1 .. m
    BY <1>1, <1>6
  <2>2. b[at + 1] \in Byte
    BY <2>1 DEF Bytes, m
  <2>3. b[counted + 2] \in Nat /\ at + 1 = counted + 2
    BY <2>2, ByteRange
  <2>4. QED
    BY <1>1, <1>2, <1>6, <2>3 DEF AddrLen, AddrEnd, NameAhead, m
<1>7. CASE b[at] \notin {Ipv4, Ipv6, Domain}
  BY <1>1, <1>7 DEF AddrLen, AddrEnd, NameAhead, m
<1>8. QED
  BY <1>1, <1>3, <1>4, <1>5, <1>6, <1>7

\* More bytes do not move the end of an address.
LEMMA SameEnd ==
    ASSUME NEW b \in Bytes, NEW d \in Bytes, NEW counted \in Nat, counted < Len(b),
           ~NameAhead(b, counted),
           b[counted + 1] \in {Ipv4, Ipv6, Domain},
           Len(b) <= Len(d), \A i \in 1 .. Len(b) : d[i] = b[i]
    PROVE  AddrEnd(d, counted) = AddrEnd(b, counted) /\ ~NameAhead(d, counted)
<1>1. Len(b) \in Nat /\ Len(d) \in Nat
  BY DEF Bytes
<1>2. d[counted + 1] = b[counted + 1]
  BY <1>1
<1>3. b[counted + 1] = Domain => d[counted + 2] = b[counted + 2]
  <2>1. b[counted + 1] = Domain => counted + 2 \in 1 .. Len(b)
    BY <1>1 DEF NameAhead
  <2>2. QED
    BY <2>1
<1>4. AddrEnd(d, counted) = AddrEnd(b, counted)
  BY <1>2, <1>3 DEF AddrEnd
<1>5. ~NameAhead(d, counted)
  BY <1>1, <1>2 DEF NameAhead
<1>6. QED
  BY <1>4, <1>5

\* A reader that asks for what is missing never gets more than the message.
Grows(was, d, is) == was.rc = "more" /\ Len(d) <= was.needed /\ is.rc = "ok" => is.needed = Len(d)

\* Enough has come.
Enough(d, is) == is.rc = "ok" => is.needed \in Nat /\ Len(d) >= is.needed

\* Reach says "ok" only when that much is there.
LEMMA ReachEnough ==
    ASSUME NEW d, NEW n \in Nat
    PROVE  Enough(d, Reach(d, n))
  BY DEF Enough, Reach

\* While AddrLen asks for n bytes, an input of at most n that it says is complete
\* is the whole of it: none of it lies behind the address.
LEMMA AddrLenGrows ==
    ASSUME NEW b \in Bytes, NEW d \in Bytes, NEW counted \in Nat, counted < Len(b),
           Len(b) <= Len(d), \A i \in 1 .. Len(b) : d[i] = b[i]
    PROVE  Grows(AddrLen(b, counted), d, AddrLen(d, counted)) /\ Enough(d, AddrLen(d, counted))
<1>1. Len(b) \in Nat /\ Len(d) \in Nat /\ counted < Len(d) /\ d[counted + 1] = b[counted + 1]
  BY DEF Bytes
<1> DEFINE old == AddrLen(b, counted)
           new == AddrLen(d, counted)
           end == AddrEnd(d, counted)
<1>2. \/ new = Bad
      \/ new = More(counted + 2)
      \/ end \in Nat /\ end >= counted + 4 /\ new = Reach(d, end)
  BY <1>1, AddrLenIs
<1>3. \/ old = Bad
      \/ old = More(counted + 2)
      \/ /\ b[counted + 1] \in {Ipv4, Ipv6, Domain} /\ ~NameAhead(b, counted)
         /\ old = Reach(b, AddrEnd(b, counted))
  BY AddrLenIs
<1>4. Enough(d, new)
  BY <1>1, <1>2, ReachEnough DEF Enough, Bad, More
<1>5. Grows(old, d, new)
  <2>1. CASE old = Bad
    BY <2>1 DEF Grows, Bad
  <2>2. CASE old = More(counted + 2)
    <3>1. old.needed = counted + 2
      BY <2>2 DEF More
    <3> HIDE DEF old, new, end
    <3>2. Len(d) <= old.needed => new.rc # "ok"
      BY <1>1, <1>2, <3>1 DEF Reach, More, Bad
    <3>3. QED
      BY <3>2 DEF Grows
  <2>3. CASE /\ b[counted + 1] \in {Ipv4, Ipv6, Domain} /\ ~NameAhead(b, counted)
             /\ old = Reach(b, AddrEnd(b, counted))
    <3>1. end = AddrEnd(b, counted)
      BY <2>3, SameEnd
    <3>2. old.needed = end
      BY <2>3, <3>1 DEF Reach
    <3> HIDE DEF old, new, end
    <3>3. new.rc = "ok" => end \in Nat /\ Len(d) >= end /\ new.needed = end
      BY <1>1, <1>2 DEF Reach, More, Bad
    <3>4. QED
      BY <1>1, <3>2, <3>3 DEF Grows
  <2>4. QED
    BY <1>3, <2>1, <2>2, <2>3
<1>6. QED
  BY <1>4, <1>5

\* And so GreetingLen.
LEMMA GreetingGrows ==
    ASSUME NEW b \in Bytes, NEW d \in Bytes, Len(b) <= Len(d), \A i \in 1 .. Len(b) : d[i] = b[i]
    PROVE  Grows(GreetingLen(b), d, GreetingLen(d)) /\ Enough(d, GreetingLen(d))
<1>1. Len(b) \in Nat /\ Len(d) \in Nat
  BY DEF Bytes
<1>2. Len(d) >= 2 => d[2] \in Nat
  <2>1. Len(d) >= 2 => d[2] \in Byte
    BY <1>1 DEF Bytes
  <2>2. QED
    BY <2>1, ByteRange
<1>3. Len(b) >= 2 => b[1] = d[1] /\ b[2] = d[2]
  BY <1>1
<1>4. CASE Len(b) < 2
  BY <1>1, <1>2, <1>4 DEF GreetingLen, Grows, Enough, More, Bad, Reach
<1>5. CASE Len(b) >= 2
  BY <1>1, <1>2, <1>3, <1>5 DEF GreetingLen, Grows, Enough, More, Bad, Reach
<1>6. QED
  BY <1>1, <1>4, <1>5

\* And so ResponseLen.
LEMMA ResponseGrows ==
    ASSUME NEW b \in Bytes, NEW d \in Bytes, Len(b) <= Len(d), \A i \in 1 .. Len(b) : d[i] = b[i]
    PROVE  Grows(ResponseLen(b), d, ResponseLen(d)) /\ Enough(d, ResponseLen(d))
<1>1. Len(b) \in Nat /\ Len(d) \in Nat
  BY DEF Bytes
<1>2. CASE Len(d) < 4
  BY <1>1, <1>2 DEF ResponseLen, Grows, Enough, More
<1>3. CASE Len(d) >= 4
  <2>1. ResponseLen(d) = Bad \/ ResponseLen(d) = AddrLen(d, 3)
    BY <1>1, <1>3 DEF ResponseLen
  <2>2. Enough(d, ResponseLen(d))
    <3>1. Enough(d, AddrLen(d, 3))
      BY <1>1, <1>3, AddrLenGrows
    <3>2. QED
      BY <2>1, <3>1 DEF Enough, Bad
  <2>3. CASE Len(b) < 4
    <3>1. ResponseLen(b) = More(4)
      BY <1>1, <2>3 DEF ResponseLen
    <3>2. Len(d) <= 4 => ResponseLen(d).rc # "ok"
      <4>1. \/ AddrLen(d, 3) = Bad
            \/ AddrLen(d, 3) = More(3 + 2)
            \/ /\ AddrEnd(d, 3) \in Nat /\ AddrEnd(d, 3) >= 3 + 4
               /\ AddrLen(d, 3) = Reach(d, AddrEnd(d, 3))
        BY <1>1, <1>3, AddrLenIs
      <4>2. QED
        BY <1>1, <2>1, <4>1 DEF Bad, More, Reach
    <3>3. QED
      BY <2>2, <3>1, <3>2 DEF Grows, More
  <2>4. CASE Len(b) >= 4
    <3>1. ResponseLen(b) = Bad \/ ResponseLen(b) = AddrLen(b, 3)
      BY <1>1, <2>4 DEF ResponseLen
    <3>2. Grows(AddrLen(b, 3), d, AddrLen(d, 3))
      BY <1>1, <2>4, AddrLenGrows
    <3>3. Grows(ResponseLen(b), d, ResponseLen(d))
      BY <2>1, <3>1, <3>2 DEF Grows, Bad
    <3>4. QED
      BY <2>2, <3>3
  <2>5. QED
    BY <1>1, <2>3, <2>4
<1>4. QED
  BY <1>1, <1>2, <1>3

\* And so RequestLen.
LEMMA RequestGrows ==
    ASSUME NEW b \in Bytes, NEW d \in Bytes, Len(b) <= Len(d), \A i \in 1 .. Len(b) : d[i] = b[i]
    PROVE  Grows(RequestLen(b), d, RequestLen(d)) /\ Enough(d, RequestLen(d))
<1>1. Len(b) \in Nat /\ Len(d) \in Nat
  BY DEF Bytes
<1>2. RequestLen(b) = Bad \/ RequestLen(b) = ResponseLen(b)
  BY <1>1 DEF RequestLen, ResponseLen
<1>3. RequestLen(d) = Bad \/ RequestLen(d) = ResponseLen(d)
  BY <1>1 DEF RequestLen, ResponseLen
<1>4. Grows(ResponseLen(b), d, ResponseLen(d)) /\ Enough(d, ResponseLen(d))
  BY ResponseGrows
<1>5. QED
  BY <1>2, <1>3, <1>4 DEF Grows, Enough, Bad

\* What RequestNeeded says once there are two bytes.
LEMMA RequestNeededIs ==
    ASSUME NEW b \in Bytes, Len(b) >= 2
    PROVE  \/ RequestNeeded(b) = Bad
           \/ RequestNeeded(b) = More(3) /\ NameAhead(b, 1)
           \/ /\ b[2] \in {Ipv4, Ipv6, Domain} /\ ~NameAhead(b, 1)
              /\ AddrEnd(b, 1) \in Nat /\ AddrEnd(b, 1) >= 5
              /\ RequestNeeded(b) = Reach(b, AddrEnd(b, 1) + 2)
<1>0. Len(b) \in Nat
  BY DEF Bytes
<1> DEFINE address == AddrLen(b, 1)
           end == AddrEnd(b, 1)
<1>1. \/ address = Bad
      \/ address = More(1 + 2) /\ NameAhead(b, 1)
      \/ /\ b[1 + 1] \in {Ipv4, Ipv6, Domain} /\ ~NameAhead(b, 1)
         /\ end \in Nat /\ end >= 1 + 4 /\ address = Reach(b, end)
  BY <1>0, AddrLenIs
<1>2. \/ RequestNeeded(b) = Bad
      \/ RequestNeeded(b) = CASE address.rc = "bad" -> Bad
                              [] address.rc # "bad" /\ Len(b) = 2 /\ b[2] = Domain -> More(3)
                              [] OTHER -> Reach(b, address.needed + 2)
  BY <1>0 DEF RequestNeeded
<1>3. NameAhead(b, 1) <=> Len(b) = 2 /\ b[2] = Domain
  BY DEF NameAhead
<1> HIDE DEF address, end
<1>4. CASE address = Bad
  BY <1>2, <1>4 DEF Bad
<1>5. CASE address = More(1 + 2) /\ NameAhead(b, 1)
  BY <1>2, <1>3, <1>5 DEF More
<1>6. CASE /\ b[1 + 1] \in {Ipv4, Ipv6, Domain} /\ ~NameAhead(b, 1)
           /\ end \in Nat /\ end >= 1 + 4 /\ address = Reach(b, end)
  <2>1. address.rc # "bad" /\ address.needed = end
    BY <1>6 DEF Reach
  <2>2. QED
    BY <1>2, <1>3, <1>6, <2>1 DEF end
<1>7. QED
  BY <1>1, <1>4, <1>5, <1>6

\* And so RequestNeeded.
LEMMA CommandGrows ==
    ASSUME NEW b \in Bytes, NEW d \in Bytes, Len(b) <= Len(d), \A i \in 1 .. Len(b) : d[i] = b[i]
    PROVE  Grows(RequestNeeded(b), d, RequestNeeded(d)) /\ Enough(d, RequestNeeded(d))
<1>1. Len(b) \in Nat /\ Len(d) \in Nat
  BY DEF Bytes
<1> DEFINE new == RequestNeeded(d)
           old == RequestNeeded(b)
           end == AddrEnd(d, 1)
<1>2. CASE Len(d) < 2
  BY <1>1, <1>2 DEF RequestNeeded, Grows, Enough, More
<1>3. CASE Len(d) >= 2
  <2>1. \/ new = Bad
        \/ new = More(3)
        \/ end \in Nat /\ end >= 5 /\ new = Reach(d, end + 2)
    BY <1>3, RequestNeededIs
  <2>2. Enough(d, new)
    <3> HIDE DEF end
    <3>1. end \in Nat => end + 2 \in Nat
      OBVIOUS
    <3>2. QED
      BY <2>1, <3>1, ReachEnough DEF Enough, Bad, More
  <2>3. CASE Len(b) < 2
    <3>1. old = More(2)
      BY <1>1, <2>3 DEF RequestNeeded
    <3> HIDE DEF new, old, end
    <3>2. QED
      BY <1>1, <2>1, <2>2, <3>1 DEF Grows, More, Bad, Reach, new, old
  <2>4. CASE Len(b) >= 2
    <3>1. \/ old = Bad
          \/ old = More(3)
          \/ /\ b[1 + 1] \in {Ipv4, Ipv6, Domain} /\ ~NameAhead(b, 1)
             /\ old = Reach(b, AddrEnd(b, 1) + 2)
      BY <2>4, RequestNeededIs
    <3>2. CASE old = Bad \/ old = More(3)
      <4> HIDE DEF new, old, end
      <4>1. QED
        BY <1>1, <2>1, <2>2, <3>2 DEF Grows, More, Bad, Reach, new, old
    <3>3. CASE /\ b[1 + 1] \in {Ipv4, Ipv6, Domain} /\ ~NameAhead(b, 1)
               /\ old = Reach(b, AddrEnd(b, 1) + 2)
      <4>1. end = AddrEnd(b, 1)
        BY <1>1, <2>4, <3>3, SameEnd
      <4>2. old.needed = end + 2
        BY <3>3, <4>1 DEF Reach
      <4> HIDE DEF new, old, end
      <4>3. QED
        BY <1>1, <2>1, <2>2, <4>2 DEF Grows, More, Bad, Reach, new, old
    <3>4. QED
      BY <3>1, <3>2, <3>3
  <2>5. QED
    BY <1>1, <2>3, <2>4
<1>4. QED
  BY <1>1, <1>2, <1>3

\* How long a parsed address is.
LEMMA ParsedLen ==
    ASSUME NEW b \in Bytes, ParseAddr(b).wire_len # 0
    PROVE  \E n \in Nat \ {0} : /\ ParseAddr(b).wire_len = Before(b[1]) + n + 2
                               /\ HostFits(b[1], n) /\ (b[1] = Domain => b[2] = n)
<1>1. PICK n \in Nat \ {0} : ParsedAddr(b, n)
  BY ParseAddrCases DEF Failed
<1>2. QED
  BY <1>1 DEF ParsedAddr

\* An address is as long as was said before it was there.
LEMMA AddressReached ==
    ASSUME NEW b \in Bytes, NEW counted \in Nat, counted < Len(b),
           b[counted + 1] \in {Ipv4, Ipv6, Domain}, ~NameAhead(b, counted),
           AddrEnd(b, counted) <= Len(b), AddrEnd(b, counted) \in Nat,
           NEW m \in AddrEnd(b, counted) .. Len(b),
           NEW p, p = SubSeq(b, counted + 1, m), ParseAddr(p).wire_len # 0
    PROVE  /\ p \in Bytes /\ IsAddress(ParseAddr(p).addr)
           /\ PutAddr(ParseAddr(p).addr) = SubSeq(b, counted + 1, AddrEnd(b, counted))
<1> DEFINE end == AddrEnd(b, counted)
           len == ParseAddr(p).wire_len
<1>1. Len(b) \in Nat /\ counted \in 0 .. Len(b) /\ m \in counted .. Len(b)
      /\ end >= counted /\ m \in Nat
  <2>1. Len(b) \in Nat
    BY DEF Bytes
  <2>2. end >= counted + 4
    BY AddrLenIs DEF Bad
  <2>3. QED
    BY <2>1, <2>2
<1>2. /\ p \in Bytes /\ Len(p) = m - counted
      /\ \A i \in 1 .. m - counted : p[i] = b[counted + i]
  BY <1>1, Part
<1>3. /\ IsAddress(ParseAddr(p).addr) /\ len \in 4 .. Len(p)
      /\ PutAddr(ParseAddr(p).addr) = SubSeq(p, 1, len)
  BY <1>2, ParsedAsPut
<1>5. p[1] = b[counted + 1] /\ p[2] = b[counted + 2]
  <2>1. 1 \in 1 .. m - counted /\ 2 \in 1 .. m - counted
    BY <1>1, <1>2, <1>3
  <2>2. QED
    BY <1>2, <2>1
<1>6. PICK n \in Nat \ {0} : /\ len = Before(p[1]) + n + 2 /\ HostFits(p[1], n)
                               /\ (p[1] = Domain => p[2] = n)
  BY <1>2, ParsedLen
<1> HIDE DEF len
<1> DEFINE t == b[counted + 1]
<1>7. counted + len = end
  <2>1. /\ len = Before(t) + n + 2 /\ HostFits(t, n) /\ (t = Domain => b[counted + 2] = n)
    BY <1>5, <1>6
  <2>2. end = CASE t = Ipv4 -> counted + 1 + V4Len + 2
                [] t = Ipv6 -> counted + 1 + V6Len + 2
                [] OTHER -> counted + 2 + b[counted + 2] + 2
    BY DEF AddrEnd
  <2> HIDE DEF t, end
  <2>3. CASE t = Ipv4
    BY <2>1, <2>2, <2>3, WireAssumption DEF Before, HostFits, Ipv4, Ipv6, Domain
  <2>4. CASE t = Ipv6
    BY <2>1, <2>2, <2>4, WireAssumption DEF Before, HostFits, Ipv4, Ipv6, Domain
  <2>5. CASE t = Domain
    BY <2>1, <2>2, <2>5 DEF Before, HostFits, Ipv4, Ipv6, Domain
  <2>6. QED
    BY <2>3, <2>4, <2>5 DEF t
<1> HIDE DEF end
<1>8. SubSeq(p, 1, len) = SubSeq(b, counted + 1, end)
  <2>1. /\ 1 \in 1 .. Len(p) /\ len \in 1 .. Len(p) /\ len \in Nat
    BY <1>1, <1>2, <1>3
  <2>2. end \in counted .. Len(b) /\ end - counted = len
    BY <1>1, <1>2, <1>7, <2>1 DEF end
  <2>3. /\ SubSeq(b, counted + 1, end) \in Bytes /\ Len(SubSeq(b, counted + 1, end)) = end - counted
        /\ \A i \in 1 .. end - counted : SubSeq(b, counted + 1, end)[i] = b[counted + i]
    BY <1>1, <2>2, Part
  <2>4. /\ SubSeq(p, 1, len) \in Bytes /\ Len(SubSeq(p, 1, len)) = len
        /\ \A i \in 1 .. len : SubSeq(p, 1, len)[i] = p[i]
    <3>1. len \in 0 .. Len(p)
      BY <2>1
    <3>2. QED
      BY <1>2, <3>1, Cut
  <2>5. \A i \in 1 .. len : SubSeq(p, 1, len)[i] = SubSeq(b, counted + 1, end)[i]
    <3>1. len <= m - counted
      BY <1>2, <2>1
    <3>2. \A i \in 1 .. len : i \in 1 .. m - counted
      BY <1>1, <2>1, <3>1
    <3>3. QED
      BY <1>2, <2>2, <2>3, <2>4, <3>2
  <2>6. QED
    BY <2>2, <2>3, <2>4, <2>5, SeqEqual DEF Bytes
<1>9. QED
  BY <1>2, <1>3, <1>8 DEF end

-----------------------------------------------------------------------------
(* Induction over numbers, and sequences put one behind the other. *)

\* A set of numbers that has one has a least one.
LEMMA LeastNumber ==
    ASSUME NEW S \in SUBSET Nat, S # {}
    PROVE  \E n \in S : \A m \in S : n <= m
<1>1. PICK n \in S : \A m \in S : <<m, n>> \notin OpToRel(<, Nat)
  BY NatLessThanWellFounded, WFMin
<1>2. \A m \in S : ~(m < n)
  BY <1>1, Zenon DEF OpToRel
<1>3. QED
  BY <1>2

\* What holds of 0 and of the next number holds of all.
LEMMA AllNumbers ==
    ASSUME NEW S \in SUBSET Nat, 0 \in S, \A n \in S : n + 1 \in S
    PROVE  S = Nat
<1> SUFFICES ASSUME Nat \ S # {} PROVE FALSE
  OBVIOUS
<1>1. PICK n \in Nat \ S : \A m \in Nat \ S : n <= m
  BY LeastNumber
<1>2. n # 0 /\ n - 1 \in Nat /\ n - 1 \in S
  BY <1>1
<1>3. QED
  BY <1>1, <1>2

Texts == Seq(Bytes)

\* The first so many of them, joined.
OneMore(s, g, i) == g[i] = g[i - 1] \o s[i]

\* One more, with a number for its place.
LEMMA OneMoreIs ==
    ASSUME NEW s, NEW g, NEW n \in Nat, g[n + 1] = g[n] \o s[n + 1]
    PROVE  OneMore(s, g, n + 1)
<1> DEFINE j == n + 1
<1>1. j - 1 = n /\ g[j] = g[n] \o s[j]
  OBVIOUS
<1> HIDE DEF j
<1>2. OneMore(s, g, j)
  BY <1>1 DEF OneMore
<1>3. QED
  BY <1>2 DEF j

Joins(s, g, n) == g[0] = <<>> /\ \A i \in 1 .. n : OneMore(s, g, i)

\* The joins of the first so many are a function: induction on their number.
LEMMA JoinsExist ==
    ASSUME NEW s \in Texts
    PROVE  \E g \in [0 .. Len(s) -> Bytes] : Joins(s, g, Len(s))
<1> DEFINE m == Len(s)
           N == {n \in Nat : n <= m => \E g \in [0 .. n -> Bytes] : Joins(s, g, n)}
<1>0. m \in Nat /\ \A i \in 1 .. m : s[i] \in Bytes
  BY DEF Texts
<1> HIDE DEF m
<1>1. 0 \in N
  <2> DEFINE g == [i \in 0 .. 0 |-> <<>>]
  <2>1. g \in [0 .. 0 -> Bytes] /\ Joins(s, g, 0)
    BY DEF Joins, Bytes
  <2> HIDE DEF g
  <2>2. QED
    BY <2>1
<1>2. ASSUME NEW n \in N PROVE n + 1 \in N
  <2> SUFFICES ASSUME n + 1 <= m PROVE \E g \in [0 .. n + 1 -> Bytes] : Joins(s, g, n + 1)
    OBVIOUS
  <2>1. PICK g \in [0 .. n -> Bytes] : Joins(s, g, n)
    BY <1>0
  <2>2. n \in Nat /\ s[n + 1] \in Bytes
    BY <1>0
  <2> DEFINE h == [i \in 0 .. n + 1 |-> IF i <= n THEN g[i] ELSE g[n] \o s[n + 1]]
  <2>3. g[n] \o s[n + 1] \in Bytes
    <3>1. g[n] \in Bytes
      BY <2>2
    <3>2. QED
      BY <2>2, <3>1, Joined
  <2>4. h \in [0 .. n + 1 -> Bytes]
    BY <2>2, <2>3
  <2>5. h[n + 1] = g[n] \o s[n + 1] /\ \A i \in 0 .. n : h[i] = g[i]
    BY <2>2
  <2> HIDE DEF h
  <2>6. Joins(s, h, n + 1)
    <3>1. h[0] = <<>>
      BY <2>1, <2>2, <2>5 DEF Joins
    <3>2. \A i \in 1 .. n : OneMore(s, h, i)
      <4>1. ASSUME NEW i \in 1 .. n PROVE OneMore(s, h, i)
        <5>1. OneMore(s, g, i)
          BY <2>1 DEF Joins
        <5>2. i \in 0 .. n /\ i - 1 \in 0 .. n
          BY <2>2
        <5>3. h[i] = g[i] /\ h[i - 1] = g[i - 1]
          BY <2>5, <5>2
        <5>4. QED
          BY <5>1, <5>3 DEF OneMore
      <4>2. QED
        BY <4>1
    <3>3. OneMore(s, h, n + 1)
      <4>1. n \in 0 .. n /\ n + 1 - 1 = n
        BY <2>2
      <4>2. QED
        <5>1. h[n] = g[n]
          BY <2>5, <4>1
        <5>2. h[n + 1] = h[n] \o s[n + 1]
          BY <2>5, <5>1, Zenon
        <5>3. QED
          BY <2>2, <5>2, OneMoreIs
    <3>4. \A i \in 1 .. n + 1 : i \in 1 .. n \/ i = n + 1
      BY <2>2
    <3>5. QED
      BY <3>1, <3>2, <3>3, <3>4 DEF Joins
  <2>7. QED
    BY <2>4, <2>6
<1> HIDE DEF N
<1>3. N = Nat
  <2>1. N \in SUBSET Nat
    BY DEF N
  <2>2. QED
    BY <1>1, <1>2, <2>1, AllNumbers
<1>4. QED
  BY <1>0, <1>3 DEF N, m

\* FlattenSeq joins them all.
LEMMA FlattenJoins ==
    ASSUME NEW s \in Texts, NEW g \in [0 .. Len(s) -> Bytes], Joins(s, g, Len(s))
    PROVE  FlattenSeq(s) = g[Len(s)]
<1> DEFINE m == Len(s)
           Step(f) == [i \in 1 .. m |-> IF i = 1 THEN s[i] ELSE f[i - 1] \o s[i]]
           F == CHOOSE f : f = Step(f)
           g1 == [i \in 1 .. m |-> g[i]]
<1>0. m \in Nat /\ \A i \in 1 .. m : s[i] \in Bytes
  BY DEF Texts
<1>1. CASE m = 0
  BY <1>1 DEF FlattenSeq, Joins, Texts
<1>2. CASE m # 0
  <2>1. FlattenSeq(s) = F[m]
    BY <1>2 DEF FlattenSeq
  <2>2. g1 = Step(g1)
    <3>1. ASSUME NEW i \in 1 .. m PROVE g1[i] = IF i = 1 THEN s[i] ELSE g1[i - 1] \o s[i]
      <4>1. CASE i = 1
        <5>1. g[1] = <<>> \o s[1]
          BY <1>0, <1>2, <4>1 DEF Joins, OneMore
        <5>2. <<>> \o s[1] = s[1]
          BY <1>0, <4>1, ConcatEmptySeq DEF Bytes
        <5>3. QED
          BY <4>1, <5>1, <5>2
      <4>2. CASE i # 1
        BY <1>0, <4>2 DEF Joins, OneMore
      <4>3. QED
        BY <4>1, <4>2
    <3>2. QED
      BY <3>1
  <2>3. F = Step(F)
    <3> HIDE DEF g1, Step
    <3>1. \E f : f = Step(f)
      BY <2>2
    <3>2. QED
      BY <3>1
  <2> HIDE DEF F, g1
  <2>4. \A i \in 1 .. m : F[i] = IF i = 1 THEN s[i] ELSE F[i - 1] \o s[i]
    BY <2>3
  <2>5. \A i \in 1 .. m : g1[i] = IF i = 1 THEN s[i] ELSE g1[i - 1] \o s[i]
    BY <2>2
  <2> HIDE DEF m, Step
  <2> DEFINE N == {n \in Nat : n + 1 <= m => F[n + 1] = g1[n + 1]}
  <2>6. 0 \in N
    BY <1>0, <2>4, <2>5
  <2>7. ASSUME NEW n \in N PROVE n + 1 \in N
    <3> SUFFICES ASSUME n + 1 + 1 <= m PROVE F[n + 1 + 1] = g1[n + 1 + 1]
      OBVIOUS
    <3>1. F[n + 1] = g1[n + 1] /\ n + 1 + 1 \in 1 .. m /\ n + 1 + 1 # 1 /\ n + 1 + 1 - 1 = n + 1
      BY <1>0
    <3>2. QED
      BY <2>4, <2>5, <3>1
  <2> HIDE DEF N
  <2>8. N = Nat
    <3>1. N \in SUBSET Nat
      BY DEF N
    <3>2. QED
      BY <2>6, <2>7, <3>1, AllNumbers
  <2>9. F[m] = g1[m]
    <3>1. m - 1 \in N /\ m - 1 + 1 = m
      BY <1>0, <1>2, <2>8
    <3>2. QED
      BY <1>0, <3>1 DEF N
  <2>10. g1[m] = g[m]
    BY <1>0, <1>2 DEF g1
  <2>11. QED
    BY <2>1, <2>9, <2>10 DEF m
<1>3. QED
  BY <1>1, <1>2

\* A text put behind others comes last.
LEMMA FlattenAppend ==
    ASSUME NEW s \in Texts, NEW w \in Bytes
    PROVE  /\ FlattenSeq(s) \in Bytes
           /\ FlattenSeq(Append(s, w)) = FlattenSeq(s) \o w
<1> DEFINE m == Len(s)
           t == Append(s, w)
<1>1. PICK g \in [0 .. m -> Bytes] : Joins(s, g, m)
  BY JoinsExist
<1>2. m \in Nat
  BY DEF Texts
<1>3. FlattenSeq(s) = g[m] /\ g[m] \in Bytes
  BY <1>1, <1>2, FlattenJoins
<1>4. t \in Texts /\ Len(t) = m + 1 /\ t[m + 1] = w /\ \A i \in 1 .. m : t[i] = s[i]
  BY AppendProperties DEF Texts
<1> HIDE DEF m, t
<1> DEFINE h == [i \in 0 .. m + 1 |-> IF i <= m THEN g[i] ELSE g[m] \o w]
<1>5. g[m] \o w \in Bytes
  BY <1>3, Joined
<1>6. h \in [0 .. m + 1 -> Bytes] /\ h[m + 1] = g[m] \o w
  BY <1>2, <1>5
<1>7. Joins(t, h, m + 1)
  <2>1. \A i \in 0 .. m : h[i] = g[i]
    BY <1>2
  <2> HIDE DEF h
  <2>2. h[0] = <<>>
    BY <1>1, <1>2, <2>1 DEF Joins
  <2>3. \A i \in 1 .. m : OneMore(t, h, i)
    <3>1. ASSUME NEW i \in 1 .. m PROVE OneMore(t, h, i)
      <4>1. OneMore(s, g, i)
        BY <1>1 DEF Joins
      <4>2. i \in 0 .. m /\ i - 1 \in 0 .. m
        BY <1>2
      <4>3. h[i] = g[i] /\ h[i - 1] = g[i - 1] /\ t[i] = s[i]
        BY <1>4, <2>1, <4>2
      <4>4. QED
        BY <4>1, <4>3 DEF OneMore
    <3>2. QED
      BY <3>1
  <2>4. OneMore(t, h, m + 1)
    <3>1. m \in 0 .. m /\ m + 1 - 1 = m
      BY <1>2
    <3>2. h[m] = g[m] /\ h[m + 1] = g[m] \o w
      BY <1>6, <2>1, <3>1
    <3>3. h[m + 1] = h[m] \o t[m + 1]
      BY <1>4, <3>2, Zenon
    <3>4. QED
      BY <1>2, <3>3, OneMoreIs
  <2>5. \A i \in 1 .. m + 1 : i \in 1 .. m \/ i = m + 1
    BY <1>2
  <2>6. QED
    BY <2>2, <2>3, <2>4, <2>5 DEF Joins
<1> HIDE DEF h
<1>8. FlattenSeq(t) = h[m + 1]
  BY <1>4, <1>6, <1>7, FlattenJoins
<1>9. QED
  BY <1>3, <1>6, <1>8 DEF t

\* One text, and none.
LEMMA FlattenOne ==
    ASSUME NEW w \in Bytes
    PROVE  <<w>> \in Texts /\ FlattenSeq(<<w>>) = w /\ FlattenSeq(<<>>) = <<>> /\ <<>> \in Texts
<1>1. <<>> \in Texts /\ FlattenSeq(<<>>) = <<>>
  BY DEF Texts, FlattenSeq
<1>2. <<w>> \in Texts /\ <<w>> = Append(<<>>, w)
  BY DEF Texts
<1>3. FlattenSeq(Append(<<>>, w)) = FlattenSeq(<<>>) \o w
  BY <1>1, FlattenAppend
<1>4. <<>> \o w = w
  BY ConcatEmptySeq DEF Bytes
<1>5. FlattenSeq(<<w>>) = FlattenSeq(<<>>) \o w
  BY <1>2, <1>3, Zenon
<1>6. FlattenSeq(<<w>>) = w
  BY <1>1, <1>4, <1>5, Zenon
<1>7. QED
  BY <1>1, <1>2, <1>6, Zenon

\* It does not matter where they are cut.
FlattensAlike(s, t) == FlattenSeq(s \o t) = FlattenSeq(s) \o FlattenSeq(t)

\* Two sequences of texts.
LEMMA FlattenConcat ==
    ASSUME NEW s \in Texts, NEW t \in Texts
    PROVE  s \o t \in Texts /\ FlattenSeq(s \o t) = FlattenSeq(s) \o FlattenSeq(t)
<1> DEFINE N == {n \in Nat : \A u \in Texts : Len(u) = n => FlattensAlike(s, u)}
<1>1. 0 \in N
  <2> SUFFICES ASSUME NEW u \in Texts, Len(u) = 0 PROVE FlattensAlike(s, u)
    OBVIOUS
  <2>1. u = <<>>
    BY EmptySeq DEF Texts
  <2>2. s \o <<>> = s
    BY ConcatEmptySeq DEF Texts
  <2>3. FlattenSeq(<<>>) = <<>>
    BY DEF FlattenSeq
  <2>4. FlattenSeq(s) \o <<>> = FlattenSeq(s)
    <3>1. FlattenSeq(s) \in Bytes
      BY FlattenAppend, EmptySeq DEF Bytes
    <3>2. QED
      BY <3>1, ConcatEmptySeq DEF Bytes
  <2>5. QED
    BY <2>1, <2>2, <2>3, <2>4, Zenon DEF FlattensAlike
<1>2. ASSUME NEW n \in N PROVE n + 1 \in N
  <2> SUFFICES ASSUME NEW u \in Texts, Len(u) = n + 1 PROVE FlattensAlike(s, u)
    OBVIOUS
  <2>0. n \in Nat
    OBVIOUS
  <2>1. u # <<>>
    BY <2>0
  <2>2. \E v \in Texts : \E w \in Bytes : u = Append(v, w)
    BY <2>1, SequenceEmptyOrAppend DEF Texts
  <2>3. PICK v \in Texts : \E w \in Bytes : u = Append(v, w)
    BY <2>2
  <2>4. PICK w \in Bytes : u = Append(v, w)
    BY <2>3
  <2>5. Len(v) = n
    <3>1. Len(Append(v, w)) = Len(v) + 1 /\ Len(v) \in Nat
      BY AppendProperties DEF Texts
    <3>2. QED
      BY <2>0, <2>4, <3>1
  <2>6. FlattensAlike(s, v)
    BY <2>5
  <2> HIDE DEF N
  <2>7. s \o u = Append(s \o v, w) /\ s \o v \in Texts
    <3>1. u = v \o <<w>> /\ <<w>> \in Texts
      BY <2>4, AppendIsConcat, FlattenOne DEF Texts
    <3>2. s \o v \in Texts
      BY ConcatProperties DEF Texts
    <3>3. Append(s \o v, w) = (s \o v) \o <<w>>
      BY <3>2, AppendIsConcat DEF Texts
    <3>4. (s \o v) \o <<w>> = s \o (v \o <<w>>)
      BY <3>1, ConcatAssociative DEF Texts
    <3>5. QED
      BY <3>1, <3>2, <3>3, <3>4, Zenon
  <2>8. FlattenSeq(Append(s \o v, w)) = FlattenSeq(s \o v) \o w
    BY <2>7, FlattenAppend
  <2>9. FlattenSeq(u) = FlattenSeq(v) \o w
    BY <2>4, FlattenAppend
  <2>10. (FlattenSeq(s) \o FlattenSeq(v)) \o w = FlattenSeq(s) \o (FlattenSeq(v) \o w)
    <3>1. FlattenSeq(s) \in Bytes /\ FlattenSeq(v) \in Bytes
      BY FlattenAppend
    <3>2. QED
      BY <3>1, ConcatAssociative DEF Bytes
  <2>11. QED
    BY <2>6, <2>7, <2>8, <2>9, <2>10, Zenon DEF FlattensAlike
<1> HIDE DEF N
<1>3. N = Nat
  <2>1. N \in SUBSET Nat
    BY DEF N
  <2>2. QED
    BY <1>1, <1>2, <2>1, AllNumbers
<1>4. FlattensAlike(s, t)
  <2>1. Len(t) \in Nat
    BY DEF Texts
  <2>2. QED
    BY <1>3, <2>1 DEF N
<1>5. s \o t \in Texts
  BY ConcatProperties DEF Texts
<1>6. QED
  BY <1>4, <1>5 DEF FlattensAlike

-----------------------------------------------------------------------------
(* What a reader has got. *)

\* A message is what would be written for it, a frame also as a packet.
ItemRight(item) ==
    /\ item.wire \in Bytes
    /\ item.wire = Written(item)
    /\ item.kind = "frame" =>
           /\ ParseUdpPacket(BuildUdpPacket(item.addr, item.payload)).addr = item.addr
           /\ ParseUdpPacket(BuildUdpPacket(item.addr, item.payload)).payload = item.payload

GotRight(got) == \E S : got \in Seq(S) /\ \A e \in S : ItemRight(e)

\* Right messages, of any set.
LEMMA GotRightIs ==
    ASSUME NEW S, NEW got \in Seq(S), \A e \in S : ItemRight(e)
    PROVE  GotRight(got)
  BY DEF GotRight

Wires(got) == [i \in DOMAIN got |-> got[i].wire]

AllOf(got) == FlattenSeq(Wires(got))

\* The bytes of right messages are texts.
LEMMA WiresOf ==
    ASSUME NEW got, GotRight(got)
    PROVE  /\ Wires(got) \in Texts /\ Len(Wires(got)) = Len(got) /\ AllOf(got) \in Bytes
           /\ Len(got) \in Nat /\ DOMAIN got = 1 .. Len(got)
           /\ \A i \in 1 .. Len(got) : ItemRight(got[i]) /\ Wires(got)[i] = got[i].wire
<1>1. PICK S : got \in Seq(S) /\ \A e \in S : ItemRight(e)
  BY DEF GotRight
<1>2. Len(got) \in Nat /\ DOMAIN got = 1 .. Len(got) /\ \A i \in 1 .. Len(got) : got[i] \in S
  BY <1>1, LenProperties
<1>3. \A i \in 1 .. Len(got) : ItemRight(got[i])
  BY <1>1, <1>2
<1>4. \A i \in 1 .. Len(got) : got[i].wire \in Bytes
  BY <1>3 DEF ItemRight
<1> DEFINE m == Len(got)
<1>5. Wires(got) = [i \in 1 .. m |-> got[i].wire]
  BY <1>2 DEF Wires
<1> HIDE DEF m
<1>6. Wires(got) \in Texts /\ Len(Wires(got)) = m
  BY <1>2, <1>4, <1>5 DEF Texts, m
<1>7. \A i \in 1 .. m : Wires(got)[i] = got[i].wire
  BY <1>5
<1>8. AllOf(got) \in Bytes
  <2>1. <<>> \in Bytes
    BY DEF Bytes
  <2>2. QED
    BY <1>6, <2>1, FlattenAppend DEF AllOf
<1>9. QED
  BY <1>2, <1>3, <1>6, <1>7, <1>8 DEF m

\* What was got and what is got now.
LEMMA GotJoined ==
    ASSUME NEW g, GotRight(g), NEW h, GotRight(h)
    PROVE  GotRight(g \o h) /\ AllOf(g \o h) = AllOf(g) \o AllOf(h)
<1>1. PICK S : g \in Seq(S) /\ \A e \in S : ItemRight(e)
  BY DEF GotRight
<1>2. PICK T : h \in Seq(T) /\ \A e \in T : ItemRight(e)
  BY DEF GotRight
<1> DEFINE U == S \cup T
<1>3. g \in Seq(U) /\ h \in Seq(U) /\ \A e \in U : ItemRight(e)
  <2>1. S \subseteq U /\ T \subseteq U
    OBVIOUS
  <2>2. g \in Seq(U)
    BY <1>1, <2>1, SeqMonotonic
  <2>3. h \in Seq(U)
    BY <1>2, <2>1, SeqMonotonic
  <2>4. QED
    BY <1>1, <1>2, <2>2, <2>3
<1> HIDE DEF U
<1>4. /\ g \o h \in Seq(U) /\ Len(g \o h) = Len(g) + Len(h)
      /\ \A i \in 1 .. Len(g) + Len(h) : (g \o h)[i] = IF i <= Len(g) THEN g[i] ELSE h[i - Len(g)]
  BY <1>3, ConcatProperties
<1>5. GotRight(g \o h)
  BY <1>3, <1>4 DEF GotRight
<1> DEFINE m == Len(g)
           n == Len(h)
           gh == g \o h
           u == Wires(g)
           v == Wires(h)
<1>6. /\ u \in Texts /\ Len(u) = m /\ m \in Nat /\ \A i \in 1 .. m : u[i] = g[i].wire
      /\ v \in Texts /\ Len(v) = n /\ n \in Nat /\ \A i \in 1 .. n : v[i] = h[i].wire
  BY WiresOf
<1>7. Len(gh) = m + n /\ \A i \in 1 .. m + n : gh[i] = IF i <= m THEN g[i] ELSE h[i - m]
  BY <1>4
<1>8. Wires(gh) \in Texts /\ Len(Wires(gh)) = Len(gh)
      /\ \A i \in 1 .. Len(gh) : Wires(gh)[i] = gh[i].wire
  BY <1>5, WiresOf
<1> HIDE DEF m, n, gh, u, v
<1>9. u \o v \in Texts /\ Len(u \o v) = Len(u) + Len(v)
      /\ \A i \in 1 .. Len(u) + Len(v) : (u \o v)[i] = IF i <= Len(u) THEN u[i] ELSE v[i - Len(u)]
  <2>1. u \in Seq(Bytes) /\ v \in Seq(Bytes)
    BY <1>6 DEF Texts
  <2>2. QED
    BY <2>1, ConcatProperties DEF Texts
<1>10. Wires(gh) = u \o v
  <2>1. ASSUME NEW i \in 1 .. m + n PROVE Wires(gh)[i] = (u \o v)[i]
    <3>1. Wires(gh)[i] = gh[i].wire
      BY <1>6, <1>7, <1>8
    <3>2. (u \o v)[i] = IF i <= m THEN u[i] ELSE v[i - m]
      BY <1>6, <1>9
    <3>3. CASE i <= m
      <4>1. i \in 1 .. m
        BY <1>6, <3>3
      <4>2. gh[i] = g[i] /\ (u \o v)[i] = u[i] /\ u[i] = g[i].wire
        BY <1>6, <1>7, <3>2, <3>3, <4>1
      <4>3. QED
        BY <3>1, <4>2
    <3>4. CASE ~(i <= m)
      <4>1. i - m \in 1 .. n
        BY <1>6, <3>4
      <4>2. gh[i] = h[i - m] /\ (u \o v)[i] = v[i - m] /\ v[i - m] = h[i - m].wire
        BY <1>6, <1>7, <3>2, <3>4, <4>1
      <4>3. QED
        BY <3>1, <4>2
    <3>5. QED
      BY <3>3, <3>4
  <2>2. Len(Wires(gh)) = m + n /\ Len(u \o v) = m + n
    BY <1>6, <1>7, <1>8, <1>9
  <2>3. QED
    BY <1>8, <1>9, <2>1, <2>2, SeqEqual DEF Texts
<1>11. FlattenSeq(u \o v) = FlattenSeq(u) \o FlattenSeq(v)
  BY <1>6, FlattenConcat
<1>12. QED
  BY <1>5, <1>10, <1>11, Zenon DEF AllOf, gh, u, v

\* Nothing got yet.
LEMMA NoneGot == GotRight(<<>>) /\ AllOf(<<>>) = <<>>
<1>1. GotRight(<<>>)
  <2> DEFINE E == {}
             none == <<>>
  <2>1. none \in Seq(E) /\ \A x \in E : ItemRight(x)
    OBVIOUS
  <2> HIDE DEF E, none
  <2>2. GotRight(none)
    BY <2>1, GotRightIs
  <2>3. QED
    BY <2>2 DEF none
<1>2. Wires(<<>>) = <<>>
  <2>1. Wires(<<>>) \in Texts /\ Len(Wires(<<>>)) = 0
    BY <1>1, WiresOf
  <2>2. QED
    BY <2>1, EmptySeq DEF Texts
<1>3. AllOf(<<>>) = <<>>
  BY <1>2 DEF AllOf, FlattenSeq
<1>4. QED
  BY <1>1, <1>3

\* One message.
LEMMA GotOne ==
    ASSUME NEW e, ItemRight(e)
    PROVE  GotRight(<<e>>) /\ AllOf(<<e>>) = e.wire
<1>1. <<e>> \in Seq({e}) /\ Len(<<e>>) = 1 /\ <<e>>[1] = e
  OBVIOUS
<1>2. GotRight(<<e>>)
  <2> DEFINE E == {e}
             one == <<e>>
  <2>1. one \in Seq(E) /\ \A x \in E : ItemRight(x)
    BY <1>1
  <2> HIDE DEF E, one
  <2>2. GotRight(one)
    BY <2>1, GotRightIs
  <2>3. QED
    BY <2>2 DEF one
<1>3. Wires(<<e>>) = <<e.wire>>
  <2>1. /\ Wires(<<e>>) \in Texts /\ Len(Wires(<<e>>)) = Len(<<e>>)
        /\ \A i \in 1 .. Len(<<e>>) : Wires(<<e>>)[i] = <<e>>[i].wire
    BY <1>2, WiresOf
  <2>2. e.wire \in Bytes
    BY DEF ItemRight
  <2>3. <<e.wire>> \in Texts /\ Len(<<e.wire>>) = 1 /\ <<e.wire>>[1] = e.wire
    BY <2>2 DEF Texts
  <2>4. \A i \in 1 .. 1 : Wires(<<e>>)[i] = <<e.wire>>[i]
    BY <1>1, <2>1, <2>3
  <2>5. QED
    BY <1>1, <2>1, <2>3, <2>4, SeqEqual DEF Texts
<1>4. AllOf(<<e>>) = e.wire
  <2>1. e.wire \in Bytes
    BY DEF ItemRight
  <2>2. FlattenSeq(<<e.wire>>) = e.wire
    BY <2>1, FlattenOne
  <2>3. QED
    BY <1>3, <2>2, Zenon DEF AllOf
<1>5. QED
  BY <1>2, <1>4

-----------------------------------------------------------------------------
(* The frames of a buffer. *)

\* The rest of the rest.
LEMMA FromFrom ==
    ASSUME NEW b \in Bytes, NEW i \in 1 .. Len(b) + 1, NEW n \in Nat, n <= Len(From(b, i))
    PROVE  /\ From(b, i) \in Bytes /\ Len(From(b, i)) = Len(b) + 1 - i
           /\ i + n \in 1 .. Len(b) + 1
           /\ From(From(b, i), n + 1) = From(b, i + n)
<1> DEFINE k == i - 1
           rest == From(b, i)
           m == Len(b)
<1>1. m \in Nat /\ i = k + 1 /\ k \in 0 .. m
  BY DEF Bytes
<1>2. /\ From(b, k + 1) \in Bytes /\ Len(From(b, k + 1)) = m - k
      /\ \A j \in 1 .. m - k : From(b, k + 1)[j] = b[k + j]
  BY <1>1, Cut
<1>3. /\ rest \in Bytes /\ Len(rest) = m - k
      /\ \A j \in 1 .. m - k : rest[j] = b[k + j]
  BY <1>1, <1>2
<1>4. n <= Len(rest) /\ Len(b) = m
  OBVIOUS
<1> HIDE DEF k, rest, m
<1>5. n \in 0 .. Len(rest) /\ k + n \in 0 .. m /\ Len(rest) - n = m - (k + n)
  BY <1>1, <1>3, <1>4
<1> DEFINE u == From(rest, n + 1)
           v == From(b, k + n + 1)
           l == m - (k + n)
<1>6. u \in Bytes /\ Len(u) = l /\ \A j \in 1 .. l : u[j] = rest[n + j]
  <2>1. /\ From(rest, n + 1) \in Bytes /\ Len(From(rest, n + 1)) = Len(rest) - n
        /\ \A j \in 1 .. Len(rest) - n : From(rest, n + 1)[j] = rest[n + j]
    BY <1>3, <1>5, Cut
  <2>2. QED
    BY <1>5, <2>1
<1>7. v \in Bytes /\ Len(v) = l /\ \A j \in 1 .. l : v[j] = b[k + n + j]
  <2>1. /\ From(b, k + n + 1) \in Bytes /\ Len(From(b, k + n + 1)) = Len(b) - (k + n)
        /\ \A j \in 1 .. Len(b) - (k + n) : From(b, k + n + 1)[j] = b[k + n + j]
    BY <1>4, <1>5, Cut
  <2>2. QED
    BY <1>4, <2>1
<1> HIDE DEF u, v
<1>8. u = v
  <2>1. ASSUME NEW j \in 1 .. l PROVE u[j] = v[j]
    <3>1. n + j \in 1 .. m - k /\ k + (n + j) = k + n + j
      BY <1>1, <1>5
    <3>2. rest[n + j] = b[k + n + j]
      BY <1>3, <3>1
    <3>3. QED
      BY <1>6, <1>7, <3>2
  <2>2. QED
    BY <1>6, <1>7, <2>1, SeqEqual DEF Bytes
<1>9. k + n + 1 = i + n /\ i + n \in 1 .. m + 1 /\ m - k = m + 1 - i
  BY <1>1, <1>5
<1>10. QED
  BY <1>3, <1>4, <1>8, <1>9 DEF u, v, rest

FrameAt(b, i) == ParseUdpFrame(From(b, i))

ItemAt(b, i) == FrameItem(From(b, i), FrameAt(b, i))

\* A frame that is there is right, and the next place lies behind it.
LEMMA NextFrame ==
    ASSUME NEW b \in Bytes, NEW i \in 1 .. Len(b) + 1, FrameAt(b, i).wire_len # 0
    PROVE  /\ FrameAt(b, i).wire_len \in Nat \ {0} /\ i + FrameAt(b, i).wire_len \in 1 .. Len(b) + 1
           /\ ItemRight(ItemAt(b, i))
           /\ ItemAt(b, i).wire \o From(b, i + FrameAt(b, i).wire_len) = From(b, i)
<1> DEFINE rest == From(b, i)
           f == FrameAt(b, i)
           n == f.wire_len
           item == FrameItem(rest, f)
<1>1. rest \in Bytes
  <2>1. Len(From(b, i)) \in Nat
    <3>1. i - 1 \in 0 .. Len(b) /\ i - 1 + 1 = i /\ Len(b) \in Nat
      BY DEF Bytes
    <3>2. Len(From(b, i - 1 + 1)) = Len(b) - (i - 1)
      BY <3>1, Cut
    <3>3. QED
      BY <3>1, <3>2
  <2>2. QED
    BY <2>1, FromFrom
<1>2. n \in 8 .. Len(rest) /\ IsAddress(f.addr) /\ f.payload \in Bytes
      /\ PackUdpFrame(f.addr, f.payload) = SubSeq(rest, 1, n)
  <2>1. f = ParseUdpFrame(rest) /\ n # 0
    BY DEF FrameAt
  <2> HIDE DEF rest, f
  <2>2. QED
    BY <1>1, <2>1, FrameAsPacked
<1>3. n \in Nat \ {0} /\ Len(rest) \in Nat /\ n \in 0 .. Len(rest) /\ n <= Len(rest)
  BY <1>1, <1>2 DEF Bytes
<1>4. i + n \in 1 .. Len(b) + 1 /\ From(rest, n + 1) = From(b, i + n)
  BY <1>3, FromFrom
<1>5. SubSeq(rest, 1, n) \in Bytes /\ SubSeq(rest, 1, n) \o From(rest, n + 1) = rest
  BY <1>1, <1>3, Cut
<1>6. /\ item.kind = "frame" /\ item.wire = SubSeq(rest, 1, n)
      /\ item.addr = f.addr /\ item.payload = f.payload
  BY DEF FrameItem
<1> HIDE DEF item, n, rest, f
<1>7. ItemRight(item)
  <2>1. Written(item) = PackUdpFrame(item.addr, item.payload)
    BY <1>6 DEF Written
  <2>2. item.wire \in Bytes /\ item.wire = Written(item)
    BY <1>2, <1>5, <1>6, <2>1
  <2>3. /\ ParseUdpPacket(BuildUdpPacket(item.addr, item.payload)).addr = item.addr
        /\ ParseUdpPacket(BuildUdpPacket(item.addr, item.payload)).payload = item.payload
    BY <1>2, <1>6, PacketAgain
  <2>4. QED
    BY <2>2, <2>3 DEF ItemRight
<1>8. item.wire \o From(b, i + n) = rest
  BY <1>4, <1>5, <1>6
<1>9. QED
  BY <1>3, <1>4, <1>7, <1>8 DEF n, item, ItemAt, rest, f

\* One frame, those that follow given.
FrameStep(b, At, i) ==
    LET rest == From(b, i)
        frame == ParseUdpFrame(rest)
        later == At[i + frame.wire_len]
    IN  IF frame.wire_len = 0 THEN [items |-> <<>>, left |-> rest]
        ELSE [items |-> <<FrameItem(rest, frame)>> \o later.items, left |-> later.left]

\* The places near the end.
Places(b, n) == {i \in 1 .. Len(b) + 1 : Len(b) + 1 - i <= n}

FramesAgree(b, F, G, i) ==
    FrameAt(b, i).wire_len # 0 =>
        F[i + FrameAt(b, i).wire_len] = G[i + FrameAt(b, i).wire_len]

\* A frame looks only at those behind it.
LEMMA SameStep ==
    ASSUME NEW b, NEW F, NEW G, NEW i, FramesAgree(b, F, G, i)
    PROVE  FrameStep(b, F, i) = FrameStep(b, G, i)
  BY DEF FrameStep, FramesAgree, FrameAt

\* The next frame is nearer to the end.
LEMMA NextPlace ==
    ASSUME NEW b \in Bytes, NEW n \in Nat, NEW i \in Places(b, n + 1),
           FrameAt(b, i).wire_len # 0
    PROVE  i + FrameAt(b, i).wire_len \in Places(b, n)
<1> DEFINE w == FrameAt(b, i).wire_len
<1>1. i \in 1 .. Len(b) + 1 /\ Len(b) + 1 - i <= n + 1 /\ Len(b) \in Nat
  BY DEF Places, Bytes
<1>2. w \in Nat \ {0} /\ i + w \in 1 .. Len(b) + 1
  BY <1>1, NextFrame
<1> HIDE DEF w
<1>3. i + w \in Places(b, n)
  BY <1>1, <1>2 DEF Places
<1>4. QED
  BY <1>3 DEF w

\* The recursion of Frames ends: induction on the places, from the end.
LEMMA FramesDefined ==
    ASSUME NEW b \in Bytes
    PROVE  \E At : At = [i \in 1 .. Len(b) + 1 |-> FrameStep(b, At, i)]
<1> DEFINE N == {n \in Nat : \E At : At = [i \in Places(b, n) |-> FrameStep(b, At, i)]}
<1>0. Len(b) \in Nat
  BY DEF Bytes
<1>1. 0 \in N
  <2> DEFINE At == [i \in Places(b, 0) |-> FrameStep(b, <<>>, i)]
  <2>1. \A i \in Places(b, 0) : FrameStep(b, <<>>, i) = FrameStep(b, At, i)
    <3>1. ASSUME NEW i \in Places(b, 0) PROVE FrameAt(b, i).wire_len = 0
      <4>1. i \in 1 .. Len(b) + 1 /\ i = Len(b) + 1
        BY <1>0 DEF Places
      <4>2. ASSUME FrameAt(b, i).wire_len # 0 PROVE FALSE
        <5> DEFINE w == FrameAt(b, i).wire_len
        <5>1. w \in Nat \ {0} /\ i + w \in 1 .. Len(b) + 1
          BY <4>1, <4>2, NextFrame
        <5> HIDE DEF w
        <5>2. QED
          BY <1>0, <4>1, <5>1
      <4>3. QED
        BY <4>2
    <3> HIDE DEF At
    <3>2. QED
      BY <3>1, SameStep DEF FramesAgree
  <2>2. At = [i \in Places(b, 0) |-> FrameStep(b, At, i)]
    BY <2>1
  <2> HIDE DEF At
  <2>3. QED
    BY <2>2
<1>2. ASSUME NEW n \in N PROVE n + 1 \in N
  <2>0. n \in Nat
    OBVIOUS
  <2>1. PICK In : In = [i \in Places(b, n) |-> FrameStep(b, In, i)]
    OBVIOUS
  <2> DEFINE On == [i \in Places(b, n + 1) |-> FrameStep(b, In, i)]
  <2>2. \A i \in Places(b, n) : i \in Places(b, n + 1)
    BY <1>0, <2>0 DEF Places
  <2>3. \A i \in Places(b, n) : On[i] = In[i]
    BY <2>1, <2>2
  <2>4. \A i \in Places(b, n + 1) : FrameStep(b, In, i) = FrameStep(b, On, i)
    <3> HIDE DEF On, N
    <3>1. ASSUME NEW i \in Places(b, n + 1) PROVE FramesAgree(b, In, On, i)
      <4>1. CASE FrameAt(b, i).wire_len = 0
        BY <4>1 DEF FramesAgree
      <4>2. CASE FrameAt(b, i).wire_len # 0
        <5>1. i + FrameAt(b, i).wire_len \in Places(b, n)
          BY <2>0, <4>2, NextPlace
        <5>2. QED
          BY <2>3, <5>1 DEF FramesAgree
      <4>3. QED
        BY <4>1, <4>2
    <3>2. QED
      BY <3>1, SameStep
  <2>5. On = [i \in Places(b, n + 1) |-> FrameStep(b, On, i)]
    BY <2>4
  <2> HIDE DEF On
  <2>6. \E At : At = [i \in Places(b, n + 1) |-> FrameStep(b, At, i)]
    BY <2>5
  <2>7. QED
    BY <2>0, <2>6
<1> HIDE DEF N
<1>3. N = Nat
  <2>1. N \in SUBSET Nat
    BY DEF N
  <2>2. QED
    BY <1>1, <1>2, <2>1, AllNumbers
<1>4. Len(b) \in N
  BY <1>0, <1>3
<1>5. Places(b, Len(b)) = 1 .. Len(b) + 1
  BY <1>0 DEF Places
<1>6. QED
  BY <1>4, <1>5 DEF N

\* All the frames are right, and with what is left they are what there was.
FramesRight(b, i, x) ==
    GotRight(x.items) /\ x.left \in Bytes /\ AllOf(x.items) \o x.left = From(b, i)

\* And so is what Frames makes of a buffer: induction in the same order.
LEMMA FramesAreRight ==
    ASSUME NEW b \in Bytes
    PROVE  FramesRight(b, 1, Frames(b))
<1> DEFINE At == CHOOSE F : F = [i \in 1 .. Len(b) + 1 |-> FrameStep(b, F, i)]
           N == {n \in Nat : \A i \in Places(b, n) : FramesRight(b, i, At[i])}
<1>0. Len(b) \in Nat
  BY DEF Bytes
<1>1. At = [i \in 1 .. Len(b) + 1 |-> FrameStep(b, At, i)]
  BY FramesDefined
<1>2. Frames(b) = At[1]
  BY DEF Frames, FrameStep
<1> HIDE DEF At
<1>3. \A i \in 1 .. Len(b) + 1 : At[i] = FrameStep(b, At, i)
  BY <1>1
<1>4. ASSUME NEW i \in 1 .. Len(b) + 1,
             FrameAt(b, i).wire_len # 0 =>
                 FramesRight(b, i + FrameAt(b, i).wire_len,
                             At[i + FrameAt(b, i).wire_len])
      PROVE  FramesRight(b, i, At[i])
  <2> DEFINE rest == From(b, i)
             w == FrameAt(b, i).wire_len
             later == At[i + w]
             item == ItemAt(b, i)
  <2>1. CASE w = 0
    <3>1. At[i] = [items |-> <<>>, left |-> rest]
      BY <1>3, <2>1 DEF FrameStep, FrameAt
    <3>2. At[i].items = <<>> /\ At[i].left = rest
      BY <3>1
    <3>3. rest \in Bytes
      <4>1. i - 1 \in 0 .. Len(b) /\ i - 1 + 1 = i
        BY <1>0
      <4>2. From(b, i - 1 + 1) \in Bytes
        BY <4>1, Cut
      <4>3. QED
        BY <4>1, <4>2
    <3>4. <<>> \o rest = rest
      BY <3>3, ConcatEmptySeq DEF Bytes
    <3>5. GotRight(<<>>) /\ AllOf(<<>>) = <<>>
      BY NoneGot
    <3>6. QED
      BY <3>2, <3>3, <3>4, <3>5, Zenon DEF FramesRight
  <2>2. CASE w # 0
    <3>1. At[i] = [items |-> <<item>> \o later.items, left |-> later.left]
      BY <1>3, <2>2 DEF FrameStep, FrameAt, ItemAt
    <3>2. At[i].items = <<item>> \o later.items /\ At[i].left = later.left
      BY <3>1
    <3>3. ItemRight(item) /\ item.wire \o From(b, i + w) = rest
      BY <2>2, NextFrame
    <3>4. /\ GotRight(later.items) /\ later.left \in Bytes
          /\ AllOf(later.items) \o later.left = From(b, i + w)
      BY <1>4, <2>2 DEF FramesRight
    <3> HIDE DEF later, item, rest, w
    <3> DEFINE more == later.items
    <3>5. GotRight(<<item>>) /\ AllOf(<<item>>) = item.wire
      BY <3>3, GotOne
    <3>6. GotRight(<<item>> \o more) /\ AllOf(<<item>> \o more) = item.wire \o AllOf(more)
      BY <3>4, <3>5, GotJoined
    <3>7. AllOf(more) \in Bytes /\ item.wire \in Bytes
      BY <3>3, <3>4, WiresOf DEF ItemRight
    <3>8. (item.wire \o AllOf(more)) \o later.left = item.wire \o (AllOf(more) \o later.left)
      <4> DEFINE u == item.wire
                 v == AllOf(more)
                 z == later.left
      <4>1. u \in Seq(Byte) /\ v \in Seq(Byte) /\ z \in Seq(Byte)
        BY <3>4, <3>7 DEF Bytes
      <4> HIDE DEF u, v, z
      <4>2. (u \o v) \o z = u \o (v \o z)
        BY <4>1, ConcatAssociative
      <4>3. QED
        BY <4>2 DEF u, v, z
    <3>9. QED
      BY <3>2, <3>3, <3>4, <3>6, <3>8, Zenon DEF FramesRight, rest
  <2>3. QED
    BY <2>1, <2>2
<1>5. 0 \in N
  <2> SUFFICES ASSUME NEW i \in Places(b, 0) PROVE FramesRight(b, i, At[i])
    OBVIOUS
  <2>1. i \in 1 .. Len(b) + 1 /\ i = Len(b) + 1
    BY <1>0 DEF Places
  <2>2. FrameAt(b, i).wire_len = 0
    <3> SUFFICES ASSUME FrameAt(b, i).wire_len # 0 PROVE FALSE
      OBVIOUS
    <3> DEFINE w == FrameAt(b, i).wire_len
    <3>1. w \in Nat \ {0} /\ i + w \in 1 .. Len(b) + 1
      BY <2>1, NextFrame
    <3> HIDE DEF w
    <3>2. QED
      BY <1>0, <2>1, <3>1
  <2>3. QED
    BY <1>4, <2>1, <2>2
<1>6. ASSUME NEW n \in N PROVE n + 1 \in N
  <2>0. n \in Nat /\ \A i \in Places(b, n) : FramesRight(b, i, At[i])
    OBVIOUS
  <2> SUFFICES ASSUME NEW i \in Places(b, n + 1) PROVE FramesRight(b, i, At[i])
    BY <2>0
  <2>1. i \in 1 .. Len(b) + 1
    BY DEF Places
  <2>2. FrameAt(b, i).wire_len # 0 =>
            i + FrameAt(b, i).wire_len \in Places(b, n)
    BY <2>0, NextPlace
  <2>3. QED
    BY <1>4, <2>0, <2>1, <2>2
<1> HIDE DEF N
<1>7. N = Nat
  <2>1. N \in SUBSET Nat
    BY DEF N
  <2>2. QED
    BY <1>5, <1>6, <2>1, AllNumbers
<1>8. FramesRight(b, 1, At[1])
  <2>1. Len(b) \in N
    BY <1>0, <1>7
  <2>2. 1 \in Places(b, Len(b))
    BY <1>0 DEF Places
  <2>3. QED
    BY <2>1, <2>2 DEF N
<1>9. QED
  BY <1>2, <1>8

-----------------------------------------------------------------------------
(* Readers. *)

IsReader(x) == \E P, B, G, H : x \in [phase : P, buf : B, got : G, handed : H]

\* Nothing is handed on and the buffer is not overrun while there is something to
\* read; a second look at the first bytes is had only where they may be those of TLS.
ReaderRight(x) ==
    /\ IsReader(x) /\ x.phase \in Phases \cup Ends
    /\ x.buf \in Bytes /\ x.handed \in Bytes /\ GotRight(x.got)
    /\ x.phase \in Phases => x.handed = <<>> /\ Len(x.buf) <= Room[x.phase]
    /\ x.phase \in Ends => x.buf = <<>>
    /\ x.phase = "classify" /\ x.buf # <<>> => x.buf[1] = 22

\* What it has is all that was read.
Live(x) == x.phase \in Phases \cup {"served", "fallback"}

AllHad(x) == AllOf(x.got) \o x.buf \o x.handed

\* A reader that has just received.
Fresh(x) ==
    /\ IsReader(x) /\ x.phase \in Phases
    /\ x.buf \in Bytes /\ x.handed = <<>> /\ GotRight(x.got)
    /\ Len(x.buf) <= Room[x.phase]

\* What becomes of it.
Becomes(x, y) == ReaderRight(y) /\ (Live(y) => AllHad(y) = AllOf(x.got) \o x.buf)

\* A phase is not an end.
LEMMA PhasesApart == Phases \cap Ends = {} /\ \A p \in Ends : p \notin Phases
  BY DEF Phases, Ends

\* The sizes of the buffers.
LEMMA Rooms ==
    /\ \A p \in Phases : Room[p] \in Nat
    /\ \A p \in {"classify", "greeting", "request", "http", "method_read", "auth_read",
                 "response_read"} : Room[p] = Socks5Room
    /\ Room["prefix"] = PrefixLen /\ Room["command"] = RequestRoom /\ Room["udp"] = UdpRoom
    /\ Socks5Room \in Nat /\ Socks5Room >= 3 /\ UdpRoom \in Nat /\ KeyLen \in Nat \ {0}
    /\ PrefixLen \in Nat /\ RequestRoom \in Nat
<1>1. /\ Socks5Room \in Nat /\ Socks5Room >= 3 /\ UdpRoom \in Nat /\ KeyLen \in Nat \ {0}
      /\ PrefixLen \in Nat /\ RequestRoom \in Nat
  BY FramingAssumption DEF PrefixLen, RequestRoom
<1>2. QED
  BY <1>1 DEF Room, Phases

\* The empty sequence.
LEMMA NoBytes == <<>> \in Bytes /\ Len(<<>>) = 0 /\ \A w \in Bytes : w \o <<>> = w /\ <<>> \o w = w
<1>1. <<>> \in Bytes /\ Len(<<>>) = 0
  BY DEF Bytes
<1>2. \A w \in Bytes : w \o <<>> = w /\ <<>> \o w = w
  BY ConcatEmptySeq DEF Bytes
<1>3. QED
  BY <1>1, <1>2

\* One message more.
LEMMA GotMore ==
    ASSUME NEW g, GotRight(g), NEW e, ItemRight(e)
    PROVE  GotRight(Append(g, e)) /\ AllOf(Append(g, e)) = AllOf(g) \o e.wire
<1>1. Append(g, e) = g \o <<e>>
  <2>1. PICK S : g \in Seq(S)
    BY DEF GotRight
  <2> DEFINE U == S \cup {e}
  <2>2. g \in Seq(U) /\ e \in U
    <3>1. S \subseteq U /\ e \in U
      OBVIOUS
    <3> HIDE DEF U
    <3>2. QED
      BY <2>1, <3>1, SeqMonotonic
  <2> HIDE DEF U
  <2>3. QED
    BY <2>2, AppendIsConcat
<1>2. GotRight(<<e>>) /\ AllOf(<<e>>) = e.wire
  BY GotOne
<1>3. GotRight(g \o <<e>>) /\ AllOf(g \o <<e>>) = AllOf(g) \o AllOf(<<e>>)
  BY <1>2, GotJoined
<1>4. QED
  BY <1>1, <1>2, <1>3, Zenon

\* A reader that waits for more.
LEMMA StaysRight ==
    ASSUME NEW x, Fresh(x), x.phase = "classify" => x.buf[1] = 22
    PROVE  Becomes(x, x)
<1>1. x.handed \in Bytes
  BY NoBytes DEF Fresh
<1>2. ReaderRight(x)
  BY <1>1, PhasesApart DEF ReaderRight, Fresh
<1>3. AllHad(x) = AllOf(x.got) \o x.buf
  <2> DEFINE all == AllOf(x.got) \o x.buf
  <2>1. all \in Bytes
    <3>1. AllOf(x.got) \in Bytes
      BY WiresOf DEF Fresh
    <3>2. QED
      BY <3>1, Joined DEF Fresh
  <2>2. AllHad(x) = all \o <<>>
    BY DEF AllHad, Fresh
  <2> HIDE DEF all
  <2>3. AllHad(x) = all
    BY <2>1, <2>2, NoBytes
  <2>4. QED
    BY <2>3 DEF all
<1>4. QED
  BY <1>2, <1>3 DEF Becomes

\* The fields after a refusal.
LEMMA RefuseFields ==
    ASSUME NEW x, IsReader(x), NEW how
    PROVE  /\ IsReader(Refuse(x, how)) /\ Refuse(x, how).phase = how /\ Refuse(x, how).buf = <<>>
           /\ Refuse(x, how).got = x.got /\ Refuse(x, how).handed = x.handed
<1>1. PICK P, B, G, H : x \in [phase : P, buf : B, got : G, handed : H]
  BY DEF IsReader
<1> DEFINE y == Refuse(x, how)
           T == [phase : P \cup {how}, buf : B \cup {<<>>}, got : G, handed : H]
<1>2. y \in T /\ y.phase = how /\ y.buf = <<>> /\ y.got = x.got /\ y.handed = x.handed
  BY <1>1, Zenon DEF Refuse
<1> HIDE DEF y
<1>3. IsReader(y)
  BY <1>2, Zenon DEF IsReader
<1>4. QED
  BY <1>2, <1>3, Zenon DEF y

\* A refusal is always right.
LEMMA RefuseRight ==
    ASSUME NEW x, Fresh(x), NEW how \in Ends \ {"served", "fallback"}
    PROVE  Becomes(x, Refuse(x, how))
<1> DEFINE y == Refuse(x, how)
<1>1. /\ IsReader(y) /\ y.phase = how /\ y.buf = <<>> /\ y.got = x.got /\ y.handed = x.handed
  BY RefuseFields DEF Fresh
<1> HIDE DEF y
<1>2. how \in Ends /\ how \notin Phases /\ how # "classify"
  BY DEF Ends, Phases
<1>3. ReaderRight(y)
  BY <1>1, <1>2, NoBytes DEF ReaderRight, Fresh
<1>4. ~Live(y)
  BY <1>1, <1>2 DEF Live
<1>5. QED
  BY <1>3, <1>4 DEF Becomes, y

\* The fields after a message.
LEMMA AcceptFields ==
    ASSUME NEW x, IsReader(x), NEW item, NEW phase
    PROVE  /\ IsReader(Accept(x, item, phase)) /\ Accept(x, item, phase).phase = phase
           /\ Accept(x, item, phase).buf = <<>> /\ Accept(x, item, phase).got = Append(x.got, item)
           /\ Accept(x, item, phase).handed = x.handed
<1>1. PICK P, B, G, H : x \in [phase : P, buf : B, got : G, handed : H]
  BY DEF IsReader
<1> DEFINE y == Accept(x, item, phase)
           P1 == P \cup {phase}
           B1 == B \cup {<<>>}
           G1 == G \cup {Append(x.got, item)}
<1>2. /\ y \in [phase : P1, buf : B1, got : G1, handed : H]
      /\ y.phase = phase /\ y.buf = <<>> /\ y.got = Append(x.got, item)
      /\ y.handed = x.handed
  BY <1>1, Zenon DEF Accept
<1> HIDE DEF y, P1, B1, G1
<1>3. IsReader(y)
  BY <1>2, Zenon DEF IsReader
<1>4. QED
  BY <1>2, <1>3, Zenon DEF y

\* A right message that is all of the buffer.
LEMMA AcceptRight ==
    ASSUME NEW x, Fresh(x), NEW item, ItemRight(item), item.wire = x.buf,
           NEW phase \in Phases \cup {"served"}
    PROVE  Becomes(x, Accept(x, item, phase))
<1> DEFINE y == Accept(x, item, phase)
           g == Append(x.got, item)
<1>1. /\ IsReader(y) /\ y.phase = phase /\ y.buf = <<>> /\ y.got = g /\ y.handed = <<>>
  BY AcceptFields DEF Fresh
<1>2. GotRight(g) /\ AllOf(g) = AllOf(x.got) \o x.buf
  BY GotMore DEF Fresh
<1> HIDE DEF y, g
<1>3. phase \in Phases \cup Ends /\ phase \in Phases \cup {"served", "fallback"}
  BY DEF Ends
<1>4. phase \in Phases => Len(<<>>) <= Room[phase]
  BY Rooms, NoBytes
<1>5. ReaderRight(y)
  BY <1>1, <1>2, <1>3, <1>4, NoBytes DEF ReaderRight
<1>6. AllHad(y) = AllOf(g)
  <2> DEFINE all == AllOf(g)
  <2>1. all \in Bytes
    BY <1>2, WiresOf
  <2>2. AllHad(y) = all \o <<>> \o <<>>
    BY <1>1, Zenon DEF AllHad
  <2> HIDE DEF all
  <2>3. AllHad(y) = all
    BY <2>1, <2>2, NoBytes
  <2>4. QED
    BY <2>3 DEF all
<1>7. QED
  BY <1>2, <1>5, <1>6 DEF Becomes, y

\* The verdict on what has come: with the whole message there is nothing more.
LEMMA JudgeRight ==
    ASSUME NEW x, Fresh(x), x.phase # "classify", NEW verdict, NEW room, NEW done,
           verdict.rc = "ok" => Becomes(x, done)
    PROVE  Becomes(x, Judge(x, verdict, room, done))
<1>1. Becomes(x, x)
  BY StaysRight
<1>2. Becomes(x, Refuse(x, "bad"))
  BY RefuseRight DEF Ends
<1>3. \/ Judge(x, verdict, room, done) = x
      \/ Judge(x, verdict, room, done) = Refuse(x, "bad")
      \/ verdict.rc = "ok" /\ Judge(x, verdict, room, done) = done
  <2> DEFINE waits == verdict.rc = "more" /\ verdict.needed <= room
             out == Judge(x, verdict, room, done)
  <2>1. out = CASE waits -> x [] verdict.rc = "ok" -> done [] OTHER -> Refuse(x, "bad")
    BY DEF Judge
  <2>2. waits => verdict.rc # "ok"
    OBVIOUS
  <2> HIDE DEF waits, out
  <2>3. CASE waits
    <3>1. out = x
      BY <2>1, <2>2, <2>3
    <3>2. QED
      BY <3>1, Zenon DEF out
  <2>4. CASE ~waits /\ verdict.rc = "ok"
    <3>1. out = done
      BY <2>1, <2>4
    <3>2. QED
      BY <2>4, <3>1, Zenon DEF out
  <2>5. CASE ~waits /\ verdict.rc # "ok"
    <3>1. out = Refuse(x, "bad")
      BY <2>1, <2>5
    <3>2. QED
      BY <3>1, Zenon DEF out
  <2>6. QED
    BY <2>3, <2>4, <2>5
<1>4. QED
  BY <1>1, <1>2, <1>3, Zenon

-----------------------------------------------------------------------------
(* One message after the other. *)

\* A message that is all of the buffer.
LEMMA WholeItem ==
    ASSUME NEW x, Fresh(x), NEW kind, NEW n, n = Len(x.buf), NEW addr, NEW command
    PROVE  /\ Item(x, kind, n, addr, command).wire = x.buf
           /\ Item(x, kind, n, addr, command).kind = kind
           /\ Item(x, kind, n, addr, command).addr = addr
           /\ Item(x, kind, n, addr, command).command = command
<1>1. SubSeq(x.buf, 1, n) = x.buf
  BY SubSeqFull DEF Fresh, Bytes
<1>2. QED
  BY <1>1 DEF Item

\* Messages that are what they are.
LEMMA PlainItem ==
    ASSUME NEW x, Fresh(x), NEW n, n = Len(x.buf), NEW addr, NEW command,
           NEW kind \in {"greeting", "http", "prefix", "method", "auth"}
    PROVE  /\ ItemRight(Item(x, kind, n, addr, command))
           /\ Item(x, kind, n, addr, command).wire = x.buf
<1> DEFINE item == Item(x, kind, n, addr, command)
<1>1. item.wire = x.buf /\ item.kind = kind
  BY WholeItem
<1>2. x.buf \in Bytes
  BY DEF Fresh
<1> HIDE DEF item
<1>3. Written(item) = item.wire
  BY <1>1 DEF Written
<1>4. ItemRight(item)
  BY <1>1, <1>2, <1>3 DEF ItemRight
<1>5. QED
  BY <1>1, <1>4 DEF item

\* A greeting.
LEMMA GreetingRight ==
    ASSUME NEW x, Fresh(x), x.phase = "greeting",
           GreetingLen(x.buf).rc = "ok" => GreetingLen(x.buf).needed = Len(x.buf)
    PROVE  Becomes(x, Greeting(x))
<1> DEFINE v == GreetingLen(x.buf)
           n == v.needed
           item == Item(x, "greeting", n, Failed.addr, 0)
           done == IF SelectMethod(x.buf) = "noauth" THEN Accept(x, item, "request")
                   ELSE Refuse(x, "nomethod")
<1>1. Greeting(x) = Judge(x, v, Socks5Room, done)
  BY DEF Greeting
<1>2. ASSUME v.rc = "ok" PROVE Becomes(x, done)
  <2>1. n = Len(x.buf)
    BY <1>2
  <2> HIDE DEF n
  <2>2. ItemRight(item) /\ item.wire = x.buf
    BY <2>1, PlainItem
  <2> HIDE DEF item
  <2>3. Becomes(x, Accept(x, item, "request"))
    BY <2>2, AcceptRight DEF Phases
  <2>4. Becomes(x, Refuse(x, "nomethod"))
    BY RefuseRight DEF Ends
  <2>5. QED
    BY <2>3, <2>4
<1> HIDE DEF v, done
<1>3. Becomes(x, Judge(x, v, Socks5Room, done))
  BY <1>2, JudgeRight
<1>4. QED
  BY <1>1, <1>3

\* The first bytes of a request and of a response.
LEMMA ThreeBytes ==
    ASSUME NEW b \in Bytes, Len(b) >= 3
    PROVE  SubSeq(b, 1, 3) = <<b[1], b[2], b[3]>> /\ b[1] \in Byte /\ b[2] \in Byte /\ b[3] \in Byte
<1>1. Len(b) \in Nat /\ 3 \in 0 .. Len(b)
      /\ 1 \in 1 .. Len(b) /\ 2 \in 1 .. Len(b) /\ 3 \in 1 .. Len(b)
  BY DEF Bytes
<1>2. b[1] \in Byte /\ b[2] \in Byte /\ b[3] \in Byte
  BY <1>1 DEF Bytes
<1> DEFINE u == SubSeq(b, 1, 3)
           v == <<b[1], b[2], b[3]>>
<1>3. /\ u \in Bytes /\ Len(u) = 3 /\ \A i \in 1 .. 3 : u[i] = b[i]
  BY <1>1, Cut
<1>4. v \in Bytes /\ Len(v) = 3 /\ v[1] = b[1] /\ v[2] = b[2] /\ v[3] = b[3]
  BY <1>2 DEF Bytes
<1> HIDE DEF u, v
<1>5. \A i \in 1 .. 3 : u[i] = v[i]
  <2>1. \A i \in 1 .. 3 : i = 1 \/ i = 2 \/ i = 3
    OBVIOUS
  <2>2. QED
    BY <1>3, <1>4, <2>1
<1>6. u = v
  BY <1>3, <1>4, <1>5, SeqEqual DEF Bytes
<1>7. QED
  BY <1>2, <1>6 DEF u, v

\* Behind three bytes there is an address, and it is the rest.
LEMMA AddressBehind ==
    ASSUME NEW b \in Bytes, ResponseLen(b).rc = "ok", ResponseLen(b).needed = Len(b),
           ParseAddr(From(b, 4)).wire_len # 0
    PROVE  /\ b[1] = Version /\ b[3] = 0 /\ b[2] \in Byte
           /\ <<b[1], b[2], b[3]>> \o PutAddr(ParseAddr(From(b, 4)).addr) = b
<1> DEFINE m == Len(b)
           end == AddrEnd(b, 3)
           a == ParseAddr(From(b, 4)).addr
<1>1. m \in Nat /\ Len(b) >= 4 /\ b[1] = Version /\ b[3] = 0 /\ AddrLen(b, 3).rc = "ok"
      /\ AddrLen(b, 3).needed = m
  BY DEF ResponseLen, More, Bad, Bytes
<1>2. /\ b[3 + 1] \in {Ipv4, Ipv6, Domain} /\ ~NameAhead(b, 3)
      /\ end \in Nat /\ AddrLen(b, 3) = Reach(b, end)
  BY <1>1, AddrLenIs DEF Bad, More
<1>3. end = m
  BY <1>1, <1>2 DEF Reach
<1>4. PutAddr(a) = SubSeq(b, 3 + 1, end)
  <2> DEFINE p == SubSeq(b, 3 + 1, m)
  <2>1. p = From(b, 4)
    BY DEF From
  <2>2. ParseAddr(p).wire_len # 0 /\ a = ParseAddr(p).addr
    BY <2>1
  <2> HIDE DEF a
  <2>3. 3 < Len(b) /\ end <= Len(b) /\ m \in end .. Len(b)
    BY <1>1, <1>3
  <2>4. PutAddr(ParseAddr(p).addr) = SubSeq(b, 3 + 1, end)
    BY <1>2, <2>2, <2>3, AddressReached
  <2>5. QED
    BY <2>2, <2>4
<1>5. SubSeq(b, 1, 3) = <<b[1], b[2], b[3]>> /\ b[2] \in Byte
  BY <1>1, ThreeBytes
<1>6. SubSeq(b, 1, 3) \o SubSeq(b, 3 + 1, m) = SubSeq(b, 1, m)
  <2>1. 3 \in 0 .. Len(b) /\ m \in 3 .. Len(b)
    BY <1>1
  <2>2. QED
    BY <2>1, Part
<1>7. SubSeq(b, 1, m) = b
  BY SubSeqFull DEF Bytes
<1> HIDE DEF end, a, m
<1>8. <<b[1], b[2], b[3]>> \o PutAddr(a) = b
  BY <1>3, <1>4, <1>5, <1>6, <1>7, Zenon
<1>9. QED
  BY <1>1, <1>5, <1>8 DEF a

\* A request of a local client.
LEMMA RequestRight ==
    ASSUME NEW x, Fresh(x), x.phase = "request",
           RequestLen(x.buf).rc = "ok" => RequestLen(x.buf).needed = Len(x.buf)
    PROVE  Becomes(x, Request(x))
<1> DEFINE b == x.buf
           v == RequestLen(b)
           n == v.needed
           address == ParseAddr(From(b, 4))
           item == Item(x, "request", n, address.addr, b[2])
           done == IF address.wire_len = 0 THEN Refuse(x, "bad") ELSE Accept(x, item, "served")
<1>1. Request(x) = Judge(x, v, Socks5Room, done)
  BY DEF Request
<1>2. ASSUME v.rc = "ok" PROVE Becomes(x, done)
  <2>1. n = Len(b) /\ b \in Bytes
    BY <1>2 DEF Fresh
  <2>2. v = ResponseLen(b)
    BY <1>2, <2>1 DEF RequestLen, ResponseLen, Bad, Bytes
  <2>3. item.wire = b /\ item.kind = "request" /\ item.addr = address.addr /\ item.command = b[2]
    BY <2>1, WholeItem
  <2>4. Becomes(x, Refuse(x, "bad"))
    BY RefuseRight DEF Ends
  <2>5. CASE address.wire_len # 0
    <3>1. /\ b[1] = Version /\ b[3] = 0
          /\ <<b[1], b[2], b[3]>> \o PutAddr(address.addr) = b
      BY <1>2, <2>1, <2>2, <2>5, AddressBehind
    <3> HIDE DEF item, b, address
    <3>2. Written(item) = <<Version, b[2], 0>> \o PutAddr(address.addr)
      <4>1. Written(item) = BuildRequest(item.command, item.addr)
        BY <2>3 DEF Written
      <4>2. QED
        BY <2>3, <4>1 DEF BuildRequest
    <3>3. ItemRight(item)
      <4>1. Written(item) = b
        BY <3>1, <3>2
      <4>2. QED
        BY <2>1, <2>3, <4>1 DEF ItemRight
    <3>4. Becomes(x, Accept(x, item, "served"))
      BY <2>3, <3>3, AcceptRight DEF b
    <3>5. QED
      BY <2>5, <3>4
  <2>6. CASE address.wire_len = 0
    BY <2>4, <2>6
  <2>7. QED
    BY <2>5, <2>6
<1> HIDE DEF v, done
<1>3. Becomes(x, Judge(x, v, Socks5Room, done))
  BY <1>2, JudgeRight
<1>4. QED
  BY <1>1, <1>3

\* The response of a server.
LEMMA ResponseRight ==
    ASSUME NEW x, Fresh(x), x.phase = "response_read",
           ResponseLen(x.buf).rc = "ok" => ResponseLen(x.buf).needed = Len(x.buf)
    PROVE  Becomes(x, Response(x))
<1> DEFINE b == x.buf
           v == ResponseLen(b)
           n == v.needed
           address == ParseResponse(b)
           item == Item(x, "response", n, address.addr, 0)
           done == IF address.wire_len = 0 THEN Refuse(x, "bad") ELSE Accept(x, item, "served")
<1>1. Response(x) = Judge(x, v, Socks5Room, done)
  BY DEF Response
<1>2. ASSUME v.rc = "ok" PROVE Becomes(x, done)
  <2>1. n = Len(b) /\ b \in Bytes
    BY <1>2 DEF Fresh
  <2>2. Failed.wire_len = 0
    BY DEF Failed
  <2>3. item.wire = b /\ item.kind = "response" /\ item.addr = address.addr
    BY <2>1, WholeItem
  <2>4. Becomes(x, Refuse(x, "bad"))
    BY RefuseRight DEF Ends
  <2>5. CASE address.wire_len # 0
    <3>0. b[2] = 0 /\ address = ParseAddr(From(b, 4))
      BY <2>2, <2>5 DEF ParseResponse
    <3> HIDE DEF address
    <3>1. /\ b[1] = Version /\ b[3] = 0
          /\ <<b[1], b[2], b[3]>> \o PutAddr(address.addr) = b
      BY <1>2, <2>1, <2>5, <3>0, AddressBehind
    <3> HIDE DEF item, b
    <3>2. Written(item) = <<Version, 0, 0>> \o PutAddr(address.addr)
      <4>1. Written(item) = BuildResponse(0, item.addr)
        BY <2>3 DEF Written
      <4>2. QED
        BY <2>3, <4>1 DEF BuildResponse
    <3>3. ItemRight(item)
      <4>1. Written(item) = b
        BY <3>0, <3>1, <3>2
      <4>2. QED
        BY <2>1, <2>3, <4>1 DEF ItemRight
    <3>4. Becomes(x, Accept(x, item, "served"))
      BY <2>3, <3>3, AcceptRight DEF b
    <3>5. QED
      BY <2>5, <3>4
  <2>6. CASE address.wire_len = 0
    BY <2>4, <2>6
  <2>7. QED
    BY <2>5, <2>6
<1> HIDE DEF v, done
<1>3. Becomes(x, Judge(x, v, Socks5Room, done))
  BY <1>2, JudgeRight
<1>4. QED
  BY <1>1, <1>3

\* A Trojan client's command.
LEMMA CommandRight ==
    ASSUME NEW x, Fresh(x), x.phase = "command",
           RequestNeeded(x.buf).rc = "ok" => RequestNeeded(x.buf).needed = Len(x.buf)
    PROVE  Becomes(x, Command(x))
<1> DEFINE b == x.buf
           v == RequestNeeded(b)
           n == v.needed
           address == ParseAddr(SubSeq(b, 2, n - 2))
           item == Item(x, "command", n, address.addr, b[1])
           phase == IF b[1] = Connect THEN "served" ELSE "udp"
           done == IF SubSeq(b, n - 1, n) # <<CR, LF>> \/ address.wire_len = 0 THEN Refuse(x, "bad")
                   ELSE Accept(x, item, phase)
<1>1. Command(x) = Judge(x, v, RequestRoom, done)
  BY DEF Command
<1>2. ASSUME v.rc = "ok" PROVE Becomes(x, done)
  <2>1. n = Len(b) /\ b \in Bytes /\ Len(b) \in Nat
    BY <1>2 DEF Fresh, Bytes
  <2>2. Len(b) >= 2
    BY <1>2, <2>1 DEF RequestNeeded, More
  <2>3. item.wire = b /\ item.kind = "command" /\ item.addr = address.addr /\ item.command = b[1]
    BY <2>1, WholeItem
  <2>4. Becomes(x, Refuse(x, "bad"))
    BY RefuseRight DEF Ends
  <2> DEFINE end == AddrEnd(b, 1)
  <2>5. /\ b[1 + 1] \in {Ipv4, Ipv6, Domain} /\ ~NameAhead(b, 1)
        /\ end \in Nat /\ end >= 5 /\ end + 2 = n
    <3>1. \/ v = Bad
          \/ v = More(3)
          \/ /\ b[2] \in {Ipv4, Ipv6, Domain} /\ ~NameAhead(b, 1)
             /\ end \in Nat /\ end >= 5 /\ v = Reach(b, end + 2)
      BY <2>1, <2>2, RequestNeededIs
    <3> HIDE DEF end
    <3>2. QED
      BY <1>2, <3>1 DEF Bad, More, Reach
  <2>6. CASE SubSeq(b, n - 1, n) = <<CR, LF>> /\ address.wire_len # 0
    <3> DEFINE p == SubSeq(b, 1 + 1, end)
    <3>1. p = SubSeq(b, 2, n - 2)
      <4>1. n - 2 = end /\ 1 + 1 = 2
        BY <2>5
      <4> HIDE DEF n, end, b
      <4>2. QED
        BY <4>1
    <3>2. ParseAddr(p).wire_len # 0 /\ address = ParseAddr(p)
      BY <2>6, <3>1
    <3>3. 1 < Len(b) /\ end <= Len(b) /\ end \in end .. Len(b)
      BY <2>1, <2>2, <2>5
    <3>4. PutAddr(ParseAddr(p).addr) = SubSeq(b, 1 + 1, end)
      <4> HIDE DEF v, address, item, phase, done
      <4>1. QED
        BY <2>1, <2>5, <3>2, <3>3, AddressReached
    <3>5. SubSeq(b, 1, 1) = <<b[1]>>
      <4>1. 1 \in 1 .. Len(b)
        BY <2>1, <2>2
      <4>2. QED
        BY <2>1, <4>1, OneByte
    <3>6. SubSeq(b, 1, 1) \o SubSeq(b, 1 + 1, end) = SubSeq(b, 1, end)
      <4>1. 1 \in 0 .. Len(b) /\ end \in 1 .. Len(b)
        BY <2>1, <2>2, <2>5
      <4>2. QED
        BY <2>1, <4>1, Part
    <3>7. SubSeq(b, 1, end) \o SubSeq(b, end + 1, n) = b
      <4>1. end \in 0 .. Len(b) /\ n \in end .. Len(b)
        BY <2>1, <2>5
      <4>2. SubSeq(b, 1, end) \o SubSeq(b, end + 1, n) = SubSeq(b, 1, n)
        BY <2>1, <4>1, Part
      <4>3. SubSeq(b, 1, n) = b
        BY <2>1, SubSeqFull DEF Bytes
      <4>4. QED
        BY <4>2, <4>3
    <3>8. SubSeq(b, end + 1, n) = <<CR, LF>>
      <4>1. n - 1 = end + 1
        BY <2>5
      <4>2. QED
        BY <2>6, <4>1
    <3>9. PutAddr(address.addr) = SubSeq(b, 1 + 1, end)
      BY <3>2, <3>4
    <3> HIDE DEF item, b, address, end, p, n
    <3>10. Written(item) = <<b[1]>> \o PutAddr(address.addr) \o <<CR, LF>>
      <4>1. Written(item) = <<item.command>> \o PutAddr(item.addr) \o <<CR, LF>>
        BY <2>3 DEF Written
      <4>2. QED
        BY <2>3, <4>1, Zenon
    <3>11. Written(item) = b
      BY <3>5, <3>6, <3>7, <3>8, <3>9, <3>10, Zenon
    <3>12. ItemRight(item)
      BY <2>1, <2>3, <3>11 DEF ItemRight
    <3>13. Becomes(x, Accept(x, item, phase))
      <4>1. phase \in Phases \cup {"served"}
        BY DEF Phases
      <4> HIDE DEF phase
      <4>2. QED
        BY <2>3, <3>12, <4>1, AcceptRight DEF b
    <3>14. QED
      BY <2>6, <3>13
  <2>7. CASE ~(SubSeq(b, n - 1, n) = <<CR, LF>> /\ address.wire_len # 0)
    BY <2>4, <2>7
  <2>8. QED
    BY <2>6, <2>7
<1> HIDE DEF v, done
<1>3. Becomes(x, Judge(x, v, RequestRoom, done))
  BY <1>2, JudgeRight
<1>4. QED
  BY <1>1, <1>3

\* The reader is sent away with what it has.
Fallback(x) == [x EXCEPT !.phase = "fallback", !.buf = <<>>, !.handed = x.buf]

\* What goes to the fallback is what was read.
LEMMA FallbackRight ==
    ASSUME NEW x, Fresh(x)
    PROVE  Becomes(x, Fallback(x))
<1> DEFINE y == Fallback(x)
<1>1. PICK P, B, G, H : x \in [phase : P, buf : B, got : G, handed : H]
  BY DEF Fresh, IsReader
<1> DEFINE P1 == P \cup {"fallback"}
           B1 == B \cup {<<>>}
           H1 == H \cup {x.buf}
<1>2. /\ y \in [phase : P1, buf : B1, got : G, handed : H1]
      /\ y.phase = "fallback" /\ y.buf = <<>> /\ y.got = x.got /\ y.handed = x.buf
  BY <1>1, Zenon DEF Fallback
<1> HIDE DEF y, P1, B1, H1
<1>3. IsReader(y)
  BY <1>2, Zenon DEF IsReader
<1>4. y.phase \in Ends /\ y.phase \notin Phases
  BY <1>2 DEF Ends, Phases
<1>5. ReaderRight(y)
  BY <1>2, <1>3, <1>4, NoBytes, Zenon DEF ReaderRight, Fresh
<1>6. AllHad(y) = AllOf(x.got) \o x.buf
  <2>1. AllOf(x.got) \in Bytes
    BY WiresOf DEF Fresh
  <2>2. AllOf(x.got) \o <<>> = AllOf(x.got)
    BY <2>1, NoBytes
  <2>3. QED
    BY <1>2, <2>2, Zenon DEF AllHad
<1>7. QED
  BY <1>5, <1>6 DEF Becomes, y

\* A Trojan client's prefix.
LEMMA PrefixRight ==
    ASSUME NEW x, Fresh(x), x.phase = "prefix", NEW n
    PROVE  Becomes(x, Prefix(x, n))
<1> DEFINE line == LineEnds(x, n)
           short == Len(x.buf) < PrefixLen
           item == Item(x, "prefix", PrefixLen, Failed.addr, 0)
           known == From(x.buf, KeyLen + 1) = <<CR, LF>> /\ SubSeq(x.buf, 1, KeyLen) \in Keys
           done == IF known THEN Accept(x, item, "command") ELSE Fallback(x)
           out == Prefix(x, n)
<1>1. out = CASE line -> Fallback(x) [] ~line /\ short -> x [] OTHER -> done
  BY DEF Prefix, Fallback
<1>2. Becomes(x, x) /\ Becomes(x, Fallback(x))
  BY StaysRight, FallbackRight
<1>3. ASSUME ~short PROVE Becomes(x, done)
  <2>1. Len(x.buf) = PrefixLen
    <3>1. Len(x.buf) \in Nat /\ PrefixLen \in Nat /\ Len(x.buf) <= PrefixLen
      BY Rooms DEF Fresh, Bytes
    <3>2. QED
      BY <1>3, <3>1
  <2>2. ItemRight(item) /\ item.wire = x.buf
    BY <2>1, PlainItem
  <2> HIDE DEF item, known
  <2>3. Becomes(x, Accept(x, item, "command"))
    BY <2>2, AcceptRight DEF Phases
  <2>4. QED
    BY <1>2, <2>3
<1> HIDE DEF line, short, done, out
<1>4. Becomes(x, out)
  <2>1. CASE line
    <3>1. out = Fallback(x)
      BY <1>1, <2>1
    <3>2. QED
      BY <1>2, <3>1
  <2>2. CASE ~line /\ short
    <3>1. out = x
      BY <1>1, <2>2
    <3>2. QED
      BY <1>2, <3>1
  <2>3. CASE ~line /\ ~short
    <3>1. out = done
      BY <1>1, <2>3
    <3>2. QED
      BY <1>3, <2>3, <3>1
  <2>4. QED
    BY <2>1, <2>2, <2>3
<1>5. QED
  BY <1>4 DEF out

\* The method a server chose.
LEMMA MethodRight ==
    ASSUME NEW x, Fresh(x), x.phase = "method_read"
    PROVE  Becomes(x, Method(x))
<1> DEFINE item == Item(x, "method", 2, Failed.addr, 0)
           method == ParseMethodResponse(x.buf, script.userpass)
           two == Len(x.buf) = 2
           out == Method(x)
<1>1. out = CASE Len(x.buf) < 2 -> x
              [] two /\ method = "noauth" -> Accept(x, item, "response_read")
              [] two /\ method = "userpass" -> Accept(x, item, "auth_read")
              [] OTHER -> Refuse(x, "bad")
  BY DEF Method
<1>2. Becomes(x, x) /\ Becomes(x, Refuse(x, "bad"))
  BY StaysRight, RefuseRight DEF Ends
<1>3. ASSUME two
      PROVE  /\ Becomes(x, Accept(x, item, "response_read"))
             /\ Becomes(x, Accept(x, item, "auth_read"))
  <2>1. ItemRight(item) /\ item.wire = x.buf
    BY <1>3, PlainItem
  <2> HIDE DEF item
  <2>2. QED
    BY <2>1, AcceptRight DEF Phases
<1> HIDE DEF item, method, two, out
<1>4. \/ out = x \/ out = Refuse(x, "bad")
      \/ two /\ out = Accept(x, item, "response_read")
      \/ two /\ out = Accept(x, item, "auth_read")
  BY <1>1
<1>5. Becomes(x, out)
  BY <1>2, <1>3, <1>4, Zenon
<1>6. QED
  BY <1>5 DEF out

\* A server's answer to the password.
LEMMA AuthRight ==
    ASSUME NEW x, Fresh(x), x.phase = "auth_read"
    PROVE  Becomes(x, Auth(x))
<1> DEFINE item == Item(x, "auth", 2, Failed.addr, 0)
           two == Len(x.buf) = 2
           out == Auth(x)
<1>1. out = CASE Len(x.buf) < 2 -> x
              [] two /\ ParseAuthResponse(x.buf) = "ok" -> Accept(x, item, "response_read")
              [] OTHER -> Refuse(x, "bad")
  BY DEF Auth
<1>2. Becomes(x, x) /\ Becomes(x, Refuse(x, "bad"))
  BY StaysRight, RefuseRight DEF Ends
<1>3. ASSUME two PROVE Becomes(x, Accept(x, item, "response_read"))
  <2>1. ItemRight(item) /\ item.wire = x.buf
    BY <1>3, PlainItem
  <2> HIDE DEF item
  <2>2. QED
    BY <2>1, AcceptRight DEF Phases
<1> HIDE DEF item, two, out
<1> DEFINE short == Len(x.buf) < 2
           good == ParseAuthResponse(x.buf) = "ok"
<1>4. out = CASE short -> x [] two /\ good -> Accept(x, item, "response_read")
              [] OTHER -> Refuse(x, "bad")
  BY <1>1
<1>5. two => ~short
  BY DEF two
<1> HIDE DEF short, good
<1>6. Becomes(x, out)
  <2>1. CASE short
    <3>1. out = x
      BY <1>4, <1>5, <2>1
    <3>2. QED
      BY <1>2, <3>1
  <2>2. CASE ~short /\ two /\ good
    <3>1. out = Accept(x, item, "response_read")
      BY <1>4, <2>2
    <3>2. QED
      BY <1>3, <2>2, <3>1
  <2>3. CASE ~short /\ ~(two /\ good)
    <3>1. out = Refuse(x, "bad")
      BY <1>4, <2>3
    <3>2. QED
      BY <1>2, <3>1
  <2>4. QED
    BY <2>1, <2>2, <2>3
<1>7. QED
  BY <1>6 DEF out

\* A buffer of frames.
Taken(x, frames) == [x EXCEPT !.got = @ \o frames.items, !.buf = frames.left]

\* The frames of a UDP client.
LEMMA UdpRight ==
    ASSUME NEW x, Fresh(x), x.phase = "udp"
    PROVE  Becomes(x, Udp(x))
<1> DEFINE frames == Frames(x.buf)
           items == frames.items
           left == frames.left
           y == Taken(x, frames)
<1>1. Udp(x) = IF Len(y.buf) = UdpRoom THEN Refuse(y, "bad") ELSE y
  BY DEF Udp, Taken
<1>2. GotRight(items) /\ left \in Bytes /\ AllOf(items) \o left = x.buf
  <2>1. FramesRight(x.buf, 1, frames)
    BY FramesAreRight DEF Fresh
  <2>2. From(x.buf, 1) = x.buf
    BY SubSeqFull DEF From, Fresh, Bytes
  <2>3. QED
    BY <2>1, <2>2 DEF FramesRight
<1>3. PICK P, B, G, H : x \in [phase : P, buf : B, got : G, handed : H]
  BY DEF Fresh, IsReader
<1> HIDE DEF frames
<1> DEFINE B1 == B \cup {left}
           G1 == G \cup {x.got \o items}
<1>4. /\ y \in [phase : P, buf : B1, got : G1, handed : H]
      /\ y.phase = x.phase /\ y.buf = left /\ y.got = x.got \o items /\ y.handed = x.handed
  BY <1>3, Zenon DEF Taken
<1> HIDE DEF items, left, y, B1, G1
<1>5. IsReader(y)
  BY <1>4, Zenon DEF IsReader
<1>6. GotRight(x.got \o items) /\ AllOf(x.got \o items) = AllOf(x.got) \o AllOf(items)
  BY <1>2, GotJoined DEF Fresh
<1>7. Len(left) <= Len(x.buf) /\ Len(left) \in Nat
  <2>1. AllOf(items) \in Bytes
    BY <1>2, WiresOf
  <2> DEFINE all == AllOf(items)
  <2> HIDE DEF all
  <2>2. Len(all \o left) = Len(all) + Len(left) /\ Len(all) \in Nat /\ Len(left) \in Nat
    <3>1. all \in Bytes /\ left \in Bytes
      BY <1>2, <2>1 DEF all
    <3>2. QED
      BY <3>1, Joined DEF Bytes
  <2>3. Len(all \o left) = Len(x.buf)
    BY <1>2 DEF all
  <2>4. QED
    BY <2>2, <2>3
<1>8. Fresh(y)
  <2>1. y.phase = "udp" /\ Room["udp"] \in Nat
    BY <1>4, Rooms DEF Fresh
  <2>2. y.phase \in Phases /\ y.handed = <<>> /\ GotRight(y.got) /\ y.buf \in Bytes
    BY <1>2, <1>4, <1>6 DEF Fresh
  <2>3. Len(x.buf) \in Nat /\ Len(x.buf) <= Room["udp"]
    BY <2>1 DEF Fresh, Bytes
  <2>4. Len(y.buf) <= Room[y.phase]
    BY <1>4, <1>7, <2>1, <2>3
  <2>5. QED
    BY <1>5, <2>2, <2>4 DEF Fresh
<1>9. AllOf(y.got) \o y.buf = AllOf(x.got) \o x.buf
  <2>1. AllOf(items) \in Bytes /\ AllOf(x.got) \in Bytes
    BY <1>2, WiresOf DEF Fresh
  <2>2. (AllOf(x.got) \o AllOf(items)) \o left = AllOf(x.got) \o (AllOf(items) \o left)
    <3> DEFINE u == AllOf(x.got)
               w == AllOf(items)
    <3>1. u \in Seq(Byte) /\ w \in Seq(Byte) /\ left \in Seq(Byte)
      BY <1>2, <2>1 DEF Bytes
    <3> HIDE DEF u, w
    <3>2. (u \o w) \o left = u \o (w \o left)
      BY <3>1, ConcatAssociative
    <3>3. QED
      BY <3>2 DEF u, w
  <2>3. QED
    BY <1>2, <1>4, <1>6, <2>2, Zenon
<1>10. Becomes(y, Udp(x))
  <2>1. Becomes(y, y)
    <3>1. y.phase # "classify"
      BY <1>4
    <3>2. QED
      BY <1>8, <3>1, StaysRight
  <2>2. Becomes(y, Refuse(y, "bad"))
    BY <1>8, RefuseRight DEF Ends
  <2>3. QED
    BY <1>1, <2>1, <2>2
<1>11. QED
  BY <1>9, <1>10, Zenon DEF Becomes

-----------------------------------------------------------------------------
(* The head of an HTTP request, and the first bytes. *)

\* A head that is complete lies in the buffer.
LEMMA HeadIs ==
    ASSUME NEW b \in Bytes
    PROVE  /\ ParseConnect(b).rc \in {"more", "ok", "bad", "notallowed"}
           /\ ParseConnect(b).rc = "ok" => ParseConnect(b).needed \in 4 .. Len(b)
<1>1. HeaderEnd(b) = 0 \/ HeaderEnd(b) \in 4 .. Len(b)
  <2> DEFINE ends == {i \in 4 .. Len(b) : SubSeq(b, i - 3, i) = <<CR, LF, CR, LF>>}
             first == CHOOSE i \in ends : \A j \in ends : i <= j
  <2>1. HeaderEnd(b) = IF ends = {} THEN 0 ELSE first
    BY DEF HeaderEnd
  <2>2. ends # {} => first \in ends
    <3>1. ends \in SUBSET Nat
      BY DEF Bytes
    <3> HIDE DEF ends
    <3>2. ends # {} => \E i \in ends : \A j \in ends : i <= j
      BY <3>1, LeastNumber
    <3>3. QED
      BY <3>2, Zenon
  <2>3. \A i \in ends : i \in 4 .. Len(b)
    OBVIOUS
  <2> HIDE DEF ends, first
  <2>4. QED
    BY <2>1, <2>2, <2>3
<1>2. /\ ParseConnect(b).rc \in {"more", "ok", "bad", "notallowed"}
      /\ ParseConnect(b).rc = "ok" => HeaderEnd(b) # 0 /\ ParseConnect(b).needed = HeaderEnd(b)
  <2>1. ConnectLine(RequestLine(b, HeaderEnd(b))).rc \in {"ok", "bad"}
    BY DEF ConnectLine
  <2>2. QED
    BY <2>1 DEF ParseConnect
<1>3. QED
  BY <1>1, <1>2

\* What follows the head is handed on.
Headed(x, item, rest) == [Accept(x, item, "served") EXCEPT !.handed = rest]

\* A head and what follows it are the buffer.
LEMMA HeadedRight ==
    ASSUME NEW x, Fresh(x), NEW item, ItemRight(item), NEW rest \in Bytes,
           item.wire \o rest = x.buf
    PROVE  Becomes(x, Headed(x, item, rest))
<1> DEFINE z == Accept(x, item, "served")
           y == Headed(x, item, rest)
           g == Append(x.got, item)
<1>1. IsReader(z) /\ z.phase = "served" /\ z.buf = <<>> /\ z.got = g
  BY AcceptFields DEF Fresh
<1>2. GotRight(g) /\ AllOf(g) = AllOf(x.got) \o item.wire
  BY GotMore DEF Fresh
<1>3. y = [z EXCEPT !.handed = rest]
  BY DEF Headed
<1> HIDE DEF z, y, g
<1>4. PICK P, B, G, H : z \in [phase : P, buf : B, got : G, handed : H]
  BY <1>1 DEF IsReader
<1> DEFINE H1 == H \cup {rest}
<1>5. /\ y \in [phase : P, buf : B, got : G, handed : H1]
      /\ y.phase = z.phase /\ y.buf = z.buf /\ y.got = z.got /\ y.handed = rest
  BY <1>3, <1>4, Zenon
<1> HIDE DEF H1
<1>6. IsReader(y)
  BY <1>5, Zenon DEF IsReader
<1>7. "served" \in Ends /\ "served" \notin Phases /\ "served" # "classify"
  BY DEF Ends, Phases
<1>8. ReaderRight(y)
  BY <1>1, <1>2, <1>5, <1>6, <1>7, NoBytes DEF ReaderRight
<1>9. AllHad(y) = AllOf(x.got) \o x.buf
  <2> DEFINE u == AllOf(x.got)
             w == item.wire
  <2>1. u \in Seq(Byte) /\ w \in Seq(Byte) /\ rest \in Seq(Byte)
    <3>1. u \in Bytes
      BY WiresOf DEF Fresh
    <3>2. w \in Bytes
      BY DEF ItemRight
    <3>3. QED
      BY <3>1, <3>2 DEF Bytes
  <2>2. AllOf(g) = u \o w /\ w \o rest = x.buf
    BY <1>2
  <2> HIDE DEF u, w
  <2>3. (u \o w) \o rest = u \o (w \o rest)
    BY <2>1, ConcatAssociative
  <2>4. (u \o w) \o <<>> = u \o w
    <3>1. u \o w \in Bytes
      BY <2>1, Joined DEF Bytes
    <3> DEFINE all == u \o w
    <3> HIDE DEF all
    <3>2. all \o <<>> = all
      BY <3>1, NoBytes DEF all
    <3>3. QED
      BY <3>2 DEF all
  <2>5. AllHad(y) = (u \o w) \o <<>> \o rest
    BY <1>1, <1>5, <2>2, Zenon DEF AllHad
  <2>6. AllHad(y) = u \o x.buf
    BY <2>2, <2>3, <2>4, <2>5, Zenon
  <2>7. QED
    BY <2>6 DEF u
<1>10. QED
  BY <1>8, <1>9 DEF Becomes, y

\* A CONNECT request.
LEMMA HttpRight ==
    ASSUME NEW x, Fresh(x), x.phase = "http"
    PROVE  Becomes(x, Http(x))
<1> DEFINE b == x.buf
           head == ParseConnect(b)
           n == head.needed
           item == Item(x, "http", n, head.addr, Connect)
           rest == From(b, n + 1)
           full == Len(b) = Socks5Room
           wait == IF full THEN Refuse(x, "bad") ELSE x
           out == Http(x)
<1>1. out = CASE head.rc = "more" -> wait
              [] head.rc = "ok" -> Headed(x, item, rest)
              [] OTHER -> Refuse(x, head.rc)
  BY DEF Http, Headed
<1>2. b \in Bytes /\ Len(b) \in Nat
  BY DEF Fresh, Bytes
<1>3. head.rc \in {"more", "ok", "bad", "notallowed"} /\ (head.rc = "ok" => n \in 4 .. Len(b))
  BY <1>2, HeadIs
<1>4. Becomes(x, wait)
  BY StaysRight, RefuseRight DEF Ends
<1>5. ASSUME head.rc = "ok" PROVE Becomes(x, Headed(x, item, rest))
  <2>1. n \in 0 .. Len(b)
    BY <1>2, <1>3, <1>5
  <2> HIDE DEF n, head
  <2>2. SubSeq(b, 1, n) \in Bytes /\ rest \in Bytes /\ SubSeq(b, 1, n) \o rest = b
    BY <1>2, <2>1, Cut
  <2>3. item.wire = SubSeq(b, 1, n) /\ item.kind = "http"
    BY DEF Item
  <2> HIDE DEF item, rest, b
  <2>4. ItemRight(item)
    <3>1. Written(item) = item.wire
      BY <2>3 DEF Written
    <3>2. QED
      BY <2>2, <2>3, <3>1 DEF ItemRight
  <2>5. item.wire \o rest = x.buf
    BY <2>2, <2>3 DEF b
  <2>6. QED
    BY <2>2, <2>4, <2>5, HeadedRight
<1> HIDE DEF wait, item, rest, n
<1>6. Becomes(x, out)
  <2> DEFINE rc == head.rc
  <2>1. out = CASE rc = "more" -> wait [] rc = "ok" -> Headed(x, item, rest)
                [] OTHER -> Refuse(x, rc)
    BY <1>1
  <2>2. rc \in {"more", "ok", "bad", "notallowed"}
    BY <1>3
  <2>3. rc = "ok" => Becomes(x, Headed(x, item, rest))
    BY <1>5
  <2> HIDE DEF rc, out, head
  <2>4. CASE rc = "more"
    BY <1>4, <2>1, <2>4
  <2>5. CASE rc = "ok"
    BY <2>1, <2>3, <2>5
  <2>6. CASE rc = "bad" \/ rc = "notallowed"
    <3>1. rc \in Ends \ {"served", "fallback"}
      BY <2>6 DEF Ends
    <3>2. Becomes(x, Refuse(x, rc))
      BY <3>1, RefuseRight
    <3>3. out = Refuse(x, rc)
      BY <2>1, <2>6
    <3>4. QED
      BY <3>2, <3>3
  <2>7. QED
    BY <2>2, <2>4, <2>5, <2>6
<1>7. QED
  BY <1>6 DEF out

\* The reader goes on as one of greetings, or of HTTP.
GoesOn(x, phase) == [x EXCEPT !.phase = phase]

\* The fields then.
LEMMA GoesOnFields ==
    ASSUME NEW x, Fresh(x), NEW phase \in {"greeting", "http"}, x.phase = "classify"
    PROVE  /\ Fresh(GoesOn(x, phase)) /\ GoesOn(x, phase).phase = phase
           /\ GoesOn(x, phase).buf = x.buf /\ GoesOn(x, phase).got = x.got
<1>1. PICK P, B, G, H : x \in [phase : P, buf : B, got : G, handed : H]
  BY DEF Fresh, IsReader
<1> DEFINE y == GoesOn(x, phase)
           P1 == P \cup {phase}
<1>2. /\ y \in [phase : P1, buf : B, got : G, handed : H]
      /\ y.phase = phase /\ y.buf = x.buf /\ y.got = x.got /\ y.handed = x.handed
  BY <1>1, Zenon DEF GoesOn
<1> HIDE DEF y, P1
<1>3. IsReader(y)
  BY <1>2, Zenon DEF IsReader
<1>4. phase \in Phases /\ Room[phase] = Room["classify"]
  BY Rooms DEF Phases
<1>5. Fresh(y)
  BY <1>2, <1>3, <1>4 DEF Fresh
<1>6. QED
  BY <1>2, <1>5, Zenon DEF y

\* The first bytes of a local client.
LEMMA ClassifyRight ==
    ASSUME NEW x, Fresh(x), x.phase = "classify", Len(x.buf) \in 1 .. 3,
           Len(x.buf) > 1 => x.buf[1] = 22
    PROVE  Becomes(x, ClassifyInbound(x))
<1> DEFINE kind == Classify(x.buf, script.socks5, script.http)
           tls == x.buf[1] = 22 /\ Len(x.buf) < 3
           u == GoesOn(x, "greeting")
           w == GoesOn(x, "http")
           out == ClassifyInbound(x)
<1>1. out = IF tls THEN x
            ELSE CASE kind = "socks5" -> Greeting(u) [] kind = "http" -> Http(w)
                   [] OTHER -> Refuse(x, "closed")
  BY DEF ClassifyInbound, GoesOn
<1>2. kind = "socks5" => x.buf[1] = 5
  BY DEF Classify, Version
<1>3. ASSUME tls PROVE Becomes(x, x)
  BY <1>3, StaysRight
<1>4. ASSUME kind = "socks5" PROVE Becomes(x, Greeting(u))
  <2>1. Fresh(u) /\ u.phase = "greeting" /\ u.buf = x.buf /\ u.got = x.got
    BY GoesOnFields
  <2>2. Len(x.buf) = 1
    <3> DEFINE m == Len(x.buf)
    <3>1. m \in 1 .. 3 /\ (m > 1 => x.buf[1] = 22) /\ x.buf[1] = 5
      BY <1>2, <1>4
    <3> HIDE DEF m
    <3>2. m = 1
      BY <3>1
    <3>3. QED
      BY <3>2 DEF m
  <2> HIDE DEF u
  <2>3. GreetingLen(u.buf).rc # "ok"
    BY <2>1, <2>2 DEF GreetingLen, More
  <2>4. Becomes(u, Greeting(u))
    BY <2>1, <2>3, GreetingRight
  <2>5. QED
    BY <2>1, <2>4, Zenon DEF Becomes
<1>5. Becomes(x, Http(w))
  <2>1. Fresh(w) /\ w.phase = "http" /\ w.buf = x.buf /\ w.got = x.got
    BY GoesOnFields
  <2> HIDE DEF w
  <2>2. Becomes(w, Http(w))
    BY <2>1, HttpRight
  <2>3. QED
    BY <2>1, <2>2, Zenon DEF Becomes
<1>6. Becomes(x, Refuse(x, "closed"))
  BY RefuseRight DEF Ends
<1> HIDE DEF tls, kind, u, w, out
<1>7. Becomes(x, out)
  <2>1. \/ out = x /\ tls
        \/ out = Greeting(u) /\ kind = "socks5"
        \/ out = Http(w)
        \/ out = Refuse(x, "closed")
    BY <1>1
  <2>2. QED
    BY <1>3, <1>4, <1>5, <1>6, <2>1, Zenon
<1>8. QED
  BY <1>7 DEF out

-----------------------------------------------------------------------------
(* What a recv asks for. *)

\* A verdict that asks for more says how much there will be.
Asks(v) == v.rc = "more" => v.needed \in Nat

\* AddrLen says how much.
LEMMA AddrLenAsks ==
    ASSUME NEW b \in Bytes, NEW counted \in Nat, counted < Len(b)
    PROVE  Asks(AddrLen(b, counted))
<1> DEFINE v == AddrLen(b, counted)
           end == AddrEnd(b, counted)
<1>1. \/ v = Bad
      \/ v = More(counted + 2)
      \/ end \in Nat /\ end >= counted + 4 /\ v = Reach(b, end)
  BY AddrLenIs
<1>2. counted + 2 \in Nat
  OBVIOUS
<1> HIDE DEF v, end
<1>3. Asks(v)
  BY <1>1, <1>2 DEF Asks, Bad, More, Reach
<1>4. QED
  BY <1>3 DEF v

\* All the verdicts do.
LEMMA VerdictsAsk ==
    ASSUME NEW b \in Bytes
    PROVE  /\ Asks(GreetingLen(b)) /\ Asks(RequestLen(b))
           /\ Asks(ResponseLen(b)) /\ Asks(RequestNeeded(b))
<1>1. Len(b) \in Nat
  BY DEF Bytes
<1>2. Asks(GreetingLen(b))
  <2>1. Len(b) >= 2 => b[2] \in Nat
    <3>1. Len(b) >= 2 => b[2] \in Byte
      BY <1>1 DEF Bytes
    <3>2. QED
      BY <3>1, ByteRange
  <2>2. QED
    BY <1>1, <2>1 DEF GreetingLen, Asks, More, Bad, Reach
<1>3. Len(b) >= 4 => Asks(AddrLen(b, 3))
  BY <1>1, AddrLenAsks
<1>4. Asks(RequestLen(b)) /\ Asks(ResponseLen(b))
  <2>1. Asks(More(4)) /\ Asks(Bad)
    BY DEF Asks, More, Bad
  <2>2. CASE Len(b) < 4
    <3>1. ResponseLen(b) = More(4) /\ RequestLen(b) = More(4)
      BY <1>1, <2>2 DEF ResponseLen, RequestLen
    <3>2. QED
      BY <2>1, <3>1
  <2>3. CASE Len(b) >= 4
    <3>1. ResponseLen(b) = Bad \/ ResponseLen(b) = AddrLen(b, 3)
      BY <1>1, <2>3 DEF ResponseLen
    <3>2. RequestLen(b) = Bad \/ RequestLen(b) = AddrLen(b, 3)
      BY <1>1, <2>3 DEF RequestLen
    <3>3. QED
      BY <1>3, <2>1, <2>3, <3>1, <3>2, Zenon
  <2>4. QED
    BY <1>1, <2>2, <2>3
<1>5. Asks(RequestNeeded(b))
  <2> DEFINE v == RequestNeeded(b)
             end == AddrEnd(b, 1)
  <2>1. CASE Len(b) < 2
    BY <2>1 DEF RequestNeeded, More, Asks
  <2>2. CASE Len(b) >= 2
    <3>1. \/ v = Bad
          \/ v = More(3)
          \/ end \in Nat /\ end >= 5 /\ v = Reach(b, end + 2)
      BY <2>2, RequestNeededIs
    <3> HIDE DEF v, end
    <3>2. Asks(v)
      BY <3>1 DEF Asks, Bad, More, Reach
    <3>3. QED
      BY <3>2 DEF v
  <2>3. QED
    BY <1>1, <2>1, <2>2
<1>6. QED
  BY <1>2, <1>4, <1>5

\* What is missing is missing to what was asked for, and fits.
LEMMA MissingIs ==
    ASSUME NEW x, x.buf \in Bytes, NEW v, Asks(v), NEW room \in Nat
    PROVE  /\ Missing(x, v, room) \in Int
           /\ Missing(x, v, room) > 0 =>
                  /\ v.rc = "more" /\ Len(x.buf) + Missing(x, v, room) = v.needed
                  /\ v.needed <= room
<1> DEFINE had == Len(x.buf)
<1>1. had \in Nat
  BY DEF Bytes
<1>2. Missing(x, v, room) = IF v.rc = "more" /\ v.needed <= room THEN v.needed - had ELSE 0
  BY DEF Missing
<1> HIDE DEF had
<1>3. v.rc = "more" => v.needed \in Nat
  BY DEF Asks
<1>4. /\ Missing(x, v, room) \in Int
      /\ Missing(x, v, room) > 0 =>
             v.rc = "more" /\ had + Missing(x, v, room) = v.needed /\ v.needed <= room
  BY <1>1, <1>2, <1>3
<1>5. QED
  BY <1>4 DEF had

\* The verdict a reader waits for.
WaitsFor(x, v, room) == v.rc = "more" /\ Len(x.buf) + Wanted(x) = v.needed /\ v.needed <= room

\* A recv never asks for more than fits or than the message that is read may have.
LEMMA WantedRight ==
    ASSUME NEW x, ReaderRight(x)
    PROVE  /\ Wanted(x) \in Int
           /\ Wanted(x) > 0 =>
               /\ x.phase \in Phases
               /\ x.phase = "classify" => Len(x.buf) + Wanted(x) <= IF x.buf = <<>> THEN 1 ELSE 3
               /\ x.phase = "greeting" => WaitsFor(x, GreetingLen(x.buf), Socks5Room)
               /\ x.phase = "request" => WaitsFor(x, RequestLen(x.buf), Socks5Room)
               /\ x.phase = "response_read" => WaitsFor(x, ResponseLen(x.buf), Socks5Room)
               /\ x.phase = "command" => WaitsFor(x, RequestNeeded(x.buf), RequestRoom)
               /\ Len(x.buf) + Wanted(x) <= Room[x.phase]
<1> DEFINE had == Len(x.buf)
           want == Wanted(x)
           p == x.phase
<1>1. had \in Nat /\ x.buf \in Bytes
  BY DEF ReaderRight, Bytes
<1>2. x.buf = <<>> => had = 0
  BY NoBytes
<1>3. /\ Asks(GreetingLen(x.buf)) /\ Asks(RequestLen(x.buf))
      /\ Asks(ResponseLen(x.buf)) /\ Asks(RequestNeeded(x.buf))
  BY <1>1, VerdictsAsk
<1>4. /\ p = "classify" => want = IF x.buf = <<>> THEN 1 ELSE 3 - had
      /\ p = "greeting" => want = Missing(x, GreetingLen(x.buf), Socks5Room)
      /\ p = "request" => want = Missing(x, RequestLen(x.buf), Socks5Room)
      /\ p = "http" => want = Socks5Room - had
      /\ p = "prefix" => want = PrefixLen - had
      /\ p = "command" => want = Missing(x, RequestNeeded(x.buf), RequestRoom)
      /\ p = "udp" => want = UdpRoom - had
      /\ p = "method_read" \/ p = "auth_read" => want = 2 - had
      /\ p = "response_read" => want = Missing(x, ResponseLen(x.buf), Socks5Room)
      /\ p \notin Phases => want = 0
  BY DEF Wanted, GreetingWanted, UdpWanted, Phases
<1>5. CASE p \notin Phases
  BY <1>4, <1>5
<1>6. CASE p = "classify"
  <2> HIDE DEF had, want
  <2>1. want \in Int /\ had + want <= IF x.buf = <<>> THEN 1 ELSE 3
    BY <1>1, <1>2, <1>4, <1>6
  <2>2. had + want <= Room[p]
    BY <1>1, <1>6, <2>1, Rooms
  <2>3. QED
    BY <1>6, <2>1, <2>2 DEF Phases, had, want
<1>7. CASE p = "http" \/ p = "prefix" \/ p = "udp" \/ p = "method_read" \/ p = "auth_read"
  <2> HIDE DEF had, want
  <2>1. want \in Int /\ had + want <= Room[p]
    BY <1>1, <1>4, <1>7, Rooms
  <2>2. p \in Phases
    BY <1>7 DEF Phases
  <2>3. QED
    BY <1>7, <2>1, <2>2 DEF had, want
<1>8. CASE p = "greeting" \/ p = "request" \/ p = "response_read" \/ p = "command"
  <2> DEFINE v == CASE p = "greeting" -> GreetingLen(x.buf)
                    [] p = "request" -> RequestLen(x.buf)
                    [] p = "response_read" -> ResponseLen(x.buf)
                    [] OTHER -> RequestNeeded(x.buf)
             room == Room[p]
  <2>1. room \in Nat /\ p \in Phases
    BY <1>8, Rooms DEF Phases
  <2>2. /\ p = "command" => room = RequestRoom /\ v = RequestNeeded(x.buf)
        /\ p = "greeting" => room = Socks5Room /\ v = GreetingLen(x.buf)
        /\ p = "request" => room = Socks5Room /\ v = RequestLen(x.buf)
        /\ p = "response_read" => room = Socks5Room /\ v = ResponseLen(x.buf)
    BY <1>8, Rooms
  <2> HIDE DEF v, room
  <2>3. Asks(v) /\ want = Missing(x, v, room)
    BY <1>3, <1>4, <1>8, <2>2, Zenon
  <2>4. want \in Int /\ (want > 0 => WaitsFor(x, v, room))
    BY <1>1, <2>1, <2>3, MissingIs DEF WaitsFor
  <2>5. want > 0 => had + want <= room
    BY <2>4 DEF WaitsFor
  <2>6. QED
    BY <1>8, <2>1, <2>2, <2>4, <2>5 DEF room
<1>9. QED
  BY <1>5, <1>6, <1>7, <1>8 DEF Phases

-----------------------------------------------------------------------------
(* The bytes a recv brings. *)

Filled(x, c) == [x EXCEPT !.buf = @ \o c]

\* A reader that has just received, by its fields.
LEMMA FilledIs ==
    ASSUME NEW x, ReaderRight(x), x.phase \in Phases,
           NEW c \in Bytes, Len(x.buf) + Len(c) <= Room[x.phase]
    PROVE  /\ Fresh(Filled(x, c)) /\ Filled(x, c).phase = x.phase
           /\ Filled(x, c).buf = x.buf \o c /\ Filled(x, c).got = x.got
<1>1. PICK P, B, G, H : x \in [phase : P, buf : B, got : G, handed : H]
  BY DEF ReaderRight, IsReader
<1> DEFINE y == Filled(x, c)
           B1 == B \cup {x.buf \o c}
<1>2. /\ y \in [phase : P, buf : B1, got : G, handed : H]
      /\ y.phase = x.phase /\ y.buf = x.buf \o c /\ y.got = x.got /\ y.handed = x.handed
  BY <1>1, Zenon DEF Filled
<1> HIDE DEF y, B1
<1>3. IsReader(y)
  BY <1>2, Zenon DEF IsReader
<1>4. x.buf \o c \in Bytes /\ Len(x.buf \o c) = Len(x.buf) + Len(c)
  BY Joined DEF ReaderRight
<1>5. Len(y.buf) <= Room[y.phase]
  BY <1>2, <1>4
<1>6. Fresh(y)
  BY <1>2, <1>3, <1>4, <1>5 DEF Fresh, ReaderRight
<1>7. QED
  BY <1>2, <1>6, Zenon DEF y

\* With what was waited for there is a verdict, and nothing is left over.
LEMMA VerdictComes ==
    ASSUME NEW x, ReaderRight(x), NEW c \in Bytes, Len(c) <= Wanted(x), Wanted(x) \in Int,
           NEW v, NEW room, WaitsFor(x, v, room), NEW w, Grows(v, x.buf \o c, w)
    PROVE  w.rc = "ok" => w.needed = Len(x.buf \o c)
<1> DEFINE d == x.buf \o c
           had == Len(x.buf)
           more == Len(c)
           want == Wanted(x)
<1>1. Len(d) = had + more /\ had \in Nat /\ more \in Nat
  BY Joined DEF ReaderRight, Bytes
<1>2. v.rc = "more" /\ had + want = v.needed /\ more <= want /\ want \in Int
  BY DEF WaitsFor
<1> HIDE DEF had, more, want, d
<1>3. Len(d) <= v.needed
  BY <1>1, <1>2
<1>4. w.rc = "ok" => w.needed = Len(d)
  BY <1>2, <1>3 DEF Grows, d
<1>5. QED
  BY <1>4 DEF d

\* Whatever comes, the reader does right by it.
LEMMA FedRight ==
    ASSUME NEW x, ReaderRight(x), NEW c \in Bytes, Len(c) > 0, Len(c) <= Wanted(x)
    PROVE  Becomes(Filled(x, c), Fed(x, c))
<1> DEFINE y == Filled(x, c)
           d == x.buf \o c
           had == Len(x.buf)
           more == Len(c)
           want == Wanted(x)
<1>1. had \in Nat /\ more \in Nat /\ x.buf \in Bytes
  BY DEF ReaderRight, Bytes
<1>2. want \in Int /\ want > 0
  BY <1>1, WantedRight
<1>3. /\ x.phase \in Phases
      /\ x.phase = "classify" => had + want <= IF x.buf = <<>> THEN 1 ELSE 3
      /\ x.phase = "greeting" => WaitsFor(x, GreetingLen(x.buf), Socks5Room)
      /\ x.phase = "request" => WaitsFor(x, RequestLen(x.buf), Socks5Room)
      /\ x.phase = "response_read" => WaitsFor(x, ResponseLen(x.buf), Socks5Room)
      /\ x.phase = "command" => WaitsFor(x, RequestNeeded(x.buf), RequestRoom)
      /\ had + want <= Room[x.phase]
  BY <1>2, WantedRight
<1>4. had + more <= Room[x.phase]
  <2>1. Room[x.phase] \in Nat
    BY <1>3, Rooms
  <2> DEFINE room == Room[x.phase]
  <2> HIDE DEF room, had, more, want
  <2>2. had + want <= room /\ more <= want
    BY <1>3 DEF room, more, want
  <2>3. had + more <= room
    BY <1>1, <1>2, <2>1, <2>2 DEF room
  <2>4. QED
    BY <2>3 DEF room
<1>5. Fresh(y) /\ y.phase = x.phase /\ y.buf = d /\ y.got = x.got
  BY <1>3, <1>4, FilledIs
<1>6. d \in Bytes /\ Len(d) = had + more /\ had <= Len(d) /\ \A i \in 1 .. had : d[i] = x.buf[i]
  BY <1>1, Joined
<1>7. /\ Grows(GreetingLen(x.buf), d, GreetingLen(d)) /\ Grows(RequestLen(x.buf), d, RequestLen(d))
      /\ Grows(ResponseLen(x.buf), d, ResponseLen(d))
      /\ Grows(RequestNeeded(x.buf), d, RequestNeeded(d))
  BY <1>1, <1>6, GreetingGrows, RequestGrows, ResponseGrows, CommandGrows
<1>8. /\ x.phase = "classify" => Fed(x, c) = ClassifyInbound(y)
      /\ x.phase = "greeting" => Fed(x, c) = Greeting(y)
      /\ x.phase = "request" => Fed(x, c) = Request(y)
      /\ x.phase = "http" => Fed(x, c) = Http(y)
      /\ x.phase = "prefix" => Fed(x, c) = Prefix(y, Len(c))
      /\ x.phase = "command" => Fed(x, c) = Command(y)
      /\ x.phase = "udp" => Fed(x, c) = Udp(y)
      /\ x.phase = "method_read" => Fed(x, c) = Method(y)
      /\ x.phase = "auth_read" => Fed(x, c) = Auth(y)
      /\ x.phase = "response_read" => Fed(x, c) = Response(y)
  BY DEF Fed, Filled
<1>9. ASSUME x.phase = "classify" PROVE Becomes(y, Fed(x, c))
  <2>1. Len(d) \in 1 .. 3
    <3> HIDE DEF had, more, want, d
    <3>1. had + want <= 3 /\ more > 0 /\ more <= want
      BY <1>1, <1>2, <1>3, <1>9 DEF more, want
    <3>2. QED
      BY <1>1, <1>2, <1>6, <3>1
  <2>2. Len(d) > 1 => d[1] = 22
    <3>1. Len(d) > 1 => x.buf # <<>>
      <4>1. x.buf = <<>> => had = 0 /\ had + want <= 1
        BY <1>3, <1>9, NoBytes
      <4> HIDE DEF had, more, want, d
      <4>2. more <= want
        BY DEF more, want
      <4>3. QED
        BY <1>1, <1>2, <1>6, <4>1, <4>2
    <3>2. x.buf # <<>> => x.buf[1] = 22 /\ had > 0
      BY <1>1, <1>9 DEF ReaderRight, Bytes
    <3> HIDE DEF had, d
    <3>3. x.buf # <<>> => d[1] = x.buf[1]
      BY <1>1, <1>6, <3>2
    <3>4. QED
      BY <3>1, <3>2, <3>3
  <2> HIDE DEF y, d
  <2>3. QED
    BY <1>5, <1>8, <1>9, <2>1, <2>2, ClassifyRight
<1>10. ASSUME x.phase = "greeting" PROVE Becomes(y, Fed(x, c))
  <2>1. GreetingLen(d).rc = "ok" => GreetingLen(d).needed = Len(d)
    BY <1>2, <1>3, <1>7, <1>10, VerdictComes
  <2> HIDE DEF y, d
  <2>2. QED
    BY <1>5, <1>8, <1>10, <2>1, GreetingRight
<1>11. ASSUME x.phase = "request" PROVE Becomes(y, Fed(x, c))
  <2>1. RequestLen(d).rc = "ok" => RequestLen(d).needed = Len(d)
    BY <1>2, <1>3, <1>7, <1>11, VerdictComes
  <2> HIDE DEF y, d
  <2>2. QED
    BY <1>5, <1>8, <1>11, <2>1, RequestRight
<1>12. ASSUME x.phase = "response_read" PROVE Becomes(y, Fed(x, c))
  <2>1. ResponseLen(d).rc = "ok" => ResponseLen(d).needed = Len(d)
    BY <1>2, <1>3, <1>7, <1>12, VerdictComes
  <2> HIDE DEF y, d
  <2>2. QED
    BY <1>5, <1>8, <1>12, <2>1, ResponseRight
<1>13. ASSUME x.phase = "command" PROVE Becomes(y, Fed(x, c))
  <2>1. RequestNeeded(d).rc = "ok" => RequestNeeded(d).needed = Len(d)
    BY <1>2, <1>3, <1>7, <1>13, VerdictComes
  <2> HIDE DEF y, d
  <2>2. QED
    BY <1>5, <1>8, <1>13, <2>1, CommandRight
<1> HIDE DEF y, d
<1>14. ASSUME x.phase = "http" PROVE Becomes(y, Fed(x, c))
  BY <1>5, <1>8, <1>14, HttpRight
<1>15. ASSUME x.phase = "prefix" PROVE Becomes(y, Fed(x, c))
  BY <1>5, <1>8, <1>15, PrefixRight
<1>16. ASSUME x.phase = "udp" PROVE Becomes(y, Fed(x, c))
  BY <1>5, <1>8, <1>16, UdpRight
<1>17. ASSUME x.phase = "method_read" PROVE Becomes(y, Fed(x, c))
  BY <1>5, <1>8, <1>17, MethodRight
<1>18. ASSUME x.phase = "auth_read" PROVE Becomes(y, Fed(x, c))
  BY <1>5, <1>8, <1>18, AuthRight
<1>19. QED
  <2>1. \/ x.phase = "classify" \/ x.phase = "greeting" \/ x.phase = "request" \/ x.phase = "http"
        \/ x.phase = "prefix" \/ x.phase = "command" \/ x.phase = "udp"
        \/ x.phase = "method_read" \/ x.phase = "auth_read" \/ x.phase = "response_read"
    BY <1>3 DEF Phases
  <2>2. QED
    BY <1>9, <1>10, <1>11, <1>12, <1>13, <1>14, <1>15, <1>16, <1>17, <1>18, <2>1 DEF y

\* Min of three numbers.
LEMMA LeastOfThree ==
    ASSUME NEW a \in Int, NEW b \in Int, NEW c \in Int
    PROVE  /\ Min({a, b, c}) \in Int
           /\ Min({a, b, c}) <= a /\ Min({a, b, c}) <= b /\ Min({a, b, c}) <= c
<1> DEFINE S == {a, b, c}
<1>1. \E m \in S : \A n \in S : m <= n
  <2>1. CASE a <= b /\ a <= c
    BY <2>1
  <2>2. CASE b <= a /\ b <= c
    BY <2>2
  <2>3. CASE c <= a /\ c <= b
    BY <2>3
  <2>4. QED
    BY <2>1, <2>2, <2>3
<1>2. Min(S) = CHOOSE m \in S : \A n \in S : m <= n
  BY DEF Min
<1> DEFINE least == Min(S)
<1>3. a \in S /\ b \in S /\ c \in S /\ \A m \in S : m \in Int
  OBVIOUS
<1> HIDE DEF S, least
<1>4. least \in S /\ \A n \in S : least <= n
  BY <1>1, <1>2, Zenon DEF least
<1>5. least \in Int /\ least <= a /\ least <= b /\ least <= c
  BY <1>3, <1>4
<1>6. QED
  BY <1>5 DEF least, S

-----------------------------------------------------------------------------
(* The stream. *)

\* What the reader has is what was read of the stream, in its order.
FramingInv ==
    /\ script \in Scripts /\ taken \in 0 .. Len(script.stream)
    /\ ReaderRight(r)
    /\ Live(r) => AllHad(r) = SubSeq(script.stream, 1, taken)

\* A script is of bytes.
LEMMA StreamOf ==
    ASSUME script \in Scripts
    PROVE  script.stream \in Bytes /\ Len(script.stream) \in Nat
  BY FramingAssumption DEF Bytes

\* A reader has nothing at first.
LEMMA StartRight ==
    ASSUME NEW phase \in Phases
    PROVE  ReaderRight(Reader(phase)) /\ AllHad(Reader(phase)) = <<>>
<1> DEFINE x == Reader(phase)
           N == {<<>>}
           P == {phase}
<1>1. /\ x \in [phase : P, buf : N, got : N, handed : N]
      /\ x.phase = phase /\ x.buf = <<>> /\ x.got = <<>> /\ x.handed = <<>>
  BY Zenon DEF Reader
<1> HIDE DEF x, N, P
<1>2. IsReader(x)
  BY <1>1, Zenon DEF IsReader
<1>3. Room[phase] \in Nat
  BY Rooms
<1>4. ReaderRight(x)
  BY <1>1, <1>2, <1>3, NoBytes, NoneGot, PhasesApart DEF ReaderRight
<1>5. AllHad(x) = <<>>
  <2>1. AllHad(x) = <<>> \o <<>> \o <<>>
    BY <1>1, NoneGot, Zenon DEF AllHad
  <2>2. <<>> \o <<>> = <<>>
    BY NoBytes
  <2>3. QED
    BY <2>1, <2>2, Zenon
<1>6. QED
  BY <1>4, <1>5 DEF x

\* At first.
LEMMA InvHoldsFirst == Init => FramingInv
<1> SUFFICES ASSUME Init PROVE FramingInv
  OBVIOUS
<1>1. script \in Scripts /\ taken = 0 /\ r = Start(script)
  BY DEF Init
<1>2. script.stream \in Bytes /\ Len(script.stream) \in Nat
  BY <1>1, StreamOf
<1>3. \E p \in Phases : r = Reader(p)
  <2>1. script.mode = "trojan" \/ script.mode = "local" \/ script.mode = "server"
    BY <1>1, FramingAssumption
  <2>2. \/ r = Reader("prefix") \/ r = Reader("classify") \/ r = Reader("method_read")
    <3>1. CASE script.mode = "trojan"
      BY <1>1, <3>1 DEF Start
    <3>2. CASE script.mode = "local"
      BY <1>1, <3>2 DEF Start
    <3>3. CASE script.mode = "server"
      BY <1>1, <3>3 DEF Start
    <3>4. QED
      BY <2>1, <3>1, <3>2, <3>3
  <2>3. QED
    BY <2>2 DEF Phases
<1>4. ReaderRight(r) /\ AllHad(r) = <<>>
  BY <1>3, StartRight
<1>5. SubSeq(script.stream, 1, 0) = <<>>
  BY <1>2, SubSeqEmpty DEF Bytes
<1>6. QED
  BY <1>1, <1>2, <1>4, <1>5 DEF FramingInv

\* When the peer closes.
LEMMA ClosingKeepsInv ==
    ASSUME FramingInv, PeerCloses
    PROVE  FramingInv'
<1>1. r' = Refuse(r, "gone") /\ script' = script /\ taken' = taken
  BY DEF PeerCloses
<1>2. IsReader(r) /\ r.handed \in Bytes /\ GotRight(r.got)
  BY DEF FramingInv, ReaderRight
<1> DEFINE y == Refuse(r, "gone")
<1>3. /\ IsReader(y) /\ y.phase = "gone" /\ y.buf = <<>> /\ y.got = r.got /\ y.handed = r.handed
  BY <1>2, RefuseFields
<1> HIDE DEF y
<1>4. y.phase \in Ends /\ y.phase \notin Phases /\ y.phase # "classify"
  BY <1>3 DEF Ends, Phases
<1>5. ReaderRight(y)
  BY <1>2, <1>3, <1>4, NoBytes DEF ReaderRight
<1>6. ~Live(y)
  BY <1>3 DEF Live, Phases
<1>7. r' = y
  BY <1>1 DEF y
<1>8. QED
  BY <1>1, <1>5, <1>6, <1>7 DEF FramingInv, ReaderRight, Live, AllHad

\* When bytes come.
LEMMA ReceivingKeepsInv ==
    ASSUME FramingInv, NEW n \in Sizes, Recv(n)
    PROVE  FramingInv'
<1> DEFINE s == script.stream
           want == Wanted(r)
           left == Len(s) - taken
           m == Min({n, want, left})
           end == taken + m
           c == SubSeq(s, taken + 1, end)
           y == Filled(r, c)
<1>1. m > 0 /\ r' = Fed(r, c) /\ taken' = end /\ script' = script
  BY DEF Recv, Brings
<1>2. script \in Scripts /\ taken \in 0 .. Len(s) /\ ReaderRight(r)
  BY DEF FramingInv
<1>3. s \in Bytes /\ Len(s) \in Nat
  BY <1>2, StreamOf
<1>4. want \in Int /\ (want > 0 => r.phase \in Phases)
  BY <1>2, WantedRight
<1>5. m \in Int /\ m <= want /\ m <= left
  <2>1. n \in Int /\ left \in Int
    BY <1>2, <1>3, FramingAssumption
  <2> HIDE DEF want, left
  <2>2. QED
    BY <1>4, <2>1, LeastOfThree
<1>6. end \in taken .. Len(s) /\ end \in Nat /\ end - taken = m /\ taken \in Nat
  <2> DEFINE all == Len(s)
  <2>1. taken \in 0 .. all /\ all \in Nat /\ m \in Int /\ m > 0 /\ m <= all - taken
    BY <1>1, <1>2, <1>3, <1>5
  <2> HIDE DEF m, all
  <2>2. taken + m \in taken .. all /\ taken + m \in Nat /\ (taken + m) - taken = m /\ taken \in Nat
    BY <2>1
  <2>3. QED
    BY <2>2 DEF all
<1>7. c \in Bytes /\ Len(c) = m /\ SubSeq(s, 1, taken) \o c = SubSeq(s, 1, end)
  <2> HIDE DEF m, end
  <2>1. QED
    BY <1>2, <1>3, <1>6, Part
<1> HIDE DEF c, m, want
<1>8. r.phase \in Phases /\ Len(c) > 0 /\ Len(c) <= Wanted(r)
  BY <1>1, <1>4, <1>5, <1>7 DEF want
<1>9. Becomes(y, Fed(r, c))
  BY <1>2, <1>7, <1>8, FedRight
<1>10. y.buf = r.buf \o c /\ y.got = r.got
  <2>1. PICK P, B, G, H : r \in [phase : P, buf : B, got : G, handed : H]
    BY <1>2 DEF ReaderRight, IsReader
  <2>2. QED
    BY <2>1, Zenon DEF Filled
<1>11. AllOf(y.got) \o y.buf = SubSeq(s, 1, end)
  <2> DEFINE u == AllOf(r.got)
             w == r.buf
             front == SubSeq(s, 1, taken)
  <2>1. u \in Seq(Byte) /\ w \in Seq(Byte) /\ c \in Seq(Byte)
    <3>1. u \in Bytes
      BY <1>2, WiresOf DEF ReaderRight
    <3>2. QED
      BY <1>2, <1>7, <3>1 DEF ReaderRight, Bytes
  <2>2. u \o w \o r.handed = front
    <3>1. Live(r)
      BY <1>8 DEF Live
    <3>2. QED
      BY <3>1, Zenon DEF FramingInv, AllHad
  <2>3. r.handed = <<>>
    BY <1>2, <1>8 DEF ReaderRight
  <2> HIDE DEF u, w, front
  <2>4. u \o w = front
    <3>1. u \o w \in Bytes
      BY <2>1, Joined DEF Bytes
    <3> DEFINE all == u \o w
    <3>2. all \o <<>> = front
      BY <2>2, <2>3
    <3> HIDE DEF all
    <3>3. all \o <<>> = all
      BY <3>1, NoBytes DEF all
    <3>4. QED
      BY <3>2, <3>3 DEF all
  <2>5. (u \o w) \o c = u \o (w \o c)
    BY <2>1, ConcatAssociative
  <2>6. u \o (w \o c) = SubSeq(s, 1, end)
    BY <1>7, <2>4, <2>5, Zenon DEF front
  <2>7. QED
    BY <1>10, <2>6, Zenon DEF u, w
<1> HIDE DEF y
<1> DEFINE z == Fed(r, c)
<1>12. ReaderRight(z) /\ (Live(z) => AllHad(z) = SubSeq(s, 1, end))
  BY <1>9, <1>11, Zenon DEF Becomes
<1> HIDE DEF z
<1>13. r' = z
  BY <1>1 DEF z
<1>14. ReaderRight(r') /\ (Live(r') => AllHad(r') = SubSeq(script'.stream, 1, taken'))
  BY <1>1, <1>12, <1>13
<1>15. taken' \in 0 .. Len(script'.stream)
  <2> DEFINE all == Len(s)
  <2> HIDE DEF all, end
  <2>1. end \in 0 .. all
    BY <1>3, <1>6 DEF all
  <2>2. QED
    BY <1>1, <2>1 DEF all
<1>16. QED
  <2>1. ReaderRight(r)' /\ (Live(r)' => AllHad(r)' = SubSeq(script.stream, 1, taken)')
    BY <1>14 DEF ReaderRight, Live, AllHad
  <2>2. QED
    BY <1>1, <1>2, <1>15, <2>1 DEF FramingInv

\* Every step keeps it.
LEMMA InvKept == FramingInv /\ [Next]_framingVars => FramingInv'
<1> SUFFICES ASSUME FramingInv, [Next]_framingVars PROVE FramingInv'
  OBVIOUS
<1>1. CASE PeerCloses
  BY <1>1, ClosingKeepsInv
<1>2. ASSUME NEW n \in Sizes, Recv(n) PROVE FramingInv'
  BY <1>2, ReceivingKeepsInv
<1>3. CASE UNCHANGED framingVars
  BY <1>3 DEF framingVars, FramingInv, ReaderRight, Live, AllHad
<1>4. QED
  BY <1>1, <1>2, <1>3 DEF Next

\* The invariant holds.
LEMMA InvHolds == Spec => []FramingInv
  BY InvHoldsFirst, InvKept, PTL DEF Spec

\* The reader stays well formed, and none of the buffers the connection uses again
\* is read beyond its end, whatever a peer sends and however its bytes come.
THEOREM FramingTypeCorrect == Spec => []TypeOK
<1>1. FramingInv => TypeOK
  BY DEF FramingInv, ReaderRight, TypeOK
<1>2. QED
  BY <1>1, InvHolds, PTL

\* From the first byte to the relay or the fallback nothing of the stream is lost,
\* read twice or taken from what comes behind, and each message means what would be
\* written with the bytes it was read from; this for every stream, every cut of it,
\* all key lengths and buffer sizes.
THEOREM ReadBack == Spec => []ReadsBackAsWritten
<1>1. ASSUME FramingInv PROVE ReadsBackAsWritten
  <2> DEFINE Again(item) == ParseUdpPacket(BuildUdpPacket(item.addr, item.payload))
  <2>1. Reading \/ r.phase \in {"served", "fallback"} =>
            FlattenSeq([i \in DOMAIN r.got |-> r.got[i].wire]) \o r.buf \o r.handed
                = SubSeq(script.stream, 1, taken)
    BY <1>1 DEF FramingInv, Live, Reading, AllHad, AllOf, Wires
  <2>2. ASSUME NEW i \in DOMAIN r.got
        PROVE  /\ r.got[i].wire = Written(r.got[i])
               /\ r.got[i].kind = "frame" =>
                      /\ Again(r.got[i]).addr = r.got[i].addr
                      /\ Again(r.got[i]).payload = r.got[i].payload
    <3>1. ItemRight(r.got[i])
      BY <1>1, WiresOf DEF FramingInv, ReaderRight
    <3>2. QED
      BY <3>1 DEF ItemRight
  <2>3. QED
    BY <2>1, <2>2, Zenon DEF ReadsBackAsWritten
<1>2. QED
  BY <1>1, InvHolds, PTL

-----------------------------------------------------------------------------
(* A verdict that asks for more stays until that is there. *)

\* The one sequence goes on where the other ends.
Longer(b, d) == Len(b) <= Len(d) /\ \A i \in 1 .. Len(b) : d[i] = b[i]

\* Until all that was asked for has come the verdict is the same.
Steady(was, d, is) == was.rc = "more" /\ Len(d) < was.needed => is = was

\* AddrLen is steady.
LEMMA AddrLenSteady ==
    ASSUME NEW b \in Bytes, NEW d \in Bytes, NEW counted \in Nat, counted < Len(b), Longer(b, d)
    PROVE  Steady(AddrLen(b, counted), d, AddrLen(d, counted))
<1>1. Len(b) \in Nat /\ Len(d) \in Nat /\ counted < Len(d) /\ d[counted + 1] = b[counted + 1]
      /\ Len(b) <= Len(d)
  BY DEF Bytes, Longer
<1> DEFINE old == AddrLen(b, counted)
           new == AddrLen(d, counted)
           end == AddrEnd(d, counted)
<1>2. \/ new = Bad /\ d[counted + 1] \notin {Ipv4, Ipv6, Domain}
      \/ new = More(counted + 2) /\ NameAhead(d, counted)
      \/ /\ ~NameAhead(d, counted) /\ d[counted + 1] \in {Ipv4, Ipv6, Domain}
         /\ new = Reach(d, end) /\ end \in Nat
  BY <1>1, AddrLenIs
<1>3. \/ old = Bad
      \/ old = More(counted + 2) /\ NameAhead(b, counted)
      \/ /\ b[counted + 1] \in {Ipv4, Ipv6, Domain} /\ ~NameAhead(b, counted)
         /\ old = Reach(b, AddrEnd(b, counted))
  BY AddrLenIs
<1>4. CASE old = Bad
  BY <1>4 DEF Steady, Bad
<1>5. CASE old = More(counted + 2) /\ NameAhead(b, counted)
  <2>1. old.needed = counted + 2 /\ b[counted + 1] = Domain
    BY <1>5 DEF More, NameAhead
  <2>2. Len(d) < counted + 2 => NameAhead(d, counted)
    BY <1>1, <2>1 DEF NameAhead
  <2>3. Domain \in {Ipv4, Ipv6, Domain}
    OBVIOUS
  <2> HIDE DEF old, new, end
  <2>4. Len(d) < counted + 2 => new = old
    BY <1>1, <1>2, <1>5, <2>1, <2>2, <2>3
  <2>5. QED
    BY <2>1, <2>4 DEF Steady, old, new
<1>6. CASE /\ b[counted + 1] \in {Ipv4, Ipv6, Domain} /\ ~NameAhead(b, counted)
           /\ old = Reach(b, AddrEnd(b, counted))
  <2>1. end = AddrEnd(b, counted) /\ ~NameAhead(d, counted)
    BY <1>1, <1>6, SameEnd DEF Longer
  <2>2. new = Reach(d, end) /\ old = Reach(b, end) /\ end \in Nat
    BY <1>1, <1>2, <1>6, <2>1
  <2> HIDE DEF old, new, end
  <2>3. QED
    BY <1>1, <2>2 DEF Steady, Reach, old, new
<1>7. QED
  BY <1>3, <1>4, <1>5, <1>6

\* And so GreetingLen.
LEMMA GreetingSteady ==
    ASSUME NEW b \in Bytes, NEW d \in Bytes, Longer(b, d)
    PROVE  Steady(GreetingLen(b), d, GreetingLen(d))
<1>1. Len(b) \in Nat /\ Len(d) \in Nat /\ Len(b) <= Len(d)
  BY DEF Bytes, Longer
<1>2. Len(b) >= 2 => b[1] = d[1] /\ b[2] = d[2]
  BY <1>1 DEF Longer
<1>3. CASE Len(b) < 2
  BY <1>1, <1>3 DEF GreetingLen, Steady, More
<1>4. CASE Len(b) >= 2
  <2>1. b[2] \in Nat
    <3>1. b[2] \in Byte
      BY <1>1, <1>4 DEF Bytes
    <3>2. QED
      BY <3>1, ByteRange
  <2>2. QED
    BY <1>1, <1>2, <1>4, <2>1 DEF GreetingLen, Steady, Bad, Reach
<1>5. QED
  BY <1>1, <1>3, <1>4

\* And so ResponseLen and RequestLen.
LEMMA ResponseSteady ==
    ASSUME NEW b \in Bytes, NEW d \in Bytes, Longer(b, d)
    PROVE  /\ Steady(ResponseLen(b), d, ResponseLen(d))
           /\ Steady(RequestLen(b), d, RequestLen(d))
<1>1. Len(b) \in Nat /\ Len(d) \in Nat /\ Len(b) <= Len(d)
  BY DEF Bytes, Longer
<1>2. CASE Len(b) < 4
  BY <1>1, <1>2 DEF ResponseLen, RequestLen, Steady, More
<1>3. CASE Len(b) >= 4
  <2>1. b[1] = d[1] /\ b[2] = d[2] /\ b[3] = d[3]
    BY <1>1, <1>3 DEF Longer
  <2>2. Steady(AddrLen(b, 3), d, AddrLen(d, 3))
    BY <1>1, <1>3, AddrLenSteady
  <2>3. Steady(Bad, d, Bad)
    BY DEF Steady
  <2>4. \/ ResponseLen(b) = Bad /\ ResponseLen(d) = Bad
        \/ ResponseLen(b) = AddrLen(b, 3) /\ ResponseLen(d) = AddrLen(d, 3)
    BY <1>1, <1>3, <2>1 DEF ResponseLen
  <2>5. \/ RequestLen(b) = Bad /\ RequestLen(d) = Bad
        \/ RequestLen(b) = AddrLen(b, 3) /\ RequestLen(d) = AddrLen(d, 3)
    BY <1>1, <1>3, <2>1 DEF RequestLen
  <2>6. QED
    BY <2>2, <2>3, <2>4, <2>5, Zenon
<1>4. QED
  BY <1>1, <1>2, <1>3

\* And so RequestNeeded.
LEMMA CommandSteady ==
    ASSUME NEW b \in Bytes, NEW d \in Bytes, Longer(b, d)
    PROVE  Steady(RequestNeeded(b), d, RequestNeeded(d))
<1>1. Len(b) \in Nat /\ Len(d) \in Nat /\ Len(b) <= Len(d)
  BY DEF Bytes, Longer
<1> DEFINE new == RequestNeeded(d)
           old == RequestNeeded(b)
           end == AddrEnd(d, 1)
<1>2. CASE Len(b) < 2
  BY <1>1, <1>2 DEF RequestNeeded, Steady, More
<1>3. CASE Len(b) >= 2
  <2>1. b[1] = d[1] /\ b[2] = d[2] /\ Len(d) >= 2
    BY <1>1, <1>3 DEF Longer
  <2>2. \/ old = Bad
        \/ old = More(3) /\ NameAhead(b, 1)
        \/ /\ b[2] \in {Ipv4, Ipv6, Domain} /\ ~NameAhead(b, 1)
           /\ old = Reach(b, AddrEnd(b, 1) + 2)
    BY <1>3, RequestNeededIs
  <2>3. CASE old = Bad
    BY <2>3 DEF Steady, Bad
  <2>4. CASE old = More(3) /\ NameAhead(b, 1)
    <3>1. old.needed = 3 /\ Len(b) = 2
      BY <2>4 DEF More, NameAhead
    <3>2. Len(d) < 3 => Len(d) = Len(b)
      BY <1>1, <3>1
    <3>3. Len(d) < 3 => d = b
      BY <3>2, SeqEqual DEF Longer, Bytes
    <3>4. Len(d) < 3 => new = old
      BY <3>3
    <3> HIDE DEF old, new
    <3>5. QED
      BY <3>1, <3>4 DEF Steady, old, new
  <2>5. CASE /\ b[2] \in {Ipv4, Ipv6, Domain} /\ ~NameAhead(b, 1)
             /\ old = Reach(b, AddrEnd(b, 1) + 2)
    <3>1. end = AddrEnd(b, 1) /\ ~NameAhead(d, 1)
      <4>1. b[1 + 1] \in {Ipv4, Ipv6, Domain} /\ 1 < Len(b) /\ 1 \in Nat
        BY <1>1, <1>3, <2>5
      <4>2. QED
        BY <1>1, <2>5, <4>1, SameEnd DEF Longer
    <3>2. \/ new = Bad
          \/ new = More(3) /\ NameAhead(d, 1)
          \/ new = Reach(d, end + 2) /\ end \in Nat
      BY <2>1, RequestNeededIs
    <3>3. CASE new = Bad
      <4>1. AddrLen(d, 1).rc # "bad"
        <5>1. AddrLen(d, 1) = Bad => d[1 + 1] \notin {Ipv4, Ipv6, Domain}
          <6>1. 1 \in Nat /\ 1 < Len(d)
            BY <1>1, <2>1
          <6>2. \/ AddrLen(d, 1) = Bad /\ d[1 + 1] \notin {Ipv4, Ipv6, Domain}
                \/ AddrLen(d, 1) = More(1 + 2)
                \/ AddrLen(d, 1) = Reach(d, AddrEnd(d, 1))
            BY <6>1, AddrLenIs
          <6>3. QED
            BY <6>2 DEF Bad, More, Reach
        <5>2. AddrLen(d, 1) # Bad
          BY <2>1, <2>5, <5>1
        <5>3. AddrLen(d, 1) = Bad \/ AddrLen(d, 1) = More(1 + 2)
              \/ AddrLen(d, 1) = Reach(d, AddrEnd(d, 1))
          BY <1>1, <2>1, AddrLenIs
        <5>4. QED
          BY <5>2, <5>3 DEF More, Reach
      <4>2. d[1] \notin {Connect, Associate}
        <5>1. new.rc = "bad"
          BY <3>3 DEF Bad
        <5>2. d[1] \in {Connect, Associate} =>
                  new = More(3) \/ new = Reach(d, AddrLen(d, 1).needed + 2)
          BY <1>1, <2>1, <4>1 DEF RequestNeeded
        <5>3. QED
          BY <5>1, <5>2 DEF More, Reach
      <4>3. old = Bad
        BY <1>1, <1>3, <2>1, <4>2 DEF RequestNeeded
      <4>4. QED
        BY <4>3 DEF Steady, Bad
    <3>4. CASE new = Reach(d, end + 2) /\ end \in Nat
      <4>1. old = Reach(b, end + 2)
        BY <2>5, <3>1
      <4> HIDE DEF old, new, end
      <4>2. QED
        BY <1>1, <3>4, <4>1 DEF Steady, Reach, old, new
    <3>5. QED
      BY <3>1, <3>2, <3>3, <3>4
  <2>6. QED
    BY <2>2, <2>3, <2>4, <2>5
<1>4. QED
  BY <1>1, <1>2, <1>3

-----------------------------------------------------------------------------
(* One byte more. *)

\* What was handed on gets longer.
HandsOn(x, bytes) == [x EXCEPT !.handed = @ \o bytes]

\* What becomes of a reader with the next byte, whether it asks for it or not.
ByByte(x, h) ==
    IF Wanted(x) > 0 THEN Fed(x, <<h>>)
    ELSE IF x.phase \in {"served", "fallback"} THEN HandsOn(x, <<h>>)
    ELSE x

\* Readers are told apart by their fields.
LEMMA SameReader ==
    ASSUME NEW x, IsReader(x), NEW y, IsReader(y),
           x.phase = y.phase, x.buf = y.buf, x.got = y.got, x.handed = y.handed
    PROVE  x = y
<1>1. PICK P, B, G, H : x \in [phase : P, buf : B, got : G, handed : H]
  BY DEF IsReader
<1>2. PICK Q, C, I, K : y \in [phase : Q, buf : C, got : I, handed : K]
  BY DEF IsReader
<1>3. x = [phase |-> x.phase, buf |-> x.buf, got |-> x.got, handed |-> x.handed]
  BY <1>1
<1>4. y = [phase |-> y.phase, buf |-> y.buf, got |-> y.got, handed |-> y.handed]
  BY <1>2
<1>5. QED
  BY <1>3, <1>4

\* The fields of a reader that has just received.
LEMMA FilledFields ==
    ASSUME NEW x, IsReader(x), NEW c
    PROVE  /\ IsReader(Filled(x, c)) /\ Filled(x, c).phase = x.phase
           /\ Filled(x, c).buf = x.buf \o c /\ Filled(x, c).got = x.got
           /\ Filled(x, c).handed = x.handed
<1>1. PICK P, B, G, H : x \in [phase : P, buf : B, got : G, handed : H]
  BY DEF IsReader
<1> DEFINE y == Filled(x, c)
           B1 == B \cup {x.buf \o c}
<1>2. /\ y \in [phase : P, buf : B1, got : G, handed : H]
      /\ y.phase = x.phase /\ y.buf = x.buf \o c /\ y.got = x.got /\ y.handed = x.handed
  BY <1>1, Zenon DEF Filled
<1> HIDE DEF y, B1
<1>3. IsReader(y)
  BY <1>2, Zenon DEF IsReader
<1>4. QED
  BY <1>2, <1>3 DEF y

\* Received in two pieces or in one.
LEMMA FilledTwice ==
    ASSUME NEW x, IsReader(x), x.buf \in Bytes, NEW c \in Bytes, NEW d \in Bytes
    PROVE  Filled(Filled(x, c), d) = Filled(x, c \o d)
<1> DEFINE y == Filled(x, c)
           z == Filled(y, d)
           w == Filled(x, c \o d)
<1>1. /\ IsReader(y) /\ y.phase = x.phase /\ y.buf = x.buf \o c /\ y.got = x.got
      /\ y.handed = x.handed
  BY FilledFields
<1>2. /\ IsReader(w) /\ w.phase = x.phase /\ w.buf = x.buf \o (c \o d) /\ w.got = x.got
      /\ w.handed = x.handed
  BY FilledFields
<1> HIDE DEF y
<1>3. /\ IsReader(z) /\ z.phase = y.phase /\ z.buf = y.buf \o d /\ z.got = y.got
      /\ z.handed = y.handed
  BY <1>1, FilledFields
<1>4. (x.buf \o c) \o d = x.buf \o (c \o d)
  <2> DEFINE b == x.buf
  <2>1. b \in Seq(Byte) /\ c \in Seq(Byte) /\ d \in Seq(Byte)
    BY DEF Bytes
  <2> HIDE DEF b
  <2>2. (b \o c) \o d = b \o (c \o d)
    BY <2>1, ConcatAssociative
  <2>3. QED
    BY <2>2 DEF b
<1> HIDE DEF z, w
<1>5. z = w
  BY <1>1, <1>2, <1>3, <1>4, SameReader, Zenon
<1>6. QED
  BY <1>5 DEF y, z, w

\* What is done with a full buffer, by the phase; the prefix is another matter.
Handle(phase, y) ==
    CASE phase = "classify" -> ClassifyInbound(y)
      [] phase = "greeting" -> Greeting(y)
      [] phase = "request" -> Request(y)
      [] phase = "http" -> Http(y)
      [] phase = "command" -> Command(y)
      [] phase = "udp" -> Udp(y)
      [] phase = "method_read" -> Method(y)
      [] phase = "auth_read" -> Auth(y)
      [] phase = "response_read" -> Response(y)

\* That is Fed.
LEMMA FedHandles ==
    ASSUME NEW x, x.phase \in Phases, x.phase # "prefix", NEW c
    PROVE  Fed(x, c) = Handle(x.phase, Filled(x, c))
  BY DEF Fed, Handle, Filled, Phases

\* A reader that only kept the bytes does with the next one what it would have
\* done with all of them.
LEMMA KeptBytes ==
    ASSUME NEW x, ReaderRight(x), x.phase \in Phases, x.phase # "prefix",
           NEW c \in Bytes, NEW h \in Byte,
           Fed(x, c) = Filled(x, c), Wanted(Filled(x, c)) > 0
    PROVE  Fed(x, c \o <<h>>) = ByByte(Fed(x, c), h)
<1> DEFINE y == Filled(x, c)
<1>1. IsReader(y) /\ y.phase = x.phase
  BY FilledFields DEF ReaderRight
<1>2. <<h>> \in Bytes
  BY DEF Bytes
<1>3. Filled(y, <<h>>) = Filled(x, c \o <<h>>)
  BY <1>2, FilledTwice DEF ReaderRight
<1>4. Fed(x, c \o <<h>>) = Handle(x.phase, Filled(x, c \o <<h>>))
  BY FedHandles
<1>5. Fed(y, <<h>>) = Handle(y.phase, Filled(y, <<h>>))
  BY <1>1, FedHandles
<1>6. ByByte(y, h) = Fed(y, <<h>>)
  BY DEF ByByte
<1> HIDE DEF y
<1>7. Fed(x, c \o <<h>>) = ByByte(y, h)
  BY <1>1, <1>3, <1>4, <1>5, <1>6, Zenon
<1>8. QED
  BY <1>7 DEF y

\* What was in the buffer is still there.
LEMMA BufferLonger ==
    ASSUME NEW b \in Bytes, NEW c \in Bytes
    PROVE  b \o c \in Bytes /\ Len(b \o c) = Len(b) + Len(c) /\ Longer(b, b \o c)
<1>1. /\ b \o c \in Bytes /\ Len(b \o c) = Len(b) + Len(c)
      /\ \A i \in 1 .. Len(b) : (b \o c)[i] = b[i]
  BY Joined
<1>2. Len(b) \in Nat /\ Len(c) \in Nat
  BY DEF Bytes
<1>3. QED
  BY <1>1, <1>2 DEF Longer

\* Before all that a verdict asked for has come, the reader waits for the rest.
LEMMA VerdictKept ==
    ASSUME NEW x, ReaderRight(x), NEW c \in Bytes, Len(c) < Wanted(x), Wanted(x) \in Int,
           NEW v, NEW room \in Nat, WaitsFor(x, v, room), NEW w, Steady(v, x.buf \o c, w)
    PROVE  /\ w.rc = "more" /\ w.needed <= room
           /\ Missing(Filled(x, c), w, room) > 0
           /\ \A done : Judge(Filled(x, c), w, room, done) = Filled(x, c)
<1> DEFINE d == x.buf \o c
           had == Len(x.buf)
           more == Len(c)
           want == Wanted(x)
           y == Filled(x, c)
<1>1. Len(d) = had + more /\ had \in Nat /\ more \in Nat
  <2>1. x.buf \in Bytes /\ had \in Nat /\ more \in Nat
    BY DEF ReaderRight, Bytes
  <2>2. QED
    BY <2>1, BufferLonger
<1>2. v.rc = "more" /\ had + want = v.needed /\ more < want /\ want \in Int /\ v.needed <= room
  BY DEF WaitsFor
<1>3. y.buf = d
  BY FilledFields DEF ReaderRight
<1> HIDE DEF had, more, want, d, y
<1>4. v.needed \in Int /\ Len(d) < v.needed
  BY <1>1, <1>2
<1>5. w = v
  BY <1>2, <1>4 DEF Steady, d
<1>6. Missing(y, w, room) > 0
  BY <1>1, <1>2, <1>3, <1>4, <1>5 DEF Missing
<1>7. \A done : Judge(y, w, room, done) = y
  BY <1>2, <1>5 DEF Judge
<1>8. QED
  BY <1>2, <1>5, <1>6, <1>7 DEF y

\* A reader keeps what comes until there is enough of it.
Keeps(x, c) == Fed(x, c) = Filled(x, c) /\ Wanted(Filled(x, c)) > 0

\* The messages of SOCKS5 and the request of Trojan.
LEMMA KeptForVerdict ==
    ASSUME NEW x, ReaderRight(x), NEW c \in Bytes, 0 < Len(c), Len(c) < Wanted(x),
           x.phase \in {"greeting", "request", "response_read", "command"}
    PROVE  Keeps(x, c)
<1> DEFINE y == Filled(x, c)
           d == x.buf \o c
<1>1. x.buf \in Bytes /\ Len(c) \in Nat /\ x.phase \in Phases /\ x.phase # "prefix"
  BY DEF ReaderRight, Bytes, Phases
<1>2. Wanted(x) \in Int /\ Wanted(x) > 0
  BY <1>1, WantedRight
<1>3. d \in Bytes /\ Longer(x.buf, d)
  BY <1>1, BufferLonger
<1>4. y.buf = d /\ y.phase = x.phase
  BY FilledFields DEF ReaderRight
<1>5. Fed(x, c) = Handle(x.phase, y)
  BY <1>1, FedHandles
<1>6. Socks5Room \in Nat /\ RequestRoom \in Nat
  BY Rooms
<1>7. CASE x.phase = "greeting"
  <2>1. WaitsFor(x, GreetingLen(x.buf), Socks5Room)
    BY <1>2, <1>7, WantedRight
  <2>2. Steady(GreetingLen(x.buf), d, GreetingLen(d))
    BY <1>1, <1>3, GreetingSteady
  <2>3. /\ Missing(y, GreetingLen(d), Socks5Room) > 0
        /\ \A done : Judge(y, GreetingLen(d), Socks5Room, done) = y
    BY <1>2, <1>6, <2>1, <2>2, VerdictKept
  <2> HIDE DEF y, d
  <2>4. Greeting(y) = y
    BY <1>4, <2>3 DEF Greeting
  <2>5. Wanted(y) = Missing(y, GreetingLen(d), Socks5Room)
    BY <1>4, <1>7 DEF Wanted, GreetingWanted
  <2>6. Fed(x, c) = y
    BY <1>5, <1>7, <2>4 DEF Handle
  <2>7. QED
    BY <2>3, <2>5, <2>6 DEF Keeps, y
<1>8. CASE x.phase = "request"
  <2>1. WaitsFor(x, RequestLen(x.buf), Socks5Room)
    BY <1>2, <1>8, WantedRight
  <2>2. Steady(RequestLen(x.buf), d, RequestLen(d))
    BY <1>1, <1>3, ResponseSteady
  <2>3. /\ Missing(y, RequestLen(d), Socks5Room) > 0
        /\ \A done : Judge(y, RequestLen(d), Socks5Room, done) = y
    BY <1>2, <1>6, <2>1, <2>2, VerdictKept
  <2> HIDE DEF y, d
  <2>4. Request(y) = y
    BY <1>4, <2>3 DEF Request
  <2>5. Wanted(y) = Missing(y, RequestLen(d), Socks5Room)
    BY <1>4, <1>8 DEF Wanted
  <2>6. Fed(x, c) = y
    BY <1>5, <1>8, <2>4 DEF Handle
  <2>7. QED
    BY <2>3, <2>5, <2>6 DEF Keeps, y
<1>9. CASE x.phase = "response_read"
  <2>1. WaitsFor(x, ResponseLen(x.buf), Socks5Room)
    BY <1>2, <1>9, WantedRight
  <2>2. Steady(ResponseLen(x.buf), d, ResponseLen(d))
    BY <1>1, <1>3, ResponseSteady
  <2>3. /\ Missing(y, ResponseLen(d), Socks5Room) > 0
        /\ \A done : Judge(y, ResponseLen(d), Socks5Room, done) = y
    BY <1>2, <1>6, <2>1, <2>2, VerdictKept
  <2> HIDE DEF y, d
  <2>4. Response(y) = y
    BY <1>4, <2>3 DEF Response
  <2>5. Wanted(y) = Missing(y, ResponseLen(d), Socks5Room)
    BY <1>4, <1>9 DEF Wanted
  <2>6. Fed(x, c) = y
    BY <1>5, <1>9, <2>4 DEF Handle
  <2>7. QED
    BY <2>3, <2>5, <2>6 DEF Keeps, y
<1>10. CASE x.phase = "command"
  <2>1. WaitsFor(x, RequestNeeded(x.buf), RequestRoom)
    BY <1>2, <1>10, WantedRight
  <2>2. Steady(RequestNeeded(x.buf), d, RequestNeeded(d))
    BY <1>1, <1>3, CommandSteady
  <2>3. /\ Missing(y, RequestNeeded(d), RequestRoom) > 0
        /\ \A done : Judge(y, RequestNeeded(d), RequestRoom, done) = y
    BY <1>2, <1>6, <2>1, <2>2, VerdictKept
  <2> HIDE DEF y, d
  <2>4. Command(y) = y
    BY <1>4, <2>3 DEF Command
  <2>5. Wanted(y) = Missing(y, RequestNeeded(d), RequestRoom)
    BY <1>4, <1>10 DEF Wanted
  <2>6. Fed(x, c) = y
    BY <1>5, <1>10, <2>4 DEF Handle
  <2>7. QED
    BY <2>3, <2>5, <2>6 DEF Keeps, y
<1>11. QED
  BY <1>7, <1>8, <1>9, <1>10

\* Answers of two bytes, and the first bytes where they may be those of TLS.
LEMMA KeptForMore ==
    ASSUME NEW x, ReaderRight(x), NEW c \in Bytes, 0 < Len(c), Len(c) < Wanted(x),
           x.phase \in {"classify", "method_read", "auth_read"}
    PROVE  Keeps(x, c)
<1> DEFINE y == Filled(x, c)
           d == x.buf \o c
           had == Len(x.buf)
           more == Len(c)
           want == Wanted(x)
<1>1. /\ x.buf \in Bytes /\ had \in Nat /\ more \in Nat /\ x.phase \in Phases
      /\ x.phase # "prefix"
  BY DEF ReaderRight, Bytes, Phases
<1>2. d \in Bytes /\ Len(d) = had + more /\ Longer(x.buf, d)
  BY <1>1, BufferLonger
<1>3. y.buf = d /\ y.phase = x.phase
  BY FilledFields DEF ReaderRight
<1>4. Fed(x, c) = Handle(x.phase, y)
  BY <1>1, FedHandles
<1>5. 0 < more /\ more < want
  OBVIOUS
<1>6. CASE x.phase = "classify"
  <2>1. want = IF x.buf = <<>> THEN 1 ELSE 3 - had
    BY <1>6 DEF Wanted
  <2>2. x.buf # <<>> /\ want = 3 - had
    <3> HIDE DEF had, more, want
    <3>1. QED
      BY <1>1, <1>5, <2>1
  <2>3. x.buf[1] = 22 /\ had > 0
    BY <1>1, <1>6, <2>2 DEF ReaderRight, Bytes
  <2>4. d[1] = 22
    BY <1>1, <1>2, <2>3 DEF Longer
  <2>5. Len(d) < 3 /\ d # <<>>
    <3>1. Len(d) < 3 /\ Len(d) > 0
      <4> HIDE DEF had, more, want, d
      <4>1. QED
        BY <1>1, <1>2, <1>5, <2>2
    <3>2. QED
      BY <3>1, NoBytes
  <2> HIDE DEF y, d
  <2>6. ClassifyInbound(y) = y
    BY <1>3, <2>4, <2>5 DEF ClassifyInbound
  <2>7. Wanted(y) = 3 - Len(d)
    BY <1>3, <1>6, <2>5 DEF Wanted
  <2>8. Wanted(y) > 0
    BY <1>1, <1>2, <2>5, <2>7
  <2>9. Fed(x, c) = y
    BY <1>4, <1>6, <2>6 DEF Handle
  <2>10. QED
    BY <2>8, <2>9 DEF Keeps, y
<1>7. CASE x.phase = "method_read" \/ x.phase = "auth_read"
  <2>1. want = 2 - had
    BY <1>7 DEF Wanted
  <2>2. Len(d) < 2 /\ Len(d) # 2
    <3> HIDE DEF had, more, want, d
    <3>1. QED
      BY <1>1, <1>2, <1>5, <2>1
  <2> HIDE DEF y, d
  <2>3. Method(y) = y /\ Auth(y) = y
    BY <1>3, <2>2, Zenon DEF Method, Auth
  <2>4. Wanted(y) = 2 - Len(d)
    BY <1>3, <1>7 DEF Wanted
  <2>5. Wanted(y) > 0
    BY <1>1, <1>2, <2>2, <2>4
  <2>6. Fed(x, c) = y
    BY <1>4, <1>7, <2>3 DEF Handle
  <2>7. QED
    BY <2>5, <2>6 DEF Keeps, y
<1>8. QED
  BY <1>6, <1>7

\* The fields of a reader that hands on more.
LEMMA HandsOnFields ==
    ASSUME NEW x, IsReader(x), NEW c
    PROVE  /\ IsReader(HandsOn(x, c)) /\ HandsOn(x, c).phase = x.phase
           /\ HandsOn(x, c).buf = x.buf /\ HandsOn(x, c).got = x.got
           /\ HandsOn(x, c).handed = x.handed \o c
<1>1. PICK P, B, G, H : x \in [phase : P, buf : B, got : G, handed : H]
  BY DEF IsReader
<1> DEFINE y == HandsOn(x, c)
           H1 == H \cup {x.handed \o c}
<1>2. /\ y \in [phase : P, buf : B, got : G, handed : H1]
      /\ y.phase = x.phase /\ y.buf = x.buf /\ y.got = x.got /\ y.handed = x.handed \o c
  BY <1>1, Zenon DEF HandsOn
<1> HIDE DEF y, H1
<1>3. IsReader(y)
  BY <1>2, Zenon DEF IsReader
<1>4. QED
  BY <1>2, <1>3 DEF y

\* The fields of a reader whose peer is sent away.
LEMMA FallbackFields ==
    ASSUME NEW x, IsReader(x)
    PROVE  /\ IsReader(Fallback(x)) /\ Fallback(x).phase = "fallback" /\ Fallback(x).buf = <<>>
           /\ Fallback(x).got = x.got /\ Fallback(x).handed = x.buf
<1> DEFINE y == Fallback(x)
<1>1. PICK P, B, G, H : x \in [phase : P, buf : B, got : G, handed : H]
  BY DEF IsReader
<1> DEFINE P1 == P \cup {"fallback"}
           B1 == B \cup {<<>>}
           H1 == H \cup {x.buf}
<1>2. /\ y \in [phase : P1, buf : B1, got : G, handed : H1]
      /\ y.phase = "fallback" /\ y.buf = <<>> /\ y.got = x.got /\ y.handed = x.buf
  BY <1>1, Zenon DEF Fallback
<1> HIDE DEF y, P1, B1, H1
<1>3. IsReader(y)
  BY <1>2, Zenon DEF IsReader
<1>4. QED
  BY <1>2, <1>3 DEF y

\* What is sent away takes the next byte along.
LEMMA FallbackTakesMore ==
    ASSUME NEW y, IsReader(y), NEW z, IsReader(z), NEW h,
           z.got = y.got, z.buf = y.buf \o <<h>>
    PROVE  ByByte(Fallback(y), h) = Fallback(z)
<1> DEFINE u == Fallback(y)
           v == Fallback(z)
           w == HandsOn(u, <<h>>)
<1>1. /\ IsReader(u) /\ u.phase = "fallback" /\ u.buf = <<>> /\ u.got = y.got
      /\ u.handed = y.buf
  BY FallbackFields
<1>2. /\ IsReader(v) /\ v.phase = "fallback" /\ v.buf = <<>> /\ v.got = z.got
      /\ v.handed = z.buf
  BY FallbackFields
<1> HIDE DEF u, v
<1>3. /\ IsReader(w) /\ w.phase = u.phase /\ w.buf = u.buf /\ w.got = u.got
      /\ w.handed = u.handed \o <<h>>
  BY <1>1, HandsOnFields
<1>4. ByByte(u, h) = w
  <2>1. Wanted(u) = 0
    BY <1>1 DEF Wanted
  <2>2. QED
    BY <1>1, <2>1 DEF ByByte
<1> HIDE DEF w
<1>5. w = v
  BY <1>1, <1>2, <1>3, SameReader, Zenon
<1>6. QED
  BY <1>4, <1>5 DEF u, v

\* The byte that is last.
LEMMA LastByte ==
    ASSUME NEW d \in Bytes, NEW h \in Byte
    PROVE  /\ d \o <<h>> \in Bytes /\ Len(d \o <<h>>) = Len(d) + 1 /\ Len(d) \in Nat
           /\ \A i \in 1 .. Len(d) : (d \o <<h>>)[i] = d[i]
           /\ (d \o <<h>>)[Len(d) + 1] = h
<1>1. <<h>> \in Bytes /\ Len(<<h>>) = 1 /\ <<h>>[1] = h
  BY DEF Bytes
<1>2. Len(d) \in Nat
  BY DEF Bytes
<1> DEFINE e == <<h>>
           f == d \o e
<1>3. /\ f \in Bytes /\ Len(f) = Len(d) + Len(e) /\ \A i \in 1 .. Len(d) : f[i] = d[i]
  BY <1>1, Joined
<1>4. f[Len(d) + 1] = h
  BY <1>1, <1>2 DEF Bytes
<1>5. QED
  BY <1>1, <1>2, <1>3, <1>4

\* What the prefix leads to depends on the length of the piece only by the line feeds.
LEMMA PrefixLooks ==
    ASSUME NEW z, NEW m, NEW n, LineEnds(z, m) <=> LineEnds(z, n)
    PROVE  Prefix(z, m) = Prefix(z, n)
<1> DEFINE short == Len(z.buf) < PrefixLen
           item == Item(z, "prefix", PrefixLen, Failed.addr, 0)
           known == From(z.buf, KeyLen + 1) = <<CR, LF>> /\ SubSeq(z.buf, 1, KeyLen) \in Keys
           done == IF known THEN Accept(z, item, "command") ELSE Fallback(z)
           line == LineEnds(z, m)
           also == LineEnds(z, n)
<1>1. Prefix(z, m) = CASE line -> Fallback(z) [] ~line /\ short -> z [] OTHER -> done
  BY DEF Prefix, Fallback
<1>2. Prefix(z, n) = CASE also -> Fallback(z) [] ~also /\ short -> z [] OTHER -> done
  BY DEF Prefix, Fallback
<1>3. line <=> also
  OBVIOUS
<1>4. line \in BOOLEAN /\ also \in BOOLEAN
  BY DEF LineEnds
<1>5. line = also
  BY <1>3, <1>4
<1> HIDE DEF line, also, done, short
<1>6. QED
  BY <1>1, <1>2, <1>5, Zenon

\* A Trojan client's prefix.
LEMMA PrefixByByte ==
    ASSUME NEW x, ReaderRight(x), x.phase = "prefix",
           NEW c \in Bytes, NEW h \in Byte, 0 < Len(c), Len(c) < Wanted(x)
    PROVE  Fed(x, c \o <<h>>) = ByByte(Fed(x, c), h)
<1> DEFINE y == Filled(x, c)
           z == Filled(x, c \o <<h>>)
           d == x.buf \o c
           had == Len(x.buf)
           more == Len(c)
           want == Wanted(x)
<1>1. x.buf \in Bytes /\ had \in Nat /\ more \in Nat /\ IsReader(x)
  BY DEF ReaderRight, Bytes
<1>2. d \in Bytes /\ Len(d) = had + more
  BY <1>1, BufferLonger
<1>3. IsReader(y) /\ y.buf = d /\ y.phase = "prefix" /\ y.got = x.got
  BY <1>1, FilledFields
<1>4. IsReader(z) /\ z.buf = x.buf \o (c \o <<h>>) /\ z.phase = "prefix" /\ z.got = x.got
  BY <1>1, FilledFields
<1>5. z = Filled(y, <<h>>) /\ z.buf = d \o <<h>>
  <2>1. <<h>> \in Bytes
    BY DEF Bytes
  <2>2. z = Filled(y, <<h>>)
    BY <1>1, <2>1, FilledTwice
  <2> HIDE DEF y, z
  <2>3. Filled(y, <<h>>).buf = y.buf \o <<h>>
    BY <1>3, FilledFields
  <2>4. QED
    BY <1>3, <2>2, <2>3
<1>6. Fed(x, c) = Prefix(y, more)
  BY DEF Fed, Filled
<1>7. Len(c \o <<h>>) = more + 1
  BY LastByte
<1>8. Fed(x, c \o <<h>>) = Prefix(z, more + 1)
  <2>1. Fed(x, c \o <<h>>) = Prefix(z, Len(c \o <<h>>))
    BY DEF Fed, Filled
  <2>2. QED
    BY <1>7, <2>1
<1>9. /\ Len(d \o <<h>>) = Len(d) + 1 /\ Len(d) \in Nat
      /\ \A i \in 1 .. Len(d) : (d \o <<h>>)[i] = d[i]
  BY <1>2, LastByte
<1>10. Len(d) < PrefixLen /\ PrefixLen \in Nat
  <2>1. want = PrefixLen - had
    BY DEF Wanted
  <2>2. PrefixLen \in Nat
    BY Rooms
  <2> HIDE DEF had, want, d
  <2>3. more < want
    BY DEF want
  <2> HIDE DEF more
  <2>4. QED
    BY <1>1, <1>2, <2>1, <2>2, <2>3
<1> DEFINE e == d \o <<h>>
           n == Len(d)
<1>11. LineEnds(y, more) <=> \E i \in n - more + 1 .. n : d[i] = LF /\ i < KeyLen + 2
  BY <1>3 DEF LineEnds
<1>12. LineEnds(z, more + 1) <=> \E i \in n - more + 1 .. n + 1 : e[i] = LF /\ i < KeyLen + 2
  <2>1. Len(z.buf) = n + 1 /\ z.buf = e
    BY <1>5, <1>9
  <2> HIDE DEF n, e, z, more, d
  <2>2. n \in Nat /\ more \in Nat
    BY <1>1, <1>9 DEF n
  <2>3. (n + 1) - (more + 1) + 1 = n - more + 1
    BY <2>2
  <2>4. QED
    BY <2>1, <2>3 DEF LineEnds
<1>13. LineEnds(z, 1) <=> \E i \in n + 1 .. n + 1 : e[i] = LF /\ i < KeyLen + 2
  <2>1. Len(z.buf) = n + 1 /\ z.buf = e
    BY <1>5, <1>9
  <2> HIDE DEF n, e, z, more, d
  <2>2. n \in Nat
    BY <1>9 DEF n
  <2>3. (n + 1) - 1 + 1 = n + 1
    BY <2>2
  <2>4. QED
    BY <2>1, <2>3 DEF LineEnds
<1>14. n \in Nat /\ more <= n /\ \A i \in 1 .. n : e[i] = d[i]
  <2>1. had \in Nat /\ more \in Nat /\ n = had + more
    BY <1>1, <1>2
  <2> HIDE DEF had, more, n, e, d
  <2>2. n \in Nat /\ more <= n
    BY <2>1
  <2>3. QED
    BY <1>9, <2>2 DEF e, n
<1> HIDE DEF e, d, n, had, want
<1>15. CASE LineEnds(y, more)
  <2>1. LineEnds(z, more + 1)
    <3>1. PICK i \in n - more + 1 .. n : d[i] = LF /\ i < KeyLen + 2
      BY <1>11, <1>15
    <3> HIDE DEF more
    <3>2. i \in 1 .. n /\ i \in n - more + 1 .. n + 1
      BY <1>1, <1>14, <3>1
    <3>3. e[i] = LF
      BY <1>14, <3>1, <3>2
    <3>4. QED
      BY <1>12, <3>1, <3>2, <3>3
  <2>2. Prefix(y, more) = Fallback(y)
    BY <1>15 DEF Prefix, Fallback
  <2>3. Prefix(z, more + 1) = Fallback(z)
    BY <2>1 DEF Prefix, Fallback
  <2> HIDE DEF y, z, more
  <2>4. ByByte(Fallback(y), h) = Fallback(z)
    BY <1>3, <1>4, <1>5, FallbackTakesMore
  <2>5. QED
    BY <1>6, <1>8, <2>2, <2>3, <2>4, Zenon
<1>16. CASE ~LineEnds(y, more)
  <2>1. LineEnds(z, more + 1) <=> LineEnds(z, 1)
    <3> HIDE DEF more
    <3>1. ASSUME NEW i \in n - more + 1 .. n + 1, e[i] = LF, i < KeyLen + 2
          PROVE  i \in n + 1 .. n + 1
      <4>1. i \in 1 .. n => d[i] = LF /\ i \in n - more + 1 .. n
        BY <1>1, <1>14, <3>1
      <4>2. i \notin 1 .. n
        BY <1>11, <1>16, <3>1, <4>1
      <4>3. QED
        BY <1>1, <1>14, <4>2
    <3>2. \A i \in n + 1 .. n + 1 : i \in n - more + 1 .. n + 1
      BY <1>1, <1>14
    <3>3. QED
      BY <1>12, <1>13, <3>1, <3>2
  <2>2. Prefix(z, more + 1) = Prefix(z, 1)
    BY <2>1, PrefixLooks
  <2>3. Len(y.buf) < PrefixLen
    BY <1>3, <1>10
  <2>4. Prefix(y, more) = y
    BY <1>16, <2>3, Zenon DEF Prefix
  <2>5. Wanted(y) = PrefixLen - Len(y.buf)
    BY <1>3 DEF Wanted
  <2>6. Wanted(y) > 0
    BY <1>3, <1>9, <1>10, <2>5
  <2>7. Len(<<h>>) = 1
    OBVIOUS
  <2>8. Fed(y, <<h>>) = Prefix(Filled(y, <<h>>), Len(<<h>>))
    BY <1>3 DEF Fed, Filled
  <2> HIDE DEF y, z, more
  <2>9. ByByte(y, h) = Prefix(z, 1)
    BY <1>5, <2>6, <2>7, <2>8 DEF ByByte
  <2>10. QED
    BY <1>6, <1>8, <2>2, <2>4, <2>9, Zenon
<1>17. QED
  BY <1>15, <1>16

-----------------------------------------------------------------------------
(* The head of an HTTP request, with more behind it. *)

\* A piece of the one is a piece of the other.
LEMMA SamePiece ==
    ASSUME NEW b \in Bytes, NEW d \in Bytes, Longer(b, d),
           NEW i \in 0 .. Len(b), NEW j \in i .. Len(b)
    PROVE  SubSeq(d, i + 1, j) = SubSeq(b, i + 1, j)
<1> DEFINE m == Len(b)
           n == Len(d)
           u == SubSeq(b, i + 1, j)
           v == SubSeq(d, i + 1, j)
           l == j - i
<1>1. m \in Nat /\ n \in Nat /\ m <= n /\ \A k \in 1 .. m : d[k] = b[k]
  BY DEF Bytes, Longer
<1>2. u \in Bytes /\ Len(u) = l /\ \A x \in 1 .. l : u[x] = b[i + x]
  BY Part
<1>3. v \in Bytes /\ Len(v) = l /\ \A x \in 1 .. l : v[x] = d[i + x]
  <2>1. i \in 0 .. n /\ j \in i .. n
    <3>1. i \in 0 .. m /\ j \in i .. m
      OBVIOUS
    <3> HIDE DEF m, n
    <3>2. QED
      BY <1>1, <3>1
  <2>2. QED
    BY <2>1, Part
<1>4. i \in 0 .. m /\ j \in i .. m
  OBVIOUS
<1> HIDE DEF u, v, m, n
<1>5. \A x \in 1 .. l : u[x] = v[x]
  <2> SUFFICES ASSUME NEW x \in 1 .. l PROVE u[x] = v[x]
    OBVIOUS
  <2>1. i + x \in 1 .. m
    BY <1>1, <1>4
  <2>2. QED
    BY <1>1, <1>2, <1>3, <2>1
<1>6. u = v
  BY <1>2, <1>3, <1>5, SeqEqual DEF Bytes
<1>7. QED
  BY <1>6 DEF u, v

\* So is its beginning.
LEMMA SameFront ==
    ASSUME NEW b \in Bytes, NEW d \in Bytes, Longer(b, d), NEW j \in 0 .. Len(b)
    PROVE  SubSeq(d, 1, j) = SubSeq(b, 1, j)
<1>1. 0 \in 0 .. Len(b)
  BY DEF Bytes
<1>2. SubSeq(d, 0 + 1, j) = SubSeq(b, 0 + 1, j)
  BY <1>1, SamePiece
<1>3. QED
  BY <1>2

\* Where heads end.
HeadEnds(b) == {i \in 4 .. Len(b) : SubSeq(b, i - 3, i) = <<CR, LF, CR, LF>>}

\* The first of these places.
LEMMA HeaderEndIs ==
    ASSUME NEW b \in Bytes
    PROVE  /\ HeadEnds(b) = {} => HeaderEnd(b) = 0
           /\ HeadEnds(b) # {} => HeaderEnd(b) \in HeadEnds(b) /\ HeaderEnd(b) # 0
                                      /\ \A j \in HeadEnds(b) : HeaderEnd(b) <= j
<1> DEFINE ends == HeadEnds(b)
           first == CHOOSE i \in ends : \A j \in ends : i <= j
<1>1. HeaderEnd(b) = IF ends = {} THEN 0 ELSE first
  BY DEF HeaderEnd, HeadEnds
<1>2. ends \in SUBSET Nat /\ 0 \notin ends
  BY DEF HeadEnds, Bytes
<1> HIDE DEF ends
<1>3. ends # {} => \E i \in ends : \A j \in ends : i <= j
  BY <1>2, LeastNumber
<1>4. ends # {} => first \in ends /\ \A j \in ends : first <= j
  BY <1>3, Zenon
<1> HIDE DEF first
<1>5. QED
  BY <1>1, <1>2, <1>4 DEF ends

\* A head that has ended ends there whatever follows.
LEMMA HeaderEndStays ==
    ASSUME NEW b \in Bytes, NEW d \in Bytes, Longer(b, d), HeaderEnd(b) # 0
    PROVE  HeaderEnd(d) = HeaderEnd(b) /\ HeaderEnd(b) \in HeadEnds(b)
<1> DEFINE e == HeaderEnd(b)
           f == HeaderEnd(d)
<1>1. e \in HeadEnds(b) /\ \A j \in HeadEnds(b) : e <= j
  BY HeaderEndIs
<1>2. Len(b) \in Nat /\ Len(d) \in Nat /\ Len(b) <= Len(d)
  BY DEF Bytes, Longer
<1>3. \A i \in 4 .. Len(b) : i \in HeadEnds(b) <=> i \in HeadEnds(d)
  <2> SUFFICES ASSUME NEW i \in 4 .. Len(b) PROVE i \in HeadEnds(b) <=> i \in HeadEnds(d)
    OBVIOUS
  <2> DEFINE k == i - 4
  <2>1. k \in 0 .. Len(b) /\ i \in k .. Len(b) /\ k + 1 = i - 3 /\ i \in 4 .. Len(d)
    BY <1>2
  <2> HIDE DEF k
  <2>2. SubSeq(d, k + 1, i) = SubSeq(b, k + 1, i)
    BY <2>1, SamePiece
  <2>3. SubSeq(d, i - 3, i) = SubSeq(b, i - 3, i)
    BY <2>1, <2>2
  <2>4. QED
    BY <2>1, <2>3 DEF HeadEnds
<1>4. e \in 4 .. Len(b)
  BY <1>1 DEF HeadEnds
<1>5. e \in HeadEnds(d)
  BY <1>1, <1>3, <1>4
<1>6. f \in HeadEnds(d) /\ \A j \in HeadEnds(d) : f <= j
  BY <1>5, HeaderEndIs
<1>7. f \in 4 .. Len(d)
  BY <1>6 DEF HeadEnds
<1> HIDE DEF e, f
<1>8. f <= e
  BY <1>5, <1>6
<1>9. f \in 4 .. Len(b)
  BY <1>2, <1>4, <1>7, <1>8
<1>10. f \in HeadEnds(b)
  BY <1>3, <1>6, <1>9
<1>11. e <= f
  BY <1>1, <1>10
<1>12. f = e
  BY <1>4, <1>7, <1>8, <1>11
<1>13. QED
  BY <1>1, <1>12 DEF e, f

\* A line break at that place, and none before it.
BreakAt(b, i) == SubSeq(b, i, i + 1) = <<CR, LF>>

FirstBreak(b, i) == BreakAt(b, i) /\ \A j \in 1 .. i - 1 : ~BreakAt(b, j)

\* The first line lies before the end of the head, and what follows is not looked at.
LEMMA LineStays ==
    ASSUME NEW b \in Bytes, NEW d \in Bytes, Longer(b, d), NEW end \in HeadEnds(b)
    PROVE  /\ RequestLine(d, end) = RequestLine(b, end)
           /\ RequestLine(b, end) \in Bytes /\ Len(RequestLine(b, end)) < Len(b)
<1>0. Len(b) \in Nat /\ end \in 4 .. Len(b) /\ SubSeq(b, end - 3, end) = <<CR, LF, CR, LF>>
  BY DEF Bytes, HeadEnds
<1> DEFINE m == Len(b)
<1>1. m \in Nat /\ end \in 4 .. m
  BY <1>0
<1>2. \A i \in 1 .. end - 1 : BreakAt(d, i) <=> BreakAt(b, i)
  <2> SUFFICES ASSUME NEW i \in 1 .. end - 1 PROVE BreakAt(d, i) <=> BreakAt(b, i)
    OBVIOUS
  <2> DEFINE k == i - 1
  <2>1. k \in 0 .. m /\ i + 1 \in k .. m /\ k + 1 = i
    BY <1>0
  <2> HIDE DEF k
  <2>2. SubSeq(d, k + 1, i + 1) = SubSeq(b, k + 1, i + 1)
    BY <2>1, SamePiece
  <2>3. QED
    BY <2>1, <2>2 DEF BreakAt
<1>3. \A i \in 1 .. end - 1 : FirstBreak(d, i) <=> FirstBreak(b, i)
  <2> SUFFICES ASSUME NEW i \in 1 .. end - 1 PROVE FirstBreak(d, i) <=> FirstBreak(b, i)
    OBVIOUS
  <2>1. \A j \in 1 .. i - 1 : j \in 1 .. end - 1
    BY <1>0
  <2>2. QED
    BY <1>2, <2>1 DEF FirstBreak
<1> DEFINE cut == CHOOSE i \in 1 .. end - 1 : FirstBreak(b, i)
           also == CHOOSE i \in 1 .. end - 1 : FirstBreak(d, i)
<1>4. cut = also
  BY <1>3
<1>5. RequestLine(b, end) = SubSeq(b, 1, cut - 1) /\ RequestLine(d, end) = SubSeq(d, 1, also - 1)
  BY DEF RequestLine, FirstBreak, BreakAt
<1>6. \E i \in 1 .. end - 1 : FirstBreak(b, i)
  <2> DEFINE S == {i \in 1 .. end - 1 : BreakAt(b, i)}
  <2>1. BreakAt(b, end - 1)
    <3> DEFINE k == end - 4
               i == end - 1
               u == SubSeq(b, k + 1, end)
    <3>1. /\ k \in 0 .. m /\ end \in k .. m /\ k + 1 = end - 3 /\ end - k = 4
          /\ i \in 1 .. m - 1 /\ k + 3 = i /\ k + 4 = i + 1
      <4> HIDE DEF m
      <4>1. QED
        BY <1>1
    <3>2. u = <<CR, LF, CR, LF>>
      BY <1>0, <3>1
    <3> HIDE DEF k, i
    <3>3. \A x \in 1 .. end - k : u[x] = b[k + x]
      BY <3>1, Part
    <3> HIDE DEF u
    <3>4. u[3] = CR /\ u[4] = LF
      BY <3>2
    <3>5. b[i] = CR /\ b[i + 1] = LF
      BY <3>1, <3>3, <3>4
    <3>6. SubSeq(b, i, i + 1) = <<b[i], b[i + 1]>>
      BY <3>1, TwoBytes
    <3>7. QED
      BY <3>5, <3>6 DEF BreakAt, i
  <2>2. end - 1 \in 1 .. end - 1
    BY <1>0
  <2>3. S # {} /\ S \in SUBSET Nat
    BY <2>1, <2>2
  <2> HIDE DEF S
  <2>4. PICK i \in S : \A j \in S : i <= j
    BY <2>3, LeastNumber
  <2>5. i \in 1 .. end - 1 /\ BreakAt(b, i)
    BY <2>4 DEF S
  <2>6. \A j \in 1 .. i - 1 : ~BreakAt(b, j)
    <3> SUFFICES ASSUME NEW j \in 1 .. i - 1, BreakAt(b, j) PROVE FALSE
      OBVIOUS
    <3>1. j \in 1 .. end - 1 /\ j < i
      BY <1>0, <2>5
    <3>2. j \in S
      BY <3>1 DEF S
    <3>3. QED
      BY <2>4, <2>5, <3>1, <3>2
  <2>7. QED
    BY <2>5, <2>6 DEF FirstBreak
<1>7. cut \in 1 .. end - 1
  BY <1>6
<1> HIDE DEF cut, also
<1>8. cut - 1 \in 0 .. m /\ cut - 1 < m
  BY <1>0, <1>7
<1>9. SubSeq(d, 1, cut - 1) = SubSeq(b, 1, cut - 1)
  BY <1>8, SameFront
<1>10. SubSeq(b, 1, cut - 1) \in Bytes /\ Len(SubSeq(b, 1, cut - 1)) = cut - 1
  <2> DEFINE n == cut - 1
  <2>1. n \in 0 .. Len(b)
    BY <1>8
  <2> HIDE DEF n
  <2>2. SubSeq(b, 1, n) \in Bytes /\ Len(SubSeq(b, 1, n)) = n
    BY <2>1, Cut
  <2>3. QED
    BY <2>2 DEF n
<1>11. QED
  BY <1>4, <1>5, <1>8, <1>9, <1>10

\* No word is longer than the shortest line.
LEMMA WordsShort ==
    /\ MinLine \in Nat /\ ConnectWord \in Seq(Nat) /\ Len(ConnectWord) < MinLine
    /\ \A w \in OtherWords : w \in Seq(Nat) /\ Len(w) <= MinLine
<1>1. ConnectWord \in Seq(Nat) /\ VersionWord \in Seq(Nat)
      /\ \A w \in OtherWords : w \in Seq(Nat) /\ Len(w) <= MinLine
  BY WireAssumption
<1>2. Len(ConnectWord) \in Nat /\ Len(VersionWord) \in Nat
  BY <1>1
<1> DEFINE m == Len(ConnectWord)
           n == Len(VersionWord)
<1>3. MinLine = m + 1 + n + 1 /\ m \in Nat /\ n \in Nat
  BY <1>2 DEF MinLine
<1> HIDE DEF m, n
<1>4. MinLine \in Nat /\ m < MinLine
  BY <1>3
<1>5. QED
  BY <1>1, <1>4 DEF m

\* What begins with a word goes on to do so.
LEMMA WordStays ==
    ASSUME NEW b \in Bytes, NEW d \in Bytes, Longer(b, d), NEW w \in Seq(Nat), Len(w) < Len(b)
    PROVE  /\ IsPrefix(w, d) <=> IsPrefix(w, b)
           /\ ~IsPrefix(b, w) /\ ~IsPrefix(d, w)
<1> DEFINE n == Len(w)
<1>1. Len(b) \in Nat /\ Len(d) \in Nat /\ n \in Nat /\ Len(b) <= Len(d) /\ n < Len(b)
  BY DEF Bytes, Longer
<1>2. SubSeq(d, 1, n) = SubSeq(b, 1, n)
  <2>1. n \in 0 .. Len(b)
    BY <1>1
  <2> HIDE DEF n
  <2>2. QED
    BY <2>1, SameFront
<1> HIDE DEF n
<1>3. n <= Len(b) /\ n <= Len(d) /\ ~(Len(b) <= n) /\ ~(Len(d) <= n)
  BY <1>1
<1>4. QED
  BY <1>2, <1>3, Zenon DEF IsPrefix, n

\* And what looks like HTTP.
LEMMA LooksStay ==
    ASSUME NEW b \in Bytes, NEW d \in Bytes, Longer(b, d), MinLine < Len(b)
    PROVE  /\ LooksLikeHttp(d) <=> LooksLikeHttp(b)
           /\ IsPrefix(ConnectWord, d) <=> IsPrefix(ConnectWord, b)
<1>1. Len(b) \in Nat /\ Len(d) \in Nat /\ Len(b) <= Len(d) /\ MinLine \in Nat
  BY WordsShort DEF Bytes, Longer
<1>2. b # <<>> /\ d # <<>>
  BY <1>1, NoBytes
<1>3. ASSUME NEW w \in {ConnectWord} \cup OtherWords
      PROVE  /\ IsPrefix(w, d) <=> IsPrefix(w, b)
             /\ ~IsPrefix(b, w) /\ ~IsPrefix(d, w)
  <2>1. w \in Seq(Nat) /\ Len(w) <= MinLine /\ Len(w) \in Nat
    <3>1. w \in Seq(Nat) /\ (Len(w) <= MinLine \/ Len(w) < MinLine)
      BY WordsShort
    <3>2. Len(w) \in Nat
      BY <3>1
    <3> DEFINE n == Len(w)
    <3>3. n \in Nat /\ (n <= MinLine \/ n < MinLine)
      BY <3>1, <3>2
    <3> HIDE DEF n
    <3>4. n <= MinLine
      BY <1>1, <3>3
    <3>5. QED
      BY <3>1, <3>2, <3>4 DEF n
  <2>2. Len(w) < Len(b)
    BY <1>1, <2>1
  <2>3. QED
    BY <2>1, <2>2, WordStays
<1>4. \A w \in {ConnectWord} \cup OtherWords : HasPrefix(d, w) <=> HasPrefix(b, w)
  BY <1>3, Zenon DEF HasPrefix
<1>5. QED
  BY <1>2, <1>3, <1>4, Zenon DEF LooksLikeHttp

\* What is said of a head that is complete stays.
LEMMA HeadStays ==
    ASSUME NEW b \in Bytes, NEW d \in Bytes, Longer(b, d), ParseConnect(b).rc # "more"
    PROVE  ParseConnect(d) = ParseConnect(b)
<1>1. HeaderEnd(b) # 0
  BY DEF ParseConnect
<1> DEFINE end == HeaderEnd(b)
           line == RequestLine(b, end)
           answer == ConnectLine(line)
           short == Len(line) < MinLine
           No(rc) == [rc |-> rc, needed |-> end, addr |-> Failed.addr]
           yes == [rc |-> answer.rc, needed |-> end, addr |-> answer.addr]
<1>2. HeaderEnd(d) = end /\ end \in HeadEnds(b)
  BY <1>1, HeaderEndStays
<1>3. RequestLine(d, end) = line /\ line \in Bytes /\ Len(line) < Len(b)
  BY <1>2, LineStays
<1>4. ParseConnect(b) =
          IF short THEN No("bad")
          ELSE IF ~IsPrefix(ConnectWord, b)
          THEN No(IF LooksLikeHttp(b) THEN "notallowed" ELSE "bad")
          ELSE yes
  BY <1>1 DEF ParseConnect
<1>5. ParseConnect(d) =
          IF short THEN No("bad")
          ELSE IF ~IsPrefix(ConnectWord, d)
          THEN No(IF LooksLikeHttp(d) THEN "notallowed" ELSE "bad")
          ELSE yes
  BY <1>1, <1>2, <1>3 DEF ParseConnect
<1> HIDE DEF yes, line, end
<1>6. CASE short
  BY <1>4, <1>5, <1>6
<1>7. CASE ~short
  <2>1. Len(line) \in Nat /\ MinLine \in Nat /\ Len(b) \in Nat
    <3>1. line \in Seq(Byte)
      BY <1>3 DEF Bytes
    <3>2. QED
      BY <3>1, WordsShort DEF Bytes
  <2> DEFINE n == Len(line)
  <2>2. n \in Nat /\ ~(n < MinLine) /\ n < Len(b)
    BY <1>3, <1>7, <2>1
  <2> HIDE DEF n, short
  <2>3. MinLine < Len(b)
    BY <2>1, <2>2
  <2>4. /\ LooksLikeHttp(d) <=> LooksLikeHttp(b)
        /\ IsPrefix(ConnectWord, d) <=> IsPrefix(ConnectWord, b)
    BY <2>3, LooksStay
  <2>5. QED
    BY <1>4, <1>5, <1>7, <2>4
<1>8. QED
  BY <1>6, <1>7

\* The fields of a reader that goes on to the relay with what follows the head.
LEMMA HeadedFields ==
    ASSUME NEW x, IsReader(x), NEW item, NEW rest
    PROVE  /\ IsReader(Headed(x, item, rest)) /\ Headed(x, item, rest).phase = "served"
           /\ Headed(x, item, rest).buf = <<>> /\ Headed(x, item, rest).got = Append(x.got, item)
           /\ Headed(x, item, rest).handed = rest
<1> DEFINE z == Accept(x, item, "served")
           y == Headed(x, item, rest)
<1>1. IsReader(z) /\ z.phase = "served" /\ z.buf = <<>> /\ z.got = Append(x.got, item)
  BY AcceptFields
<1>2. y = [z EXCEPT !.handed = rest]
  BY DEF Headed
<1> HIDE DEF z, y
<1>3. PICK P, B, G, H : z \in [phase : P, buf : B, got : G, handed : H]
  BY <1>1 DEF IsReader
<1> DEFINE H1 == H \cup {rest}
<1>4. /\ y \in [phase : P, buf : B, got : G, handed : H1]
      /\ y.phase = z.phase /\ y.buf = z.buf /\ y.got = z.got /\ y.handed = rest
  BY <1>2, <1>3, Zenon
<1> HIDE DEF H1
<1>5. IsReader(y)
  BY <1>4, Zenon DEF IsReader
<1>6. QED
  BY <1>1, <1>4, <1>5, Zenon DEF y

\* The relay gets the next byte as well.
LEMMA HeadedTakesMore ==
    ASSUME NEW y, IsReader(y), NEW z, IsReader(z), NEW h, z.got = y.got, NEW item, NEW rest
    PROVE  ByByte(Headed(y, item, rest), h) = Headed(z, item, rest \o <<h>>)
<1> DEFINE u == Headed(y, item, rest)
           more == rest \o <<h>>
           v == Headed(z, item, more)
           w == HandsOn(u, <<h>>)
<1>1. /\ IsReader(u) /\ u.phase = "served" /\ u.buf = <<>> /\ u.got = Append(y.got, item)
      /\ u.handed = rest
  BY HeadedFields
<1>2. /\ IsReader(v) /\ v.phase = "served" /\ v.buf = <<>> /\ v.got = Append(z.got, item)
      /\ v.handed = more
  <2> HIDE DEF more
  <2>1. QED
    BY HeadedFields
<1> HIDE DEF u, v
<1>3. /\ IsReader(w) /\ w.phase = u.phase /\ w.buf = u.buf /\ w.got = u.got
      /\ w.handed = u.handed \o <<h>>
  BY <1>1, HandsOnFields
<1>4. ByByte(u, h) = w
  <2>1. Wanted(u) = 0
    BY <1>1 DEF Wanted
  <2>2. QED
    BY <1>1, <2>1 DEF ByByte
<1> HIDE DEF w
<1>5. w = v
  BY <1>1, <1>2, <1>3, SameReader, Zenon
<1>6. QED
  BY <1>4, <1>5 DEF u, v

\* Whom we refused, we refuse.
LEMMA RefusedStays ==
    ASSUME NEW y, IsReader(y), NEW z, IsReader(z), NEW h,
           z.got = y.got, z.handed = y.handed, NEW how \in Ends \ {"served", "fallback"}
    PROVE  ByByte(Refuse(y, how), h) = Refuse(z, how)
<1> DEFINE u == Refuse(y, how)
           v == Refuse(z, how)
<1>1. IsReader(u) /\ u.phase = how /\ u.buf = <<>> /\ u.got = y.got /\ u.handed = y.handed
  BY RefuseFields
<1>2. IsReader(v) /\ v.phase = how /\ v.buf = <<>> /\ v.got = z.got /\ v.handed = z.handed
  BY RefuseFields
<1> HIDE DEF u, v
<1>3. ByByte(u, h) = u
  <2>1. Wanted(u) = 0
    BY <1>1 DEF Wanted, Ends
  <2>2. QED
    BY <1>1, <2>1 DEF ByByte
<1>4. u = v
  BY <1>1, <1>2, SameReader, Zenon
<1>5. QED
  BY <1>3, <1>4 DEF u, v

\* The byte that comes behind.
LEMMA BehindLonger ==
    ASSUME NEW d \in Bytes, NEW h \in Byte, NEW n \in 0 .. Len(d)
    PROVE  /\ From(d \o <<h>>, n + 1) = From(d, n + 1) \o <<h>>
           /\ SubSeq(d \o <<h>>, 1, n) = SubSeq(d, 1, n)
<1> DEFINE e == d \o <<h>>
           u == SubSeq(d, 1, n)
           v == From(d, n + 1)
           w == v \o <<h>>
<1>1. <<h>> \in Bytes /\ Len(d) \in Nat
  BY DEF Bytes
<1>2. u \in Bytes /\ Len(u) = n /\ v \in Bytes /\ u \o v = d
  BY Cut
<1>3. w \in Bytes
  BY <1>1, <1>2, Joined
<1>4. u \o w = e
  <2>1. u \in Seq(Byte) /\ v \in Seq(Byte) /\ <<h>> \in Seq(Byte)
    BY <1>1, <1>2 DEF Bytes
  <2> DEFINE one == <<h>>
  <2> HIDE DEF u, v, one
  <2>2. (u \o v) \o one = u \o (v \o one)
    BY <2>1, ConcatAssociative DEF one
  <2>3. QED
    BY <1>2, <2>2 DEF one
<1> HIDE DEF w, u
<1>5. SubSeq(u \o w, 1, Len(u)) = u /\ From(u \o w, Len(u) + 1) = w
  BY <1>2, <1>3, Behind
<1>6. SubSeq(e, 1, n) = u /\ From(e, n + 1) = w
  BY <1>2, <1>4, <1>5
<1>7. QED
  BY <1>6 DEF w, u

\* A head and what follows it.
LEMMA HttpByByte ==
    ASSUME NEW x, ReaderRight(x), x.phase = "http",
           NEW c \in Bytes, NEW h \in Byte, 0 < Len(c), Len(c) < Wanted(x)
    PROVE  Fed(x, c \o <<h>>) = ByByte(Fed(x, c), h)
<1> DEFINE y == Filled(x, c)
           z == Filled(x, c \o <<h>>)
           d == x.buf \o c
           e == d \o <<h>>
           had == Len(x.buf)
           more == Len(c)
           want == Wanted(x)
<1>1. x.buf \in Bytes /\ had \in Nat /\ more \in Nat /\ IsReader(x) /\ x.phase \in Phases
  BY DEF ReaderRight, Bytes, Phases
<1>2. d \in Bytes /\ Len(d) = had + more
  BY <1>1, BufferLonger
<1>3. /\ IsReader(y) /\ y.buf = d /\ y.phase = "http" /\ y.got = x.got
      /\ y.handed = x.handed
  BY <1>1, FilledFields
<1>4. /\ IsReader(z) /\ z.buf = x.buf \o (c \o <<h>>) /\ z.got = x.got
      /\ z.handed = x.handed
  BY <1>1, FilledFields
<1>5. z.buf = e
  <2>1. <<h>> \in Seq(Byte) /\ c \in Seq(Byte) /\ x.buf \in Seq(Byte)
    BY <1>1 DEF Bytes
  <2> DEFINE one == <<h>>
             b == x.buf
  <2>2. one \in Seq(Byte) /\ b \in Seq(Byte)
    BY <2>1
  <2> HIDE DEF one, b
  <2>3. (b \o c) \o one = b \o (c \o one)
    BY <2>1, <2>2, ConcatAssociative
  <2>4. QED
    BY <1>4, <2>3 DEF one, b
<1>6. e \in Bytes /\ Longer(d, e)
  <2>1. <<h>> \in Bytes
    BY DEF Bytes
  <2> HIDE DEF d
  <2>2. QED
    BY <1>2, <2>1, BufferLonger
<1>7. Fed(x, c) = Http(y) /\ Fed(x, c \o <<h>>) = Http(z)
  BY <1>1, FedHandles DEF Handle
<1>8. Len(d) < Socks5Room /\ Socks5Room \in Nat /\ Len(d) \in Nat
  <2>1. want = Socks5Room - had
    BY DEF Wanted
  <2>2. Socks5Room \in Nat /\ more < want
    BY Rooms
  <2> HIDE DEF had, want, d, more
  <2>3. QED
    BY <1>1, <1>2, <2>1, <2>2
<1> DEFINE head == ParseConnect(d)
           n == head.needed
<1>9. head.rc \in {"more", "ok", "bad", "notallowed"} /\ (head.rc = "ok" => n \in 4 .. Len(d))
  BY <1>2, HeadIs
<1> HIDE DEF d, e, had, more, want
<1>10. CASE head.rc = "more"
  <2>1. ParseConnect(y.buf).rc = "more" /\ Len(y.buf) # Socks5Room
    BY <1>3, <1>8, <1>10
  <2>2. Http(y) = y
    BY <2>1 DEF Http
  <2>3. Wanted(y) = Socks5Room - Len(y.buf)
    BY <1>3 DEF Wanted
  <2>4. Wanted(y) > 0
    BY <1>3, <1>8, <2>3
  <2>5. x.phase # "prefix"
    OBVIOUS
  <2> HIDE DEF z
  <2>6. Fed(x, c) = Filled(x, c) /\ Wanted(Filled(x, c)) > 0
    BY <1>7, <2>2, <2>4
  <2>7. QED
    BY <1>1, <2>5, <2>6, KeptBytes
<1>11. ASSUME head.rc # "more" PROVE ParseConnect(e) = head
  BY <1>2, <1>6, <1>11, HeadStays
<1>12. CASE head.rc = "ok"
  <2> DEFINE item == Item(y, "http", n, head.addr, Connect)
             also == Item(z, "http", n, head.addr, Connect)
             rest == From(d, n + 1)
             on == From(e, n + 1)
  <2>1. ParseConnect(y.buf) = head /\ ParseConnect(z.buf) = head
    BY <1>3, <1>5, <1>11, <1>12
  <2>2. Http(y) = Headed(y, item, rest)
    <3> HIDE DEF y, head
    <3>1. QED
      BY <1>3, <1>12, <2>1 DEF Http, Headed
  <2>3. Http(z) = Headed(z, also, on)
    <3> HIDE DEF z, head
    <3>1. QED
      BY <1>5, <1>12, <2>1 DEF Http, Headed
  <2>4. n \in 0 .. Len(d)
    BY <1>8, <1>9, <1>12
  <2> HIDE DEF n
  <2>5. on = rest \o <<h>> /\ SubSeq(e, 1, n) = SubSeq(d, 1, n)
    BY <1>2, <2>4, BehindLonger DEF e
  <2>6. also = item
    BY <1>3, <1>5, <2>5, Zenon DEF Item
  <2> HIDE DEF y, z, item, also, rest, on
  <2>7. ByByte(Headed(y, item, rest), h) = Headed(z, item, rest \o <<h>>)
    BY <1>3, <1>4, HeadedTakesMore
  <2>8. QED
    BY <1>7, <2>2, <2>3, <2>5, <2>6, <2>7, Zenon
<1>13. CASE head.rc \in {"bad", "notallowed"}
  <2> DEFINE rc == head.rc
  <2>1. ParseConnect(y.buf).rc = rc /\ ParseConnect(z.buf).rc = rc
    BY <1>3, <1>5, <1>11, <1>13
  <2>2. rc \in {"bad", "notallowed"}
    BY <1>13
  <2> HIDE DEF y, z, rc, head
  <2>3. rc # "more" /\ rc # "ok" /\ rc \in Ends \ {"served", "fallback"}
    BY <2>2 DEF Ends
  <2>4. Http(y) = Refuse(y, rc) /\ Http(z) = Refuse(z, rc)
    BY <2>1, <2>3 DEF Http
  <2>5. ByByte(Refuse(y, rc), h) = Refuse(z, rc)
    BY <1>3, <1>4, <2>3, RefusedStays
  <2>6. QED
    BY <1>7, <2>4, <2>5, Zenon
<1>14. QED
  BY <1>9, <1>10, <1>12, <1>13

-----------------------------------------------------------------------------
(* Frames, and one byte more behind them. *)

\* An address that is all there is read as that address whatever follows.
LEMMA AddrStays ==
    ASSUME NEW b \in Bytes, NEW d \in Bytes, Longer(b, d), ParseAddr(b).wire_len # 0
    PROVE  ParseAddr(d) = ParseAddr(b)
<1>1. PICK n \in Nat \ {0} : ParsedAddr(b, n)
  <2>1. Failed.wire_len = 0
    BY DEF Failed
  <2>2. QED
    BY <2>1, ParseAddrCases
<1> DEFINE k == Before(b[1])
           end == k + n + 2
           m == Len(b)
           l == Len(d)
<1>2. k \in {1, 2} /\ (b[1] = Domain => k = 2)
  BY DEF Before
<1>3. m \in Nat /\ l \in Nat /\ m <= l /\ \A i \in 1 .. m : d[i] = b[i]
  BY DEF Bytes, Longer
<1>4. end <= m /\ HostFits(b[1], n) /\ (b[1] = Domain => b[2] = n)
  BY <1>1 DEF ParsedAddr
<1> HIDE DEF m, l, k
<1>5. /\ d[1] = b[1] /\ (b[1] = Domain => d[2] = n) /\ l >= 4 /\ end <= l
      /\ k \in 0 .. m /\ k + n \in k .. m /\ end - 1 \in 1 .. m /\ end - 1 + 1 \in 1 .. m
  BY <1>2, <1>3, <1>4
<1>6. d[end - 1] = b[end - 1] /\ d[end - 1 + 1] = b[end - 1 + 1]
  BY <1>3, <1>5
<1>7. ParsedAddr(d, n)
  <2>1. d # <<>>
    BY <1>5 DEF l
  <2>2. Before(d[1]) = k
    BY <1>5 DEF k
  <2>3. Before(d[1]) + n + 2 <= Len(d)
    BY <1>5, <2>2 DEF l
  <2>4. d[1] = Domain => Len(d) >= 2 /\ d[2] = n
    BY <1>3, <1>5 DEF l
  <2>5. QED
    BY <1>4, <1>5, <2>1, <2>3, <2>4, ParseAddrOf
<1>8. SubSeq(d, k + 1, k + n) = SubSeq(b, k + 1, k + n)
  <2>1. k \in 0 .. Len(b) /\ k + n \in k .. Len(b)
    BY <1>5 DEF m
  <2>2. QED
    BY <2>1, SamePiece
<1>9. U16(d, end - 1) = U16(b, end - 1)
  BY <1>6 DEF U16
<1>10. ParseAddr(b) = [addr |-> Addr(b[1], SubSeq(b, k + 1, k + n), U16(b, end - 1)),
                       payload |-> <<>>, wire_len |-> end]
  <2>1. k \in Nat /\ Before(b[1]) = k
    BY <1>2 DEF k
  <2>2. QED
    BY <1>1, <2>1, ParsedAddrIs
<1>11. ParseAddr(d) = [addr |-> Addr(d[1], SubSeq(d, k + 1, k + n), U16(d, end - 1)),
                       payload |-> <<>>, wire_len |-> end]
  <2>1. k \in Nat /\ Before(d[1]) = k
    BY <1>2, <1>5 DEF k
  <2>2. QED
    BY <1>7, <2>1, ParsedAddrIs
<1> HIDE DEF end
<1>12. QED
  BY <1>5, <1>8, <1>9, <1>10, <1>11

\* And so is a frame.
LEMMA FrameStays ==
    ASSUME NEW b \in Bytes, NEW d \in Bytes, Longer(b, d), ParseUdpFrame(b).wire_len # 0
    PROVE  /\ ParseUdpFrame(d) = ParseUdpFrame(b)
           /\ FrameItem(d, ParseUdpFrame(d)) = FrameItem(b, ParseUdpFrame(b))
<1> DEFINE a == ParseAddr(b)
           m == a.wire_len
           head == m + 4
           n == U16(b, m + 1)
           also == U16(d, m + 1)
           f == ParseUdpFrame(b)
           g == ParseUdpFrame(d)
           old == Len(b)
           new == Len(d)
<1>1. f = IF \/ m = 0 \/ Len(b) < head
             \/ b[head - 1] # CR \/ b[head] # LF \/ ~Reached(b, head + n)
          THEN Failed
          ELSE [addr |-> a.addr, payload |-> SubSeq(b, head + 1, head + n), wire_len |-> head + n]
  BY DEF ParseUdpFrame
<1>2. Failed.wire_len = 0 /\ f.wire_len # 0
  BY DEF Failed
<1>3. m # 0
  BY <1>2 DEF ParseUdpFrame
<1>4. m \in Nat /\ m >= 4
  BY <1>3, ParsedAsPut DEF Bytes
<1>5. ParseAddr(d) = a
  BY <1>3, AddrStays
<1>6. g = IF \/ m = 0 \/ Len(d) < head
             \/ d[head - 1] # CR \/ d[head] # LF \/ ~Reached(d, head + also)
          THEN Failed
          ELSE [addr |-> a.addr, payload |-> SubSeq(d, head + 1, head + also),
                wire_len |-> head + also]
  BY <1>5 DEF ParseUdpFrame
<1>7. f.wire_len \in 8 .. Len(b)
  BY <1>2, FrameAsPacked
<1>8. old \in Nat /\ new \in Nat /\ old <= new /\ \A i \in 1 .. old : d[i] = b[i]
  BY DEF Bytes, Longer
<1> HIDE DEF a, m, n, also, f, g, head
<1>9. /\ ~(Len(b) < head) /\ b[head - 1] = CR /\ b[head] = LF /\ Reached(b, head + n)
      /\ f = [addr |-> a.addr, payload |-> SubSeq(b, head + 1, head + n), wire_len |-> head + n]
  BY <1>1, <1>2
<1>10. head \in 0 .. old /\ head + n \in 0 .. old /\ m + 1 \in 1 .. old /\ m + 1 + 1 \in 1 .. old
  <2>1. f.wire_len = head + n
    BY <1>9
  <2>2. head <= old /\ head = m + 4 /\ head + n \in 8 .. old
    BY <1>4, <1>7, <1>8, <1>9, <2>1 DEF head
  <2> HIDE DEF old
  <2>3. QED
    BY <1>4, <1>8, <2>2
<1>11. also = n
  <2>1. d[m + 1] = b[m + 1] /\ d[m + 1 + 1] = b[m + 1 + 1]
    BY <1>8, <1>10
  <2>2. QED
    BY <2>1 DEF U16, also, n
<1>12. n \in Nat
  <2>1. b[m + 1] \in Nat /\ b[m + 1 + 1] \in Nat
    <3>1. b[m + 1] \in Byte /\ b[m + 1 + 1] \in Byte
      BY <1>10 DEF Bytes
    <3>2. QED
      BY <3>1, ByteRange
  <2>2. QED
    BY <2>1 DEF U16, n
<1>13. head + n \in head .. old
  BY <1>4, <1>10, <1>12 DEF head
<1>14. SubSeq(d, head + 1, head + n) = SubSeq(b, head + 1, head + n)
  BY <1>10, <1>13, SamePiece
<1>15. ~(Len(d) < head) /\ d[head - 1] = CR /\ d[head] = LF /\ Reached(d, head + n)
  <2>1. head - 1 \in 1 .. old /\ head \in 1 .. old /\ head + n <= new /\ head <= new
    <3> HIDE DEF old, new
    <3>1. QED
      BY <1>4, <1>8, <1>10 DEF head
  <2>2. Len(d) = new
    OBVIOUS
  <2>3. d[head - 1] = CR /\ d[head] = LF
    BY <1>8, <1>9, <2>1
  <2> HIDE DEF old, new
  <2>4. QED
    BY <1>8, <1>10, <2>1, <2>2, <2>3 DEF Reached
<1>16. g = f
  BY <1>3, <1>6, <1>9, <1>11, <1>14, <1>15
<1>17. SubSeq(d, 1, f.wire_len) = SubSeq(b, 1, f.wire_len)
  <2>1. f.wire_len \in 0 .. Len(b)
    BY <1>7, <1>8
  <2>2. QED
    BY <2>1, SameFront
<1>18. QED
  BY <1>16, <1>17, Zenon DEF FrameItem, f, g

\* What Frames makes of the rest from each place on.
AllFrames(b) == CHOOSE F : F = [i \in 1 .. Len(b) + 1 |-> FrameStep(b, F, i)]

\* That is a frame and what follows it.
LEMMA AllFramesIs ==
    ASSUME NEW b \in Bytes
    PROVE  /\ \A i \in 1 .. Len(b) + 1 : AllFrames(b)[i] = FrameStep(b, AllFrames(b), i)
           /\ Frames(b) = AllFrames(b)[1]
<1> DEFINE At == AllFrames(b)
<1>1. At = [i \in 1 .. Len(b) + 1 |-> FrameStep(b, At, i)]
  BY FramesDefined DEF AllFrames
<1>2. Frames(b) = At[1]
  BY DEF Frames, FrameStep, AllFrames
<1> HIDE DEF At
<1>3. \A i \in 1 .. Len(b) + 1 : At[i] = FrameStep(b, At, i)
  BY <1>1
<1>4. QED
  BY <1>2, <1>3 DEF At

\* A set of places that has each whose next one it has, has all.
LEMMA FromTheEnd ==
    ASSUME NEW b \in Bytes, NEW S,
           \A i \in 1 .. Len(b) + 1 :
               (FrameAt(b, i).wire_len # 0 => i + FrameAt(b, i).wire_len \in S) => i \in S
    PROVE  \A i \in 1 .. Len(b) + 1 : i \in S
<1> DEFINE N == {n \in Nat : \A i \in Places(b, n) : i \in S}
<1>0. Len(b) \in Nat
  BY DEF Bytes
<1>1. 0 \in N
  <2> SUFFICES ASSUME NEW i \in Places(b, 0) PROVE i \in S
    OBVIOUS
  <2>1. i \in 1 .. Len(b) + 1 /\ i = Len(b) + 1
    BY <1>0 DEF Places
  <2>2. FrameAt(b, i).wire_len = 0
    <3> SUFFICES ASSUME FrameAt(b, i).wire_len # 0 PROVE FALSE
      OBVIOUS
    <3> DEFINE w == FrameAt(b, i).wire_len
    <3>1. w \in Nat \ {0} /\ i + w \in 1 .. Len(b) + 1
      BY <2>1, NextFrame
    <3> HIDE DEF w
    <3>2. QED
      BY <1>0, <2>1, <3>1
  <2>3. QED
    BY <2>1, <2>2
<1>2. ASSUME NEW n \in N PROVE n + 1 \in N
  <2>0. n \in Nat /\ \A i \in Places(b, n) : i \in S
    OBVIOUS
  <2> SUFFICES ASSUME NEW i \in Places(b, n + 1) PROVE i \in S
    BY <2>0
  <2>1. i \in 1 .. Len(b) + 1
    BY DEF Places
  <2>2. FrameAt(b, i).wire_len # 0 => i + FrameAt(b, i).wire_len \in Places(b, n)
    BY <2>0, NextPlace
  <2>3. QED
    BY <2>0, <2>1, <2>2
<1> HIDE DEF N
<1>3. N = Nat
  <2>1. N \in SUBSET Nat
    BY DEF N
  <2>2. QED
    BY <1>1, <1>2, <2>1, AllNumbers
<1>4. Len(b) \in N
  BY <1>0, <1>3
<1>5. Places(b, Len(b)) = 1 .. Len(b) + 1
  BY <1>0 DEF Places
<1>6. QED
  BY <1>4, <1>5 DEF N

\* Where a frame is and where none is.
LEMMA FramesThere ==
    ASSUME NEW b \in Bytes, NEW i \in 1 .. Len(b) + 1
    PROVE  /\ FrameAt(b, i).wire_len = 0 =>
                  AllFrames(b)[i] = [items |-> <<>>, left |-> From(b, i)]
           /\ FrameAt(b, i).wire_len # 0 =>
                  AllFrames(b)[i] =
                      [items |-> <<ItemAt(b, i)>> \o AllFrames(b)[i + FrameAt(b, i).wire_len].items,
                       left |-> AllFrames(b)[i + FrameAt(b, i).wire_len].left]
<1>1. AllFrames(b)[i] = FrameStep(b, AllFrames(b), i)
  BY AllFramesIs
<1>2. QED
  BY <1>1 DEF FrameStep, FrameAt, ItemAt

\* The place in the rest is a place in the whole.
LEMMA PlaceInRest ==
    ASSUME NEW b \in Bytes, NEW k \in 1 .. Len(b) + 1, NEW i \in 1 .. Len(From(b, k)) + 1
    PROVE  From(b, k) \in Bytes /\ k + i - 1 \in 1 .. Len(b) + 1 /\ From(From(b, k), i) = From(b, k + i - 1)
<1> DEFINE rest == From(b, k)
           l == Len(rest)
           m == Len(b)
<1>1. rest \in Bytes /\ l = m + 1 - k /\ m \in Nat
  <2>1. 0 <= Len(From(b, k)) /\ Len(b) \in Nat
    <3>1. k - 1 \in 0 .. Len(b) /\ k - 1 + 1 = k /\ Len(b) \in Nat
      BY DEF Bytes
    <3>2. Len(From(b, k - 1 + 1)) = Len(b) - (k - 1)
      BY <3>1, Cut
    <3>3. QED
      BY <3>1, <3>2
  <2>2. QED
    BY <2>1, FromFrom
<1>2. i \in 1 .. l + 1 /\ k \in 1 .. m + 1
  OBVIOUS
<1> HIDE DEF l, m
<1> DEFINE n == i - 1
<1>3. n \in Nat /\ n <= l /\ n + 1 = i /\ k + n = k + i - 1
  BY <1>1, <1>2
<1> HIDE DEF n
<1>4. k + n \in 1 .. Len(b) + 1 /\ From(From(b, k), n + 1) = From(b, k + n)
  BY <1>3, FromFrom DEF l
<1>5. QED
  BY <1>1, <1>3, <1>4

\* The frames of the rest are those of the whole from there on.
LEMMA FramesOfRest ==
    ASSUME NEW b \in Bytes, NEW k \in 1 .. Len(b) + 1
    PROVE  From(b, k) \in Bytes /\ Frames(From(b, k)) = AllFrames(b)[k]
<1> DEFINE rest == From(b, k)
           S == {i \in 1 .. Len(rest) + 1 : AllFrames(rest)[i] = AllFrames(b)[k + i - 1]}
<1>1. rest \in Bytes /\ 1 \in 1 .. Len(rest) + 1 /\ k + 1 - 1 = k
  <2>1. rest \in Bytes
    <3>1. k - 1 \in 0 .. Len(b) /\ k - 1 + 1 = k /\ Len(b) \in Nat
      BY DEF Bytes
    <3>2. From(b, k - 1 + 1) \in Bytes
      BY <3>1, Cut
    <3>3. QED
      BY <3>1, <3>2
  <2> HIDE DEF rest
  <2>2. Len(rest) \in Nat
    BY <2>1 DEF Bytes
  <2>3. QED
    BY <2>1, <2>2
<1>2. ASSUME NEW i \in 1 .. Len(rest) + 1,
             FrameAt(rest, i).wire_len # 0 => i + FrameAt(rest, i).wire_len \in S
      PROVE  AllFrames(rest)[i] = AllFrames(b)[k + i - 1]
  <2> DEFINE w == FrameAt(rest, i).wire_len
             j == k + i - 1
  <2>1. j \in 1 .. Len(b) + 1 /\ From(rest, i) = From(b, j)
    BY PlaceInRest
  <2> HIDE DEF rest, j
  <2>2. FrameAt(b, j) = FrameAt(rest, i) /\ ItemAt(b, j) = ItemAt(rest, i)
    BY <2>1 DEF FrameAt, ItemAt
  <2>3. CASE w = 0
    <3>1. AllFrames(rest)[i] = [items |-> <<>>, left |-> From(rest, i)]
      BY <1>1, <2>3, FramesThere
    <3>2. AllFrames(b)[j] = [items |-> <<>>, left |-> From(b, j)]
      BY <2>1, <2>2, <2>3, FramesThere
    <3>3. QED
      BY <2>1, <3>1, <3>2, Zenon DEF j
  <2>4. CASE w # 0
    <3>1. w \in Nat
      BY <1>1, <2>4, NextFrame
    <3>2. AllFrames(rest)[i + w] = AllFrames(b)[k + (i + w) - 1]
      BY <1>2, <2>4
    <3>3. k + (i + w) - 1 = j + w
      <4> HIDE DEF w
      <4>1. k \in Int /\ i \in Int
        OBVIOUS
      <4>2. QED
        BY <3>1, <4>1 DEF j
    <3>4. AllFrames(rest)[i] = [items |-> <<ItemAt(rest, i)>> \o AllFrames(rest)[i + w].items,
                                left |-> AllFrames(rest)[i + w].left]
      BY <1>1, <2>4, FramesThere
    <3>5. AllFrames(b)[j] = [items |-> <<ItemAt(b, j)>> \o AllFrames(b)[j + w].items,
                             left |-> AllFrames(b)[j + w].left]
      BY <2>1, <2>2, <2>4, FramesThere
    <3> HIDE DEF w
    <3>6. AllFrames(rest)[i] = AllFrames(b)[j]
      BY <2>2, <3>2, <3>3, <3>4, <3>5, Zenon
    <3>7. QED
      BY <3>6 DEF j
  <2>5. QED
    BY <2>3, <2>4
<1>3. \A i \in 1 .. Len(rest) + 1 :
          (FrameAt(rest, i).wire_len # 0 => i + FrameAt(rest, i).wire_len \in S) => i \in S
  BY <1>2
<1> HIDE DEF S
<1>4. \A i \in 1 .. Len(rest) + 1 : i \in S
  <2> HIDE DEF rest
  <2>1. QED
    BY <1>1, <1>3, FromTheEnd
<1>5. AllFrames(rest)[1] = AllFrames(b)[k + 1 - 1]
  BY <1>1, <1>4 DEF S
<1>6. Frames(rest) = AllFrames(rest)[1]
  <2> HIDE DEF rest
  <2>1. QED
    BY <1>1, AllFramesIs
<1>7. QED
  BY <1>1, <1>5, <1>6

\* What was got in three parts.
LEMMA GotAssociative ==
    ASSUME NEW f, GotRight(f), NEW g, GotRight(g), NEW h, GotRight(h)
    PROVE  (f \o g) \o h = f \o (g \o h)
<1>1. PICK S : f \in Seq(S)
  BY DEF GotRight
<1>2. PICK T : g \in Seq(T)
  BY DEF GotRight
<1>3. PICK R : h \in Seq(R)
  BY DEF GotRight
<1> DEFINE U == S \cup T \cup R
<1>4. S \subseteq U /\ T \subseteq U /\ R \subseteq U
  OBVIOUS
<1> HIDE DEF U
<1>5. f \in Seq(U) /\ g \in Seq(U) /\ h \in Seq(U)
  BY <1>1, <1>2, <1>3, <1>4, SeqMonotonic
<1>6. QED
  BY <1>5, ConcatAssociative

\* Nothing got, and then something.
LEMMA GotFirst ==
    ASSUME NEW g, GotRight(g)
    PROVE  <<>> \o g = g
<1>1. PICK S : g \in Seq(S)
  BY DEF GotRight
<1>2. QED
  BY <1>1, ConcatEmptySeq

\* What Frames answers.
LEMMA FramesAnswer ==
    ASSUME NEW b \in Bytes
    PROVE  /\ Frames(b) = [items |-> Frames(b).items, left |-> Frames(b).left]
           /\ GotRight(Frames(b).items) /\ Frames(b).left \in Bytes
           /\ Len(Frames(b).left) <= Len(b)
<1> DEFINE frames == Frames(b)
           items == frames.items
           left == frames.left
<1>1. GotRight(items) /\ left \in Bytes /\ AllOf(items) \o left = b
  <2>1. FramesRight(b, 1, frames)
    BY FramesAreRight
  <2>2. From(b, 1) = b
    BY SubSeqFull DEF From, Bytes
  <2>3. QED
    BY <2>1, <2>2 DEF FramesRight
<1>2. frames = [items |-> items, left |-> left]
  <2>1. 1 \in 1 .. Len(b) + 1
    BY DEF Bytes
  <2>2. frames = AllFrames(b)[1]
    BY AllFramesIs
  <2> DEFINE w == FrameAt(b, 1).wire_len
             later == AllFrames(b)[1 + w]
  <2>3. \/ frames = [items |-> <<>>, left |-> From(b, 1)]
        \/ frames = [items |-> <<ItemAt(b, 1)>> \o later.items, left |-> later.left]
    BY <2>1, <2>2, FramesThere
  <2> HIDE DEF frames, later
  <2>4. QED
    BY <2>3
<1>3. Len(left) <= Len(b)
  <2> DEFINE all == AllOf(items)
             m == Len(all)
             n == Len(left)
             k == Len(b)
  <2>1. all \in Bytes
    BY <1>1, WiresOf
  <2>2. Len(all \o left) = m + n
    <3> HIDE DEF all, left
    <3>1. QED
      BY <1>1, <2>1, Joined
  <2>3. m \in Nat /\ n \in Nat
    <3> HIDE DEF all, left
    <3>1. QED
      BY <1>1, <2>1 DEF Bytes
  <2>4. k = m + n
    BY <1>1, <2>2
  <2> HIDE DEF all, left, m, n, k
  <2>5. n <= k
    BY <2>3, <2>4
  <2>6. QED
    BY <2>5 DEF n, k
<1>4. QED
  BY <1>1, <1>2, <1>3

\* One byte more behind the frames: what is left goes on with it.
AndThen(x, h) ==
    [items |-> x.items \o Frames(x.left \o <<h>>).items, left |-> Frames(x.left \o <<h>>).left]

\* The same with names.
LEMMA AndThenIs ==
    ASSUME NEW items, NEW left, NEW h
    PROVE  AndThen([items |-> items, left |-> left], h)
               = [items |-> items \o Frames(left \o <<h>>).items, left |-> Frames(left \o <<h>>).left]
  BY Zenon DEF AndThen

\* The frames of more bytes are the frames there were, and those of what was left
\* with what came.
LEMMA FramesGoOn ==
    ASSUME NEW b \in Bytes, NEW h \in Byte
    PROVE  Frames(b \o <<h>>) = AndThen(Frames(b), h)
<1> DEFINE e == b \o <<h>>
           m == Len(b)
           S == {i \in 1 .. Len(b) + 1 : AllFrames(e)[i] = AndThen(AllFrames(b)[i], h)}
<1>0. m \in Nat
  BY DEF Bytes
<1>1. e \in Bytes /\ Len(e) = m + 1 /\ Longer(b, e)
  <2>1. <<h>> \in Bytes /\ Len(<<h>>) = 1
    BY Singleton
  <2>2. QED
    BY <2>1, BufferLonger
<1> HIDE DEF e
<1>2. \A i \in 1 .. Len(b) + 1 : i \in 1 .. Len(e) + 1
  BY <1>0, <1>1
<1>3. ASSUME NEW i \in 1 .. Len(b) + 1 PROVE From(b, i) \in Bytes /\ From(e, i) = From(b, i) \o <<h>>
  <2> DEFINE k == i - 1
  <2>1. k \in 0 .. Len(b) /\ k + 1 = i
    <3>1. i \in 1 .. m + 1
      OBVIOUS
    <3>2. k \in 0 .. m /\ k + 1 = i
      <4> HIDE DEF m
      <4>1. QED
        BY <1>0, <3>1
    <3>3. QED
      BY <3>2
  <2> HIDE DEF k
  <2>2. From(e, k + 1) = From(b, k + 1) \o <<h>> /\ From(b, k + 1) \in Bytes
    BY <2>1, BehindLonger, Cut DEF e
  <2>3. QED
    BY <2>1, <2>2
<1>4. ASSUME NEW i \in 1 .. Len(b) + 1,
             FrameAt(b, i).wire_len # 0 => i + FrameAt(b, i).wire_len \in S
      PROVE  AllFrames(e)[i] = AndThen(AllFrames(b)[i], h)
  <2> DEFINE rest == From(b, i)
             w == FrameAt(b, i).wire_len
  <2>1. rest \in Bytes /\ From(e, i) = rest \o <<h>>
    BY <1>3
  <2>2. CASE w = 0
    <3> DEFINE more == rest \o <<h>>
               g == Frames(more)
    <3>1. AllFrames(b)[i] = [items |-> <<>>, left |-> rest]
      BY <2>2, FramesThere
    <3>2. AndThen(AllFrames(b)[i], h) = [items |-> <<>> \o g.items, left |-> g.left]
      BY <3>1, AndThenIs
    <3>3. From(e, i) \in Bytes /\ Frames(From(e, i)) = AllFrames(e)[i]
      BY <1>1, <1>2, FramesOfRest
    <3>4. more \in Bytes /\ g = AllFrames(e)[i]
      BY <2>1, <3>3
    <3> HIDE DEF more
    <3>5. g = [items |-> g.items, left |-> g.left] /\ GotRight(g.items)
      BY <3>4, FramesAnswer
    <3> HIDE DEF g
    <3>6. <<>> \o g.items = g.items
      BY <3>5, GotFirst
    <3>7. QED
      BY <3>2, <3>4, <3>5, <3>6, Zenon
  <2>3. CASE w # 0
    <3> DEFINE j == i + w
               later == AllFrames(b)[j]
               more == later.left \o <<h>>
               g == Frames(more)
               item == ItemAt(b, i)
    <3>1. j \in 1 .. Len(b) + 1 /\ AllFrames(e)[j] = AndThen(later, h)
      BY <1>4, <2>3
    <3>2. ItemRight(item)
      BY <2>3, NextFrame
    <3>3. AllFrames(b)[i] = [items |-> <<item>> \o later.items, left |-> later.left]
      BY <2>3, FramesThere
    <3>4. FrameAt(e, i) = FrameAt(b, i) /\ ItemAt(e, i) = item
      <4>1. Longer(rest, rest \o <<h>>) /\ rest \o <<h>> \in Bytes
        <5>1. <<h>> \in Bytes
          BY Singleton
        <5> HIDE DEF rest
        <5>2. QED
          BY <2>1, <5>1, BufferLonger
      <4> DEFINE on == rest \o <<h>>
      <4>2. ParseUdpFrame(rest).wire_len # 0 /\ From(e, i) = on
        BY <2>1, <2>3 DEF FrameAt
      <4>3. FrameAt(b, i) = ParseUdpFrame(rest) /\ ItemAt(b, i) = FrameItem(rest, ParseUdpFrame(rest))
        BY DEF FrameAt, ItemAt
      <4> HIDE DEF rest, on
      <4>4. ParseUdpFrame(on) = ParseUdpFrame(rest)
            /\ FrameItem(on, ParseUdpFrame(on)) = FrameItem(rest, ParseUdpFrame(rest))
        BY <2>1, <4>1, <4>2, FrameStays DEF on
      <4>5. FrameAt(e, i) = ParseUdpFrame(on) /\ ItemAt(e, i) = FrameItem(on, ParseUdpFrame(on))
        BY <4>2 DEF FrameAt, ItemAt
      <4>6. QED
        BY <4>3, <4>4, <4>5
    <3>5. AllFrames(e)[i] = [items |-> <<item>> \o AllFrames(e)[j].items, left |-> AllFrames(e)[j].left]
      BY <1>1, <1>2, <2>3, <3>4, FramesThere
    <3>6. From(b, j) \in Bytes /\ Frames(From(b, j)) = later
      BY <3>1, FramesOfRest
    <3>7. GotRight(later.items) /\ later.left \in Bytes
      <4>1. GotRight(Frames(From(b, j)).items) /\ Frames(From(b, j)).left \in Bytes
        <5> DEFINE tail == From(b, j)
        <5>1. tail \in Bytes
          BY <3>6
        <5> HIDE DEF tail
        <5>2. GotRight(Frames(tail).items) /\ Frames(tail).left \in Bytes
          BY <5>1, FramesAnswer
        <5>3. QED
          BY <5>2 DEF tail
      <4>2. QED
        BY <3>6, <4>1
    <3> HIDE DEF later, item, j
    <3>8. more \in Bytes
      <4>1. <<h>> \in Bytes
        BY Singleton
      <4> DEFINE left == later.left
      <4> HIDE DEF left
      <4>2. left \in Bytes
        BY <3>7 DEF left
      <4>3. left \o <<h>> \in Bytes
        BY <4>1, <4>2, Joined
      <4>4. QED
        BY <4>3 DEF left
    <3>9. GotRight(g.items)
      <4> HIDE DEF more
      <4>1. QED
        BY <3>8, FramesAnswer
    <3>10. AllFrames(e)[j] = [items |-> later.items \o g.items, left |-> g.left]
      BY <3>1 DEF AndThen
    <3> HIDE DEF g, more
    <3>11. (<<item>> \o later.items) \o g.items = <<item>> \o (later.items \o g.items)
      <4> DEFINE one == <<item>>
                 some == later.items
                 others == g.items
      <4>1. GotRight(one) /\ GotRight(some) /\ GotRight(others)
        BY <3>2, <3>7, <3>9, GotOne
      <4> HIDE DEF one, some, others
      <4>2. (one \o some) \o others = one \o (some \o others)
        BY <4>1, GotAssociative
      <4>3. QED
        BY <4>2 DEF one, some, others
    <3>12. AllFrames(e)[i] = [items |-> (<<item>> \o later.items) \o g.items, left |-> g.left]
      <4> DEFINE next == AllFrames(e)[j]
                 some == later.items \o g.items
                 remains == g.left
      <4>1. next = [items |-> some, left |-> remains]
        BY <3>10
      <4>2. AllFrames(e)[i] = [items |-> <<item>> \o next.items, left |-> next.left]
        BY <3>5
      <4> HIDE DEF next, some, remains
      <4>3. next.items = some /\ next.left = remains
        BY <4>1
      <4>4. AllFrames(e)[i] = [items |-> <<item>> \o some, left |-> remains]
        BY <4>2, <4>3, Zenon
      <4>5. (<<item>> \o later.items) \o g.items = <<item>> \o some
        BY <3>11 DEF some
      <4>6. QED
        BY <4>4, <4>5, Zenon DEF remains
    <3>13. AndThen(AllFrames(b)[i], h) = [items |-> (<<item>> \o later.items) \o g.items, left |-> g.left]
      BY <3>3, AndThenIs, Zenon DEF g, more
    <3>14. QED
      BY <3>12, <3>13
  <2>4. QED
    BY <2>2, <2>3
<1>5. \A i \in 1 .. Len(b) + 1 : i \in S
  <2>1. \A i \in 1 .. Len(b) + 1 :
            (FrameAt(b, i).wire_len # 0 => i + FrameAt(b, i).wire_len \in S) => i \in S
    BY <1>4
  <2> HIDE DEF S
  <2>2. QED
    BY <2>1, FromTheEnd
<1>6. AllFrames(e)[1] = AndThen(AllFrames(b)[1], h)
  <2>1. 1 \in 1 .. Len(b) + 1
    BY <1>0
  <2>2. QED
    BY <1>5, <2>1
<1>7. QED
  BY <1>1, <1>6, AllFramesIs DEF e

\* The fields of a reader that has taken the frames from its buffer.
LEMMA TakenFields ==
    ASSUME NEW x, IsReader(x), NEW frames
    PROVE  /\ IsReader(Taken(x, frames)) /\ Taken(x, frames).phase = x.phase
           /\ Taken(x, frames).buf = frames.left /\ Taken(x, frames).got = x.got \o frames.items
           /\ Taken(x, frames).handed = x.handed
<1>1. PICK P, B, G, H : x \in [phase : P, buf : B, got : G, handed : H]
  BY DEF IsReader
<1> DEFINE y == Taken(x, frames)
           left == frames.left
           more == x.got \o frames.items
           B1 == B \cup {left}
           G1 == G \cup {more}
<1>2. y = [x EXCEPT !.got = more, !.buf = left]
  BY DEF Taken
<1> HIDE DEF y, left, more
<1>3. /\ y \in [phase : P, buf : B1, got : G1, handed : H]
      /\ y.phase = x.phase /\ y.buf = left /\ y.got = more /\ y.handed = x.handed
  BY <1>1, <1>2, Zenon
<1> HIDE DEF B1, G1
<1>4. IsReader(y)
  BY <1>3, Zenon DEF IsReader
<1>5. QED
  BY <1>3, <1>4, Zenon DEF y, left, more

\* When the buffer is full with what is left of the frames.
LEMMA UdpIs ==
    ASSUME NEW x
    PROVE  Udp(x) = IF Len(Taken(x, Frames(x.buf)).buf) = UdpRoom
                    THEN Refuse(Taken(x, Frames(x.buf)), "bad")
                    ELSE Taken(x, Frames(x.buf))
  BY DEF Udp, Taken

\* A buffer of frames, and one byte more.
LEMMA UdpByByte ==
    ASSUME NEW x, ReaderRight(x), x.phase = "udp",
           NEW c \in Bytes, NEW h \in Byte, 0 < Len(c), Len(c) < Wanted(x)
    PROVE  Fed(x, c \o <<h>>) = ByByte(Fed(x, c), h)
<1> DEFINE y == Filled(x, c)
           z == Filled(x, c \o <<h>>)
           d == x.buf \o c
           e == d \o <<h>>
           had == Len(x.buf)
           more == Len(c)
           want == Wanted(x)
<1>1. /\ x.buf \in Bytes /\ had \in Nat /\ more \in Nat /\ IsReader(x) /\ x.phase \in Phases
      /\ GotRight(x.got)
  BY DEF ReaderRight, Bytes, Phases
<1>2. d \in Bytes /\ Len(d) = had + more
  BY <1>1, BufferLonger
<1>3. /\ IsReader(y) /\ y.buf = d /\ y.phase = "udp" /\ y.got = x.got
      /\ y.handed = x.handed
  BY <1>1, FilledFields
<1>4. /\ IsReader(z) /\ z.phase = "udp" /\ z.buf = x.buf \o (c \o <<h>>) /\ z.got = x.got
      /\ z.handed = x.handed
  BY <1>1, FilledFields
<1>5. z.buf = e
  <2> DEFINE one == <<h>>
             b == x.buf
  <2>1. one \in Seq(Byte) /\ c \in Seq(Byte) /\ b \in Seq(Byte)
    BY <1>1 DEF Bytes
  <2> HIDE DEF one, b
  <2>2. (b \o c) \o one = b \o (c \o one)
    BY <2>1, ConcatAssociative
  <2>3. QED
    BY <1>4, <2>2 DEF one, b
<1>6. Fed(x, c) = Udp(y) /\ Fed(x, c \o <<h>>) = Udp(z)
  BY <1>1, FedHandles DEF Handle
<1>7. Len(d) < UdpRoom /\ UdpRoom \in Nat /\ Len(d) \in Nat
  <2>1. want = UdpRoom - had
    BY DEF Wanted, UdpWanted
  <2>2. UdpRoom \in Nat /\ more < want
    BY Rooms
  <2> HIDE DEF had, want, d, more
  <2>3. QED
    BY <1>1, <1>2, <2>1, <2>2
<1> HIDE DEF d, e, had, more, want, y, z
<1> DEFINE F == Frames(d)
           left == F.left
           on == left \o <<h>>
           G == Frames(on)
           E == Frames(e)
           t == Taken(y, F)
           v == Filled(t, <<h>>)
           u == Taken(v, G)
           w == Taken(z, E)
<1>8. GotRight(F.items) /\ left \in Bytes /\ Len(left) <= Len(d)
  BY <1>2, FramesAnswer
<1>9. E.items = F.items \o G.items /\ E.left = G.left
  <2>1. E = AndThen(F, h)
    BY <1>2, FramesGoOn DEF e
  <2> DEFINE items == F.items \o G.items
             rest == G.left
  <2>2. E = [items |-> items, left |-> rest]
    BY <2>1 DEF AndThen
  <2> HIDE DEF E, items, rest
  <2>3. E.items = items /\ E.left = rest
    BY <2>2
  <2>4. QED
    BY <2>3 DEF items, rest
<1>10. GotRight(G.items)
  <2>1. <<h>> \in Bytes
    BY Singleton
  <2> HIDE DEF left
  <2>2. on \in Bytes
    BY <1>8, <2>1, Joined
  <2> HIDE DEF on
  <2>3. QED
    BY <2>2, FramesAnswer
<1>11. Udp(y) = IF Len(t.buf) = UdpRoom THEN Refuse(t, "bad") ELSE t
  BY <1>3, UdpIs
<1>12. Udp(z) = IF Len(w.buf) = UdpRoom THEN Refuse(w, "bad") ELSE w
  BY <1>5, UdpIs
<1> HIDE DEF F, G, E
<1>13. /\ IsReader(t) /\ t.phase = "udp" /\ t.buf = left /\ t.got = x.got \o F.items
       /\ t.handed = x.handed
  BY <1>3, TakenFields
<1>14. /\ IsReader(w) /\ w.phase = "udp" /\ w.buf = E.left /\ w.got = x.got \o E.items
       /\ w.handed = x.handed
  BY <1>4, TakenFields
<1> HIDE DEF t, w
<1>15. /\ IsReader(v) /\ v.phase = "udp" /\ v.buf = on /\ v.got = t.got
       /\ v.handed = x.handed
  <2> DEFINE one == <<h>>
             b == t.buf
  <2>1. v = Filled(t, one) /\ on = left \o one
    OBVIOUS
  <2> HIDE DEF one, v, left, on
  <2>2. /\ IsReader(v) /\ v.phase = t.phase /\ v.buf = t.buf \o one /\ v.got = t.got
        /\ v.handed = t.handed
    BY <1>13, <2>1, FilledFields
  <2>3. QED
    BY <1>13, <2>1, <2>2, Zenon
<1>16. Udp(v) = IF Len(u.buf) = UdpRoom THEN Refuse(u, "bad") ELSE u
  BY <1>15, UdpIs DEF G
<1>17. /\ IsReader(u) /\ u.phase = "udp" /\ u.buf = G.left /\ u.got = v.got \o G.items
       /\ u.handed = x.handed
  <2> HIDE DEF v
  <2>1. QED
    BY <1>15, TakenFields
<1>18. u = w
  <2>1. (x.got \o F.items) \o G.items = x.got \o (F.items \o G.items)
    <3> DEFINE a == x.got
               f == F.items
               g == G.items
    <3>1. GotRight(a) /\ GotRight(f) /\ GotRight(g)
      BY <1>1, <1>8, <1>10
    <3> HIDE DEF a, f, g
    <3>2. (a \o f) \o g = a \o (f \o g)
      BY <3>1, GotAssociative
    <3>3. QED
      BY <3>2 DEF a, f, g
  <2> HIDE DEF u, v
  <2>2. u.got = w.got
    BY <1>9, <1>13, <1>14, <1>15, <1>17, <2>1, Zenon
  <2>3. QED
    BY <1>9, <1>14, <1>17, <2>2, SameReader
<1>19. Fed(x, c) = t /\ Wanted(t) > 0
  <2> DEFINE n == Len(left)
             m == Len(d)
  <2>1. n \in Nat /\ n <= m /\ m \in Nat /\ m < UdpRoom /\ UdpRoom \in Nat
    <3>1. n \in Nat
      BY <1>8 DEF Bytes
    <3>2. QED
      BY <1>7, <1>8, <3>1
  <2>2. Wanted(t) = UdpRoom - n
    BY <1>13 DEF Wanted, UdpWanted
  <2>3. Len(t.buf) = n
    BY <1>13
  <2> HIDE DEF n, m
  <2>4. n # UdpRoom /\ UdpRoom - n > 0
    BY <2>1
  <2>5. QED
    BY <1>6, <1>11, <2>2, <2>3, <2>4
<1>20. ByByte(t, h) = Udp(v)
  <2>1. ByByte(t, h) = Fed(t, <<h>>)
    BY <1>19 DEF ByByte
  <2>2. t.phase \in Phases /\ t.phase # "prefix"
    BY <1>13 DEF Phases
  <2>3. Fed(t, <<h>>) = Handle(t.phase, v)
    BY <2>2, FedHandles
  <2>4. QED
    BY <1>13, <2>1, <2>3 DEF Handle
<1> HIDE DEF u, v
<1>21. QED
  BY <1>6, <1>12, <1>16, <1>18, <1>19, <1>20, Zenon

-----------------------------------------------------------------------------
(* A piece, byte by byte. *)

\* As long as less has come than a recv may bring, one byte more in the piece is one
\* byte more after it.
LEMMA PieceAndByte ==
    ASSUME NEW x, ReaderRight(x), NEW c \in Bytes, NEW h \in Byte, 0 < Len(c), Len(c) < Wanted(x)
    PROVE  Fed(x, c \o <<h>>) = ByByte(Fed(x, c), h)
<1>1. x.phase \in Phases
  <2> DEFINE want == Wanted(x)
             more == Len(c)
  <2>1. want \in Int /\ (want > 0 => x.phase \in Phases)
    BY WantedRight
  <2>2. more \in Nat /\ more < want
    BY DEF Bytes
  <2> HIDE DEF want, more
  <2>3. QED
    BY <2>1, <2>2
<1>2. ASSUME Keeps(x, c), x.phase # "prefix" PROVE Fed(x, c \o <<h>>) = ByByte(Fed(x, c), h)
  BY <1>1, <1>2, KeptBytes DEF Keeps
<1>3. CASE x.phase \in {"greeting", "request", "response_read", "command"}
  BY <1>2, <1>3, KeptForVerdict
<1>4. CASE x.phase \in {"classify", "method_read", "auth_read"}
  BY <1>2, <1>4, KeptForMore
<1>5. CASE x.phase = "prefix"
  BY <1>5, PrefixByByte
<1>6. CASE x.phase = "http"
  BY <1>6, HttpByByte
<1>7. CASE x.phase = "udp"
  BY <1>7, UdpByByte
<1>8. QED
  BY <1>1, <1>3, <1>4, <1>5, <1>6, <1>7 DEF Phases

-----------------------------------------------------------------------------
(* The reader that gets the stream byte by byte. *)

\* One byte takes the reader on.
OneByteOn(s, g, i) == g[i] = ByByte(g[i - 1], s[i])

\* What a reader has become after each of n bytes.
Goes(x, s, g, n) == g[0] = x /\ \A i \in 1 .. n : OneByteOn(s, g, i)

\* Each reader comes to something with each stream: induction on the bytes.
LEMMA GoesSomewhere ==
    ASSUME NEW x, NEW s, NEW m \in Nat
    PROVE  \E g : Goes(x, s, g, m)
<1> DEFINE N == {n \in Nat : \E g : Goes(x, s, g, n)}
<1>1. 0 \in N
  <2> DEFINE g == [i \in {0} |-> x]
  <2>1. Goes(x, s, g, 0)
    BY DEF Goes
  <2> HIDE DEF g
  <2>2. QED
    BY <2>1
<1>2. ASSUME NEW n \in N PROVE n + 1 \in N
  <2>1. n \in Nat
    OBVIOUS
  <2>2. PICK f : Goes(x, s, f, n)
    OBVIOUS
  <2> DEFINE last == ByByte(f[n], s[n + 1])
             g == [i \in 0 .. n + 1 |-> IF i = n + 1 THEN last ELSE f[i]]
  <2> HIDE DEF last
  <2>3. g[n + 1] = last /\ \A i \in 0 .. n : g[i] = f[i]
    BY <2>1
  <2> HIDE DEF g
  <2>4. \A i \in 1 .. n + 1 : OneByteOn(s, g, i)
    <3> SUFFICES ASSUME NEW i \in 1 .. n + 1 PROVE OneByteOn(s, g, i)
      OBVIOUS
    <3>1. CASE i = n + 1
      <4>1. n + 1 - 1 = n /\ n \in 0 .. n
        BY <2>1
      <4>2. g[i] = last /\ g[i - 1] = f[n]
        BY <2>3, <3>1, <4>1
      <4>3. QED
        BY <3>1, <4>2 DEF OneByteOn, last
    <3>2. CASE i # n + 1
      <4>1. i \in 1 .. n /\ i \in 0 .. n /\ i - 1 \in 0 .. n
        BY <2>1, <3>2
      <4>2. g[i] = f[i] /\ g[i - 1] = f[i - 1] /\ OneByteOn(s, f, i)
        BY <2>2, <2>3, <4>1 DEF Goes
      <4>3. QED
        BY <4>2 DEF OneByteOn
    <3>3. QED
      BY <3>1, <3>2
  <2>5. g[0] = x
    BY <2>1, <2>2, <2>3 DEF Goes
  <2>6. Goes(x, s, g, n + 1)
    BY <2>4, <2>5 DEF Goes
  <2>7. QED
    BY <2>1, <2>6
<1> HIDE DEF N
<1>3. N = Nat
  <2>1. N \in SUBSET Nat
    BY DEF N
  <2>2. QED
    BY <1>1, <1>2, <2>1, AllNumbers
<1>4. QED
  BY <1>3 DEF N

\* One byte of the stream behind a piece of it.
LEMMA PieceLonger ==
    ASSUME NEW s \in Bytes, NEW k \in Nat, NEW n \in Nat, k + n + 1 <= Len(s)
    PROVE  /\ SubSeq(s, k + 1, k + n) \in Bytes /\ Len(SubSeq(s, k + 1, k + n)) = n
           /\ s[k + n + 1] \in Byte
           /\ SubSeq(s, k + 1, k + (n + 1)) = SubSeq(s, k + 1, k + n) \o <<s[k + n + 1]>>
<1> DEFINE c == SubSeq(s, k + 1, k + n)
           d == SubSeq(s, k + 1, k + (n + 1))
           h == s[k + n + 1]
           e == c \o <<h>>
           m == Len(s)
<1>1. m \in Nat /\ k + n + 1 <= m
  BY DEF Bytes
<1> HIDE DEF m
<1>2. /\ k \in 0 .. m /\ k + n \in k .. m /\ k + (n + 1) \in k .. m
      /\ (k + n) - k = n /\ (k + (n + 1)) - k = n + 1 /\ k + n + 1 \in 1 .. m
      /\ k + (n + 1) = k + n + 1
  BY <1>1
<1>3. k \in 0 .. Len(s) /\ k + n \in k .. Len(s) /\ k + (n + 1) \in k .. Len(s)
      /\ k + n + 1 \in 1 .. Len(s)
  BY <1>2 DEF m
<1>4. c \in Bytes /\ Len(c) = n /\ \A x \in 1 .. n : c[x] = s[k + x]
  BY <1>2, <1>3, Part
<1>5. d \in Bytes /\ Len(d) = n + 1 /\ \A x \in 1 .. n + 1 : d[x] = s[k + x]
  <2> DEFINE j == k + (n + 1)
  <2>1. j \in k .. Len(s) /\ j - k = n + 1
    BY <1>2, <1>3
  <2> HIDE DEF j
  <2>2. /\ SubSeq(s, k + 1, j) \in Bytes /\ Len(SubSeq(s, k + 1, j)) = j - k
        /\ \A x \in 1 .. j - k : SubSeq(s, k + 1, j)[x] = s[k + x]
    BY <1>3, <2>1, Part
  <2>3. QED
    BY <2>1, <2>2 DEF j
<1>6. h \in Byte
  BY <1>3 DEF Bytes
<1> HIDE DEF c, d, h
<1>7. e \in Bytes /\ Len(e) = n + 1 /\ (\A x \in 1 .. n : e[x] = c[x]) /\ e[n + 1] = h
  <2>1. /\ c \o <<h>> \in Bytes /\ Len(c \o <<h>>) = Len(c) + 1
        /\ \A i \in 1 .. Len(c) : (c \o <<h>>)[i] = c[i]
        /\ (c \o <<h>>)[Len(c) + 1] = h
    BY <1>4, <1>6, LastByte
  <2>2. QED
    BY <1>4, <2>1
<1> HIDE DEF e
<1>8. \A x \in 1 .. n + 1 : d[x] = e[x]
  <2> SUFFICES ASSUME NEW x \in 1 .. n + 1 PROVE d[x] = e[x]
    OBVIOUS
  <2>1. CASE x = n + 1
    BY <1>2, <1>5, <1>7, <2>1 DEF h
  <2>2. CASE x # n + 1
    <3>1. x \in 1 .. n
      BY <2>2
    <3>2. QED
      BY <1>4, <1>5, <1>7, <3>1
  <2>3. QED
    BY <2>1, <2>2
<1>9. d = e
  BY <1>5, <1>7, <1>8, SeqEqual DEF Bytes
<1>10. QED
  BY <1>4, <1>6, <1>9 DEF c, d, e, h

\* The next m bytes at once take a reader where they take it one by one.
Arrives(s, g, k, m) == Fed(g[k], SubSeq(s, k + 1, k + m)) = g[k + m]

\* That is so for a piece that a recv brings.
LEMMA PieceByBytes ==
    ASSUME NEW x, NEW s \in Bytes, NEW g, Goes(x, s, g, Len(s)),
           NEW k \in Nat, NEW m \in Nat \ {0}, k + m <= Len(s),
           ReaderRight(g[k]), m <= Wanted(g[k])
    PROVE  Arrives(s, g, k, m)
<1> DEFINE all == Len(s)
           was == g[k]
           want == Wanted(was)
           N == {n \in Nat : n + 1 <= m =>
                     Fed(was, SubSeq(s, k + 1, k + (n + 1))) = g[k + (n + 1)]}
<1>0. all \in Nat /\ want \in Int /\ k + m <= all /\ m <= want /\ ReaderRight(was)
  BY WantedRight DEF Bytes
<1> HIDE DEF was
<1>1. ASSUME NEW n \in Nat, n + 1 <= m
      PROVE  /\ k + n + 1 <= Len(s) /\ k + n \in Nat
             /\ g[k + (n + 1)] = ByByte(g[k + n], s[k + n + 1])
  <2>1. k + n + 1 \in 1 .. all /\ k + n + 1 - 1 = k + n /\ k + (n + 1) = k + n + 1 /\ k + n \in Nat
    <3> HIDE DEF all
    <3>1. QED
      BY <1>0, <1>1
  <2>2. OneByteOn(s, g, k + n + 1)
    BY <2>1 DEF Goes
  <2>3. QED
    BY <2>1, <2>2 DEF OneByteOn
<1>2. 0 \in N
  <2> DEFINE j == k + 1
             h == s[j]
  <2>1. j \in 1 .. Len(s) /\ j - 1 = k /\ k + (0 + 1) = j
    <3>1. j \in 1 .. all /\ j - 1 = k /\ k + (0 + 1) = j
      <4> HIDE DEF all
      <4>1. QED
        BY <1>0
    <3>2. QED
      BY <3>1
  <2>2. h \in Byte /\ SubSeq(s, j, j) = <<h>>
    <3> HIDE DEF j
    <3>1. QED
      BY <2>1, OneByte DEF Bytes
  <2>3. g[j] = ByByte(was, h)
    <3>1. OneByteOn(s, g, j)
      <4> HIDE DEF j
      <4>1. QED
        BY <2>1 DEF Goes
    <3>2. QED
      BY <2>1, <3>1 DEF OneByteOn, was
  <2>4. ByByte(was, h) = Fed(was, <<h>>)
    <3>1. want > 0
      <4> HIDE DEF want
      <4>1. QED
        BY <1>0
    <3>2. QED
      BY <3>1 DEF ByByte
  <2>5. Fed(was, SubSeq(s, j, j)) = g[j]
    BY <2>2, <2>3, <2>4, Zenon
  <2>6. QED
    BY <2>1, <2>5
<1>3. ASSUME NEW n \in N PROVE n + 1 \in N
  <2>1. n \in Nat /\ (n + 1 <= m => Fed(was, SubSeq(s, k + 1, k + (n + 1))) = g[k + (n + 1)])
    OBVIOUS
  <2> DEFINE l == n + 1
  <2>2. l \in Nat /\ l > 0
    BY <2>1
  <2> SUFFICES ASSUME l + 1 <= m
               PROVE  Fed(was, SubSeq(s, k + 1, k + (l + 1))) = g[k + (l + 1)]
    BY <2>2
  <2> HIDE DEF N
  <2>3. l <= m
    <3> HIDE DEF l
    <3>1. QED
      BY <2>2
  <2>4. Fed(was, SubSeq(s, k + 1, k + l)) = g[k + l]
    BY <2>1, <2>3
  <2> HIDE DEF l
  <2>5. k + l + 1 <= Len(s) /\ k + l \in Nat /\ g[k + (l + 1)] = ByByte(g[k + l], s[k + l + 1])
    BY <1>1, <2>2
  <2> DEFINE c == SubSeq(s, k + 1, k + l)
             h == s[k + l + 1]
             d == SubSeq(s, k + 1, k + (l + 1))
  <2>6. c \in Bytes /\ Len(c) = l /\ h \in Byte /\ d = c \o <<h>>
    BY <2>2, <2>5, PieceLonger
  <2>7. 0 < l /\ l < want
    <3> HIDE DEF want
    <3>1. QED
      BY <1>0, <2>2
  <2> HIDE DEF c, h, d
  <2>8. 0 < Len(c) /\ Len(c) < Wanted(was)
    BY <2>6, <2>7 DEF want
  <2>9. Fed(was, c \o <<h>>) = ByByte(Fed(was, c), h)
    BY <1>0, <2>6, <2>8, PieceAndByte
  <2>10. Fed(was, c) = g[k + l] /\ g[k + (l + 1)] = ByByte(g[k + l], h)
    BY <2>4, <2>5 DEF c, h
  <2>11. Fed(was, d) = g[k + (l + 1)]
    BY <2>6, <2>9, <2>10
  <2>12. QED
    BY <2>11 DEF d
<1> HIDE DEF N
<1>4. N = Nat
  <2>1. N \in SUBSET Nat
    BY DEF N
  <2>2. QED
    BY <1>2, <1>3, <2>1, AllNumbers
<1>5. m - 1 \in N /\ m - 1 \in Nat
  BY <1>4
<1>6. m - 1 + 1 <= m /\ m - 1 + 1 = m
  OBVIOUS
<1>7. Fed(was, SubSeq(s, k + 1, k + m)) = g[k + m]
  BY <1>5, <1>6 DEF N
<1>8. QED
  BY <1>7 DEF was, Arrives

-----------------------------------------------------------------------------
(* After the last byte that is asked for. *)

\* Nothing handed on.
LEMMA HandsOnNothing ==
    ASSUME NEW x, ReaderRight(x)
    PROVE  HandsOn(x, <<>>) = x
<1> DEFINE y == HandsOn(x, <<>>)
<1>1. IsReader(x) /\ x.handed \in Bytes
  BY DEF ReaderRight
<1>2. /\ IsReader(y) /\ y.phase = x.phase /\ y.buf = x.buf /\ y.got = x.got
      /\ y.handed = x.handed \o <<>>
  <2> DEFINE none == <<>>
  <2>1. y = HandsOn(x, none)
    OBVIOUS
  <2> HIDE DEF none, y
  <2>2. /\ IsReader(y) /\ y.phase = x.phase /\ y.buf = x.buf /\ y.got = x.got
        /\ y.handed = x.handed \o none
    BY <1>1, <2>1, HandsOnFields
  <2>3. QED
    BY <2>2 DEF none
<1> HIDE DEF y
<1>3. y.handed = x.handed
  <2> DEFINE u == x.handed
  <2> HIDE DEF u
  <2>1. u \o <<>> = u
    BY <1>1, NoBytes DEF u
  <2>2. QED
    BY <1>2, <2>1 DEF u
<1>4. y = x
  BY <1>1, <1>2, <1>3, SameReader
<1>5. QED
  BY <1>4 DEF y

\* Handed on in two pieces or in one.
LEMMA HandsOnTwice ==
    ASSUME NEW x, ReaderRight(x), NEW c \in Bytes, NEW d \in Bytes
    PROVE  HandsOn(HandsOn(x, c), d) = HandsOn(x, c \o d)
<1> DEFINE y == HandsOn(x, c)
           z == HandsOn(y, d)
           e == c \o d
           w == HandsOn(x, e)
<1>1. IsReader(x) /\ x.handed \in Bytes
  BY DEF ReaderRight
<1>2. /\ IsReader(y) /\ y.phase = x.phase /\ y.buf = x.buf /\ y.got = x.got
      /\ y.handed = x.handed \o c
  BY <1>1, HandsOnFields
<1> HIDE DEF y
<1>3. /\ IsReader(z) /\ z.phase = y.phase /\ z.buf = y.buf /\ z.got = y.got
      /\ z.handed = y.handed \o d
  BY <1>2, HandsOnFields
<1>4. /\ IsReader(w) /\ w.phase = x.phase /\ w.buf = x.buf /\ w.got = x.got
      /\ w.handed = x.handed \o e
  <2> HIDE DEF e
  <2>1. QED
    BY <1>1, HandsOnFields
<1>5. (x.handed \o c) \o d = x.handed \o e
  <2> DEFINE b == x.handed
  <2>1. b \in Seq(Byte) /\ c \in Seq(Byte) /\ d \in Seq(Byte)
    BY <1>1 DEF Bytes
  <2> HIDE DEF b
  <2>2. (b \o c) \o d = b \o (c \o d)
    BY <2>1, ConcatAssociative
  <2>3. QED
    BY <2>2 DEF b
<1> HIDE DEF z, w, e
<1>6. z = w
  BY <1>2, <1>3, <1>4, <1>5, SameReader, Zenon
<1>7. QED
  BY <1>6 DEF y, z, w, e

\* A reader that asks for no more.
Goal(x) == x.phase \in {"served", "fallback"}

\* What such a reader is when more has come.
Passing(x, c) == IF Goal(x) THEN HandsOn(x, c) ELSE x

\* And one byte more.
LEMMA PassesByByte ==
    ASSUME NEW x, ReaderRight(x), Wanted(x) = 0, NEW c \in Bytes, NEW h \in Byte
    PROVE  ByByte(Passing(x, c), h) = Passing(x, c \o <<h>>)
<1> DEFINE y == HandsOn(x, c)
<1>1. CASE Goal(x)
  <2>1. y.phase = x.phase
    BY HandsOnFields DEF ReaderRight
  <2> HIDE DEF y
  <2>2. Wanted(y) = 0
    BY <1>1, <2>1 DEF Wanted, Goal
  <2>3. ByByte(y, h) = HandsOn(y, <<h>>)
    BY <1>1, <2>1, <2>2 DEF ByByte, Goal
  <2>4. HandsOn(y, <<h>>) = HandsOn(x, c \o <<h>>)
    <3> DEFINE one == <<h>>
    <3>1. one \in Bytes
      BY Singleton
    <3> HIDE DEF one
    <3>2. HandsOn(HandsOn(x, c), one) = HandsOn(x, c \o one)
      BY <3>1, HandsOnTwice
    <3>3. QED
      BY <3>2 DEF one, y
  <2>5. Passing(x, c) = y /\ Passing(x, c \o <<h>>) = HandsOn(x, c \o <<h>>)
    BY <1>1 DEF Passing, y
  <2>6. QED
    BY <2>3, <2>4, <2>5, Zenon
<1>2. CASE ~Goal(x)
  <2>1. ByByte(x, h) = x
    BY <1>2 DEF ByByte, Goal
  <2>2. QED
    BY <1>2, <2>1 DEF Passing
<1>3. QED
  BY <1>1, <1>2

\* What is left of the stream goes to the relay or the fallback, or nowhere.
LEMMA RestPasses ==
    ASSUME NEW x, NEW s \in Bytes, NEW g, Goes(x, s, g, Len(s)),
           NEW k \in Nat, k <= Len(s), ReaderRight(g[k]), Wanted(g[k]) = 0
    PROVE  g[Len(s)] = Passing(g[k], From(s, k + 1))
<1> DEFINE all == Len(s)
           was == g[k]
           N == {n \in Nat : k + n <= all => g[k + n] = Passing(was, SubSeq(s, k + 1, k + n))}
<1>0. all \in Nat /\ k <= all
  BY DEF Bytes
<1>1. 0 \in N
  <2>1. SubSeq(s, k + 1, k + 0) = <<>>
    <3>1. k + 0 = k /\ k < k + 1
      OBVIOUS
    <3>2. SubSeq(s, k + 1, k) = <<>>
      BY <3>1, SubSeqEmpty DEF Bytes
    <3>3. QED
      BY <3>1, <3>2
  <2>2. Passing(was, <<>>) = was
    BY HandsOnNothing DEF Passing
  <2>3. k + 0 = k
    OBVIOUS
  <2>4. g[k + 0] = Passing(was, SubSeq(s, k + 1, k + 0))
    <3> HIDE DEF was
    <3>1. g[k + 0] = was
      BY <2>3 DEF was
    <3>2. QED
      BY <2>1, <2>2, <3>1, Zenon
  <2>5. QED
    BY <2>4
<1>2. ASSUME NEW n \in N PROVE n + 1 \in N
  <2>1. n \in Nat /\ (k + n <= all => g[k + n] = Passing(was, SubSeq(s, k + 1, k + n)))
    OBVIOUS
  <2> HIDE DEF N
  <2>2. ASSUME k + (n + 1) <= all
        PROVE  g[k + (n + 1)] = Passing(was, SubSeq(s, k + 1, k + (n + 1)))
    <3> DEFINE c == SubSeq(s, k + 1, k + n)
               h == s[k + n + 1]
               j == k + n + 1
    <3>1. j <= all /\ k + n <= all /\ j \in 1 .. all /\ j - 1 = k + n /\ k + (n + 1) = j
      <4> HIDE DEF all
      <4>1. QED
        BY <1>0, <2>1, <2>2
    <3>2. c \in Bytes /\ h \in Byte /\ SubSeq(s, k + 1, k + (n + 1)) = c \o <<h>>
      <4>1. k + n + 1 <= Len(s)
        BY <3>1
      <4>2. QED
        BY <2>1, <4>1, PieceLonger
    <3>3. g[j] = ByByte(g[k + n], h)
      <4>1. OneByteOn(s, g, j)
        <5> HIDE DEF j
        <5>1. QED
          BY <3>1 DEF Goes
      <4>2. QED
        BY <3>1, <4>1 DEF OneByteOn
    <3>4. g[k + n] = Passing(was, c)
      BY <2>1, <3>1
    <3> HIDE DEF c, h, j, was
    <3>5. ByByte(Passing(was, c), h) = Passing(was, c \o <<h>>)
      BY <3>2, PassesByByte DEF was
    <3>6. QED
      BY <3>1, <3>2, <3>3, <3>4, <3>5, Zenon
  <2>3. n + 1 \in Nat
    BY <2>1
  <2>4. QED
    BY <2>2, <2>3 DEF N
<1> HIDE DEF N
<1>3. N = Nat
  <2>1. N \in SUBSET Nat
    BY DEF N
  <2>2. QED
    BY <1>1, <1>2, <2>1, AllNumbers
<1> DEFINE m == all - k
<1>4. m \in Nat /\ k + m = all
  <2> HIDE DEF all
  <2>1. QED
    BY <1>0
<1> HIDE DEF m, was
<1>5. g[k + m] = Passing(was, SubSeq(s, k + 1, k + m))
  <2>1. m \in N /\ k + m <= all
    <3>1. m \in N
      BY <1>3, <1>4
    <3> HIDE DEF all
    <3>2. QED
      BY <1>0, <1>4, <3>1
  <2>2. QED
    BY <2>1 DEF N
<1>6. QED
  BY <1>4, <1>5 DEF From, was

\* How a reader that has some of the stream compares with one that has all.
ComesTo(x, rest, z) ==
    /\ x.phase = z.phase /\ x.got = z.got /\ x.buf = z.buf
    /\ x.phase \in {"served", "fallback"} => x.handed \o rest = z.handed

\* It comes to the same as soon as nothing more can come.
LEMMA AllComesToOne ==
    ASSUME NEW x, NEW s \in Bytes, NEW g, Goes(x, s, g, Len(s)),
           NEW k \in Nat, k <= Len(s), ReaderRight(g[k]), Wanted(g[k]) = 0 \/ k = Len(s)
    PROVE  ComesTo(g[k], From(s, k + 1), g[Len(s)])
<1> DEFINE was == g[k]
           last == g[Len(s)]
           rest == From(s, k + 1)
<1>1. CASE Wanted(was) = 0
  <2>1. last = Passing(was, rest)
    BY <1>1, RestPasses
  <2>2. IsReader(was)
    BY DEF ReaderRight
  <2> HIDE DEF was, last, rest
  <2>3. CASE Goal(was)
    <3>1. last = HandsOn(was, rest)
      BY <2>1, <2>3 DEF Passing
    <3>2. /\ last.phase = was.phase /\ last.buf = was.buf /\ last.got = was.got
          /\ last.handed = was.handed \o rest
      BY <2>2, <3>1, HandsOnFields
    <3>3. QED
      BY <3>2, Zenon DEF ComesTo, was, last, rest
  <2>4. CASE ~Goal(was)
    <3>1. last = was
      BY <2>1, <2>4 DEF Passing
    <3>2. ComesTo(was, rest, last)
      BY <2>4, <3>1 DEF ComesTo, Goal
    <3>3. QED
      BY <3>2 DEF was, last, rest
  <2>5. QED
    BY <2>3, <2>4
<1>2. CASE k = Len(s)
  <2>1. last = was
    BY <1>2
  <2>2. rest = <<>>
    <3>1. Len(s) < k + 1
      BY <1>2
    <3>2. SubSeq(s, k + 1, Len(s)) = <<>>
      <4> DEFINE m == Len(s)
      <4>1. m \in Int /\ k + 1 \in Int /\ m < k + 1
        BY <1>2, <3>1
      <4> HIDE DEF m
      <4>2. SubSeq(s, k + 1, m) = <<>>
        BY <4>1, SubSeqEmpty DEF Bytes
      <4>3. QED
        BY <4>2 DEF m
    <3>3. QED
      BY <3>2 DEF From
  <2>3. was.handed \in Bytes
    BY DEF ReaderRight
  <2> HIDE DEF was, last, rest
  <2> DEFINE u == was.handed
  <2> HIDE DEF u
  <2>4. u \o <<>> = u
    BY <2>3, NoBytes DEF u
  <2>5. was.handed \o rest = last.handed
    BY <2>1, <2>2, <2>4 DEF u
  <2>6. ComesTo(was, rest, last)
    BY <2>1, <2>5, Zenon DEF ComesTo
  <2>7. QED
    BY <2>6 DEF was, last, rest
<1>3. QED
  BY <1>1, <1>2

-----------------------------------------------------------------------------
(* The two readers. *)

\* The reader that gets the script byte by byte.
Walks(g) == Goes(Start(script), script.stream, g, Len(script.stream))

\* Both readers, wherever they are, are where that reader is or was.
CutsInv ==
    /\ FramingInv
    /\ wholeTaken \in 0 .. Len(script.stream) /\ ReaderRight(whole)
    /\ \E g : /\ Walks(g)
              /\ whole = g[wholeTaken]
              /\ r.phase = "gone" \/ r = g[taken]

\* As long as the script is the same, so is that reader.
LEMMA WalksOn ==
    ASSUME NEW g, Walks(g), script' = script
    PROVE  Walks(g)'
<1>1. ASSUME NEW y PROVE ClassifyInbound(y)' = ClassifyInbound(y) /\ Method(y)' = Method(y)
  BY DEF ClassifyInbound, Method
<1>2. ASSUME NEW x, NEW c PROVE Fed(x, c)' = Fed(x, c)
  BY <1>1 DEF Fed
<1>3. ASSUME NEW x, NEW h PROVE ByByte(x, h)' = ByByte(x, h)
  BY <1>2 DEF ByByte
<1>4. ASSUME NEW s, NEW i PROVE OneByteOn(s, g, i)' <=> OneByteOn(s, g, i)
  BY <1>3 DEF OneByteOn
<1>5. ASSUME NEW x, NEW s, NEW n PROVE Goes(x, s, g, n)' <=> Goes(x, s, g, n)
  BY <1>4 DEF Goes
<1>6. QED
  BY <1>5 DEF Walks

\* At first.
LEMMA CutsInvHoldsFirst == CutsInit => CutsInv
<1> SUFFICES ASSUME CutsInit PROVE CutsInv
  OBVIOUS
<1>1. Init /\ wholeTaken = 0 /\ whole = Start(script) /\ r = Start(script) /\ taken = 0
  BY DEF CutsInit, Init
<1>2. FramingInv
  BY <1>1, InvHoldsFirst
<1>3. Len(script.stream) \in Nat
  BY <1>1, StreamOf DEF Init
<1>4. PICK g : Walks(g)
  BY <1>3, GoesSomewhere DEF Walks
<1>5. g[0] = Start(script)
  BY <1>4 DEF Walks, Goes
<1>6. ReaderRight(whole)
  BY <1>1, <1>2 DEF FramingInv
<1>7. whole = g[wholeTaken] /\ r = g[taken]
  BY <1>1, <1>5
<1>8. wholeTaken \in 0 .. Len(script.stream)
  BY <1>1, <1>3
<1>9. QED
  BY <1>2, <1>4, <1>6, <1>7, <1>8 DEF CutsInv

\* How much a recv brings.
LEMMA BringsIs ==
    ASSUME NEW x, ReaderRight(x), NEW k \in Int, NEW n \in Int, Len(script.stream) \in Nat
    PROVE  /\ Brings(x, k, n) \in Int
           /\ Brings(x, k, n) <= Wanted(x) /\ Brings(x, k, n) <= Len(script.stream) - k
<1> DEFINE want == Wanted(x)
           left == Len(script.stream) - k
           m == Brings(x, k, n)
<1>1. m = Min({n, want, left}) /\ left \in Int /\ want \in Int
  BY WantedRight DEF Brings
<1> HIDE DEF want, left, m
<1>2. m \in Int /\ m <= want /\ m <= left
  BY <1>1, LeastOfThree
<1>3. QED
  BY <1>2 DEF m, want, left

\* Where that takes a reader, and that it is right there.
LEMMA BringsOn ==
    ASSUME NEW s \in Bytes, NEW g, NEW x, Goes(x, s, g, Len(s)),
           NEW k \in 0 .. Len(s), ReaderRight(g[k]),
           NEW m \in Int, m > 0, m <= Wanted(g[k]), m <= Len(s) - k
    PROVE  /\ k + m \in 0 .. Len(s)
           /\ Fed(g[k], SubSeq(s, k + 1, k + m)) = g[k + m]
           /\ ReaderRight(g[k + m])
<1> DEFINE all == Len(s)
           end == k + m
           c == SubSeq(s, k + 1, end)
<1>1. all \in Nat
  BY DEF Bytes
<1>2. k \in Nat /\ k <= all
  BY <1>1
<1>3. m > 0 /\ m <= all - k
  OBVIOUS
<1>4. /\ m \in Nat \ {0} /\ end \in 0 .. all /\ end \in k .. all /\ end - k = m
      /\ k \in 0 .. all /\ end <= all
  <2> HIDE DEF all
  <2>1. QED
    BY <1>1, <1>2, <1>3
<1>5. Fed(g[k], c) = g[end]
  <2>1. k + m <= Len(s)
    BY <1>4
  <2>2. m \in Nat \ {0} /\ k \in Nat
    BY <1>2, <1>4
  <2>3. Arrives(s, g, k, m)
    BY <2>1, <2>2, PieceByBytes
  <2>4. QED
    BY <2>3 DEF Arrives
<1>6. c \in Bytes /\ Len(c) = m
  <2> HIDE DEF end
  <2>1. QED
    BY <1>4, Part
<1>7. ReaderRight(Fed(g[k], c))
  <2>1. Len(c) > 0 /\ Len(c) <= Wanted(g[k])
    BY <1>6
  <2> HIDE DEF c
  <2>2. QED
    BY <1>6, <2>1, FedRight DEF Becomes
<1>8. QED
  BY <1>4, <1>5, <1>7

\* When the first reader gets what there is.
LEMMA AllAtOnceKeepsInv ==
    ASSUME CutsInv, AllAtOnce
    PROVE  CutsInv'
<1> DEFINE s == script.stream
           m == Brings(whole, wholeTaken, Len(s))
           end == wholeTaken + m
<1>1. /\ m > 0 /\ whole' = Fed(whole, SubSeq(s, wholeTaken + 1, end)) /\ wholeTaken' = end
      /\ script' = script /\ taken' = taken /\ r' = r
  BY DEF AllAtOnce, framingVars
<1>2. PICK g : Walks(g) /\ whole = g[wholeTaken] /\ (r.phase = "gone" \/ r = g[taken])
  BY DEF CutsInv
<1>3. s \in Bytes /\ Len(s) \in Int /\ wholeTaken \in 0 .. Len(s) /\ ReaderRight(whole)
  BY StreamOf DEF CutsInv, FramingInv
<1>4. m \in Int /\ m <= Wanted(whole) /\ m <= Len(s) - wholeTaken
  BY <1>3, BringsIs
<1>5. Goes(Start(script), s, g, Len(s))
  BY <1>2 DEF Walks
<1> HIDE DEF s, m
<1>6. end \in 0 .. Len(s) /\ Fed(whole, SubSeq(s, wholeTaken + 1, end)) = g[end] /\ ReaderRight(g[end])
  BY <1>1, <1>2, <1>3, <1>4, <1>5, BringsOn
<1>7. whole' = g[wholeTaken'] /\ wholeTaken' \in 0 .. Len(script'.stream)
  BY <1>1, <1>6 DEF s
<1>8. ReaderRight(whole)'
  <2>1. whole' = g[end]
    BY <1>1, <1>6
  <2>2. QED
    BY <1>6, <2>1 DEF ReaderRight
<1>9. FramingInv'
  BY <1>1, InvKept DEF CutsInv, framingVars
<1>10. Walks(g)'
  BY <1>1, <1>2, WalksOn
<1>11. r'.phase = "gone" \/ r' = g[taken']
  BY <1>1, <1>2
<1>12. QED
  BY <1>7, <1>8, <1>9, <1>10, <1>11 DEF CutsInv

\* When the second reader gets a piece.
LEMMA PieceKeepsInv ==
    ASSUME CutsInv, InPieces, NEW n \in Sizes, Recv(n)
    PROVE  CutsInv'
<1> DEFINE s == script.stream
           m == Brings(r, taken, n)
           end == taken + m
<1>1. /\ m > 0 /\ r' = Fed(r, SubSeq(s, taken + 1, end)) /\ taken' = end
      /\ script' = script /\ wholeTaken' = wholeTaken /\ whole' = whole
  BY DEF InPieces, Recv
<1>2. PICK g : Walks(g) /\ whole = g[wholeTaken] /\ (r.phase = "gone" \/ r = g[taken])
  BY DEF CutsInv
<1>3. s \in Bytes /\ n \in Int /\ taken \in 0 .. Len(s) /\ ReaderRight(r) /\ Len(s) \in Nat
  BY StreamOf, FramingAssumption DEF CutsInv, FramingInv
<1>4. m \in Int /\ m <= Wanted(r) /\ m <= Len(s) - taken
  BY <1>3, BringsIs
<1>5. Goes(Start(script), s, g, Len(s))
  BY <1>2 DEF Walks
<1>6. r = g[taken]
  <2> DEFINE want == Wanted(r)
  <2>1. want \in Int /\ m <= want /\ m > 0
    BY <1>1, <1>3, <1>4, WantedRight
  <2> HIDE DEF want, m
  <2>2. want > 0
    BY <1>4, <2>1
  <2>3. r.phase # "gone"
    BY <2>2 DEF Wanted, want
  <2>4. QED
    BY <1>2, <2>3
<1> HIDE DEF s, m
<1>7. end \in 0 .. Len(s) /\ Fed(r, SubSeq(s, taken + 1, end)) = g[end]
  BY <1>1, <1>3, <1>4, <1>5, <1>6, BringsOn
<1>8. r' = g[taken']
  BY <1>1, <1>7
<1>9. FramingInv'
  <2>1. [Next]_framingVars
    BY DEF Next
  <2>2. QED
    BY <2>1, InvKept DEF CutsInv
<1>10. Walks(g)'
  BY <1>1, <1>2, WalksOn
<1>11. /\ whole' = g[wholeTaken'] /\ wholeTaken' \in 0 .. Len(script'.stream)
       /\ ReaderRight(whole)'
  <2>1. wholeTaken \in 0 .. Len(script.stream) /\ ReaderRight(whole)
    BY DEF CutsInv
  <2>2. QED
    BY <1>1, <1>2, <2>1 DEF ReaderRight
<1>12. QED
  BY <1>8, <1>9, <1>10, <1>11 DEF CutsInv

\* When the peer closes.
LEMMA ClosingKeepsCutsInv ==
    ASSUME CutsInv, InPieces, PeerCloses
    PROVE  CutsInv'
<1>1. /\ r' = Refuse(r, "gone") /\ script' = script /\ taken' = taken
      /\ wholeTaken' = wholeTaken /\ whole' = whole
  BY DEF InPieces, PeerCloses
<1>2. PICK g : Walks(g) /\ whole = g[wholeTaken]
  BY DEF CutsInv
<1>3. r'.phase = "gone"
  <2>1. IsReader(r)
    BY DEF CutsInv, FramingInv, ReaderRight
  <2>2. Refuse(r, "gone").phase = "gone"
    BY <2>1, RefuseFields
  <2>3. QED
    BY <1>1, <2>2
<1>4. FramingInv'
  <2>1. [Next]_framingVars
    BY DEF Next
  <2>2. QED
    BY <2>1, InvKept DEF CutsInv
<1>5. Walks(g)'
  BY <1>1, <1>2, WalksOn
<1>6. /\ whole' = g[wholeTaken'] /\ wholeTaken' \in 0 .. Len(script'.stream)
      /\ ReaderRight(whole)'
  <2>1. wholeTaken \in 0 .. Len(script.stream) /\ ReaderRight(whole)
    BY DEF CutsInv
  <2>2. QED
    BY <1>1, <1>2, <2>1 DEF ReaderRight
<1>7. QED
  BY <1>3, <1>4, <1>5, <1>6 DEF CutsInv

\* Every step keeps it.
LEMMA CutsInvKept == CutsInv /\ [CutsNext]_cutsVars => CutsInv'
<1> SUFFICES ASSUME CutsInv, [CutsNext]_cutsVars PROVE CutsInv'
  OBVIOUS
<1>1. CASE AllAtOnce
  BY <1>1, AllAtOnceKeepsInv
<1>2. CASE InPieces /\ PeerCloses
  BY <1>2, ClosingKeepsCutsInv
<1>3. ASSUME NEW n \in Sizes, InPieces, Recv(n) PROVE CutsInv'
  BY <1>3, PieceKeepsInv
<1>4. CASE UNCHANGED cutsVars
  <2>1. /\ script' = script /\ taken' = taken /\ r' = r
        /\ wholeTaken' = wholeTaken /\ whole' = whole /\ UNCHANGED framingVars
    BY <1>4 DEF cutsVars, framingVars
  <2>2. PICK g : Walks(g) /\ whole = g[wholeTaken] /\ (r.phase = "gone" \/ r = g[taken])
    BY DEF CutsInv
  <2>3. Walks(g)'
    BY <2>1, <2>2, WalksOn
  <2>4. FramingInv'
    BY <2>1, InvKept DEF CutsInv
  <2>5. wholeTaken' \in 0 .. Len(script'.stream) /\ ReaderRight(whole)'
    <3>1. wholeTaken \in 0 .. Len(script.stream) /\ ReaderRight(whole)
      BY DEF CutsInv
    <3>2. QED
      BY <2>1, <3>1 DEF ReaderRight
  <2>6. QED
    BY <2>1, <2>2, <2>3, <2>4, <2>5 DEF CutsInv
<1>5. QED
  BY <1>1, <1>2, <1>3, <1>4 DEF CutsNext

\* However the network cuts the stream, what is understood, the end it comes to and
\* what relay and fallback get are those of a reader that gets all it asks for: for
\* every stream and script, all sizes of pieces and buffers.
THEOREM CutsAreInvisible == CutsSpec => []CutsDoNotMatter
<1>1. ASSUME CutsInv PROVE CutsDoNotMatter
  <2> SUFFICES ASSUME HasAll(whole, wholeTaken), AllRead
               PROVE  /\ r.phase = whole.phase /\ r.got = whole.got /\ r.buf = whole.buf
                      /\ r.phase \in {"served", "fallback"} =>
                             r.handed \o From(script.stream, taken + 1)
                                 = whole.handed \o From(script.stream, wholeTaken + 1)
    BY DEF CutsDoNotMatter
  <2> DEFINE s == script.stream
             first == From(s, wholeTaken + 1)
             second == From(s, taken + 1)
  <2>1. PICK g : Walks(g) /\ whole = g[wholeTaken] /\ (r.phase = "gone" \/ r = g[taken])
    BY <1>1 DEF CutsInv
  <2>2. /\ s \in Bytes /\ Len(s) \in Nat /\ wholeTaken \in 0 .. Len(s) /\ taken \in 0 .. Len(s)
        /\ ReaderRight(whole) /\ ReaderRight(r)
    BY <1>1, StreamOf DEF CutsInv, FramingInv
  <2>3. /\ wholeTaken \in Nat /\ wholeTaken <= Len(s) /\ taken \in Nat /\ taken <= Len(s)
    BY <2>2
  <2>4. /\ r = g[taken] /\ (Wanted(r) = 0 \/ taken = Len(s))
        /\ Wanted(whole) = 0 \/ wholeTaken = Len(s)
    BY <2>1 DEF HasAll, AllRead
  <2>5. Goes(Start(script), s, g, Len(s))
    BY <2>1 DEF Walks
  <2> DEFINE last == g[Len(s)]
  <2> HIDE DEF s
  <2>6. ComesTo(whole, first, last)
    BY <2>1, <2>2, <2>3, <2>4, <2>5, AllComesToOne
  <2>7. ComesTo(r, second, last)
    BY <2>2, <2>3, <2>4, <2>5, AllComesToOne
  <2> HIDE DEF first, second, last
  <2>8. /\ r.phase = whole.phase /\ r.got = whole.got /\ r.buf = whole.buf
        /\ r.phase \in {"served", "fallback"} => r.handed \o second = whole.handed \o first
    BY <2>6, <2>7 DEF ComesTo
  <2>9. QED
    BY <2>8 DEF first, second, s
<1>2. CutsSpec => []CutsInv
  BY CutsInvHoldsFirst, CutsInvKept, PTL DEF CutsSpec
<1>3. QED
  BY <1>1, <1>2, PTL

\* The second reader is a reader as in Framing, and what holds of those holds of it.
THEOREM CutsAreReadings == CutsSpec => Spec
<1>1. CutsInit => Init
  BY DEF CutsInit
<1>2. [CutsNext]_cutsVars => [Next]_framingVars
  BY DEF CutsNext, AllAtOnce, Next, cutsVars
<1>3. QED
  BY <1>1, <1>2, PTL DEF CutsSpec, Spec

\* And so it stays well formed.
COROLLARY CutsTypeCorrect == CutsSpec => []TypeOK
  BY CutsAreReadings, FramingTypeCorrect, PTL

\* And loses nothing.
COROLLARY CutsReadBack == CutsSpec => []ReadsBackAsWritten
  BY CutsAreReadings, ReadBack, PTL
=============================================================================
