---------------------------- MODULE PeersProofs -----------------------------
(***************************************************************************)
(* A peer that keeps to its protocol is understood, however the network    *)
(* cuts what it sends.  By FramingProofs it is enough to follow the reader *)
(* that gets the stream byte by byte.  Between two messages that reader    *)
(* stands with nothing in its buffer (Stands); the verdict on every front  *)
(* of the next message asks for more, and never for more than the message  *)
(* (Expects), so that it has the whole message and no byte beyond it when  *)
(* it is handled; and what it then reads is what was written.  Frames are  *)
(* an induction on their number, ports on their digits.                    *)
(***************************************************************************)
EXTENDS FramingProofs

-----------------------------------------------------------------------------
(* One message: the reader that gets the stream byte by byte reads it at once. *)

\* A piece that stands behind the first k bytes.
PieceAt(s, k, p) == k + Len(p) <= Len(s) /\ SubSeq(s, k + 1, k + Len(p)) = p

\* What a right reader makes of what it asks for is right.
LEMMA FedStaysRight ==
    ASSUME NEW x, ReaderRight(x), NEW c \in Bytes, Len(c) > 0, Len(c) <= Wanted(x)
    PROVE  ReaderRight(Fed(x, c))
  BY FedRight DEF Becomes

\* A piece that may come at once is read at once.
LEMMA PieceTaken ==
    ASSUME NEW x, NEW s \in Bytes, NEW g, Goes(x, s, g, Len(s)), NEW k \in Nat,
           NEW p \in Bytes, Len(p) > 0, PieceAt(s, k, p),
           ReaderRight(g[k]), Len(p) <= Wanted(g[k])
    PROVE  g[k + Len(p)] = Fed(g[k], p) /\ ReaderRight(g[k + Len(p)])
<1> DEFINE m == Len(p)
           was == g[k]
<1>1. m \in Nat \ {0} /\ k + m <= Len(s) /\ SubSeq(s, k + 1, k + m) = p /\ m <= Wanted(was)
  BY DEF PieceAt, Bytes
<1>2. ReaderRight(Fed(was, p))
  BY FedStaysRight
<1> HIDE DEF m
<1>3. Arrives(s, g, k, m)
  BY <1>1, PieceByBytes
<1>4. g[k + m] = Fed(was, p)
  BY <1>1, <1>3, Zenon DEF Arrives
<1>5. QED
  BY <1>2, <1>4 DEF m

\* The reader takes the next byte of a piece.
Takes(g, k, p, i) == g[k + i] = ByByte(g[k + i - 1], p[i])

\* Each in its turn.
LEMMA ByteTaken ==
    ASSUME NEW x, NEW s \in Bytes, NEW g, Goes(x, s, g, Len(s)), NEW k \in Nat,
           NEW p \in Bytes, PieceAt(s, k, p), NEW i \in 1 .. Len(p)
    PROVE  Takes(g, k, p, i)
<1> DEFINE m == Len(p)
           n == Len(s)
<1>1. m \in Nat /\ n \in Nat /\ k + m <= n /\ i \in Nat /\ 1 <= i /\ i <= m
      /\ SubSeq(s, k + 1, k + m) = p
  BY DEF PieceAt, Bytes
<1> HIDE DEF m, n
<1>2. k + i \in 1 .. n /\ k \in 0 .. n /\ k + m \in k .. n /\ i \in 1 .. m /\ i \in 1 .. (k + m) - k
  BY <1>1
<1>3. p[i] = s[k + i]
  <2> DEFINE j == k + m
  <2>1. j \in k .. n /\ i \in 1 .. j - k /\ SubSeq(s, k + 1, j) = p
    BY <1>1, <1>2
  <2> HIDE DEF j
  <2>2. \A y \in 1 .. j - k : SubSeq(s, k + 1, j)[y] = s[k + y]
    BY <1>2, <2>1, Part DEF n
  <2>3. QED
    BY <2>1, <2>2
<1>4. OneByteOn(s, g, k + i)
  BY <1>2 DEF Goes, n
<1>5. QED
  BY <1>3, <1>4 DEF OneByteOn, Takes

-----------------------------------------------------------------------------
(* A message that is read in as many pieces as there are questions to ask. *)

\* With so many of its bytes, but not all, a reader waits for more.
Waits(x, b) == Handle(x.phase, Filled(x, b)) = Filled(x, b) /\ Wanted(Filled(x, b)) > 0

\* A front of a message and its next byte.
LEMMA FrontAndByte ==
    ASSUME NEW d \in Bytes, NEW i \in 1 .. Len(d)
    PROVE  /\ SubSeq(d, 1, i - 1) \in Bytes /\ d[i] \in Byte
           /\ SubSeq(d, 1, i - 1) \o <<d[i]>> = SubSeq(d, 1, i)
<1> DEFINE j == i - 1
           m == Len(d)
<1>1. m \in Nat /\ j \in Nat /\ i = j + 1 /\ j + 1 <= m /\ i \in 1 .. m
  BY DEF Bytes
<1>2. d[i] \in Byte
  BY DEF Bytes
<1> HIDE DEF j, m
<1>3. 0 + j + 1 <= m /\ 0 + 1 = 1 /\ 0 + j = j /\ 0 + (j + 1) = j + 1 /\ 0 + j + 1 = j + 1
  BY <1>1
<1>4. /\ SubSeq(d, 0 + 1, 0 + j) \in Bytes
      /\ SubSeq(d, 0 + 1, 0 + (j + 1)) = SubSeq(d, 0 + 1, 0 + j) \o <<d[0 + j + 1]>>
  BY <1>1, <1>3, PieceLonger DEF m
<1>5. QED
  BY <1>1, <1>2, <1>3, <1>4 DEF j

\* A message d behind k bytes that is waited for from its byte i on.
Gathers(x, s, g, k, d, y, i) ==
    /\ s \in Bytes /\ Goes(x, s, g, Len(s)) /\ k \in Nat /\ d \in Bytes /\ PieceAt(s, k, d)
    /\ IsReader(y) /\ y.phase \in Phases /\ y.phase # "prefix" /\ y.buf = <<>>
    /\ i \in 0 .. Len(d) - 1 /\ g[k + i] = Filled(y, SubSeq(d, 1, i))
    /\ Wanted(Filled(y, SubSeq(d, 1, i))) > 0
    /\ \A j \in i + 1 .. Len(d) - 1 : Waits(y, SubSeq(d, 1, j))

\* Then it is handled when it is whole: induction on its bytes.
LEMMA Gathered ==
    ASSUME NEW x, NEW s, NEW g, NEW k, NEW d, NEW y, NEW i, Gathers(x, s, g, k, d, y, i)
    PROVE  g[k + Len(d)] = Handle(y.phase, Filled(y, d))
<1>a. /\ s \in Bytes /\ Goes(x, s, g, Len(s)) /\ k \in Nat /\ d \in Bytes /\ PieceAt(s, k, d)
      /\ IsReader(y) /\ y.phase \in Phases /\ y.phase # "prefix" /\ y.buf = <<>>
      /\ i \in 0 .. Len(d) - 1 /\ g[k + i] = Filled(y, SubSeq(d, 1, i))
      /\ Wanted(Filled(y, SubSeq(d, 1, i))) > 0
      /\ \A j \in i + 1 .. Len(d) - 1 : Waits(y, SubSeq(d, 1, j))
  BY DEF Gathers
<1> USE <1>a
<1> DEFINE m == Len(d)
           Here(j) == Filled(y, SubSeq(d, 1, j))
           N == {n \in Nat : i + n <= m - 1 => /\ g[k + (i + n)] = Here(i + n)
                                               /\ Wanted(Here(i + n)) > 0}
<1>0. m \in Nat /\ i \in Nat /\ i <= m - 1
  <2>1. m \in Nat
    BY DEF Bytes
  <2> HIDE DEF m
  <2>2. QED
    BY <2>1 DEF m
<1>1. ASSUME NEW j \in 1 .. m, g[k + (j - 1)] = Here(j - 1), Wanted(Here(j - 1)) > 0
      PROVE  g[k + j] = Handle(y.phase, Here(j))
  <2> DEFINE b == SubSeq(d, 1, j - 1)
             z == Filled(y, b)
             one == <<d[j]>>
  <2>1. b \in Bytes /\ d[j] \in Byte /\ b \o one = SubSeq(d, 1, j)
    BY FrontAndByte
  <2>2. one \in Bytes
    BY <2>1, Singleton
  <2>3. g[k + j] = ByByte(g[k + j - 1], d[j])
    <3>1. j \in 1 .. Len(d)
      OBVIOUS
    <3> HIDE DEF m, z, b, one, Here
    <3>2. Takes(g, k, d, j)
      BY <3>1, ByteTaken
    <3>3. QED
      BY <3>2 DEF Takes
  <2>4. k + j - 1 = k + (j - 1)
    BY <1>0
  <2>5. g[k + j] = ByByte(z, d[j]) /\ Wanted(z) > 0
    BY <1>1, <2>3, <2>4
  <2>6. IsReader(z) /\ z.phase = y.phase
    BY FilledFields
  <2>7. y.buf \in Bytes
    BY NoBytes
  <2>8. Filled(z, one) = Filled(y, b \o one)
    <3> HIDE DEF b, one
    <3>1. QED
      BY <2>1, <2>2, <2>7, FilledTwice
  <2> HIDE DEF z
  <2>9. g[k + j] = Fed(z, one)
    BY <2>5 DEF ByByte
  <2>10. Fed(z, one) = Handle(z.phase, Filled(z, one))
    BY <2>6, FedHandles
  <2>11. QED
    BY <2>1, <2>6, <2>8, <2>9, <2>10, Zenon
<1>2. 0 \in N
  BY <1>0
<1>3. ASSUME NEW n \in N PROVE n + 1 \in N
  <2>0. n \in Nat /\ (i + n <= m - 1 => g[k + (i + n)] = Here(i + n) /\ Wanted(Here(i + n)) > 0)
    OBVIOUS
  <2> HIDE DEF N, Here
  <2> SUFFICES ASSUME i + (n + 1) <= m - 1
               PROVE  /\ g[k + (i + (n + 1))] = Here(i + (n + 1))
                      /\ Wanted(Here(i + (n + 1))) > 0
    BY <2>0 DEF N
  <2> DEFINE j == i + (n + 1)
  <2>1. j \in 1 .. m /\ j \in i + 1 .. m - 1 /\ j - 1 = i + n /\ i + n <= m - 1
    BY <1>0, <2>0
  <2> HIDE DEF j
  <2>2. g[k + (j - 1)] = Here(j - 1) /\ Wanted(Here(j - 1)) > 0
    BY <2>0, <2>1
  <2>3. g[k + j] = Handle(y.phase, Here(j))
    BY <1>1, <2>1, <2>2
  <2>4. Handle(y.phase, Here(j)) = Here(j) /\ Wanted(Here(j)) > 0
    BY <2>1 DEF Waits, Here
  <2>5. QED
    BY <2>3, <2>4 DEF j
<1> HIDE DEF N
<1>4. N = Nat
  <2>1. N \in SUBSET Nat
    BY DEF N
  <2>2. QED
    BY <1>2, <1>3, <2>1, AllNumbers
<1> DEFINE n == m - 1 - i
<1>5. n \in Nat /\ i + n = m - 1 /\ m \in 1 .. m
  <2> HIDE DEF m
  <2>1. QED
    BY <1>0
<1> HIDE DEF n, m, Here
<1>6. g[k + (m - 1)] = Here(m - 1) /\ Wanted(Here(m - 1)) > 0
  <2>1. n \in N /\ i + n <= m - 1
    BY <1>0, <1>4, <1>5
  <2>2. g[k + (i + n)] = Here(i + n) /\ Wanted(Here(i + n)) > 0
    BY <2>1 DEF N
  <2>3. QED
    BY <1>5, <2>2
<1>7. g[k + m] = Handle(y.phase, Here(m))
  BY <1>1, <1>5, <1>6
<1>8. SubSeq(d, 1, m) = d
  BY SubSeqFull DEF Bytes, m
<1>9. QED
  BY <1>7, <1>8 DEF m, Here

-----------------------------------------------------------------------------
(* What the verdicts say of the fronts of a message. *)

\* A front of d is waited for until it is all of it.
Expects(v, b, d) ==
    IF Len(b) = Len(d) THEN v.rc = "ok" /\ v.needed = Len(d)
    ELSE v.rc = "more" /\ Len(b) < v.needed /\ v.needed <= Len(d)

\* A sequence that begins with another.
LEMMA LongerAll ==
    ASSUME NEW b \in Bytes, NEW d \in Bytes, Longer(b, d)
    PROVE  /\ Len(b) \in Nat /\ Len(d) \in Nat /\ Len(b) <= Len(d)
           /\ \A i \in 1 .. Len(b) : b[i] = d[i]
  BY DEF Longer, Bytes

\* An address behind others and before others.
LEMMA AddressAmong ==
    ASSUME NEW a, IsAddress(a), NEW w \in Bytes, NEW q \in Bytes
    PROVE  LET d == w \o PutAddr(a) \o q
               k == Len(w)
               n == Len(PutAddr(a))
           IN  /\ PutAddr(a) \in Bytes /\ n \in Nat /\ k \in Nat /\ n >= 4
               /\ n = Before(a.type) + Len(a.host) + 2 /\ Len(a.host) \in Nat
               /\ d \in Bytes /\ Len(d) = k + n + Len(q)
               /\ d[k + 1] = a.type /\ (a.type = Domain => d[k + 2] = Len(a.host))
<1> DEFINE p == PutAddr(a)
           k == Len(w)
           n == Len(p)
           wp == w \o p
           d == wp \o q
           h == Len(a.host)
           t == Before(a.type)
<1>1. h \in Nat \ {0} /\ p \in Bytes /\ n = t + h + 2 /\ p[1] = a.type
      /\ (a.type = Domain => p[2] = h)
  BY PutBytes
<1>2. t \in {1, 2} /\ (a.type = Domain => t = 2)
  BY DEF Before
<1> HIDE DEF p, h, t
<1>3. k \in Nat /\ n \in Nat /\ Len(q) \in Nat
  BY <1>1 DEF Bytes
<1>4. n >= 4 /\ 1 \in 1 .. n /\ 2 \in 1 .. n
  BY <1>1, <1>2, <1>3
<1>5. wp \in Bytes /\ Len(wp) = k + n /\ wp[k + 1] = p[1] /\ wp[k + 2] = p[2]
  BY <1>1, <1>4, Joined
<1> HIDE DEF wp
<1>6. k + 1 \in 1 .. Len(wp) /\ k + 2 \in 1 .. Len(wp)
  <2> HIDE DEF k, n
  <2>1. QED
    BY <1>3, <1>4, <1>5
<1>7. d \in Bytes /\ Len(d) = Len(wp) + Len(q) /\ d[k + 1] = wp[k + 1] /\ d[k + 2] = wp[k + 2]
  BY <1>5, <1>6, Joined
<1> HIDE DEF d
<1>8. /\ p \in Bytes /\ n \in Nat /\ k \in Nat /\ n >= 4 /\ n = t + h + 2 /\ h \in Nat
      /\ d \in Bytes /\ Len(d) = k + n + Len(q)
      /\ d[k + 1] = a.type /\ (a.type = Domain => d[k + 2] = h)
  BY <1>1, <1>3, <1>4, <1>5, <1>7
<1>9. QED
  BY <1>8 DEF p, h, t, d, wp

\* AddrLen of a front that reaches into an address a behind k bytes: the length of a
\* name must be there, then the end is known.
AddrLenAt(a, b, k) ==
    AddrLen(b, k) = IF a.type = Domain /\ Len(b) = k + 1 THEN More(k + 2)
                    ELSE Reach(b, k + Len(PutAddr(a)))

\* It says so.
LEMMA AddrLenOf ==
    ASSUME NEW a, IsAddress(a), NEW w \in Bytes, NEW q \in Bytes, NEW b \in Bytes,
           Longer(b, w \o PutAddr(a) \o q), Len(w) < Len(b)
    PROVE  AddrLenAt(a, b, Len(w))
<1> DEFINE k == Len(w)
           d == w \o PutAddr(a) \o q
           n == Len(PutAddr(a))
           h == Len(a.host)
           m == Len(b)
<1>1. /\ k \in Nat /\ n = Before(a.type) + h + 2 /\ h \in Nat /\ d \in Bytes
      /\ d[k + 1] = a.type /\ (a.type = Domain => d[k + 2] = h)
  BY AddressAmong
<1>2. HostFits(a.type, h)
  BY DEF IsAddress
<1> HIDE DEF d, n, h
<1>0. k < m
  OBVIOUS
<1> HIDE DEF k
<1> SUFFICES AddrLen(b, k) = IF a.type = Domain /\ Len(b) = k + 1 THEN More(k + 2)
                             ELSE Reach(b, k + Len(PutAddr(a)))
  BY DEF AddrLenAt, k
<1>3. m \in Nat /\ \A i \in 1 .. m : b[i] = d[i]
  BY <1>1, LongerAll DEF d
<1>4. m >= k + 1 /\ b[k + 1] = a.type /\ (m > k + 1 => b[k + 2] = d[k + 2])
  <2>1. m >= k + 1 /\ k + 1 \in 1 .. m /\ (m > k + 1 => k + 2 \in 1 .. m)
    BY <1>0, <1>1, <1>3
  <2>2. QED
    BY <1>1, <1>3, <2>1
<1> HIDE DEF m
<1>5. CASE a.type = Ipv4
  <2>1. h = V4Len /\ Before(a.type) = 1
    BY <1>2, <1>5 DEF HostFits, Before, Ipv4, Ipv6, Domain
  <2>2. AddrLen(b, k) = Reach(b, k + 1 + V4Len + 2)
    BY <1>1, <1>4, <1>5 DEF AddrLen, Ipv4, Ipv6, Domain, m
  <2>3. k + 1 + V4Len + 2 = k + n
    BY <1>1, <2>1
  <2>4. a.type # Domain
    BY <1>5 DEF Ipv4, Domain
  <2>5. QED
    BY <2>2, <2>3, <2>4 DEF n
<1>6. CASE a.type = Ipv6
  <2>1. h = V6Len /\ Before(a.type) = 1
    BY <1>2, <1>6 DEF HostFits, Before, Ipv4, Ipv6, Domain
  <2>2. AddrLen(b, k) = Reach(b, k + 1 + V6Len + 2)
    BY <1>1, <1>4, <1>6 DEF AddrLen, Ipv4, Ipv6, Domain, m
  <2>3. k + 1 + V6Len + 2 = k + n
    BY <1>1, <2>1
  <2>4. a.type # Domain
    BY <1>6 DEF Ipv6, Domain
  <2>5. QED
    BY <2>2, <2>3, <2>4 DEF n
<1>7. CASE a.type = Domain
  <2>1. Before(a.type) = 2 /\ k + 2 + h + 2 = k + n
    BY <1>1, <1>7 DEF Before
  <2>2. CASE m = k + 1
    <3>1. AddrLen(b, k) = More(k + 2)
      BY <1>1, <1>4, <1>7, <2>2 DEF AddrLen, Ipv4, Ipv6, Domain, m
    <3>2. QED
      BY <1>7, <2>2, <3>1 DEF m
  <2>3. CASE m # k + 1
    <3>1. m > k + 1 /\ b[k + 1 + 1] = h
      <4>1. m > k + 1 /\ k + 1 + 1 = k + 2
        BY <1>1, <1>3, <1>4, <2>3
      <4>2. QED
        BY <1>1, <1>4, <1>7, <4>1
    <3>2. AddrLen(b, k) = Reach(b, k + 2 + b[k + 1 + 1] + 2)
      BY <1>1, <1>3, <1>4, <1>7, <3>1 DEF AddrLen, Ipv4, Ipv6, Domain, m
    <3>3. QED
      BY <2>1, <2>3, <3>1, <3>2 DEF m, n
  <2>4. QED
    BY <2>2, <2>3
<1>8. QED
  BY <1>2, <1>5, <1>6, <1>7 DEF HostFits

\* Three bytes.
LEMMA Triple ==
    ASSUME NEW h \in Byte, NEW l \in Byte, NEW n \in Byte
    PROVE  /\ <<h, l, n>> \in Bytes /\ Len(<<h, l, n>>) = 3
           /\ <<h, l, n>>[1] = h /\ <<h, l, n>>[2] = l /\ <<h, l, n>>[3] = n
  BY DEF Bytes

\* The numbers of the protocols are bytes.
LEMMA ProtocolBytes ==
    {0, Version, NoAuth, Userpass, AuthVersion, Connect, Associate, CR, LF, SP, Colon} \subseteq Byte
  BY DEF Byte, Version, NoAuth, Userpass, AuthVersion, Connect, Associate, CR, LF, SP, Colon

\* A greeting.
LEMMA GreetingExpects ==
    ASSUME NEW n \in Byte, NEW methods \in Bytes, Len(methods) = n, NEW b \in Bytes,
           Longer(b, <<Version, n>> \o methods)
    PROVE  Expects(GreetingLen(b), b, <<Version, n>> \o methods)
<1> DEFINE w == <<Version, n>>
           d == w \o methods
           m == Len(b)
<1>1. w \in Bytes /\ Len(w) = 2 /\ w[1] = Version /\ w[2] = n
  BY ProtocolBytes, Pair
<1>2. n \in Nat
  BY ByteRange
<1> HIDE DEF w
<1>3. d \in Bytes /\ Len(d) = 2 + n /\ d[1] = Version /\ d[2] = n
  <2>1. d \in Bytes /\ Len(d) = Len(w) + Len(methods) /\ \A i \in 1 .. Len(w) : d[i] = w[i]
    BY <1>1, Joined
  <2>2. QED
    BY <1>1, <2>1
<1>4. Longer(b, d)
  BY DEF w
<1> HIDE DEF d
<1>5. m \in Nat /\ m <= Len(d) /\ \A i \in 1 .. m : b[i] = d[i]
  BY <1>3, <1>4, LongerAll
<1> HIDE DEF m
<1>6. CASE m < 2
  <2>1. GreetingLen(b) = More(2)
    BY <1>6 DEF GreetingLen, m
  <2>2. QED
    BY <1>2, <1>3, <1>5, <1>6, <2>1 DEF Expects, More, m, d, w
<1>7. CASE m >= 2
  <2>1. b[1] = Version /\ b[2] = n
    BY <1>3, <1>5, <1>7
  <2>2. GreetingLen(b) = Reach(b, 2 + n)
    BY <1>7, <1>5, <2>1 DEF GreetingLen, m
  <2>3. Expects(GreetingLen(b), b, d)
    BY <1>2, <1>3, <1>5, <2>2 DEF Expects, Reach, m
  <2>4. QED
    BY <2>3 DEF d, w
<1>8. QED
  BY <1>5, <1>6, <1>7

\* A response, and a request.
LEMMA RequestExpects ==
    ASSUME NEW c \in Byte, NEW a, IsAddress(a), NEW b \in Bytes,
           Longer(b, <<Version, c, 0>> \o PutAddr(a))
    PROVE  /\ Expects(ResponseLen(b), b, <<Version, c, 0>> \o PutAddr(a))
           /\ c \in {Connect, Associate} =>
                  Expects(RequestLen(b), b, <<Version, c, 0>> \o PutAddr(a))
<1> DEFINE w == <<Version, c, 0>>
           p == PutAddr(a)
           d == w \o p
           m == Len(b)
<1>1. w \in Bytes /\ Len(w) = 3 /\ w[1] = Version /\ w[2] = c /\ w[3] = 0
  BY ProtocolBytes, Triple
<1> HIDE DEF w
<1>2. p \in Bytes /\ Len(p) \in Nat /\ Len(p) >= 4
  BY NoBytes, AddressAmong
<1>3. d \in Bytes /\ Len(d) = 3 + Len(p) /\ d[1] = Version /\ d[2] = c /\ d[3] = 0
  <2> HIDE DEF p
  <2>1. d \in Bytes /\ Len(d) = Len(w) + Len(p) /\ \A i \in 1 .. Len(w) : d[i] = w[i]
    BY <1>1, <1>2, Joined
  <2>2. QED
    BY <1>1, <1>2, <2>1
<1>4. Longer(b, d)
  BY DEF w
<1>5. 3 < m => AddrLen(b, 3) = IF a.type = Domain /\ m = 3 + 1 THEN More(3 + 2)
                               ELSE Reach(b, 3 + Len(p))
  <2> DEFINE q == <<>>
  <2>1. q \in Bytes /\ d \o q = d
    BY <1>3, NoBytes
  <2> HIDE DEF q
  <2>2. Longer(b, w \o PutAddr(a) \o q)
    BY <1>4, <2>1
  <2> HIDE DEF q, d, p, m
  <2> SUFFICES ASSUME 3 < Len(b)
               PROVE  AddrLen(b, 3) = IF a.type = Domain /\ Len(b) = 3 + 1 THEN More(3 + 2)
                                      ELSE Reach(b, 3 + Len(PutAddr(a)))
    BY DEF m, p
  <2>3. AddrLenAt(a, b, Len(w))
    BY <1>1, <2>1, <2>2, AddrLenOf
  <2>4. AddrLenAt(a, b, 3)
    BY <1>1, <2>3
  <2>5. QED
    BY <2>4 DEF AddrLenAt
<1> HIDE DEF d, p
<1>6. m \in Nat /\ m <= Len(d) /\ \A i \in 1 .. m : b[i] = d[i]
  BY <1>3, <1>4, LongerAll
<1> HIDE DEF m
<1>7. CASE m < 4
  <2>1. ResponseLen(b) = More(4) /\ RequestLen(b) = More(4)
    BY <1>7 DEF ResponseLen, RequestLen, m
  <2>2. Expects(More(4), b, d)
    BY <1>2, <1>3, <1>6, <1>7 DEF Expects, More, m
  <2>3. QED
    BY <2>1, <2>2 DEF d, w, p
<1>8. CASE m >= 4
  <2>1. b[1] = Version /\ b[2] = c /\ b[3] = 0
    BY <1>3, <1>6, <1>8
  <2>2. ResponseLen(b) = AddrLen(b, 3)
    BY <1>6, <1>8, <2>1 DEF ResponseLen, m
  <2>3. c \in {Connect, Associate} => RequestLen(b) = AddrLen(b, 3)
    BY <1>6, <1>8, <2>1 DEF RequestLen, m
  <2>4. AddrLen(b, 3) = IF a.type = Domain /\ m = 4 THEN More(5) ELSE Reach(b, Len(d))
    BY <1>1, <1>3, <1>5, <1>6, <1>8
  <2>5. Len(d) >= 7 /\ Len(d) \in Nat
    BY <1>2, <1>3
  <2>6. Expects(AddrLen(b, 3), b, d)
    <3>1. Expects(Reach(b, Len(d)), b, d)
      BY <1>6, <2>5 DEF Expects, Reach, m
    <3>2. ASSUME m = 4 PROVE Expects(More(5), b, d)
      <4>1. Len(b) = 4 /\ Len(b) # Len(d) /\ 5 <= Len(d)
        <5>1. Len(b) = 4
          BY <3>2 DEF m
        <5>2. \A n \in Nat : n >= 7 => 4 # n /\ 5 <= n
          OBVIOUS
        <5>3. QED
          BY <2>5, <5>1, <5>2, Zenon
      <4>2. QED
        BY <4>1 DEF Expects, More
    <3>3. QED
      BY <2>4, <3>1, <3>2
  <2>7. QED
    BY <2>2, <2>3, <2>6 DEF d, w, p
<1>9. QED
  BY <1>6, <1>7, <1>8

\* A command of Trojan.
LEMMA CommandExpects ==
    ASSUME NEW c \in {Connect, Associate}, NEW a, IsAddress(a), NEW b \in Bytes,
           Longer(b, <<c>> \o PutAddr(a) \o <<CR, LF>>)
    PROVE  Expects(RequestNeeded(b), b, <<c>> \o PutAddr(a) \o <<CR, LF>>)
<1> DEFINE w == <<c>>
           p == PutAddr(a)
           q == <<CR, LF>>
           d == w \o p \o q
           m == Len(b)
<1>1. w \in Bytes /\ Len(w) = 1 /\ w[1] = c
  BY ProtocolBytes, Singleton
<1>2. q \in Bytes /\ Len(q) = 2
  BY ProtocolBytes, Pair
<1> HIDE DEF w, q
<1>3. p \in Bytes /\ Len(p) \in Nat /\ Len(p) >= 4 /\ d \in Bytes /\ Len(d) = 1 + Len(p) + 2
      /\ d[1 + 1] = a.type
  <2>1. p \in Bytes /\ Len(p) \in Nat /\ Len(p) >= 4 /\ d \in Bytes
        /\ Len(d) = Len(w) + Len(p) + Len(q) /\ d[Len(w) + 1] = a.type
    BY <1>1, <1>2, AddressAmong
  <2> HIDE DEF p, d
  <2>2. QED
    BY <1>1, <1>2, <2>1
<1>4. d[1] = c
  <2> HIDE DEF p
  <2>1. w \o p \in Bytes /\ Len(w \o p) = 1 + Len(p) /\ (w \o p)[1] = c
    <3>1. w \o p \in Bytes /\ Len(w \o p) = Len(w) + Len(p)
          /\ \A i \in 1 .. Len(w) : (w \o p)[i] = w[i]
      BY <1>1, <1>3, Joined
    <3>2. QED
      BY <1>1, <3>1
  <2>2. 1 \in 1 .. Len(w \o p)
    BY <1>3, <2>1
  <2>3. QED
    BY <1>2, <2>1, <2>2, Joined
<1>5. Longer(b, d)
  BY DEF w, q
<1>6. 1 < m => AddrLen(b, 1) = IF a.type = Domain /\ m = 1 + 1 THEN More(1 + 2)
                               ELSE Reach(b, 1 + Len(p))
  <2>1. Longer(b, w \o PutAddr(a) \o q)
    BY <1>5
  <2> HIDE DEF d, p, m
  <2> SUFFICES ASSUME 1 < Len(b)
               PROVE  AddrLen(b, 1) = IF a.type = Domain /\ Len(b) = 1 + 1 THEN More(1 + 2)
                                      ELSE Reach(b, 1 + Len(PutAddr(a)))
    BY DEF m, p
  <2>2. AddrLenAt(a, b, Len(w))
    BY <1>1, <1>2, <2>1, AddrLenOf
  <2>4. AddrLenAt(a, b, 1)
    BY <1>1, <2>2
  <2>5. QED
    BY <2>4 DEF AddrLenAt
<1> HIDE DEF d, p
<1>7. m \in Nat /\ m <= Len(d) /\ \A i \in 1 .. m : b[i] = d[i]
  BY <1>3, <1>5, LongerAll
<1> HIDE DEF m
<1>8. CASE m < 2
  <2>1. RequestNeeded(b) = More(2)
    BY <1>8 DEF RequestNeeded, m
  <2>2. Expects(More(2), b, d)
    BY <1>3, <1>7, <1>8 DEF Expects, More, m
  <2>3. QED
    BY <2>1, <2>2 DEF d, w, p, q
<1>9. CASE m >= 2
  <2>1. b[1] = c /\ b[2] = a.type
    BY <1>3, <1>4, <1>7, <1>9
  <2>2. Len(d) >= 7 /\ Len(d) \in Nat
    BY <1>3
  <2>3. CASE a.type = Domain /\ m = 2
    <3>1. AddrLen(b, 1) = More(3)
      BY <1>6, <2>3
    <3>2. AddrLen(b, 1).rc # "bad"
      BY <3>1 DEF More
    <3>3. RequestNeeded(b) = More(3)
      BY <1>9, <2>1, <2>3, <3>2 DEF RequestNeeded, m
    <3>4. Expects(More(3), b, d)
      <4>1. Len(b) = 2 /\ Len(b) # Len(d) /\ 3 <= Len(d)
        <5>1. Len(b) = 2
          BY <2>3 DEF m
        <5>2. \A n \in Nat : n >= 7 => 2 # n /\ 3 <= n
          OBVIOUS
        <5>3. QED
          BY <2>2, <5>1, <5>2, Zenon
      <4>2. QED
        BY <4>1 DEF Expects, More
    <3>5. QED
      BY <3>3, <3>4 DEF d, w, p, q
  <2>4. CASE ~(a.type = Domain /\ m = 2)
    <3>1. AddrLen(b, 1) = Reach(b, 1 + Len(p))
      BY <1>6, <1>7, <1>9, <2>4
    <3>2. AddrLen(b, 1).rc # "bad" /\ AddrLen(b, 1).needed + 2 = Len(d)
      BY <1>3, <3>1 DEF Reach
    <3>3. RequestNeeded(b) = Reach(b, Len(d))
      BY <1>7, <1>9, <2>1, <2>4, <3>2 DEF RequestNeeded, m
    <3>4. Expects(Reach(b, Len(d)), b, d)
      BY <1>7, <2>2 DEF Expects, Reach, m
    <3>5. QED
      BY <3>3, <3>4 DEF d, w, p, q
  <2>5. QED
    BY <2>3, <2>4
<1>10. QED
  BY <1>7, <1>8, <1>9

\* One byte more leaves a reader right.
LEMMA ByByteRight ==
    ASSUME NEW x, ReaderRight(x), NEW h \in Byte
    PROVE  ReaderRight(ByByte(x, h))
<1> DEFINE one == <<h>>
<1>1. one \in Bytes /\ Len(one) = 1
  BY Singleton
<1> HIDE DEF one
<1>2. CASE Wanted(x) > 0
  <2>1. Wanted(x) \in Int
    BY WantedRight
  <2>2. Len(one) > 0 /\ Len(one) <= Wanted(x)
    BY <1>1, <1>2, <2>1
  <2>3. ReaderRight(Fed(x, one))
    BY <1>1, <2>2, FedStaysRight
  <2>4. ByByte(x, h) = Fed(x, one)
    BY <1>2 DEF ByByte, one
  <2>5. QED
    BY <2>3, <2>4
<1>3. CASE ~(Wanted(x) > 0) /\ Goal(x)
  <2> DEFINE y == HandsOn(x, one)
  <2>1. ByByte(x, h) = y
    BY <1>3 DEF ByByte, Goal, one
  <2>2. /\ IsReader(y) /\ y.phase = x.phase /\ y.buf = x.buf /\ y.got = x.got
        /\ y.handed = x.handed \o one
    BY HandsOnFields DEF ReaderRight
  <2> HIDE DEF y
  <2>3. x.handed \o one \in Bytes
    BY <1>1, Joined DEF ReaderRight
  <2>4. x.phase \notin Phases
    BY <1>3 DEF Goal, Phases
  <2>5. ReaderRight(y)
    BY <2>2, <2>3, <2>4 DEF ReaderRight
  <2>6. QED
    BY <2>1, <2>5
<1>4. CASE ~(Wanted(x) > 0) /\ ~Goal(x)
  BY <1>4 DEF ByByte, Goal
<1>5. QED
  BY <1>2, <1>3, <1>4

\* And so does all of a stream: induction on the bytes.
LEMMA WalkRight ==
    ASSUME NEW x, ReaderRight(x), NEW s \in Bytes, NEW g, Goes(x, s, g, Len(s)),
           NEW k \in 0 .. Len(s)
    PROVE  ReaderRight(g[k])
<1> DEFINE all == Len(s)
           N == {n \in Nat : n <= all => ReaderRight(g[n])}
<1>0. all \in Nat
  BY DEF Bytes
<1>1. 0 \in N
  BY DEF Goes
<1>2. ASSUME NEW n \in N PROVE n + 1 \in N
  <2>1. n \in Nat /\ (n <= all => ReaderRight(g[n]))
    OBVIOUS
  <2> HIDE DEF N
  <2>2. ASSUME n + 1 <= all PROVE ReaderRight(g[n + 1])
    <3> DEFINE j == n + 1
    <3>1. j \in 1 .. all /\ j - 1 = n /\ n <= all
      <4> HIDE DEF all
      <4>1. QED
        BY <1>0, <2>1, <2>2
    <3> HIDE DEF j
    <3>2. OneByteOn(s, g, j)
      BY <3>1 DEF Goes
    <3>3. s[j] \in Byte
      BY <3>1 DEF Bytes
    <3>4. g[j] = ByByte(g[n], s[j])
      BY <3>1, <3>2 DEF OneByteOn
    <3>5. ReaderRight(g[n])
      BY <2>1, <3>1
    <3>6. ReaderRight(g[j])
      BY <3>3, <3>4, <3>5, ByByteRight
    <3>7. QED
      BY <3>6 DEF j
  <2>3. QED
    BY <2>1, <2>2 DEF N
<1>3. N = Nat
  <2>1. N \in SUBSET Nat
    OBVIOUS
  <2> HIDE DEF N
  <2>2. QED
    BY <1>1, <1>2, <2>1, AllNumbers
<1>4. k \in Nat /\ k <= all
  <2>1. k \in 0 .. all
    OBVIOUS
  <2> HIDE DEF all
  <2>2. QED
    BY <1>0, <2>1
<1>5. QED
  BY <1>3, <1>4

\* The phases in which a message says how long it is.
Judged == {"greeting", "request", "command", "response_read"}

\* What they ask.
VerdictIn(phase, b) ==
    CASE phase = "greeting" -> GreetingLen(b)
      [] phase = "request" -> RequestLen(b)
      [] phase = "command" -> RequestNeeded(b)
      [] phase = "response_read" -> ResponseLen(b)

\* What such a reader wants and does hangs on it.
LEMMA JudgedByVerdict ==
    ASSUME NEW x, x.phase \in Judged
    PROVE  /\ Wanted(x) = Missing(x, VerdictIn(x.phase, x.buf), Room[x.phase])
           /\ \E done : Handle(x.phase, x) = Judge(x, VerdictIn(x.phase, x.buf), Room[x.phase], done)
           /\ x.phase \in Phases /\ x.phase # "prefix" /\ Room[x.phase] \in Nat
<1>1. x.phase \in Phases /\ x.phase # "prefix" /\ Room[x.phase] \in Nat
  BY Rooms DEF Judged, Phases
<1>2. CASE x.phase = "greeting"
  <2>1. Room[x.phase] = Socks5Room
    BY <1>2, Rooms
  <2>2. Wanted(x) = Missing(x, VerdictIn(x.phase, x.buf), Room[x.phase])
    BY <1>2, <2>1 DEF Wanted, GreetingWanted, VerdictIn
  <2>3. Handle(x.phase, x) = Greeting(x)
    BY <1>2 DEF Handle
  <2>4. \E done : Greeting(x) = Judge(x, GreetingLen(x.buf), Socks5Room, done)
    BY DEF Greeting
  <2>5. VerdictIn(x.phase, x.buf) = GreetingLen(x.buf)
    BY <1>2 DEF VerdictIn
  <2>6. QED
    BY <1>1, <2>1, <2>2, <2>3, <2>4, <2>5
<1>3. CASE x.phase = "request"
  <2>1. Room[x.phase] = Socks5Room
    BY <1>3, Rooms
  <2>2. Wanted(x) = Missing(x, VerdictIn(x.phase, x.buf), Room[x.phase])
    BY <1>3, <2>1 DEF Wanted, VerdictIn
  <2>3. Handle(x.phase, x) = Request(x)
    BY <1>3 DEF Handle
  <2>4. \E done : Request(x) = Judge(x, RequestLen(x.buf), Socks5Room, done)
    BY DEF Request
  <2>5. VerdictIn(x.phase, x.buf) = RequestLen(x.buf)
    BY <1>3 DEF VerdictIn
  <2>6. QED
    BY <1>1, <2>1, <2>2, <2>3, <2>4, <2>5
<1>4. CASE x.phase = "command"
  <2>1. Room[x.phase] = RequestRoom
    BY <1>4, Rooms
  <2>2. Wanted(x) = Missing(x, VerdictIn(x.phase, x.buf), Room[x.phase])
    BY <1>4, <2>1 DEF Wanted, VerdictIn
  <2>3. Handle(x.phase, x) = Command(x)
    BY <1>4 DEF Handle
  <2>4. \E done : Command(x) = Judge(x, RequestNeeded(x.buf), RequestRoom, done)
    BY DEF Command
  <2>5. VerdictIn(x.phase, x.buf) = RequestNeeded(x.buf)
    BY <1>4 DEF VerdictIn
  <2>6. QED
    BY <1>1, <2>1, <2>2, <2>3, <2>4, <2>5
<1>5. CASE x.phase = "response_read"
  <2>1. Room[x.phase] = Socks5Room
    BY <1>5, Rooms
  <2>2. Wanted(x) = Missing(x, VerdictIn(x.phase, x.buf), Room[x.phase])
    BY <1>5, <2>1 DEF Wanted, VerdictIn
  <2>3. Handle(x.phase, x) = Response(x)
    BY <1>5 DEF Handle
  <2>4. \E done : Response(x) = Judge(x, ResponseLen(x.buf), Socks5Room, done)
    BY DEF Response
  <2>5. VerdictIn(x.phase, x.buf) = ResponseLen(x.buf)
    BY <1>5 DEF VerdictIn
  <2>6. QED
    BY <1>1, <2>1, <2>2, <2>3, <2>4, <2>5
<1>6. QED
  BY <1>2, <1>3, <1>4, <1>5 DEF Judged

\* What every front of a message is to the reader of such a phase.
Foreseen(phase, d) == \A b \in Bytes : Longer(b, d) => Expects(VerdictIn(phase, b), b, d)

\* A front.
LEMMA FrontLonger ==
    ASSUME NEW d \in Bytes, NEW j \in 0 .. Len(d)
    PROVE  /\ SubSeq(d, 1, j) \in Bytes /\ Len(SubSeq(d, 1, j)) = j
           /\ Longer(SubSeq(d, 1, j), d)
<1> DEFINE b == SubSeq(d, 1, j)
           m == Len(d)
<1>1. b \in Bytes /\ Len(b) = j /\ \A i \in 1 .. j : b[i] = d[i]
  BY Cut
<1>2. m \in Nat /\ j \in 0 .. m
  BY DEF Bytes
<1> HIDE DEF b, m
<1>3. j <= m
  BY <1>2
<1>4. QED
  BY <1>1, <1>3 DEF Longer, m, b

\* Until the message is whole the reader waits.
LEMMA FrontWaits ==
    ASSUME NEW y, IsReader(y), y.phase \in Judged, y.buf = <<>>,
           NEW d \in Bytes, Foreseen(y.phase, d), Len(d) <= Room[y.phase],
           NEW j \in 0 .. Len(d) - 1
    PROVE  Waits(y, SubSeq(d, 1, j)) /\ Wanted(Filled(y, SubSeq(d, 1, j))) > 0
<1> DEFINE b == SubSeq(d, 1, j)
           z == Filled(y, b)
           v == VerdictIn(y.phase, b)
           m == Len(d)
           room == Room[y.phase]
<1>1. m \in Nat /\ j \in 0 .. m - 1 /\ m <= room
  BY DEF Bytes
<1>2. j \in 0 .. Len(d)
  <2> HIDE DEF m
  <2>1. j \in 0 .. m
    BY <1>1
  <2>2. QED
    BY <2>1 DEF m
<1>3. b \in Bytes /\ Len(b) = j /\ Longer(b, d)
  BY <1>2, FrontLonger
<1>4. Expects(v, b, d)
  BY <1>3 DEF Foreseen
<1>5. IsReader(z) /\ z.phase = y.phase /\ z.buf = b
  <2>1. z.buf = y.buf \o b /\ IsReader(z) /\ z.phase = y.phase
    BY FilledFields
  <2> HIDE DEF b, z
  <2>2. <<>> \o b = b
    BY <1>3, NoBytes
  <2>3. QED
    BY <2>1, <2>2
<1> HIDE DEF b, z
<1>6. PICK done : Handle(z.phase, z) = Judge(z, v, room, done)
  BY <1>5, JudgedByVerdict
<1>7. Wanted(z) = Missing(z, v, room) /\ room \in Nat
  BY <1>5, JudgedByVerdict
<1> HIDE DEF v, room
<1>8. v.rc = "more" /\ j < v.needed /\ v.needed <= m
  <2>1. Len(b) # Len(d)
    <3> HIDE DEF m
    <3>1. j # m
      BY <1>1
    <3>2. QED
      BY <1>3, <3>1 DEF m
  <2>2. QED
    BY <1>3, <1>4, <2>1 DEF Expects
<1>9. v.needed \in Int
  <2> HIDE DEF m
  <2>1. /\ GreetingLen(b).rc = "more" => GreetingLen(b).needed \in Nat
        /\ RequestLen(b).rc = "more" => RequestLen(b).needed \in Nat
        /\ ResponseLen(b).rc = "more" => ResponseLen(b).needed \in Nat
        /\ RequestNeeded(b).rc = "more" => RequestNeeded(b).needed \in Nat
    BY <1>3, VerdictsAsk DEF Asks
  <2>2. v = GreetingLen(b) \/ v = RequestLen(b) \/ v = ResponseLen(b) \/ v = RequestNeeded(b)
    BY Zenon DEF v, VerdictIn, Judged
  <2> HIDE DEF v
  <2>3. v.needed \in Nat
    BY <1>8, <2>1, <2>2, Zenon
  <2>4. QED
    BY <2>3
<1> HIDE DEF m
<1>10. v.needed <= room
  BY <1>1, <1>7, <1>8, <1>9
<1>11. Judge(z, v, room, done) = z
  BY <1>8, <1>10 DEF Judge
<1>12. Wanted(z) > 0
  <2>1. Missing(z, v, room) = v.needed - j
    BY <1>3, <1>5, <1>8, <1>10 DEF Missing
  <2>2. QED
    BY <1>1, <1>7, <1>8, <1>9, <2>1
<1>13. Handle(y.phase, z) = z
  BY <1>5, <1>6, <1>11
<1>14. QED
  BY <1>12, <1>13 DEF Waits, z, b

\* A reader that gets s byte by byte comes to a message d behind k bytes, which
\* says how long it is, and has i bytes of it.
Comes(x, s, g, k, d, y, i) ==
    /\ s \in Bytes /\ Goes(x, s, g, Len(s)) /\ k \in Nat /\ d \in Bytes /\ PieceAt(s, k, d)
    /\ IsReader(y) /\ y.phase \in Judged /\ y.buf = <<>>
    /\ Foreseen(y.phase, d) /\ Len(d) <= Room[y.phase]
    /\ i \in 0 .. Len(d) - 1 /\ g[k + i] = Filled(y, SubSeq(d, 1, i))

\* Such a message is handled when it is whole.
LEMMA MessageComes ==
    ASSUME NEW x, NEW s, NEW g, NEW k, NEW d, NEW y, NEW i, Comes(x, s, g, k, d, y, i)
    PROVE  g[k + Len(d)] = Handle(y.phase, Filled(y, d))
<1>0. /\ s \in Bytes /\ Goes(x, s, g, Len(s)) /\ k \in Nat /\ d \in Bytes /\ PieceAt(s, k, d)
      /\ IsReader(y) /\ y.phase \in Judged /\ y.buf = <<>>
      /\ Foreseen(y.phase, d) /\ Len(d) <= Room[y.phase]
      /\ i \in 0 .. Len(d) - 1 /\ g[k + i] = Filled(y, SubSeq(d, 1, i))
  BY DEF Comes
<1>1. y.phase \in Phases /\ y.phase # "prefix"
  BY <1>0 DEF Judged, Phases
<1>2. Wanted(Filled(y, SubSeq(d, 1, i))) > 0
  BY <1>0, FrontWaits
<1>3. ASSUME NEW j \in i + 1 .. Len(d) - 1 PROVE Waits(y, SubSeq(d, 1, j))
  <2> DEFINE m == Len(d)
  <2>1. m \in Nat /\ j \in i + 1 .. m - 1 /\ i \in 0 .. m - 1
    BY <1>0 DEF Bytes
  <2> HIDE DEF m
  <2>2. j \in 0 .. m - 1
    BY <2>1
  <2>3. QED
    BY <1>0, <2>2, FrontWaits DEF m
<1>4. \A j \in i + 1 .. Len(d) - 1 : Waits(y, SubSeq(d, 1, j))
  BY <1>3
<1>5. Gathers(x, s, g, k, d, y, i)
  BY <1>0, <1>1, <1>2, <1>4 DEF Gathers
<1>6. QED
  BY <1>5, Gathered

-----------------------------------------------------------------------------
(* What the messages that were got mean. *)

MeaningsOf(got) == [i \in DOMAIN got |-> MeaningOf(got[i])]

\* One message more means one thing more.
LEMMA MeaningsMore ==
    ASSUME NEW got, GotRight(got), NEW item
    PROVE  /\ MeaningsOf(Append(got, item)) = Append(MeaningsOf(got), MeaningOf(item))
           /\ got \o <<item>> = Append(got, item)
           /\ MeaningsOf(got) \in Seq({MeaningOf(got[i]) : i \in 1 .. Len(got)})
           /\ Len(MeaningsOf(got)) = Len(got) /\ Len(got) \in Nat
<1>1. PICK S : got \in Seq(S)
  BY DEF GotRight
<1> DEFINE T == S \cup {item}
           n == Len(got)
           was == MeaningsOf(got)
           more == Append(got, item)
           V == {MeaningOf(e) : e \in T}
           e == MeaningOf(item)
<1>2. got \in Seq(T) /\ item \in T
  <2>1. S \subseteq T /\ item \in T
    OBVIOUS
  <2> HIDE DEF T
  <2>2. QED
    BY <1>1, <2>1, SeqMonotonic
<1> HIDE DEF T
<1>3. n \in Nat /\ DOMAIN got = 1 .. n /\ \A i \in 1 .. n : got[i] \in T
  BY <1>2, LenProperties
<1>4. /\ more \in Seq(T) /\ Len(more) = n + 1 /\ DOMAIN more = 1 .. n + 1
      /\ \A i \in 1 .. n : more[i] = got[i]
      /\ more[n + 1] = item
  <2>1. /\ more \in Seq(T) /\ Len(more) = n + 1
        /\ \A i \in 1 .. n : more[i] = got[i]
        /\ more[n + 1] = item
    BY <1>2, AppendProperties
  <2>2. DOMAIN more = 1 .. n + 1
    BY <2>1, LenProperties
  <2>3. QED
    BY <2>1, <2>2
<1>5. got \o <<item>> = more
  BY <1>2, AppendIsConcat
<1>6. was = [i \in 1 .. n |-> MeaningOf(got[i])]
  BY <1>3 DEF MeaningsOf
<1>7. e \in V /\ \A i \in 1 .. n : MeaningOf(got[i]) \in V
  BY <1>2, <1>3
<1>8. /\ was \in Seq(V) /\ Len(was) = n
      /\ was \in Seq({MeaningOf(got[i]) : i \in 1 .. n})
  <2> DEFINE W == {MeaningOf(got[i]) : i \in 1 .. n}
  <2>1. \A i \in 1 .. n : MeaningOf(got[i]) \in W
    OBVIOUS
  <2> HIDE DEF W, V
  <2>2. was \in Seq(V) /\ was \in Seq(W) /\ Len(was) = n
    BY <1>3, <1>6, <1>7, <2>1
  <2>3. QED
    BY <2>2 DEF W
<1> HIDE DEF more, V
<1>9. MeaningsOf(more) = [i \in 1 .. n + 1 |-> MeaningOf(more[i])]
  BY <1>4 DEF MeaningsOf
<1>10. Append(was, e) = [i \in 1 .. n + 1 |-> IF i = n + 1 THEN e ELSE was[i]]
  <2> HIDE DEF was, e
  <2>1. /\ Append(was, e) \in Seq(V) /\ Len(Append(was, e)) = n + 1
        /\ \A i \in 1 .. n : Append(was, e)[i] = was[i]
        /\ Append(was, e)[n + 1] = e
    BY <1>7, <1>8, AppendProperties DEF e
  <2> DEFINE q == Append(was, e)
             f == [i \in 1 .. n + 1 |-> IF i = n + 1 THEN e ELSE was[i]]
  <2>2. q = [i \in 1 .. n + 1 |-> q[i]]
    <3> HIDE DEF q
    <3>1. q \in Seq(V) /\ Len(q) = n + 1
      BY <2>1 DEF q
    <3>2. QED
      BY <3>1, LenProperties
  <2>3. \A i \in 1 .. n + 1 : q[i] = f[i]
    <3> SUFFICES ASSUME NEW i \in 1 .. n + 1 PROVE q[i] = f[i]
      OBVIOUS
    <3>1. f[i] = IF i = n + 1 THEN e ELSE was[i]
      OBVIOUS
    <3>2. i # n + 1 => i \in 1 .. n
      BY <1>3
    <3> HIDE DEF f
    <3>3. QED
      BY <2>1, <3>1, <3>2
  <2>4. QED
    BY <2>2, <2>3
<1>11. \A i \in 1 .. n + 1 : MeaningOf(more[i]) = IF i = n + 1 THEN e ELSE was[i]
  <2> SUFFICES ASSUME NEW i \in 1 .. n + 1
               PROVE  MeaningOf(more[i]) = IF i = n + 1 THEN e ELSE was[i]
    OBVIOUS
  <2>1. CASE i = n + 1
    BY <1>4, <2>1
  <2>2. CASE i # n + 1
    <3>1. i \in 1 .. n
      BY <1>3, <2>2
    <3>2. more[i] = got[i] /\ was[i] = MeaningOf(got[i])
      BY <1>4, <1>6, <3>1
    <3> HIDE DEF was, e
    <3>3. QED
      BY <2>2, <3>2
  <2>3. QED
    BY <2>1, <2>2
<1> HIDE DEF was, e
<1>12. MeaningsOf(more) = Append(was, e)
  BY <1>9, <1>10, <1>11
<1>13. QED
  BY <1>3, <1>5, <1>8, <1>12 DEF more, was, e

\* Between two messages: what there is to read next, and what was meant so far.
Stands(x, phase, meant) ==
    /\ ReaderRight(x) /\ x.phase = phase /\ x.buf = <<>> /\ x.handed = <<>>
    /\ MeaningsOf(x.got) = meant

\* The meaning of a message that is not a frame.
LEMMA ItemMeans ==
    ASSUME NEW x, NEW kind, kind # "frame", NEW n, NEW addr, NEW command
    PROVE  MeaningOf(Item(x, kind, n, addr, command)) = Msg(kind, addr, command)
  BY DEF MeaningOf, Item

\* After a message the reader stands before the next.
LEMMA AcceptStands ==
    ASSUME NEW y, IsReader(y), GotRight(y.got), y.handed = <<>>,
           NEW d, NEW item, NEW phase, ReaderRight(Accept(Filled(y, d), item, phase))
    PROVE  Stands(Accept(Filled(y, d), item, phase), phase,
                  Append(MeaningsOf(y.got), MeaningOf(item)))
<1> DEFINE z == Filled(y, d)
           w == Accept(z, item, phase)
<1>1. IsReader(z) /\ z.got = y.got /\ z.handed = y.handed
  BY FilledFields
<1> HIDE DEF z
<1>2. w.phase = phase /\ w.buf = <<>> /\ w.got = Append(z.got, item) /\ w.handed = z.handed
  BY <1>1, AcceptFields
<1>3. ReaderRight(w)
  BY DEF z
<1> HIDE DEF w
<1>4. MeaningsOf(w.got) = Append(MeaningsOf(y.got), MeaningOf(item))
  BY <1>1, <1>2, MeaningsMore
<1>5. Stands(w, phase, Append(MeaningsOf(y.got), MeaningOf(item)))
  BY <1>1, <1>2, <1>3, <1>4 DEF Stands
<1>6. QED
  BY <1>5 DEF w, z

\* A reader between two messages that gets the next one.
LEMMA FilledBetween ==
    ASSUME NEW y, IsReader(y), y.buf = <<>>, NEW d \in Bytes
    PROVE  /\ IsReader(Filled(y, d)) /\ Filled(y, d).phase = y.phase /\ Filled(y, d).buf = d
           /\ Filled(y, d).got = y.got /\ Filled(y, d).handed = y.handed
<1> DEFINE z == Filled(y, d)
<1>1. /\ IsReader(z) /\ z.phase = y.phase /\ z.buf = y.buf \o d /\ z.got = y.got
      /\ z.handed = y.handed
  BY FilledFields
<1> HIDE DEF z
<1>2. <<>> \o d = d
  BY NoBytes
<1>3. z.buf = d
  BY <1>1, <1>2
<1>4. QED
  BY <1>1, <1>3 DEF z

-----------------------------------------------------------------------------
(* Whole messages: what is done with them. *)

\* A verdict that the message is whole.
LEMMA WholeIsJudged ==
    ASSUME NEW d, NEW v, Expects(v, d, d)
    PROVE  v.rc = "ok" /\ v.needed = Len(d)
  BY DEF Expects

\* With a whole message what is to be done is done.
LEMMA WholeIsDone ==
    ASSUME NEW x, NEW v, v.rc = "ok", NEW room, NEW done
    PROVE  Judge(x, v, room, done) = done
  BY DEF Judge

\* A sequence is a front of itself.
LEMMA LongerSelf == \A d \in Bytes : Longer(d, d)
  BY DEF Longer, Bytes

\* A greeting as it is sent.
IsGreeting(d, n, methods) == d = <<Version, n>> \o methods

\* One that offers to go without authentication is heard.
LEMMA GreetingHeard ==
    ASSUME NEW n \in Byte, NEW methods \in Bytes, Len(methods) = n,
           \E i \in 1 .. n : methods[i] = NoAuth,
           NEW d, IsGreeting(d, n, methods)
    PROVE  /\ d \in Bytes /\ Len(d) = 2 + n /\ Foreseen("greeting", d)
           /\ \A x : x.buf = d =>
                  Greeting(x) = Accept(x, Item(x, "greeting", Len(d), Failed.addr, 0), "request")
<1> DEFINE w == <<Version, n>>
<1>1. w \in Bytes /\ Len(w) = 2 /\ w[1] = Version /\ w[2] = n
  BY ProtocolBytes, Pair
<1>2. d = w \o methods
  BY DEF IsGreeting
<1>3. d \in Bytes /\ Len(d) = 2 + n /\ d[2] = n /\ \A i \in 1 .. n : d[2 + i] = methods[i]
  <2> HIDE DEF w
  <2> DEFINE e == w \o methods
  <2>1. /\ e \in Bytes /\ Len(e) = Len(w) + Len(methods) /\ \A i \in 1 .. Len(w) : e[i] = w[i]
        /\ \A i \in 1 .. Len(methods) : e[Len(w) + i] = methods[i]
    BY <1>1, Joined
  <2>2. d = e
    BY <1>2
  <2> HIDE DEF e
  <2>3. /\ e \in Bytes /\ Len(e) = 2 + n /\ e[2] = n
        /\ \A i \in 1 .. n : e[2 + i] = methods[i]
    BY <1>1, <2>1
  <2>4. QED
    BY <2>2, <2>3
<1>4. \A b \in Bytes : Longer(b, d) => Expects(GreetingLen(b), b, d)
  BY GreetingExpects DEF IsGreeting
<1>5. Foreseen("greeting", d)
  BY <1>4 DEF Foreseen, VerdictIn
<1>6. Expects(GreetingLen(d), d, d)
  BY <1>3, <1>4, LongerSelf
<1>7. SelectMethod(d) = "noauth"
  <2>1. \E i \in 1 .. d[2] : d[2 + i] = NoAuth
    BY <1>3
  <2>2. QED
    BY <2>1 DEF SelectMethod
<1>8. ASSUME NEW x, x.buf = d
      PROVE  Greeting(x) = Accept(x, Item(x, "greeting", Len(d), Failed.addr, 0), "request")
  <2> DEFINE v == GreetingLen(d)
             Done(k) == IF SelectMethod(d) = "noauth"
                        THEN Accept(x, Item(x, "greeting", k, Failed.addr, 0), "request")
                        ELSE Refuse(x, "nomethod")
             done == Done(v.needed)
  <2>1. Greeting(x) = Judge(x, v, Socks5Room, done)
    BY <1>8 DEF Greeting
  <2>2. done = Accept(x, Item(x, "greeting", v.needed, Failed.addr, 0), "request")
    BY <1>7
  <2> HIDE DEF done, v
  <2>3. v.rc = "ok" /\ v.needed = Len(d)
    BY <1>3, <1>6, WholeIsJudged DEF v
  <2>8. Judge(x, v, Socks5Room, done) = done
    BY <2>3, WholeIsDone
  <2>4. QED
    BY <2>1, <2>2, <2>3, <2>8
<1>9. QED
  BY <1>3, <1>5, <1>8

\* Three bytes and an address.
ThreeAndAddr(d, c, a) == d = <<Version, c, 0>> \o PutAddr(a)

\* The address is read.
LEMMA BehindThree ==
    ASSUME NEW c \in Byte, NEW a, IsAddress(a), NEW d, ThreeAndAddr(d, c, a)
    PROVE  /\ d \in Bytes /\ Len(d) = 3 + Len(PutAddr(a)) /\ d[2] = c
           /\ ParseAddr(From(d, 4)).addr = a /\ ParseAddr(From(d, 4)).wire_len # 0
<1> DEFINE w == <<Version, c, 0>>
           p == PutAddr(a)
<1>1. w \in Bytes /\ Len(w) = 3 /\ w[2] = c
  BY ProtocolBytes, Triple
<1>2. p \in Bytes /\ Len(p) \in Nat /\ Len(p) >= 4
  BY NoBytes, AddressAmong
<1>3. d = w \o p
  BY DEF ThreeAndAddr
<1>4. ParseAddr(p \o <<>>) = [addr |-> a, payload |-> <<>>, wire_len |-> Len(p)]
  BY NoBytes, PutAsParsed
<1> HIDE DEF w, p
<1>5. d \in Bytes /\ Len(d) = 3 + Len(p) /\ d[2] = c
  <2> DEFINE e == w \o p
  <2>1. e \in Bytes /\ Len(e) = Len(w) + Len(p) /\ \A i \in 1 .. Len(w) : e[i] = w[i]
    BY <1>1, <1>2, Joined
  <2>2. d = e
    BY <1>3
  <2> HIDE DEF e
  <2>3. e \in Bytes /\ Len(e) = 3 + Len(p) /\ e[2] = c
    BY <1>1, <2>1
  <2>4. QED
    BY <2>2, <2>3
<1>6. From(d, 4) = p
  <2>1. From(w \o p, Len(w) + 1) = p
    BY <1>1, <1>2, Behind
  <2>2. Len(w) + 1 = 4
    BY <1>1
  <2>3. QED
    BY <1>3, <2>1, <2>2, Zenon
<1>7. p \o <<>> = p
  BY <1>2, NoBytes
<1>8. ParseAddr(From(d, 4)).addr = a /\ ParseAddr(From(d, 4)).wire_len = Len(p)
  BY <1>4, <1>6, <1>7
<1>9. Len(p) # 0
  <2> DEFINE l == Len(p)
  <2>1. l \in Nat /\ l >= 4
    BY <1>2
  <2> HIDE DEF l
  <2>2. l # 0
    BY <2>1
  <2>3. QED
    BY <2>2 DEF l
<1>10. QED
  BY <1>5, <1>8, <1>9 DEF p

\* A request.
LEMMA RequestHeard ==
    ASSUME NEW c \in Byte, NEW a, IsAddress(a), NEW d, ThreeAndAddr(d, c, a)
    PROVE  /\ d \in Bytes /\ Len(d) = 3 + Len(PutAddr(a))
           /\ c \in {Connect, Associate} =>
                  /\ Foreseen("request", d)
                  /\ \A x : x.buf = d =>
                         Request(x) = Accept(x, Item(x, "request", Len(d), a, c), "served")
<1>1. /\ d \in Bytes /\ Len(d) = 3 + Len(PutAddr(a)) /\ d[2] = c
      /\ ParseAddr(From(d, 4)).addr = a /\ ParseAddr(From(d, 4)).wire_len # 0
  BY BehindThree
<1>2. ASSUME NEW b \in Bytes, Longer(b, d), c \in {Connect, Associate}
      PROVE  Expects(RequestLen(b), b, d)
  <2>1. Longer(b, <<Version, c, 0>> \o PutAddr(a))
    BY <1>2 DEF ThreeAndAddr
  <2>2. c \in {Connect, Associate} => Expects(RequestLen(b), b, <<Version, c, 0>> \o PutAddr(a))
    BY <2>1, RequestExpects, Zenon
  <2>3. QED
    BY <1>2, <2>2, Zenon DEF ThreeAndAddr
<1>3. ASSUME c \in {Connect, Associate}
      PROVE  /\ Foreseen("request", d)
             /\ \A x : x.buf = d =>
                    Request(x) = Accept(x, Item(x, "request", Len(d), a, c), "served")
  <2>1. \A b \in Bytes : Longer(b, d) => Expects(RequestLen(b), b, d)
    BY <1>2, <1>3
  <2>2. Foreseen("request", d)
    BY <2>1 DEF Foreseen, VerdictIn
  <2>3. Expects(RequestLen(d), d, d)
    BY <1>1, <2>1, LongerSelf
  <2>4. ASSUME NEW x, x.buf = d
        PROVE  Request(x) = Accept(x, Item(x, "request", Len(d), a, c), "served")
    <3> DEFINE v == RequestLen(d)
               address == ParseAddr(From(d, 4))
               done == IF address.wire_len = 0 THEN Refuse(x, "bad")
                       ELSE Accept(x, Item(x, "request", v.needed, address.addr, d[2]), "served")
    <3>1. Request(x) = Judge(x, v, Socks5Room, done)
      BY <2>4 DEF Request
    <3>2. done = Accept(x, Item(x, "request", v.needed, a, c), "served")
      BY <1>1
    <3> HIDE DEF done, v
    <3>3. v.rc = "ok" /\ v.needed = Len(d)
      BY <2>3, WholeIsJudged DEF v
    <3>4. Judge(x, v, Socks5Room, done) = done
      BY <3>3, WholeIsDone
    <3>5. QED
      BY <3>1, <3>2, <3>3, <3>4
  <2>5. QED
    BY <2>2, <2>4
<1>4. QED
  BY <1>1, <1>3

\* A response that all is well.
LEMMA ResponseHeard ==
    ASSUME NEW a, IsAddress(a), NEW d, ThreeAndAddr(d, 0, a)
    PROVE  /\ d \in Bytes /\ Len(d) = 3 + Len(PutAddr(a)) /\ Foreseen("response_read", d)
           /\ \A x : x.buf = d =>
                  Response(x) = Accept(x, Item(x, "response", Len(d), a, 0), "served")
<1> DEFINE c == 0
<1>1. c \in Byte /\ ThreeAndAddr(d, c, a)
  BY ProtocolBytes
<1>0. c = 0
  OBVIOUS
<1> HIDE DEF c
<1>2. /\ d \in Bytes /\ Len(d) = 3 + Len(PutAddr(a)) /\ d[2] = c
      /\ ParseAddr(From(d, 4)).addr = a /\ ParseAddr(From(d, 4)).wire_len # 0
  BY <1>1, BehindThree
<1>3. \A b \in Bytes : Longer(b, d) => Expects(ResponseLen(b), b, d)
  BY <1>1, RequestExpects DEF ThreeAndAddr
<1>4. Foreseen("response_read", d)
  BY <1>3 DEF Foreseen, VerdictIn
<1>5. Expects(ResponseLen(d), d, d)
  BY <1>2, <1>3, LongerSelf
<1>6. ASSUME NEW x, x.buf = d
      PROVE  Response(x) = Accept(x, Item(x, "response", Len(d), a, 0), "served")
  <2> DEFINE v == ResponseLen(d)
             address == ParseResponse(d)
             done == IF address.wire_len = 0 THEN Refuse(x, "bad")
                     ELSE Accept(x, Item(x, "response", v.needed, address.addr, 0), "served")
  <2>1. Response(x) = Judge(x, v, Socks5Room, done)
    BY <1>6 DEF Response
  <2>2. address = ParseAddr(From(d, 4))
    BY <1>0, <1>2 DEF ParseResponse
  <2>3. done = Accept(x, Item(x, "response", v.needed, a, 0), "served")
    <3> HIDE DEF address
    <3>1. QED
      BY <1>2, <2>2
  <2> HIDE DEF done, v
  <2>4. v.rc = "ok" /\ v.needed = Len(d)
    BY <1>2, <1>5, WholeIsJudged DEF v
  <2>8. Judge(x, v, Socks5Room, done) = done
    BY <2>4, WholeIsDone
  <2>5. QED
    BY <2>1, <2>3, <2>4, <2>8
<1>7. QED
  BY <1>2, <1>4, <1>6

\* A command as it is sent.
IsCommand(d, c, a) == d = <<c>> \o PutAddr(a) \o <<CR, LF>>

\* It is heard.
LEMMA CommandHeard ==
    ASSUME NEW c \in {Connect, Associate}, NEW a, IsAddress(a),
           NEW d, IsCommand(d, c, a)
    PROVE  /\ d \in Bytes /\ Len(d) = 3 + Len(PutAddr(a)) /\ Foreseen("command", d)
           /\ \A x : x.buf = d =>
                  Command(x) = Accept(x, Item(x, "command", Len(d), a, c),
                                      IF c = Connect THEN "served" ELSE "udp")
<1> DEFINE w == <<c>>
           p == PutAddr(a)
           q == <<CR, LF>>
           wp == w \o p
           n == Len(d)
<1>1. w \in Bytes /\ Len(w) = 1 /\ w[1] = c
  BY ProtocolBytes, Singleton
<1>2. q \in Bytes /\ Len(q) = 2
  BY ProtocolBytes, Pair
<1>3. p \in Bytes /\ Len(p) \in Nat /\ Len(p) >= 4
  BY NoBytes, AddressAmong
<1>4. ParseAddr(p \o <<>>) = [addr |-> a, payload |-> <<>>, wire_len |-> Len(p)]
  BY NoBytes, PutAsParsed
<1>5. d = wp \o q
  BY DEF IsCommand
<1> HIDE DEF w, p
<1>6. wp \in Bytes /\ Len(wp) = 1 + Len(p) /\ wp[1] = c
  <2>1. wp \in Bytes /\ Len(wp) = Len(w) + Len(p) /\ \A i \in 1 .. Len(w) : wp[i] = w[i]
    BY <1>1, <1>3, Joined
  <2>2. QED
    BY <1>1, <2>1
<1>7. SubSeq(wp, 1, 1) = w /\ From(wp, 2) = p
  <2>1. SubSeq(wp, 1, Len(w)) = w /\ From(wp, Len(w) + 1) = p
    BY <1>1, <1>3, Behind
  <2>2. Len(w) + 1 = 2
    BY <1>1
  <2>3. QED
    BY <1>1, <2>1, <2>2, Zenon
<1> HIDE DEF wp
<1> DEFINE k == Len(wp)
<1>8. d \in Bytes /\ n = k + 2 /\ d[1] = c /\ k \in Nat /\ n \in Nat /\ k >= 5
      /\ k = 1 + Len(p) /\ \A i \in 1 .. k : d[i] = wp[i]
  <2>1. d \in Bytes /\ Len(d) = Len(wp) + Len(q) /\ \A i \in 1 .. Len(wp) : d[i] = wp[i]
    <3> DEFINE e == wp \o q
    <3> HIDE DEF q
    <3>1. e \in Bytes /\ Len(e) = Len(wp) + Len(q) /\ \A i \in 1 .. Len(wp) : e[i] = wp[i]
      BY <1>2, <1>6, Joined
    <3>2. d = e
      BY <1>5
    <3> HIDE DEF e
    <3>3. QED
      BY <3>1, <3>2
  <2> HIDE DEF q
  <2>2. k = 1 + Len(p)
    BY <1>6
  <2>3. k \in Nat /\ k >= 5 /\ 1 \in 1 .. k
    BY <1>3, <2>2
  <2>4. QED
    BY <1>2, <1>6, <2>1, <2>2, <2>3
<1>9. SubSeq(d, 1, k) = wp /\ From(d, k + 1) = q
  <2> HIDE DEF q
  <2>1. QED
    BY <1>2, <1>5, <1>6, Behind
<1> HIDE DEF k, n
<1>10. SubSeq(d, n - 1, n) = <<CR, LF>>
  <2>1. n - 1 = k + 1
    BY <1>8
  <2>2. QED
    BY <1>9, <2>1 DEF From, n, q
<1>11. SubSeq(d, 2, n - 2) = p
  <2> DEFINE u == SubSeq(d, 2, k)
             v == SubSeq(wp, 2, k)
  <2>1. n - 2 = k /\ 1 + 1 = 2
    BY <1>8
  <2>2. u = v
    <3>1. Longer(wp, d)
      <4>1. Len(wp) = k /\ Len(d) = n /\ k <= n
        BY <1>8 DEF k, n
      <4>2. QED
        BY <1>8, <4>1 DEF Longer
    <3>2. 1 \in 0 .. Len(wp) /\ k \in 1 .. Len(wp)
      BY <1>8 DEF k
    <3>3. SubSeq(d, 1 + 1, k) = SubSeq(wp, 1 + 1, k)
      BY <1>6, <1>8, <3>1, <3>2, SamePiece
    <3>4. QED
      BY <2>1, <3>3
  <2>3. v = p
    BY <1>7 DEF From, k
  <2>4. QED
    BY <2>1, <2>2, <2>3
<1>12. ParseAddr(p).addr = a /\ ParseAddr(p).wire_len # 0
  <2> DEFINE l == Len(p)
  <2>1. l \in Nat /\ l >= 4
    BY <1>3
  <2> HIDE DEF l
  <2>2. l # 0
    BY <2>1
  <2>3. p \o <<>> = p
    BY <1>3, NoBytes
  <2>4. ParseAddr(p) = [addr |-> a, payload |-> <<>>, wire_len |-> l]
    BY <1>4, <2>3 DEF l
  <2>5. QED
    BY <2>2, <2>4
<1>13. \A b \in Bytes : Longer(b, d) => Expects(RequestNeeded(b), b, d)
  BY CommandExpects DEF IsCommand
<1>14. Foreseen("command", d)
  BY <1>13 DEF Foreseen, VerdictIn
<1>15. Expects(RequestNeeded(d), d, d)
  BY <1>8, <1>13, LongerSelf
<1>16. ASSUME NEW x, x.buf = d
       PROVE  Command(x) = Accept(x, Item(x, "command", n, a, c),
                                  IF c = Connect THEN "served" ELSE "udp")
  <2> DEFINE v == RequestNeeded(d)
             m == v.needed
             address == ParseAddr(SubSeq(d, 2, m - 2))
             item == Item(x, "command", m, address.addr, d[1])
             done == IF SubSeq(d, m - 1, m) # <<CR, LF>> \/ address.wire_len = 0
                     THEN Refuse(x, "bad")
                     ELSE Accept(x, item, IF d[1] = Connect THEN "served" ELSE "udp")
  <2>1. Command(x) = Judge(x, v, RequestRoom, done)
    BY <1>16 DEF Command
  <2>2. v.rc = "ok" /\ m = n
    BY <1>15, WholeIsJudged DEF n
  <2>3. address = ParseAddr(p) /\ SubSeq(d, m - 1, m) = <<CR, LF>>
    <3> HIDE DEF v
    <3>1. m = n
      BY <2>2
    <3> HIDE DEF m
    <3>2. QED
      BY <1>10, <1>11, <3>1
  <2>4. item = Item(x, "command", n, a, c)
    <3> HIDE DEF m, address
    <3>1. QED
      BY <1>8, <1>12, <2>2, <2>3
  <2> HIDE DEF address, item, m, v
  <2>5. done = Accept(x, item, IF c = Connect THEN "served" ELSE "udp")
    BY <1>8, <1>12, <2>3
  <2> HIDE DEF done
  <2>6. Judge(x, v, RequestRoom, done) = done
    BY <2>2, WholeIsDone
  <2>7. QED
    BY <2>1, <2>4, <2>5, <2>6
<1>17. Len(d) = 3 + Len(p)
  <2> DEFINE l == Len(p)
  <2>1. n = k + 2 /\ k = 1 + l /\ l \in Nat
    BY <1>3, <1>8
  <2> HIDE DEF l
  <2>2. n = 3 + l
    BY <2>1
  <2>3. QED
    BY <2>2 DEF l, n
<1>18. QED
  BY <1>8, <1>14, <1>16, <1>17 DEF n, p

\* Longer than a longer one.
LEMMA LongerYet ==
    ASSUME NEW b \in Bytes, NEW c \in Bytes, NEW d \in Bytes, Longer(b, c), Longer(c, d)
    PROVE  Longer(b, d)
<1>1. /\ Len(b) \in Nat /\ Len(c) \in Nat /\ Len(b) <= Len(c) /\ \A i \in 1 .. Len(b) : b[i] = c[i]
  BY LongerAll
<1>2. /\ Len(d) \in Nat /\ Len(c) <= Len(d) /\ \A i \in 1 .. Len(c) : c[i] = d[i]
  BY LongerAll
<1> DEFINE k == Len(b)
           m == Len(c)
           n == Len(d)
<1>3. k \in Nat /\ m \in Nat /\ n \in Nat /\ k <= m /\ m <= n
  BY <1>1, <1>2
<1> HIDE DEF k, m, n
<1>4. k <= n /\ \A i \in 1 .. k : i \in 1 .. m
  BY <1>3
<1>5. \A i \in 1 .. k : d[i] = b[i]
  BY <1>1, <1>2, <1>4 DEF k, m
<1>6. QED
  BY <1>4, <1>5 DEF Longer, k, n

\* What a longer one begins with.
LEMMA LongerBegins ==
    ASSUME NEW b \in Bytes, NEW d \in Bytes, Longer(b, d)
    PROVE  SubSeq(d, 1, Len(b)) = b
<1> DEFINE k == Len(b)
<1>1. k \in 0 .. Len(b)
  BY DEF Bytes
<1> HIDE DEF k
<1>2. SubSeq(d, 1, k) = SubSeq(b, 1, k)
  BY <1>1, SameFront
<1>3. SubSeq(b, 1, Len(b)) = b
  BY SubSeqFull DEF Bytes
<1>4. QED
  BY <1>2, <1>3 DEF k

\* A key as it is sent.
KeyAndBreak(p, key) == p = key \o <<CR, LF>>

\* A key of the block.
LEMMA PrefixHeard ==
    ASSUME NEW key \in Keys, NEW p, KeyAndBreak(p, key)
    PROVE  /\ p \in Bytes /\ Len(p) = PrefixLen
           /\ \A x : x.buf = p =>
                  Prefix(x, PrefixLen)
                      = Accept(x, Item(x, "prefix", PrefixLen, Failed.addr, 0), "command")
<1> DEFINE q == <<CR, LF>>
           e == key \o q
<1>1. key \in Bytes /\ Len(key) = KeyLen /\ \A i \in 1 .. KeyLen : key[i] # LF
  BY PeerAssumption
<1>2. q \in Bytes /\ Len(q) = 2 /\ q[1] = CR /\ q[2] = LF
  BY ProtocolBytes, Pair
<1>3. KeyLen \in Nat \ {0} /\ PrefixLen = KeyLen + 2 /\ PrefixLen \in Nat
  BY FramingAssumption DEF PrefixLen
<1> HIDE DEF q
<1>4. /\ e \in Bytes /\ Len(e) = Len(key) + Len(q) /\ \A i \in 1 .. Len(key) : e[i] = key[i]
      /\ \A i \in 1 .. Len(q) : e[Len(key) + i] = q[i]
  BY <1>1, <1>2, Joined
<1>5. SubSeq(e, 1, Len(key)) = key /\ From(e, Len(key) + 1) = q
  BY <1>1, <1>2, Behind
<1>6. p = e
  BY DEF q, KeyAndBreak
<1> HIDE DEF e
<1>7. /\ p \in Bytes /\ Len(p) = PrefixLen /\ p[KeyLen + 1] = CR
      /\ \A i \in 1 .. KeyLen : p[i] # LF
  BY <1>1, <1>2, <1>3, <1>4, <1>6
<1>8. SubSeq(p, 1, KeyLen) = key /\ From(p, KeyLen + 1) = <<CR, LF>>
  BY <1>1, <1>5, <1>6 DEF q
<1>9. ASSUME NEW x, x.buf = p PROVE ~LineEnds(x, PrefixLen)
  <2> SUFFICES ASSUME NEW i \in Len(p) - PrefixLen + 1 .. Len(p), p[i] = LF, i < KeyLen + 2
               PROVE  FALSE
    BY <1>9 DEF LineEnds
  <2>1. i \in 1 .. KeyLen \/ i = KeyLen + 1
    BY <1>3, <1>7
  <2>2. CR # LF
    BY DEF CR, LF
  <2>3. QED
    BY <1>7, <2>1, <2>2
<1>10. ASSUME NEW x, x.buf = p
       PROVE  Prefix(x, PrefixLen)
                  = Accept(x, Item(x, "prefix", PrefixLen, Failed.addr, 0), "command")
  <2>1. ~LineEnds(x, PrefixLen)
    BY <1>9, <1>10
  <2>2. ~(Len(x.buf) < PrefixLen)
    BY <1>3, <1>7, <1>10
  <2>3. From(x.buf, KeyLen + 1) = <<CR, LF>> /\ SubSeq(x.buf, 1, KeyLen) \in Keys
    BY <1>8, <1>10
  <2>4. QED
    BY <2>1, <2>2, <2>3 DEF Prefix
<1>11. QED
  BY <1>7, <1>10

\* Two bytes.
IsPair(d, h, l) == d = <<h, l>>

\* What a server answers first.
LEMMA MethodHeard ==
    ASSUME NEW c \in {NoAuth, Userpass}, c = Userpass => script.userpass,
           NEW d, IsPair(d, Version, c)
    PROVE  /\ d \in Bytes /\ Len(d) = 2
           /\ \A x : x.buf = d =>
                  Method(x) = Accept(x, Item(x, "method", 2, Failed.addr, 0),
                                     IF c = NoAuth THEN "response_read" ELSE "auth_read")
<1>1. d \in Bytes /\ Len(d) = 2 /\ d[1] = Version /\ d[2] = c
  BY ProtocolBytes, Pair DEF IsPair
<1>2. ParseMethodResponse(d, script.userpass) = IF c = NoAuth THEN "noauth" ELSE "userpass"
  BY <1>1 DEF ParseMethodResponse, NoAuth, Userpass
<1>3. ASSUME NEW x, x.buf = d
      PROVE  Method(x) = Accept(x, Item(x, "method", 2, Failed.addr, 0),
                                IF c = NoAuth THEN "response_read" ELSE "auth_read")
  <2> DEFINE method == ParseMethodResponse(d, script.userpass)
             item == Item(x, "method", 2, Failed.addr, 0)
  <2>1. Method(x) = CASE Len(d) < 2 -> x
                      [] Len(d) = 2 /\ method = "noauth" -> Accept(x, item, "response_read")
                      [] Len(d) = 2 /\ method = "userpass" -> Accept(x, item, "auth_read")
                      [] OTHER -> Refuse(x, "bad")
    BY <1>3 DEF Method
  <2>2. method = IF c = NoAuth THEN "noauth" ELSE "userpass"
    BY <1>2
  <2> HIDE DEF method, item
  <2>3. CASE c = NoAuth
    BY <1>1, <2>1, <2>2, <2>3 DEF item
  <2>4. CASE c # NoAuth
    BY <1>1, <2>1, <2>2, <2>4 DEF item
  <2>5. QED
    BY <2>3, <2>4
<1>4. QED
  BY <1>1, <1>3

\* And what it answers to a password.
LEMMA AuthHeard ==
    ASSUME NEW d, IsPair(d, AuthVersion, 0)
    PROVE  /\ d \in Bytes /\ Len(d) = 2
           /\ \A x : x.buf = d =>
                  Auth(x) = Accept(x, Item(x, "auth", 2, Failed.addr, 0), "response_read")
<1>1. d \in Bytes /\ Len(d) = 2 /\ d[1] = AuthVersion /\ d[2] = 0
  BY ProtocolBytes, Pair DEF IsPair
<1>2. ParseAuthResponse(d) = "ok"
  BY <1>1 DEF ParseAuthResponse
<1>3. ASSUME NEW x, x.buf = d
      PROVE  Auth(x) = Accept(x, Item(x, "auth", 2, Failed.addr, 0), "response_read")
  BY <1>1, <1>2, <1>3 DEF Auth
<1>4. QED
  BY <1>1, <1>3

\* Four pieces in a row.
Row(f, p, h, q, c) == f = p \o h \o q \o c

\* What stands where.
Placed(f, p, h, q, c) ==
    /\ f \in Bytes /\ Longer(p, f) /\ Len(f) = Len(p) + 4 + Len(c)
    /\ From(f, Len(p) + 5) = c
    /\ f[Len(p) + 1] = h[1] /\ f[Len(p) + 2] = h[2]
    /\ f[Len(p) + 3] = q[1] /\ f[Len(p) + 4] = q[2]

\* In a row they do.
LEMMA FourPieces ==
    ASSUME NEW p \in Bytes, NEW h \in Bytes, NEW q \in Bytes, NEW c \in Bytes,
           Len(h) = 2, Len(q) = 2, NEW f, Row(f, p, h, q, c)
    PROVE  Placed(f, p, h, q, c)
<1> DEFINE ph == p \o h
<1>1. /\ ph \in Bytes /\ Len(ph) = Len(p) + Len(h) /\ Longer(p, ph)
      /\ \A i \in 1 .. Len(h) : ph[Len(p) + i] = h[i]
  BY BufferLonger, Joined
<1> HIDE DEF ph
<1> DEFINE phq == ph \o q
<1>2. /\ phq \in Bytes /\ Len(phq) = Len(ph) + Len(q) /\ Longer(ph, phq)
      /\ \A i \in 1 .. Len(q) : phq[Len(ph) + i] = q[i]
  BY <1>1, BufferLonger, Joined
<1> HIDE DEF phq
<1> DEFINE e == phq \o c
<1>0. e \in Bytes /\ Len(e) = Len(phq) + Len(c) /\ Longer(phq, e) /\ From(e, Len(phq) + 1) = c
  BY <1>2, BufferLonger, Behind
<1>e. f = e
  BY DEF Row, ph, phq
<1> HIDE DEF e
<1>3. f \in Bytes /\ Len(f) = Len(phq) + Len(c) /\ Longer(phq, f) /\ From(f, Len(phq) + 1) = c
  BY <1>0, <1>e, Zenon
<1> DEFINE m == Len(p)
           n == Len(c)
<1>4. m \in Nat /\ n \in Nat
  BY DEF Bytes
<1>5. Len(p) = m /\ Len(c) = n
  OBVIOUS
<1> HIDE DEF m, n
<1>6. Len(ph) = m + 2 /\ Len(phq) = m + 4 /\ Len(f) = m + 4 + n
  <2>1. Len(ph) = m + 2
    BY <1>1, <1>5
  <2>2. Len(phq) = m + 4
    BY <1>2, <1>4, <2>1
  <2>3. QED
    BY <1>3, <1>4, <1>5, <2>1, <2>2
<1>7. Longer(ph, f) /\ Longer(p, f)
  BY <1>1, <1>2, <1>3, LongerYet
<1>8. /\ m + 1 \in 1 .. m + 2 /\ m + 2 \in 1 .. m + 2 /\ m + 3 \in 1 .. m + 4
      /\ m + 4 \in 1 .. m + 4 /\ m + 2 + 1 = m + 3 /\ m + 2 + 2 = m + 4 /\ m + 4 + 1 = m + 5
  BY <1>4
<1>9. /\ \A i \in 1 .. m + 2 : ph[i] = f[i]
      /\ \A i \in 1 .. m + 4 : phq[i] = f[i]
  <2>1. \A i \in 1 .. Len(ph) : ph[i] = f[i]
    BY <1>1, <1>3, <1>7, LongerAll
  <2>2. \A i \in 1 .. Len(phq) : phq[i] = f[i]
    BY <1>2, <1>3, LongerAll
  <2>3. QED
    BY <1>6, <2>1, <2>2
<1>10. ph[m + 1] = h[1] /\ ph[m + 2] = h[2] /\ phq[m + 3] = q[1] /\ phq[m + 4] = q[2]
  <2>1. 1 \in 1 .. Len(h) /\ 2 \in 1 .. Len(h) /\ 1 \in 1 .. Len(q) /\ 2 \in 1 .. Len(q)
    OBVIOUS
  <2>2. ph[m + 1] = h[1] /\ ph[m + 2] = h[2]
    BY <1>1, <1>5, <2>1
  <2>3. phq[m + 2 + 1] = q[1] /\ phq[m + 2 + 2] = q[2]
    BY <1>2, <1>6, <2>1
  <2>4. QED
    BY <1>8, <2>2, <2>3
<1>11. f[m + 1] = h[1] /\ f[m + 2] = h[2] /\ f[m + 3] = q[1] /\ f[m + 4] = q[2]
  BY <1>8, <1>9, <1>10
<1>12. From(f, m + 5) = c
  BY <1>3, <1>6, <1>8
<1>13. QED
  BY <1>3, <1>5, <1>6, <1>7, <1>11, <1>12, Zenon DEF Placed

\* What four such pieces make is read as a frame.
LEMMA PiecesRead ==
    ASSUME NEW a, NEW m \in Nat, m > 0, NEW n \in Nat, NEW f \in Bytes, Len(f) = m + 4 + n,
           ParseAddr(f) = [addr |-> a, payload |-> <<>>, wire_len |-> m],
           U16(f, m + 1) = n, f[m + 3] = CR, f[m + 4] = LF,
           NEW payload, From(f, m + 5) = payload
    PROVE  ParseUdpFrame(f) = [addr |-> a, payload |-> payload, wire_len |-> Len(f)]
<1> DEFINE b == ParseAddr(f)
           head == b.wire_len + 4
           k == U16(f, b.wire_len + 1)
<1>1. b.wire_len = m /\ b.addr = a
  OBVIOUS
<1>2. ParseUdpFrame(f) =
          IF \/ b.wire_len = 0 \/ Len(f) < head
             \/ f[head - 1] # CR \/ f[head] # LF \/ ~Reached(f, head + k)
          THEN Failed
          ELSE [addr |-> b.addr, payload |-> SubSeq(f, head + 1, head + k), wire_len |-> head + k]
  BY DEF ParseUdpFrame
<1> HIDE DEF b
<1>3. k = n /\ head = m + 4
  BY <1>1
<1>4. m # 0 /\ head - 1 = m + 3 /\ head + k = Len(f) /\ ~(Len(f) < head) /\ head + 1 = m + 5
  BY <1>3
<1>5. f[head - 1] = CR /\ f[head] = LF /\ Reached(f, head + k)
  BY <1>3, <1>4 DEF Reached
<1>6. SubSeq(f, head + 1, head + k) = payload
  BY <1>4 DEF From
<1> HIDE DEF k, head
<1>7. QED
  BY <1>1, <1>2, <1>4, <1>5, <1>6

\* A front of known length.
LEMMA FrontRead ==
    ASSUME NEW a, NEW p \in Bytes,
           \A rest \in Bytes : ParseAddr(p \o rest) = [addr |-> a, payload |-> <<>>, wire_len |-> Len(p)],
           NEW f \in Bytes, Longer(p, f)
    PROVE  ParseAddr(f) = [addr |-> a, payload |-> <<>>, wire_len |-> Len(p)]
<1>1. Len(p) \in 0 .. Len(f)
  BY LongerAll
<1>2. SubSeq(f, 1, Len(p)) \o From(f, Len(p) + 1) = f /\ From(f, Len(p) + 1) \in Bytes
  BY <1>1, Cut
<1>3. SubSeq(f, 1, Len(p)) = p
  BY LongerBegins
<1>4. QED
  BY <1>2, <1>3

\* What is read as an address, whatever follows.
ReadsAs(p, a) ==
    /\ p \in Bytes /\ Len(p) >= 4
    /\ \A rest \in Bytes :
           ParseAddr(p \o rest) = [addr |-> a, payload |-> <<>>, wire_len |-> Len(p)]

\* Two bytes that give a length, and two that end a line.
Tells(h, c) == h \in Bytes /\ Len(h) = 2 /\ 256 * h[1] + h[2] = Len(c)
IsLineEnd(q) == q \in Bytes /\ Len(q) = 2 /\ q[1] = CR /\ q[2] = LF

\* A frame and nothing else.
ReadAsFrame(f, a, c) ==
    /\ f \in Bytes /\ Len(f) \in Nat \ {0}
    /\ ParseUdpFrame(f) = [addr |-> a, payload |-> c, wire_len |-> Len(f)]

\* An address, a length, CR LF and a payload.
LEMMA PiecesAreFrame ==
    ASSUME NEW a, NEW p, ReadsAs(p, a), NEW payload \in Bytes, NEW h, Tells(h, payload),
           NEW q, IsLineEnd(q), NEW f, Row(f, p, h, q, payload)
    PROVE  ReadAsFrame(f, a, payload)
<1>2. /\ f \in Bytes /\ Longer(p, f) /\ Len(f) = Len(p) + 4 + Len(payload)
      /\ From(f, Len(p) + 5) = payload
      /\ f[Len(p) + 1] = h[1] /\ f[Len(p) + 2] = h[2]
      /\ f[Len(p) + 3] = q[1] /\ f[Len(p) + 4] = q[2]
  <2>1. p \in Bytes /\ h \in Bytes /\ q \in Bytes /\ Len(h) = 2 /\ Len(q) = 2
    BY DEF ReadsAs, Tells, IsLineEnd
  <2>2. Placed(f, p, h, q, payload)
    BY <2>1, FourPieces
  <2>3. QED
    BY <2>2, Zenon DEF Placed
<1> DEFINE m == Len(p)
           n == Len(payload)
<1>1. m \in Nat /\ n \in Nat /\ m > 0 /\ Len(p) = m /\ Len(payload) = n
  BY DEF Bytes, ReadsAs
<1>3. ParseAddr(f) = [addr |-> a, payload |-> <<>>, wire_len |-> m]
  BY <1>2, FrontRead DEF ReadsAs
<1> HIDE DEF m, n
<1>4. Len(f) = m + 4 + n /\ From(f, m + 5) = payload /\ f[m + 3] = CR /\ f[m + 4] = LF
  BY <1>1, <1>2, Zenon DEF IsLineEnd
<1>5. U16(f, m + 1) = n
  <2>1. m + 1 + 1 = m + 2
    BY <1>1
  <2>2. f[m + 1] = h[1] /\ f[m + 2] = h[2] /\ 256 * h[1] + h[2] = n
    BY <1>1, <1>2, Zenon DEF Tells
  <2>3. QED
    BY <2>1, <2>2, Zenon DEF U16
<1>6. ParseUdpFrame(f) = [addr |-> a, payload |-> payload, wire_len |-> Len(f)]
  BY <1>1, <1>2, <1>3, <1>4, <1>5, PiecesRead, Zenon
<1>7. Len(f) \in Nat \ {0}
  BY <1>1, <1>4
<1>8. QED
  BY <1>2, <1>6, <1>7 DEF ReadAsFrame

\* A frame as it is sent.
IsFrameOf(f, a, payload) == f = PackUdpFrame(a, payload)

\* A frame is read as it was packed.
LEMMA FrameHeard ==
    ASSUME NEW a, IsAddress(a), NEW payload \in Bytes, Len(payload) < 65536,
           NEW f, IsFrameOf(f, a, payload)
    PROVE  ReadAsFrame(f, a, payload)
<1>1. PutAddr(a) \in Bytes /\ Len(PutAddr(a)) >= 4
  BY NoBytes, AddressAmong
<1>2. Len(payload) \in Nat
  BY DEF Bytes
<1>3. Tells(Be16(Len(payload)), payload)
  BY <1>2, BytesOfWord DEF Tells
<1>4. IsLineEnd(<<CR, LF>>)
  BY ProtocolBytes, Pair DEF IsLineEnd
<1>5. Row(f, PutAddr(a), Be16(Len(payload)), <<CR, LF>>, payload)
  BY DEF PackUdpFrame, IsFrameOf, Row
<1>6. ReadsAs(PutAddr(a), a)
  BY <1>1, PutAsParsed DEF ReadsAs
<1>7. QED
  BY <1>3, <1>4, <1>5, <1>6, PiecesAreFrame

-----------------------------------------------------------------------------
(* Messages behind one another. *)

\* A reader that gets a stream byte by byte.
Run(x, s, g) == ReaderRight(x) /\ s \in Bytes /\ Goes(x, s, g, Len(s))

\* It is right wherever it has got a piece.
LEMMA RunRight ==
    ASSUME NEW x, NEW s, NEW g, Run(x, s, g), NEW k \in Nat, NEW d \in Bytes, PieceAt(s, k, d)
    PROVE  ReaderRight(g[k + Len(d)]) /\ k + Len(d) \in Nat
<1> DEFINE n == k + Len(d)
<1>1. s \in Bytes /\ Goes(x, s, g, Len(s)) /\ ReaderRight(x)
  BY DEF Run
<1>2. n \in 0 .. Len(s) /\ n \in Nat
  BY <1>1 DEF Bytes, PieceAt
<1> HIDE DEF n
<1>3. ReaderRight(g[n])
  BY <1>1, <1>2, WalkRight
<1>4. QED
  BY <1>2, <1>3 DEF n

\* It stands before a message d behind k bytes.
Meets(x, s, g, k, d, phase, meant) ==
    /\ Run(x, s, g) /\ k \in Nat /\ d \in Bytes /\ Len(d) > 0 /\ PieceAt(s, k, d)
    /\ Stands(g[k], phase, meant)

\* Then its buffer is empty.
LEMMA MeetsEmpty ==
    ASSUME NEW x, NEW s, NEW g, NEW k, NEW d, NEW phase, NEW meant,
           Meets(x, s, g, k, d, phase, meant)
    PROVE  /\ g[k].phase = phase /\ g[k].buf = <<>> /\ Filled(g[k], d).buf = d
           /\ Filled(g[k], d).phase = phase /\ ReaderRight(g[k])
<1> DEFINE y == g[k]
<1>1. y.phase = phase /\ y.buf = <<>> /\ ReaderRight(y) /\ d \in Bytes
  BY DEF Meets, Stands
<1> HIDE DEF y
<1>2. IsReader(y)
  BY <1>1 DEF ReaderRight
<1>3. Filled(y, d).phase = y.phase /\ Filled(y, d).buf = d
  BY <1>1, <1>2, FilledBetween
<1>4. QED
  BY <1>1, <1>3 DEF y

\* A message that comes at once.
LEMMA PieceStep ==
    ASSUME NEW x, NEW s, NEW g, NEW k, NEW p, NEW phase, NEW meant,
           Meets(x, s, g, k, p, phase, meant), Len(p) <= Wanted(g[k]), NEW item, NEW next,
           Fed(g[k], p) = Accept(Filled(g[k], p), item, next)
    PROVE  Stands(g[k + Len(p)], next, Append(meant, MeaningOf(item)))
<1> DEFINE y == g[k]
           w == Accept(Filled(y, p), item, next)
<1>0. Run(x, s, g) /\ k \in Nat /\ p \in Bytes /\ Len(p) > 0 /\ PieceAt(s, k, p)
  BY DEF Meets
<1>1. ReaderRight(y) /\ y.handed = <<>> /\ MeaningsOf(y.got) = meant
  BY DEF Stands, Meets
<1>2. IsReader(y) /\ GotRight(y.got)
  BY <1>1 DEF ReaderRight
<1>3. g[k + Len(p)] = w /\ ReaderRight(w)
  <2>1. s \in Bytes /\ Goes(x, s, g, Len(s))
    BY <1>0 DEF Run
  <2>2. g[k + Len(p)] = Fed(y, p) /\ ReaderRight(g[k + Len(p)])
    BY <1>0, <1>1, <2>1, PieceTaken
  <2>3. Fed(y, p) = w
    OBVIOUS
  <2>4. QED
    BY <2>2, <2>3, Zenon
<1> HIDE DEF y
<1>4. Stands(w, next, Append(MeaningsOf(y.got), MeaningOf(item)))
  BY <1>1, <1>2, <1>3, AcceptStands
<1> HIDE DEF w
<1>5. QED
  BY <1>1, <1>3, <1>4, Zenon

\* A message of which the reader asks for what it can foresee, when the reader
\* has some of it already.
HasSome(x, s, g, k, d, phase, meant, y, i) ==
    /\ Run(x, s, g) /\ k \in Nat /\ d \in Bytes /\ PieceAt(s, k, d)
    /\ phase \in Judged /\ Stands(y, phase, meant)
    /\ Foreseen(phase, d) /\ Len(d) <= Room[phase]
    /\ i \in 0 .. Len(d) - 1 /\ g[k + i] = Filled(y, SubSeq(d, 1, i))

\* It gets the rest.
LEMMA MessageStep ==
    ASSUME NEW x, NEW s, NEW g, NEW k, NEW d, NEW phase, NEW meant, NEW y, NEW i,
           HasSome(x, s, g, k, d, phase, meant, y, i),
           NEW item, NEW next, Handle(phase, Filled(y, d)) = Accept(Filled(y, d), item, next)
    PROVE  Stands(g[k + Len(d)], next, Append(meant, MeaningOf(item)))
<1>0. /\ Run(x, s, g) /\ k \in Nat /\ d \in Bytes /\ PieceAt(s, k, d)
      /\ phase \in Judged /\ Stands(y, phase, meant)
      /\ Foreseen(phase, d) /\ Len(d) <= Room[phase]
      /\ i \in 0 .. Len(d) - 1 /\ g[k + i] = Filled(y, SubSeq(d, 1, i))
  BY DEF HasSome
<1> DEFINE w == Accept(Filled(y, d), item, next)
           end == k + Len(d)
<1>1. ReaderRight(y) /\ y.handed = <<>> /\ MeaningsOf(y.got) = meant /\ y.phase = phase /\ y.buf = <<>>
  BY <1>0 DEF Stands
<1>2. IsReader(y) /\ GotRight(y.got)
  BY <1>1 DEF ReaderRight
<1>3. s \in Bytes /\ Goes(x, s, g, Len(s)) /\ ReaderRight(x)
  BY <1>0 DEF Run
<1>4. g[end] = w
  <2>1. g[end] = Handle(y.phase, Filled(y, d))
    <3>0. Foreseen(y.phase, d) /\ y.phase \in Judged /\ Len(d) <= Room[y.phase]
      BY <1>0, <1>1
    <3>a. k \in Nat /\ d \in Bytes /\ PieceAt(s, k, d)
      BY <1>0
    <3>b. i \in 0 .. Len(d) - 1
      BY <1>0
    <3>c. g[k + i] = Filled(y, SubSeq(d, 1, i))
      BY <1>0
    <3>d. s \in Bytes /\ Goes(x, s, g, Len(s)) /\ IsReader(y) /\ y.buf = <<>>
      BY <1>1, <1>2, <1>3
    <3>1. Comes(x, s, g, k, d, y, i)
      BY ONLY <3>a, <3>b, <3>c, <3>d, <3>0, Zenon DEF Comes
    <3>2. g[k + Len(d)] = Handle(y.phase, Filled(y, d))
      BY <3>1, MessageComes
    <3>3. QED
      BY <3>2, Zenon
  <2>2. Handle(y.phase, Filled(y, d)) = w
    BY <1>1
  <2>3. QED
    BY <2>1, <2>2, Zenon
<1>5. ReaderRight(g[end])
  BY <1>0, RunRight
<1>6. ReaderRight(w)
  BY <1>4, <1>5, Zenon
<1>7. Stands(w, next, Append(MeaningsOf(y.got), MeaningOf(item)))
  BY <1>1, <1>2, <1>6, AcceptStands
<1> HIDE DEF w, end
<1>8. Stands(g[end], next, Append(meant, MeaningOf(item)))
  BY <1>1, <1>4, <1>7, Zenon
<1>9. QED
  BY <1>8 DEF end

\* With nothing more the reader is the same.
LEMMA FilledNothing ==
    ASSUME NEW y, ReaderRight(y), NEW d \in Bytes
    PROVE  Filled(y, SubSeq(d, 1, 0)) = y
<1>1. SubSeq(d, 1, 0) = <<>>
  BY SubSeqEmpty DEF Bytes
<1>2. IsReader(y) /\ y.buf \in Bytes
  BY DEF ReaderRight
<1> DEFINE z == Filled(y, <<>>)
<1>3. /\ IsReader(z) /\ z.phase = y.phase /\ z.buf = y.buf \o <<>> /\ z.got = y.got
      /\ z.handed = y.handed
  BY <1>2, FilledFields
<1> HIDE DEF z
<1>4. y.buf \o <<>> = y.buf
  <2> DEFINE b == y.buf
  <2>1. b \in Bytes
    BY <1>2
  <2> HIDE DEF b
  <2>2. b \o <<>> = b
    BY <2>1, NoBytes
  <2>3. QED
    BY <2>2 DEF b
<1>5. z = y
  BY <1>2, <1>3, <1>4, SameReader
<1>6. QED
  BY <1>1, <1>5 DEF z

\* When it stands before the message.
LEMMA WholeStep ==
    ASSUME NEW x, NEW s, NEW g, NEW k, NEW d, NEW phase \in Judged, NEW meant,
           Meets(x, s, g, k, d, phase, meant),
           Foreseen(phase, d), Len(d) <= Room[phase], NEW item, NEW next,
           Handle(phase, Filled(g[k], d)) = Accept(Filled(g[k], d), item, next)
    PROVE  Stands(g[k + Len(d)], next, Append(meant, MeaningOf(item)))
<1> DEFINE y == g[k]
<1>0. /\ Run(x, s, g) /\ k \in Nat /\ d \in Bytes /\ Len(d) > 0 /\ PieceAt(s, k, d)
      /\ Stands(y, phase, meant)
  BY DEF Meets
<1>1. ReaderRight(y)
  BY <1>0 DEF Stands
<1>2. g[k + 0] = Filled(y, SubSeq(d, 1, 0))
  <2>1. k + 0 = k
    BY <1>0
  <2>2. g[k + 0] = y
    BY <2>1
  <2> HIDE DEF y
  <2>3. Filled(y, SubSeq(d, 1, 0)) = y
    BY <1>0, <1>1, FilledNothing
  <2>4. QED
    BY <2>2, <2>3
<1>3. 0 \in 0 .. Len(d) - 1
  BY <1>0 DEF Bytes
<1>4. Stands(y, phase, meant) /\ Handle(phase, Filled(y, d)) = Accept(Filled(y, d), item, next)
  BY <1>0
<1> HIDE DEF y
<1>5. HasSome(x, s, g, k, d, phase, meant, y, 0)
  <2>1. phase \in Judged /\ Foreseen(phase, d) /\ Len(d) <= Room[phase]
    OBVIOUS
  <2>2. QED
    BY ONLY <1>0, <1>2, <1>3, <2>1 DEF HasSome
<1>6. Stands(g[k + Len(d)], next, Append(meant, MeaningOf(item)))
  BY <1>4, <1>5, MessageStep
<1>7. QED
  BY <1>6

\* A key and the line end behind it.
LEMMA PrefixStep ==
    ASSUME NEW x, NEW s, NEW g, NEW k, NEW p, NEW meant, Meets(x, s, g, k, p, "prefix", meant),
           NEW key \in Keys, KeyAndBreak(p, key)
    PROVE  Stands(g[k + Len(p)], "command", Append(meant, Plain("prefix")))
<1> DEFINE y == g[k]
           z == Filled(y, p)
           item == Item(z, "prefix", PrefixLen, Failed.addr, 0)
<1>1. y.phase = "prefix" /\ y.buf = <<>> /\ z.buf = p
  BY MeetsEmpty
<1>2. Len(p) = PrefixLen /\ PrefixLen \in Nat
        /\ \A w : w.buf = p => Prefix(w, PrefixLen)
                        = Accept(w, Item(w, "prefix", PrefixLen, Failed.addr, 0), "command")
  BY PrefixHeard, Rooms
<1>3. Prefix(z, PrefixLen) = Accept(z, item, "command")
  <2> HIDE DEF z
  <2>1. QED
    BY <1>1, <1>2
<1>4. Fed(y, p) = Prefix(z, Len(p))
  BY <1>1 DEF Fed, Filled
<1>5. Wanted(y) = PrefixLen
  <2> HIDE DEF y
  <2>1. Wanted(y) = PrefixLen - Len(y.buf) /\ Len(y.buf) = 0
    BY <1>1 DEF Wanted
  <2>2. QED
    BY <1>2, <2>1
<1>6. MeaningOf(item) = Plain("prefix")
  <2> HIDE DEF z
  <2>1. QED
    BY ItemMeans DEF Plain
<1>7. Fed(y, p) = Accept(z, item, "command") /\ Len(p) <= Wanted(y)
  <2> HIDE DEF y, z, item
  <2>1. QED
    BY <1>2, <1>3, <1>4, <1>5
<1> HIDE DEF item
<1>8. Stands(g[k + Len(p)], "command", Append(meant, MeaningOf(item)))
  BY <1>7, PieceStep
<1>9. QED
  BY <1>6, <1>8

\* How much a reader of two bytes wants.
LEMMA TwoWanted ==
    ASSUME NEW y, y.buf = <<>>, y.phase \in {"method_read", "auth_read"}
    PROVE  Wanted(y) = 2
<1>1. Wanted(y) = 2 - Len(y.buf) /\ Len(y.buf) = 0
  BY DEF Wanted
<1>2. QED
  BY <1>1

\* The method of a server.
LEMMA MethodStep ==
    ASSUME NEW x, NEW s, NEW g, NEW k, NEW p, NEW meant,
           Meets(x, s, g, k, p, "method_read", meant),
           NEW c \in {NoAuth, Userpass}, c = Userpass => script.userpass, IsPair(p, Version, c)
    PROVE  Stands(g[k + Len(p)], IF c = NoAuth THEN "response_read" ELSE "auth_read",
                  Append(meant, Plain("method")))
<1> DEFINE y == g[k]
           z == Filled(y, p)
           item == Item(z, "method", 2, Failed.addr, 0)
           next == IF c = NoAuth THEN "response_read" ELSE "auth_read"
<1>1. y.phase = "method_read" /\ y.buf = <<>> /\ z.buf = p
  BY MeetsEmpty
<1>2. Len(p) = 2
        /\ \A w : w.buf = p => Method(w) = Accept(w, Item(w, "method", 2, Failed.addr, 0), next)
  BY MethodHeard
<1>3. Method(z) = Accept(z, item, next)
  <2> HIDE DEF z, next
  <2>1. QED
    BY <1>1, <1>2
<1>4. Fed(y, p) = Method(z)
  BY <1>1 DEF Fed, Filled
<1>5. Wanted(y) = 2
  BY <1>1, TwoWanted
<1>6. MeaningOf(item) = Plain("method")
  <2> HIDE DEF z
  <2>1. QED
    BY ItemMeans DEF Plain
<1>7. Fed(y, p) = Accept(z, item, next) /\ Len(p) <= Wanted(y)
  <2> HIDE DEF y, z, item, next
  <2>1. QED
    BY <1>2, <1>3, <1>4, <1>5
<1> HIDE DEF item, next
<1>8. Stands(g[k + Len(p)], next, Append(meant, MeaningOf(item)))
  BY <1>7, PieceStep
<1>9. QED
  BY <1>6, <1>8 DEF next

\* Its answer to a password.
LEMMA AuthStep ==
    ASSUME NEW x, NEW s, NEW g, NEW k, NEW p, NEW meant,
           Meets(x, s, g, k, p, "auth_read", meant), IsPair(p, AuthVersion, 0)
    PROVE  Stands(g[k + Len(p)], "response_read", Append(meant, Plain("auth")))
<1> DEFINE y == g[k]
           z == Filled(y, p)
           item == Item(z, "auth", 2, Failed.addr, 0)
<1>1. y.phase = "auth_read" /\ y.buf = <<>> /\ z.buf = p
  BY MeetsEmpty
<1>2. Len(p) = 2 /\ \A w : w.buf = p =>
          Auth(w) = Accept(w, Item(w, "auth", 2, Failed.addr, 0), "response_read")
  BY AuthHeard
<1>3. Auth(z) = Accept(z, item, "response_read")
  <2> HIDE DEF z
  <2>1. QED
    BY <1>1, <1>2
<1>4. Fed(y, p) = Auth(z)
  BY <1>1 DEF Fed, Filled
<1>5. Wanted(y) = 2
  BY <1>1, TwoWanted
<1>6. MeaningOf(item) = Plain("auth")
  <2> HIDE DEF z
  <2>1. QED
    BY ItemMeans DEF Plain
<1>7. Fed(y, p) = Accept(z, item, "response_read") /\ Len(p) <= Wanted(y)
  <2> HIDE DEF y, z, item
  <2>1. QED
    BY <1>2, <1>3, <1>4, <1>5
<1> HIDE DEF item
<1>8. Stands(g[k + Len(p)], "response_read", Append(meant, MeaningOf(item)))
  BY <1>7, PieceStep
<1>9. QED
  BY <1>6, <1>8

\* The longest address.
LEMMA AddressShort ==
    ASSUME NEW a, IsAddress(a)
    PROVE  PutAddr(a) \in Bytes /\ Len(PutAddr(a)) \in Nat /\ Len(PutAddr(a)) >= 4
           /\ Len(PutAddr(a)) <= 259
<1>1. /\ PutAddr(a) \in Bytes /\ Len(PutAddr(a)) \in Nat /\ Len(PutAddr(a)) >= 4
      /\ Len(PutAddr(a)) = Before(a.type) + Len(a.host) + 2
  BY NoBytes, AddressAmong
<1>2. Len(a.host) \in Nat /\ Len(a.host) < 256 /\ Before(a.type) \in {1, 2}
  <2>1. HostFits(a.type, Len(a.host)) /\ a.host \in Bytes
    BY DEF IsAddress
  <2>2. V4Len \in Nat /\ V6Len \in Nat /\ V4Len < 256 /\ V6Len < 256
    BY WireAssumption, PeerAssumption
  <2>3. Len(a.host) \in Nat
    BY <2>1 DEF Bytes
  <2>4. QED
    BY <2>1, <2>2, <2>3 DEF HostFits, Before
<1>3. \A n \in Nat, m \in Nat, l \in {1, 2} : n = l + m + 2 /\ m < 256 => n <= 259
  OBVIOUS
<1>4. QED
  BY <1>1, <1>2, <1>3

\* A command.
LEMMA CommandStep ==
    ASSUME NEW x, NEW s, NEW g, NEW k, NEW d, NEW meant,
           Meets(x, s, g, k, d, "command", meant),
           NEW c \in {Connect, Associate}, NEW a, IsAddress(a), IsCommand(d, c, a)
    PROVE  Stands(g[k + Len(d)], IF c = Connect THEN "served" ELSE "udp", Append(meant, Msg("command", a, c)))
<1> DEFINE y == g[k]
           z == Filled(y, d)
           item == Item(z, "command", Len(d), a, c)
           next == IF c = Connect THEN "served" ELSE "udp"
<1>1. y.phase = "command" /\ y.buf = <<>> /\ z.buf = d
  BY MeetsEmpty
<1>2. Len(d) = 3 + Len(PutAddr(a)) /\ Foreseen("command", d)
        /\ \A w : w.buf = d => Command(w) = Accept(w, Item(w, "command", Len(d), a, c), next)
  BY CommandHeard
<1>3. Command(z) = Accept(z, item, next)
  <2> HIDE DEF z, next
  <2>1. QED
    BY <1>1, <1>2
<1>4. Handle("command", z) = Command(z)
  BY DEF Handle
<1>5. Len(d) <= Room["command"]
  <2>1. Len(PutAddr(a)) \in Nat /\ Len(PutAddr(a)) <= 259
    BY AddressShort
  <2>2. Room["command"] = RequestRoom
    BY Rooms
  <2>3. RequestRoom \in Nat /\ RequestRoom >= 262
    BY DEF RequestRoom
  <2>4. \A n \in Nat, m \in Nat : n <= 259 /\ m >= 262 => 3 + n <= m
    OBVIOUS
  <2>5. QED
    BY <1>2, <2>1, <2>2, <2>3, <2>4
<1>6. MeaningOf(item) = Msg("command", a, c)
  <2> HIDE DEF z
  <2>1. QED
    BY ItemMeans
<1>7. Handle("command", z) = Accept(z, item, next)
  BY <1>3, <1>4, Zenon
<1>8. "command" \in Judged
  BY DEF Judged
<1> HIDE DEF item, next
<1>9. Stands(g[k + Len(d)], next, Append(meant, MeaningOf(item)))
  BY <1>2, <1>5, <1>7, <1>8, WholeStep
<1>10. QED
  BY <1>6, <1>9 DEF next

\* A request of a local client.
LEMMA RequestStep ==
    ASSUME NEW x, NEW s, NEW g, NEW k, NEW d, NEW meant,
           Meets(x, s, g, k, d, "request", meant),
           NEW c \in {Connect, Associate}, NEW a, IsAddress(a), ThreeAndAddr(d, c, a)
    PROVE  Stands(g[k + Len(d)], "served", Append(meant, Msg("request", a, c)))
<1> DEFINE y == g[k]
           z == Filled(y, d)
           item == Item(z, "request", Len(d), a, c)
           next == "served"
<1>1. y.phase = "request" /\ y.buf = <<>> /\ z.buf = d
  BY MeetsEmpty
<1>2. Len(d) = 3 + Len(PutAddr(a)) /\ Foreseen("request", d)
        /\ \A w : w.buf = d => Request(w) = Accept(w, Item(w, "request", Len(d), a, c), next)
  BY RequestHeard, ProtocolBytes
<1>3. Request(z) = Accept(z, item, next)
  <2> HIDE DEF z, next
  <2>1. QED
    BY <1>1, <1>2
<1>4. Handle("request", z) = Request(z)
  BY DEF Handle
<1>5. Len(d) <= Room["request"]
  <2>1. Len(PutAddr(a)) \in Nat /\ Len(PutAddr(a)) <= 259
    BY AddressShort
  <2>2. Room["request"] = Socks5Room
    BY Rooms
  <2>3. Socks5Room \in Nat /\ Socks5Room >= 262
    BY PeerAssumption, Rooms
  <2>4. \A n \in Nat, m \in Nat : n <= 259 /\ m >= 262 => 3 + n <= m
    OBVIOUS
  <2>5. QED
    BY <1>2, <2>1, <2>2, <2>3, <2>4
<1>6. MeaningOf(item) = Msg("request", a, c)
  <2> HIDE DEF z
  <2>1. QED
    BY ItemMeans
<1>7. Handle("request", z) = Accept(z, item, next)
  BY <1>3, <1>4, Zenon
<1>8. "request" \in Judged
  BY DEF Judged
<1> HIDE DEF item, next
<1>9. Stands(g[k + Len(d)], next, Append(meant, MeaningOf(item)))
  BY <1>2, <1>5, <1>7, <1>8, WholeStep
<1>10. QED
  BY <1>6, <1>9 DEF next

\* The answer of a server.
LEMMA ResponseStep ==
    ASSUME NEW x, NEW s, NEW g, NEW k, NEW d, NEW meant,
           Meets(x, s, g, k, d, "response_read", meant),
           NEW a, IsAddress(a), ThreeAndAddr(d, 0, a)
    PROVE  Stands(g[k + Len(d)], "served", Append(meant, Msg("response", a, 0)))
<1> DEFINE y == g[k]
           z == Filled(y, d)
           item == Item(z, "response", Len(d), a, 0)
           next == "served"
<1>1. y.phase = "response_read" /\ y.buf = <<>> /\ z.buf = d
  BY MeetsEmpty
<1>2. Len(d) = 3 + Len(PutAddr(a)) /\ Foreseen("response_read", d)
        /\ \A w : w.buf = d => Response(w) = Accept(w, Item(w, "response", Len(d), a, 0), next)
  BY ResponseHeard
<1>3. Response(z) = Accept(z, item, next)
  <2> HIDE DEF z, next
  <2>1. QED
    BY <1>1, <1>2
<1>4. Handle("response_read", z) = Response(z)
  BY DEF Handle
<1>5. Len(d) <= Room["response_read"]
  <2>1. Len(PutAddr(a)) \in Nat /\ Len(PutAddr(a)) <= 259
    BY AddressShort
  <2>2. Room["response_read"] = Socks5Room
    BY Rooms
  <2>3. Socks5Room \in Nat /\ Socks5Room >= 262
    BY PeerAssumption, Rooms
  <2>4. \A n \in Nat, m \in Nat : n <= 259 /\ m >= 262 => 3 + n <= m
    OBVIOUS
  <2>5. QED
    BY <1>2, <2>1, <2>2, <2>3, <2>4
<1>6. MeaningOf(item) = Msg("response", a, 0)
  <2> HIDE DEF z
  <2>1. QED
    BY ItemMeans
<1>7. Handle("response_read", z) = Accept(z, item, next)
  BY <1>3, <1>4, Zenon
<1>8. "response_read" \in Judged
  BY DEF Judged
<1> HIDE DEF item, next
<1>9. Stands(g[k + Len(d)], next, Append(meant, MeaningOf(item)))
  BY <1>2, <1>5, <1>7, <1>8, WholeStep
<1>10. QED
  BY <1>6, <1>9 DEF next

-----------------------------------------------------------------------------
(* Frames. *)

\* What stands between others.
Between(s, u, v, w) == s = u \o v \o w

\* It is a piece.
LEMMA PieceAmong ==
    ASSUME NEW u \in Bytes, NEW v \in Bytes, NEW w \in Bytes, NEW s, Between(s, u, v, w)
    PROVE  s \in Bytes /\ PieceAt(s, Len(u), v)
<1> DEFINE uv == u \o v
           n == Len(u)
           l == Len(v)
           m == Len(uv)
<1>1. uv \in Bytes /\ Len(uv) = Len(u) + Len(v)
  BY Joined
<1>2. From(uv, Len(u) + 1) = v
  BY Behind
<1> HIDE DEF uv
<1> DEFINE e == uv \o w
<1>3. e \in Bytes /\ Len(e) = Len(uv) + Len(w) /\ Longer(uv, e)
  BY <1>1, BufferLonger
<1>4. s = e
  BY DEF Between, uv
<1> HIDE DEF e
<1>5. s \in Bytes /\ Len(s) = m + Len(w) /\ Longer(uv, s)
  BY <1>3, <1>4
<1>6. n \in Nat /\ l \in Nat /\ Len(w) \in Nat /\ m = n + l /\ Len(u) = n /\ Len(v) = l /\ Len(uv) = m
  BY <1>1 DEF Bytes
<1> HIDE DEF n, l, m
<1>7. n \in 0 .. Len(uv) /\ m \in n .. Len(uv) /\ n + l <= Len(s)
  BY <1>5, <1>6
<1>8. SubSeq(s, n + 1, m) = SubSeq(uv, n + 1, m)
  BY <1>1, <1>5, <1>7, SamePiece
<1>9. SubSeq(uv, n + 1, m) = v
  BY <1>2, <1>6 DEF From
<1>10. QED
  BY <1>5, <1>6, <1>7, <1>8, <1>9 DEF PieceAt

\* A frame alone in the buffer.
LEMMA FrameAlone ==
    ASSUME NEW f, NEW a, NEW c, ReadAsFrame(f, a, c)
    PROVE  /\ Frames(f) = [items |-> <<FrameItem(f, ParseUdpFrame(f))>>, left |-> <<>>]
           /\ MeaningOf(FrameItem(f, ParseUdpFrame(f))) = Frame(a, c)
<1> DEFINE l == Len(f)
           end == 1 + l
           item == FrameItem(f, ParseUdpFrame(f))
<1>1. f \in Bytes /\ l \in Nat \ {0} /\ ParseUdpFrame(f) = [addr |-> a, payload |-> c, wire_len |-> l]
  BY DEF ReadAsFrame
<1>2. MeaningOf(item) = Frame(a, c)
  BY <1>1 DEF MeaningOf, FrameItem
<1>3. From(f, 1) = f /\ From(f, end) = <<>>
  <2>1. SubSeq(f, 1, Len(f)) = f
    BY <1>1, SubSeqFull DEF Bytes
  <2>2. SubSeq(f, end, l) = <<>>
    <3>1. end \in Int /\ l \in Int /\ l < end
      BY <1>1
    <3> HIDE DEF end, l
    <3>2. QED
      BY <1>1, <3>1, SubSeqEmpty DEF Bytes
  <2>3. QED
    BY <2>1, <2>2 DEF From
<1>4. FrameAt(f, 1) = ParseUdpFrame(f) /\ ItemAt(f, 1) = item /\ FrameAt(f, 1).wire_len = l
  BY <1>1, <1>3 DEF FrameAt, ItemAt
<1>5. FrameAt(f, end).wire_len = 0
  <2>1. ParseUdpFrame(<<>>).wire_len = 0
    <3>1. ParseAddr(<<>>) = Failed
      BY DEF ParseAddr
    <3>2. ParseUdpFrame(<<>>) = Failed
      BY <3>1 DEF ParseUdpFrame, Failed
    <3>3. QED
      BY <3>2 DEF Failed
  <2>2. QED
    BY <1>3, <2>1 DEF FrameAt
<1>6. 1 \in 1 .. Len(f) + 1 /\ end \in 1 .. Len(f) + 1 /\ l # 0
  BY <1>1
<1>7. AllFrames(f)[end] = [items |-> <<>>, left |-> <<>>]
  <2> HIDE DEF end
  <2>1. AllFrames(f)[end] = [items |-> <<>>, left |-> From(f, end)]
    BY <1>1, <1>5, <1>6, FramesThere
  <2>2. QED
    BY <1>3, <2>1
<1>8. AllFrames(f)[1] = [items |-> <<ItemAt(f, 1)>> \o AllFrames(f)[end].items,
                         left |-> AllFrames(f)[end].left]
  <2>1. FrameAt(f, 1).wire_len # 0
    BY <1>4, <1>6
  <2>2. AllFrames(f)[1] =
            [items |-> <<ItemAt(f, 1)>> \o AllFrames(f)[1 + FrameAt(f, 1).wire_len].items,
             left |-> AllFrames(f)[1 + FrameAt(f, 1).wire_len].left]
    BY <1>1, <1>6, <2>1, FramesThere
  <2>3. 1 + FrameAt(f, 1).wire_len = end
    BY <1>4
  <2> HIDE DEF end
  <2>4. QED
    BY <2>2, <2>3
<1>9. Frames(f) = AllFrames(f)[1]
  BY <1>1, AllFramesIs
<1> HIDE DEF item, end
<1>10. <<item>> \o <<>> = <<item>>
  OBVIOUS
<1>11. Frames(f) = [items |-> <<item>>, left |-> <<>>]
  BY <1>4, <1>7, <1>8, <1>9, <1>10
<1>12. QED
  BY <1>2, <1>11 DEF item

\* A frame to the module.
LEMMA FrameGiven ==
    ASSUME NEW x, NEW s, NEW g, NEW k, NEW f, NEW meant, Meets(x, s, g, k, f, "udp", meant),
           NEW a, NEW c, ReadAsFrame(f, a, c), Len(f) <= UdpRoom
    PROVE  Stands(g[k + Len(f)], "udp", Append(meant, Frame(a, c)))
<1> DEFINE y == g[k]
           z == Filled(y, f)
           item == FrameItem(f, ParseUdpFrame(f))
           frames == [items |-> <<item>>, left |-> <<>>]
           w == Taken(z, frames)
           end == k + Len(f)
<1>1. /\ y.phase = "udp" /\ y.buf = <<>> /\ z.buf = f /\ z.phase = "udp" /\ ReaderRight(y)
  BY MeetsEmpty
<1>2. Frames(f) = frames /\ MeaningOf(item) = Frame(a, c)
  BY FrameAlone
<1>3. /\ Run(x, s, g) /\ k \in Nat /\ f \in Bytes /\ Len(f) > 0 /\ PieceAt(s, k, f)
      /\ y.handed = <<>> /\ MeaningsOf(y.got) = meant
  BY DEF Meets, Stands
<1>4. IsReader(y) /\ GotRight(y.got)
  BY <1>1 DEF ReaderRight
<1>5. Fed(y, f) = Udp(z)
  BY <1>1 DEF Fed, Filled
<1>6. IsReader(z) /\ z.got = y.got /\ z.handed = y.handed
  <2> HIDE DEF y
  <2>1. QED
    BY <1>1, <1>3, <1>4, FilledBetween
<1>7. Wanted(y) = UdpRoom
  <2> HIDE DEF y
  <2>1. Wanted(y) = UdpRoom - Len(y.buf) /\ Len(y.buf) = 0
    BY <1>1 DEF Wanted, UdpWanted
  <2>2. QED
    BY <2>1, Rooms
<1>8. g[end] = Fed(y, f) /\ ReaderRight(g[end])
  <2>1. s \in Bytes /\ Goes(x, s, g, Len(s))
    BY <1>3 DEF Run
  <2>2. Len(f) <= Wanted(y)
    BY <1>7
  <2>3. QED
    BY <1>1, <1>3, <2>1, <2>2, PieceTaken
<1> HIDE DEF item
<1>9. frames.items = <<item>> /\ frames.left = <<>>
  OBVIOUS
<1> HIDE DEF frames, y, z, end
<1>10. /\ IsReader(w) /\ w.phase = "udp" /\ w.buf = <<>> /\ w.got = y.got \o <<item>>
       /\ w.handed = <<>>
  <2>1. /\ IsReader(w) /\ w.phase = z.phase
        /\ w.buf = frames.left /\ w.got = z.got \o frames.items
        /\ w.handed = z.handed
    BY <1>6, TakenFields
  <2>2. QED
    BY <1>1, <1>3, <1>6, <1>9, <2>1
<1> HIDE DEF w
<1>11. Udp(z) = w
  <2>1. Udp(z) = IF Len(w.buf) = UdpRoom THEN Refuse(w, "bad") ELSE w
    BY <1>1, <1>2, UdpIs DEF w
  <2>2. Len(w.buf) = 0 /\ UdpRoom # 0
    BY <1>10, PeerAssumption, Rooms
  <2>3. QED
    BY <2>1, <2>2
<1>12. MeaningsOf(w.got) = Append(meant, Frame(a, c))
  <2>1. /\ y.got \o <<item>> = Append(y.got, item)
        /\ MeaningsOf(Append(y.got, item)) = Append(MeaningsOf(y.got), MeaningOf(item))
    BY <1>4, MeaningsMore
  <2>2. QED
    BY <1>2, <1>3, <1>10, <2>1
<1>13. Stands(g[end], "udp", Append(meant, Frame(a, c)))
  BY <1>5, <1>8, <1>10, <1>11, <1>12 DEF Stands
<1>14. QED
  BY <1>13 DEF end

\* A front of a sequence and the next element.
LEMMA NextOfFront ==
    ASSUME NEW S, NEW t \in Seq(S), NEW j \in Nat, j + 1 <= Len(t)
    PROVE  /\ SubSeq(t, 1, j) \in Seq(S) /\ t[j + 1] \in S
           /\ SubSeq(t, 1, j + 1) = Append(SubSeq(t, 1, j), t[j + 1])
<1> DEFINE m == Len(t)
           k == j + 1
<1>1. m \in Nat /\ k \in 1 .. m /\ 1 \in 1 .. m /\ k - 1 = j
  OBVIOUS
<1>2. k \in 1 .. Len(t) /\ 1 \in 1 .. Len(t)
  BY <1>1
<1> HIDE DEF m, k
<1>3. t[k] \in S
  BY <1>2, ElementOfSeq
<1>4. SubSeq(t, 1, k) = SubSeq(t, 1, k - 1) \o <<t[k]>>
  BY <1>2, SubSeqRecursiveSecond
<1>5. SubSeq(t, 1, j) \in Seq(S)
  <2>1. \A i \in 1 .. j : t[i] \in S
    <3>1. \A i \in 1 .. j : i \in 1 .. Len(t)
      OBVIOUS
    <3>2. QED
      BY <3>1, ElementOfSeq
  <2>2. QED
    BY <2>1, SubSeqProperties
<1> DEFINE f == SubSeq(t, 1, j)
<1>6. f \in Seq(S) /\ SubSeq(t, 1, k) = f \o <<t[k]>>
  BY <1>1, <1>4, <1>5
<1> HIDE DEF f
<1>7. Append(f, t[k]) = f \o <<t[k]>>
  BY <1>3, <1>6, AppendIsConcat
<1>8. QED
  BY <1>3, <1>5, <1>6, <1>7 DEF f, k

\* What is appended to the end of two.
LEMMA AppendBehind ==
    ASSUME NEW S, NEW t \in Seq(S), NEW f \in Seq(S), NEW e \in S
    PROVE  t \o Append(f, e) = Append(t \o f, e)
<1>1. Append(f, e) = f \o <<e>>
  BY AppendIsConcat
<1>2. t \o f \in Seq(S)
  BY ConcatProperties
<1> DEFINE tf == t \o f
           one == <<e>>
<1>3. one \in Seq(S)
  OBVIOUS
<1>4. tf \o one = t \o (f \o one)
  <2> HIDE DEF one
  <2>1. QED
    BY <1>3, ConcatAssociative
<1> HIDE DEF tf
<1>5. Append(tf, e) = tf \o one
  BY <1>2, AppendIsConcat DEF tf
<1>6. QED
  BY <1>1, <1>4, <1>5 DEF tf

\* Where the stream is cut does not matter.
LEMMA Regrouped ==
    ASSUME NEW u \in Bytes, NEW v \in Bytes, NEW e \in Bytes, NEW w \in Bytes,
           NEW s, Between(s, u, v \o e, w)
    PROVE  u \o v \in Bytes /\ Between(s, u \o v, e, w) /\ Len(u \o v) = Len(u) + Len(v)
<1> DEFINE uv == u \o v
           ve == v \o e
<1>1. uv \in Bytes /\ Len(uv) = Len(u) + Len(v) /\ ve \in Bytes
  BY Joined
<1>2. u \o ve = uv \o e
  BY ConcatAssociative DEF Bytes
<1>3. s = (uv \o e) \o w
  <2>1. s = (u \o ve) \o w
    BY DEF Between
  <2> HIDE DEF uv, ve
  <2>2. QED
    BY <1>2, <2>1
<1>4. QED
  BY <1>1, <1>3 DEF Between

\* A piece in two, the second of them with what follows.
LEMMA FrontAmong ==
    ASSUME NEW u \in Bytes, NEW v \in Bytes, NEW e \in Bytes, NEW w \in Bytes,
           NEW s, Between(s, u, v \o e, w)
    PROVE  Between(s, u, v, e \o w) /\ e \o w \in Bytes
<1> DEFINE uv == u \o v
           ew == e \o w
<1>1. Between(s, uv, e, w) /\ uv \in Bytes
  BY Regrouped
<1>2. ew \in Bytes
  BY Joined
<1>3. (uv \o e) \o w = uv \o ew
  <2>1. uv \in Seq(Byte) /\ e \in Seq(Byte) /\ w \in Seq(Byte)
    BY <1>1 DEF Bytes
  <2> HIDE DEF uv
  <2>2. QED
    BY <2>1, ConcatAssociative
<1>4. s = uv \o ew
  <2>1. s = (uv \o e) \o w
    BY <1>1 DEF Between
  <2>2. QED
    BY <1>3, <2>1, Zenon
<1> HIDE DEF ew
<1>5. Between(s, u, v, ew)
  BY <1>4 DEF Between
<1>6. QED
  BY <1>2, <1>5 DEF ew

\* Frames one behind the other between u and w, to a reader that has understood some
\* things when they begin.
FramesCome(x, s, g, u, w, sent, meant, frames, M) ==
    /\ Run(x, s, g) /\ u \in Bytes /\ w \in Bytes /\ sent \in Texts
    /\ Between(s, u, FlattenSeq(sent), w)
    /\ meant \in Seq(M) /\ frames \in Seq(M) /\ Len(frames) = Len(sent)
    /\ Stands(g[Len(u)], "udp", meant)
    /\ \A i \in 1 .. Len(sent) :
        /\ frames[i] = Frame(frames[i].addr, frames[i].payload)
        /\ ReadAsFrame(sent[i], frames[i].addr, frames[i].payload) /\ Len(sent[i]) <= UdpRoom

\* The first so many of them.
FirstOf(sent, j) == FlattenSeq(SubSeq(sent, 1, j))

\* One more of them.
LEMMA FrameStepOn ==
    ASSUME NEW x, NEW s, NEW g, NEW u, NEW w, NEW sent, NEW meant, NEW frames, NEW M,
           FramesCome(x, s, g, u, w, sent, meant, frames, M),
           NEW j \in Nat, j + 1 <= Len(sent), NEW rest \in Bytes,
           Between(s, u, FirstOf(sent, j + 1), rest),
           Stands(g[Len(u) + Len(FirstOf(sent, j))], "udp", meant \o SubSeq(frames, 1, j))
    PROVE  Stands(g[Len(u) + Len(FirstOf(sent, j + 1))], "udp", meant \o SubSeq(frames, 1, j + 1))
<1>1. /\ Run(x, s, g) /\ u \in Bytes /\ w \in Bytes /\ sent \in Seq(Bytes)
      /\ meant \in Seq(M) /\ frames \in Seq(M) /\ Len(frames) = Len(sent)
  BY DEF FramesCome, Texts
<1> DEFINE k == j + 1
           f == sent[k]
           a == frames[k].addr
           c == frames[k].payload
           v == FirstOf(sent, j)
           was == SubSeq(frames, 1, j)
<1>2. frames[k] = Frame(a, c) /\ ReadAsFrame(f, a, c) /\ Len(f) <= UdpRoom
  <2>1. k \in 1 .. Len(sent)
    BY <1>1
  <2> HIDE DEF k
  <2>2. QED
    BY <2>1 DEF FramesCome
<1>3. f \in Bytes /\ SubSeq(sent, 1, j) \in Texts /\ SubSeq(sent, 1, k) = Append(SubSeq(sent, 1, j), f)
  BY <1>1, NextOfFront DEF Texts
<1>4. /\ frames[k] \in M /\ was \in Seq(M) /\ SubSeq(frames, 1, k) = Append(was, frames[k])
  BY <1>1, NextOfFront
<1>5. v \in Bytes /\ FirstOf(sent, k) = v \o f
  BY <1>3, FlattenAppend DEF FirstOf
<1>6. meant \o SubSeq(frames, 1, k) = Append(meant \o was, Frame(a, c))
  BY <1>1, <1>2, <1>4, AppendBehind
<1> DEFINE uv == u \o v
           n == Len(uv)
<1>7. Stands(g[Len(u) + Len(v)], "udp", meant \o was) /\ Between(s, u, v \o f, rest)
  BY <1>5
<1> HIDE DEF k, f, a, c, v, was
<1>8. uv \in Bytes /\ Between(s, uv, f, rest) /\ n = Len(u) + Len(v)
  BY <1>1, <1>3, <1>5, <1>7, Regrouped
<1> HIDE DEF uv
<1>9. PieceAt(s, n, f)
  BY <1>3, <1>8, PieceAmong
<1>10. n \in Nat
  BY <1>8 DEF Bytes
<1> HIDE DEF n
<1>11. Meets(x, s, g, n, f, "udp", meant \o was)
  <2>1. Len(f) > 0
    BY <1>2 DEF ReadAsFrame
  <2>2. Stands(g[n], "udp", meant \o was)
    BY <1>7, <1>8
  <2>3. QED
    BY <1>1, <1>3, <1>9, <1>10, <2>1, <2>2 DEF Meets
<1>12. Stands(g[n + Len(f)], "udp", Append(meant \o was, Frame(a, c)))
  BY <1>2, <1>11, FrameGiven
<1>13. Len(u) + Len(FirstOf(sent, k)) = n + Len(f)
  <2>1. Len(v \o f) = Len(v) + Len(f)
    BY <1>3, <1>5, Joined
  <2>2. Len(u) \in Nat /\ Len(v) \in Nat /\ Len(f) \in Nat
    BY <1>1, <1>3, <1>5 DEF Bytes
  <2>3. QED
    BY <1>5, <1>8, <2>1, <2>2
<1>14. QED
  BY <1>6, <1>12, <1>13 DEF k

\* What follows the first so many.
LEMMA RestOfFrames ==
    ASSUME NEW u \in Bytes, NEW w \in Bytes, NEW sent \in Texts, NEW s,
           Between(s, u, FlattenSeq(sent), w), NEW j \in 0 .. Len(sent)
    PROVE  \E rest \in Bytes : Between(s, u, FirstOf(sent, j), rest)
<1> DEFINE n == Len(sent)
           e == SubSeq(sent, 1, j)
           f == SubSeq(sent, j + 1, n)
<1>1. n \in Nat /\ j \in Nat /\ j <= n /\ \A i \in 1 .. n : sent[i] \in Bytes
  BY DEF Texts
<1>2. e \in Texts /\ f \in Texts
  <2> HIDE DEF n
  <2>1. (\A i \in 1 .. j : sent[i] \in Bytes) /\ \A i \in j + 1 .. n : sent[i] \in Bytes
    BY <1>1
  <2>2. 1 \in Int /\ j \in Int /\ j + 1 \in Int /\ n \in Int
    BY <1>1
  <2>3. e \in Seq(Bytes) /\ f \in Seq(Bytes)
    BY <2>1, <2>2, SubSeqProperties
  <2>4. QED
    BY <2>3 DEF Texts
<1>3. e \o f = sent
  <2>1. 1 \in 1 .. Len(sent) + 1 /\ j \in 1 - 1 .. Len(sent) /\ n \in j .. Len(sent)
    BY <1>1
  <2>2. e \o f = SubSeq(sent, 1, n)
    <3> HIDE DEF n
    <3>1. QED
      BY <2>1, ConcatAdjacentSubSeq DEF Texts
  <2>3. SubSeq(sent, 1, n) = sent
    BY SubSeqFull DEF Texts
  <2>4. QED
    BY <2>2, <2>3
<1> HIDE DEF e, f
<1>4. FlattenSeq(e \o f) = FlattenSeq(e) \o FlattenSeq(f)
  BY <1>2, FlattenConcat
<1>5. FlattenSeq(e) \in Bytes /\ FlattenSeq(f) \in Bytes
  BY <1>2, NoBytes, FlattenAppend
<1>6. Between(s, u, FlattenSeq(e) \o FlattenSeq(f), w)
  BY <1>3, <1>4
<1>7. FlattenSeq(f) \o w \in Bytes /\ Between(s, u, FlattenSeq(e), FlattenSeq(f) \o w)
  BY <1>5, <1>6, FrontAmong
<1>8. QED
  BY <1>7 DEF FirstOf, e

\* All of them are understood: induction on their number.
LEMMA FramesGiven ==
    ASSUME NEW x, NEW s, NEW g, NEW u, NEW w, NEW sent, NEW meant, NEW frames, NEW M,
           FramesCome(x, s, g, u, w, sent, meant, frames, M)
    PROVE  Stands(g[Len(u) + Len(FlattenSeq(sent))], "udp", meant \o frames)
<1>1. /\ u \in Bytes /\ w \in Bytes /\ sent \in Texts /\ Between(s, u, FlattenSeq(sent), w)
      /\ meant \in Seq(M) /\ frames \in Seq(M) /\ Len(frames) = Len(sent)
      /\ Stands(g[Len(u)], "udp", meant)
  BY DEF FramesCome
<1> DEFINE n == Len(sent)
           Come(j) == Stands(g[Len(u) + Len(FirstOf(sent, j))], "udp", meant \o SubSeq(frames, 1, j))
           N == {j \in Nat : j <= n => Come(j)}
<1>2. n \in Nat
  BY <1>1 DEF Texts
<1>3. Come(0)
  <2>1. SubSeq(sent, 1, 0) = <<>> /\ SubSeq(frames, 1, 0) = <<>>
    BY SubSeqEmpty
  <2>2. FirstOf(sent, 0) = <<>>
    <3>1. FlattenSeq(<<>>) = <<>>
      BY NoBytes, FlattenOne
    <3>2. QED
      BY <2>1, <3>1 DEF FirstOf
  <2>3. Len(u) + Len(FirstOf(sent, 0)) = Len(u)
    BY <1>1, <2>2, NoBytes DEF Bytes
  <2>4. meant \o SubSeq(frames, 1, 0) = meant
    BY <1>1, <2>1, ConcatEmptySeq
  <2>5. QED
    BY <1>1, <2>3, <2>4
<1>4. ASSUME NEW j \in Nat, j + 1 <= n, Come(j) PROVE Come(j + 1)
  <2>1. PICK rest \in Bytes : Between(s, u, FirstOf(sent, j + 1), rest)
    <3> DEFINE k == j + 1
    <3>1. k \in 0 .. Len(sent)
      BY <1>2, <1>4
    <3> HIDE DEF k
    <3>2. \E rest \in Bytes : Between(s, u, FirstOf(sent, k), rest)
      BY <1>1, <3>1, RestOfFrames
    <3>3. QED
      BY <3>2 DEF k
  <2>2. QED
    BY <1>4, <2>1, FrameStepOn
<1> HIDE DEF Come
<1>5. 0 \in N
  BY <1>3
<1>6. ASSUME NEW j \in N PROVE j + 1 \in N
  <2>1. j \in Nat /\ (j <= n => Come(j))
    OBVIOUS
  <2> HIDE DEF N
  <2>2. ASSUME j + 1 <= n PROVE Come(j + 1)
    BY <1>2, <1>4, <2>1, <2>2
  <2>3. QED
    BY <2>1, <2>2 DEF N
<1>7. N = Nat
  <2>1. N \in SUBSET Nat
    OBVIOUS
  <2> HIDE DEF N
  <2>2. QED
    BY <1>5, <1>6, <2>1, AllNumbers
<1>8. Come(n)
  <2> HIDE DEF n
  <2>1. n \in N /\ n <= n
    BY <1>2, <1>7
  <2>2. QED
    BY <2>1
<1>9. SubSeq(sent, 1, n) = sent /\ SubSeq(frames, 1, n) = frames
  <2>1. SubSeq(sent, 1, Len(sent)) = sent
    BY <1>1, SubSeqFull DEF Texts
  <2>2. SubSeq(frames, 1, Len(frames)) = frames
    BY <1>1, SubSeqFull
  <2>3. QED
    BY <1>1, <2>1, <2>2
<1>10. QED
  BY <1>8, <1>9 DEF Come, FirstOf

-----------------------------------------------------------------------------
(* The first byte of a local client, and its greeting. *)

\* A reader that has only some bytes.
HasOnly(phase, b) == [phase |-> phase, buf |-> b, got |-> <<>>, handed |-> <<>>]

\* A new one that got them.
LEMMA FilledNew ==
    ASSUME NEW phase, NEW b \in Bytes
    PROVE  Filled(Reader(phase), b) = HasOnly(phase, b)
<1>1. <<>> \o b = b
  BY NoBytes
<1>2. Filled(Reader(phase), b)
          = [phase |-> phase, buf |-> <<>> \o b, got |-> <<>>, handed |-> <<>>]
  BY DEF Filled, Reader
<1>3. QED
  BY <1>1, <1>2, Zenon DEF HasOnly

\* A new reader has understood nothing.
LEMMA NewStands ==
    ASSUME NEW phase \in Phases
    PROVE  Stands(Reader(phase), phase, <<>>)
<1> DEFINE x == Reader(phase)
<1>1. ReaderRight(x)
  BY StartRight
<1>2. x.phase = phase /\ x.buf = <<>> /\ x.handed = <<>> /\ x.got = <<>>
  BY DEF Reader
<1> HIDE DEF x
<1>3. MeaningsOf(<<>>) = <<>>
  BY DEF MeaningsOf
<1>4. Stands(x, phase, <<>>)
  BY <1>1, <1>2, <1>3 DEF Stands
<1>5. QED
  BY <1>4 DEF x

\* The first byte of a local client, which is not that of TLS.
LEMMA FirstByte ==
    ASSUME NEW s, NEW g, Run(Reader("classify"), s, g), Len(s) > 0, s[1] # 22,
           NEW kind, Classify(<<s[1]>>, script.socks5, script.http) = kind
    PROVE  /\ s[1] \in Byte
           /\ kind = "socks5" => g[1] = Greeting(HasOnly("greeting", <<s[1]>>))
           /\ kind = "http" => g[1] = Http(HasOnly("http", <<s[1]>>))
<1> DEFINE x == Reader("classify")
           c == s[1]
           one == <<c>>
           y == HasOnly("classify", one)
<1>1. s \in Bytes /\ Goes(x, s, g, Len(s))
  BY DEF Run
<1>2. 1 \in 1 .. Len(s) /\ c \in Byte
  BY <1>1 DEF Bytes
<1>3. one \in Bytes /\ Len(one) = 1 /\ one[1] = c
  BY <1>2, Singleton
<1>4. g[0] = x /\ g[1] = ByByte(x, c)
  <2>1. OneByteOn(s, g, 1) /\ g[0] = x
    BY <1>1, <1>2 DEF Goes
  <2>2. QED
    BY <2>1 DEF OneByteOn
<1>5. g[1] = Fed(x, one)
  <2>1. x.phase = "classify" /\ x.buf = <<>>
    BY DEF Reader
  <2> HIDE DEF x
  <2>2. Wanted(x) = 1
    BY <2>1 DEF Wanted
  <2>3. QED
    BY <1>4, <2>2 DEF ByByte
<1> HIDE DEF c, one
<1>6. Filled(x, one) = y
  BY <1>3, FilledNew
<1>7. Fed(x, one) = ClassifyInbound(y)
  <2>1. x.phase = "classify"
    BY DEF Reader
  <2>2. Fed(x, one) = ClassifyInbound(Filled(x, one))
    BY <2>1 DEF Fed, Filled
  <2>3. QED
    BY <1>6, <2>2, Zenon
<1>8. y.buf = one /\ y.phase = "classify"
  BY DEF HasOnly
<1>9. [y EXCEPT !.phase = "greeting"] = HasOnly("greeting", one)
  BY DEF HasOnly
<1>10. [y EXCEPT !.phase = "http"] = HasOnly("http", one)
  BY DEF HasOnly
<1> HIDE DEF y
<1>11. ClassifyInbound(y) = CASE kind = "socks5" -> Greeting([y EXCEPT !.phase = "greeting"])
                              [] kind = "http" -> Http([y EXCEPT !.phase = "http"])
                              [] OTHER -> Refuse(y, "closed")
  <2>1. ~(y.buf[1] = 22 /\ Len(y.buf) < 3)
    BY <1>3, <1>8 DEF c
  <2>2. Classify(y.buf, script.socks5, script.http) = kind
    BY <1>8 DEF one, c
  <2>3. QED
    BY <2>1, <2>2 DEF ClassifyInbound
<1>12. /\ kind = "socks5" => g[1] = Greeting(HasOnly("greeting", one))
       /\ kind = "http" => g[1] = Http(HasOnly("http", one))
  BY <1>5, <1>7, <1>9, <1>10, <1>11
<1>13. QED
  BY <1>2, <1>12 DEF c, one

\* What a stream begins with.
LEMMA PieceFirst ==
    ASSUME NEW s \in Bytes, NEW d \in Bytes, PieceAt(s, 0, d), Len(d) > 0
    PROVE  s[1] = d[1]
<1> DEFINE l == Len(d)
           m == Len(s)
<1>1. 0 + l <= m /\ SubSeq(s, 0 + 1, 0 + l) = d /\ l \in Nat /\ m \in Nat /\ l > 0
  BY DEF PieceAt, Bytes
<1> HIDE DEF l, m
<1>2. 0 \in 0 .. m /\ l \in 0 .. m /\ 1 \in 1 .. l - 0 /\ 0 + l = l
  BY <1>1
<1>3. \A i \in 1 .. l - 0 : SubSeq(s, 0 + 1, l)[i] = s[0 + i]
  BY <1>2, Part DEF m
<1>4. SubSeq(s, 0 + 1, l)[1] = s[0 + 1]
  BY <1>2, <1>3
<1>5. QED
  BY <1>1, <1>2, <1>4

\* A greeting to the module.
LEMMA GreetingStep ==
    ASSUME NEW s, NEW g, Run(Reader("classify"), s, g), script.socks5,
           NEW n \in Byte, NEW methods \in Bytes, Len(methods) = n,
           \E i \in 1 .. n : methods[i] = NoAuth,
           NEW d, IsGreeting(d, n, methods), PieceAt(s, 0, d)
    PROVE  Stands(g[Len(d)], "request", <<Plain("greeting")>>)
<1> DEFINE y == Reader("greeting")
           z == Filled(y, d)
           one == SubSeq(d, 1, 1)
           item == Item(z, "greeting", Len(d), Failed.addr, 0)
<1>1. /\ d \in Bytes /\ Len(d) = 2 + n /\ Foreseen("greeting", d)
      /\ \A w : w.buf = d =>
              Greeting(w) = Accept(w, Item(w, "greeting", Len(d), Failed.addr, 0), "request")
  BY GreetingHeard
<1>2. n \in Nat /\ n < 256 /\ s \in Bytes /\ Len(s) \in Nat
  BY DEF Byte, Run, Bytes
<1>3. 1 \in 1 .. Len(d) /\ Len(d) \in Nat /\ Len(s) > 0
  <2> DEFINE l == Len(d)
             m == Len(s)
  <2>1. l = 2 + n /\ 0 + l <= m /\ m \in Nat
    BY <1>1, <1>2 DEF PieceAt
  <2> HIDE DEF l, m
  <2>2. 1 \in 1 .. l /\ l \in Nat /\ m > 0
    BY <1>2, <2>1
  <2>3. QED
    BY <2>2 DEF l, m
<1>4. d[1] = Version
  <2>1. <<Version, n>> \in Bytes /\ Len(<<Version, n>>) = 2 /\ <<Version, n>>[1] = Version
    BY ProtocolBytes, Pair
  <2> DEFINE w == <<Version, n>>
  <2>2. w \in Bytes /\ Len(w) = 2 /\ w[1] = Version /\ d = w \o methods
    BY <2>1 DEF IsGreeting
  <2> HIDE DEF w
  <2>3. 1 \in 1 .. Len(w)
    BY <2>2
  <2>4. (w \o methods)[1] = w[1]
    BY <2>2, <2>3, Joined
  <2>5. QED
    BY <2>2, <2>4
<1>5. one = <<Version>> /\ one \in Bytes /\ Len(one) = 1
  BY <1>1, <1>3, <1>4, OneByte, FrontLonger
<1>6. s[1] = Version
  BY <1>1, <1>2, <1>3, <1>4, PieceFirst
<1>7. ~(s[1] = 22) /\ Classify(<<s[1]>>, script.socks5, script.http) = "socks5"
  BY <1>6 DEF Classify, Version
<1>8. g[1] = Greeting(HasOnly("greeting", one))
  <2>1. g[1] = Greeting(HasOnly("greeting", <<s[1]>>))
    BY <1>3, <1>7, FirstByte
  <2>2. QED
    BY <1>5, <1>6, <2>1
<1>9. Filled(y, one) = HasOnly("greeting", one)
  BY <1>5, FilledNew
<1> HIDE DEF one
<1>10. Greeting(HasOnly("greeting", one)) = HasOnly("greeting", one)
  <2> DEFINE h == HasOnly("greeting", one)
  <2>1. h.buf = one
    BY DEF HasOnly
  <2> HIDE DEF h
  <2>2. GreetingLen(one) = [rc |-> "more", needed |-> 2]
    BY <1>5 DEF GreetingLen, More
  <2>3. 2 <= Socks5Room
    BY Rooms
  <2>4. PICK done : Greeting(h) = Judge(h, GreetingLen(h.buf), Socks5Room, done)
    BY DEF Greeting
  <2>5. Greeting(h) = h
    BY <2>1, <2>2, <2>3, <2>4 DEF Judge
  <2>6. QED
    BY <2>5 DEF h
<1>11. Stands(y, "greeting", <<>>) /\ "greeting" \in Judged
  BY NewStands DEF Phases, Judged
<1>12. Len(d) <= Room["greeting"]
  <2>1. Room["greeting"] = Socks5Room /\ Socks5Room \in Nat /\ Socks5Room >= 262
    BY Rooms, PeerAssumption
  <2>2. QED
    BY <1>1, <1>2, <2>1
<1>13. HasSome(Reader("classify"), s, g, 0, d, "greeting", <<>>, y, 1)
  <2>1. 1 \in 0 .. Len(d) - 1 /\ 0 \in Nat
    BY <1>1, <1>2, <1>3
  <2>2. g[0 + 1] = Filled(y, SubSeq(d, 1, 1))
    BY <1>8, <1>9, <1>10 DEF one
  <2> HIDE DEF y
  <2>3. QED
    BY <1>1, <1>11, <1>12, <2>1, <2>2 DEF HasSome
<1>14. Handle("greeting", z) = Accept(z, item, "request")
  <2>1. z.buf = d
    <3>1. IsReader(y) /\ y.buf = <<>>
      BY <1>11 DEF Stands, ReaderRight
    <3> HIDE DEF y
    <3>2. QED
      BY <1>1, <3>1, FilledBetween
  <2> HIDE DEF z
  <2>2. Greeting(z) = Accept(z, item, "request")
    BY <1>1, <2>1
  <2>3. QED
    BY <2>2 DEF Handle
<1>15. MeaningOf(item) = Plain("greeting")
  <2> HIDE DEF z
  <2>1. QED
    BY ItemMeans DEF Plain
<1> HIDE DEF item
<1>16. Stands(g[0 + Len(d)], "request", Append(<<>>, MeaningOf(item)))
  BY <1>13, <1>14, MessageStep
<1>17. 0 + Len(d) = Len(d) /\ Append(<<>>, MeaningOf(item)) = <<MeaningOf(item)>>
  BY <1>3
<1>18. QED
  BY <1>15, <1>16, <1>17

-----------------------------------------------------------------------------
(* All messages of a peer, and what comes behind them. *)

\* What a reader comes to that has understood all that is meant.
Understood(z, meant, tail) ==
    /\ MeaningsOf(z.got) = meant
    /\ \/ z.phase = "served" /\ z.handed = tail
       \/ z.phase = "udp" /\ z.buf = <<>> /\ tail = <<>>

\* When the handshake is over the rest is handed on.
LEMMA ServedThen ==
    ASSUME NEW x, NEW s, NEW g, Run(x, s, g), NEW k \in Nat, k <= Len(s), NEW meant,
           Stands(g[k], "served", meant), NEW tail, From(s, k + 1) = tail
    PROVE  Understood(g[Len(s)], meant, tail)
<1> DEFINE y == g[k]
           z == HandsOn(y, tail)
<1>1. s \in Bytes /\ Goes(x, s, g, Len(s))
  BY DEF Run
<1>2. ReaderRight(y) /\ y.phase = "served" /\ y.handed = <<>> /\ MeaningsOf(y.got) = meant
  BY DEF Stands
<1>3. Wanted(y) = 0
  <2> HIDE DEF y
  <2>1. QED
    BY <1>2 DEF Wanted
<1>4. g[Len(s)] = Passing(y, tail)
  BY <1>1, <1>2, <1>3, RestPasses
<1>5. tail \in Bytes
  <2> DEFINE m == Len(s)
  <2>1. m \in Nat /\ k <= m
    BY <1>1 DEF Bytes
  <2> HIDE DEF m
  <2>2. k \in 0 .. m
    BY <2>1
  <2>3. QED
    BY <1>1, <2>2, Cut DEF m
<1> HIDE DEF y
<1>6. Passing(y, tail) = z
  BY <1>2 DEF Passing, Goal
<1>7. z.phase = "served" /\ z.got = y.got /\ z.handed = tail
  <2>1. z.phase = y.phase /\ z.got = y.got /\ z.handed = y.handed \o tail
    BY <1>2, HandsOnFields DEF ReaderRight
  <2>2. <<>> \o tail = tail
    BY <1>5, NoBytes
  <2>3. QED
    BY <1>2, <2>1, <2>2
<1> HIDE DEF z
<1>8. QED
  BY <1>2, <1>4, <1>6, <1>7 DEF Understood

\* It is the same to a reader as soon as nothing more can come.
LEMMA UnderstoodNow ==
    ASSUME NEW x, NEW s, NEW g, Run(x, s, g), NEW k \in 0 .. Len(s),
           Wanted(g[k]) = 0 \/ k = Len(s),
           NEW meant, NEW tail, Understood(g[Len(s)], meant, tail)
    PROVE  MeaningsOf(g[k].got) = meant /\ g[k].handed \o From(s, k + 1) = tail
<1> DEFINE y == g[k]
           z == g[Len(s)]
           rest == From(s, k + 1)
           m == Len(s)
<1>1. ReaderRight(x) /\ s \in Bytes /\ Goes(x, s, g, Len(s))
  BY DEF Run
<1>2. m \in Nat /\ k \in 0 .. m
  BY <1>1 DEF Bytes
<1>3. ReaderRight(y)
  BY <1>1, WalkRight
<1>4. k \in Nat /\ k <= m
  <2> HIDE DEF m
  <2>1. QED
    BY <1>2
<1>5. ComesTo(y, rest, z)
  BY <1>1, <1>3, <1>4, AllComesToOne
<1>6. Wanted(y) = 0 \/ k = m
  OBVIOUS
<1>7. Understood(z, meant, tail)
  OBVIOUS
<1>8. k = m => rest = <<>>
  <2> HIDE DEF m
  <2>1. k = m => From(s, k + 1) = SubSeq(s, m + 1, m)
    BY DEF From, m
  <2>2. SubSeq(s, m + 1, m) = <<>>
    <3>1. m + 1 \in Int /\ m \in Int /\ m < m + 1
      BY <1>2
    <3> DEFINE l == m + 1
    <3> HIDE DEF l
    <3>2. l \in Int /\ m \in Int /\ m < l
      BY <3>1 DEF l
    <3>3. SubSeq(s, l, m) = <<>>
      BY <3>2, SubSeqEmpty
    <3>4. QED
      BY <3>3 DEF l
  <2>3. QED
    BY <2>1, <2>2
<1> HIDE DEF y, z, rest, m
<1>9. y.phase = z.phase /\ y.got = z.got /\ y.buf = z.buf /\ MeaningsOf(z.got) = meant
  BY <1>5, <1>7 DEF ComesTo, Understood
<1>10. CASE z.phase = "served" /\ z.handed = tail
  BY <1>5, <1>9, <1>10 DEF ComesTo, y, rest
<1>11. CASE z.phase = "udp" /\ z.buf = <<>> /\ tail = <<>>
  <2>1. y.phase = "udp" /\ y.buf = <<>>
    BY <1>9, <1>11
  <2>2. Wanted(y) # 0
    <3>1. Wanted(y) = UdpRoom - Len(y.buf) /\ Len(y.buf) = 0
      BY <2>1 DEF Wanted, UdpWanted
    <3>2. QED
      BY <3>1, PeerAssumption, Rooms
  <2>3. rest = <<>>
    BY <1>6, <1>8, <2>2
  <2>4. y.handed = <<>>
    BY <1>3, <2>1 DEF ReaderRight, Phases
  <2>5. y.handed \o rest = <<>>
    BY <2>3, <2>4
  <2>6. QED
    BY <1>9, <1>11, <2>5 DEF y, rest
<1>12. QED
  BY <1>7, <1>10, <1>11 DEF Understood

\* The first of two pieces.
LEMMA AtFront ==
    ASSUME NEW u \in Bytes, NEW v \in Bytes, NEW w \in Bytes, NEW s, Between(s, u, v, w)
    PROVE  v \o w \in Bytes /\ Between(s, <<>>, u, v \o w)
<1> DEFINE vw == v \o w
<1>1. vw \in Bytes
  BY Joined
<1>2. (u \o v) \o w = u \o vw
  BY ConcatAssociative DEF Bytes
<1>3. <<>> \o u = u
  BY NoBytes
<1>4. s = u \o vw
  BY <1>2 DEF Between
<1> HIDE DEF vw
<1>5. Between(s, <<>>, u, vw)
  BY <1>3, <1>4 DEF Between
<1>6. QED
  BY <1>1, <1>5 DEF vw

\* The second piece with what follows.
LEMMA TwoInFront ==
    ASSUME NEW p \in Bytes, NEW q \in Bytes, NEW d \in Bytes, NEW w \in Bytes,
           NEW s, Between(s, p \o q, d, w)
    PROVE  Between(s, p, q, d \o w)
<1> DEFINE pq == p \o q
           dw == d \o w
<1>1. pq \in Bytes
  BY Joined
<1>2. (pq \o d) \o w = pq \o dw
  <2> HIDE DEF pq
  <2>1. QED
    BY <1>1, ConcatAssociative DEF Bytes
<1>3. s = pq \o dw
  BY <1>2 DEF Between
<1>4. QED
  BY <1>3 DEF Between

\* What stands behind two.
LEMMA AtEnd ==
    ASSUME NEW u \in Bytes, NEW v \in Bytes, NEW w \in Bytes, NEW s, Between(s, u, v, w)
    PROVE  /\ u \o v \in Bytes /\ Len(u) + Len(v) \in Nat /\ Len(u) + Len(v) <= Len(s)
           /\ From(s, Len(u) + Len(v) + 1) = w
<1> DEFINE uv == u \o v
           n == Len(u) + Len(v)
<1>1. uv \in Bytes /\ Len(uv) = n
  BY Joined
<1>2. s = uv \o w
  BY DEF Between
<1>3. n \in Nat
  BY DEF Bytes
<1> HIDE DEF uv, n
<1>4. Len(s) = n + Len(w) /\ From(s, n + 1) = w
  <2> DEFINE e == uv \o w
  <2>1. Len(e) = Len(uv) + Len(w) /\ From(e, Len(uv) + 1) = w
    BY <1>1, Joined, Behind
  <2>2. s = e
    BY <1>2
  <2> HIDE DEF e
  <2>3. QED
    BY <1>1, <2>1, <2>2
<1>5. n <= Len(s)
  <2> DEFINE l == Len(w)
  <2>1. l \in Nat /\ Len(s) = n + l
    BY <1>4 DEF Bytes
  <2> HIDE DEF l
  <2>2. QED
    BY <1>3, <2>1
<1>6. QED
  BY <1>1, <1>3, <1>4, <1>5 DEF n, uv

\* A reader before a piece between others.
LEMMA NextMeets ==
    ASSUME NEW x, NEW s, NEW g, Run(x, s, g), NEW u \in Bytes, NEW v \in Bytes, NEW w \in Bytes,
           Between(s, u, v, w), Len(v) > 0, NEW phase, NEW meant, Stands(g[Len(u)], phase, meant)
    PROVE  Meets(x, s, g, Len(u), v, phase, meant)
<1> DEFINE k == Len(u)
<1>1. k \in Nat
  BY DEF Bytes
<1>2. PieceAt(s, k, v)
  BY PieceAmong
<1>3. Stands(g[k], phase, meant)
  OBVIOUS
<1> HIDE DEF k
<1>4. Meets(x, s, g, k, v, phase, meant)
  BY <1>1, <1>2, <1>3 DEF Meets
<1>5. QED
  BY <1>4 DEF k

\* A new reader before the first.
LEMMA FirstMeets ==
    ASSUME NEW phase \in Phases, NEW s, NEW g, Run(Reader(phase), s, g),
           NEW u \in Bytes, NEW v \in Bytes, NEW w \in Bytes, Between(s, u, v, w), Len(u) > 0
    PROVE  Meets(Reader(phase), s, g, 0, u, phase, <<>>)
<1> DEFINE x == Reader(phase)
           rest == v \o w
<1>1. rest \in Bytes /\ Between(s, <<>>, u, rest)
  BY AtFront
<1>2. Stands(x, phase, <<>>)
  BY NewStands
<1> HIDE DEF rest, x
<1>3. g[0] = x /\ Len(<<>>) = 0
  BY NoBytes DEF Run, Goes, x
<1>4. Stands(g[Len(<<>>)], phase, <<>>)
  BY <1>2, <1>3, Zenon
<1>5. Run(x, s, g)
  BY DEF x
<1>6. Meets(x, s, g, Len(<<>>), u, phase, <<>>)
  BY <1>1, <1>4, <1>5, NoBytes, NextMeets
<1>7. Meets(x, s, g, 0, u, phase, <<>>)
  BY <1>3, <1>6, Zenon
<1>8. QED
  BY <1>7 DEF x

\* When the handshake ends with a piece the rest is handed on.
LEMMA LastServed ==
    ASSUME NEW x, NEW s, NEW g, Run(x, s, g), NEW u \in Bytes, NEW v \in Bytes, NEW w \in Bytes,
           Between(s, u, v, w), NEW meant, Stands(g[Len(u) + Len(v)], "served", meant)
    PROVE  Understood(g[Len(s)], meant, w)
<1> DEFINE k == Len(u) + Len(v)
<1>1. k \in Nat /\ k <= Len(s) /\ From(s, k + 1) = w
  BY AtEnd
<1>2. Stands(g[k], "served", meant)
  OBVIOUS
<1> HIDE DEF k
<1>3. QED
  BY <1>1, <1>2, ServedThen

\* Two and three things, one after the other.
LEMMA OneAfterOther ==
    ASSUME NEW a, NEW b, NEW c
    PROVE  Append(<<>>, a) = <<a>> /\ Append(<<a>>, b) = <<a, b>> /\ Append(<<a, b>>, c) = <<a, b, c>>
<1> DEFINE S == {a, b, c}
           one == <<a>>
           two == <<a, b>>
           three == <<a, b, c>>
<1>1. a \in S /\ b \in S /\ c \in S
  OBVIOUS
<1> HIDE DEF S
<1>2. one \in Seq(S) /\ Len(one) = 1 /\ one[1] = a
  BY <1>1
<1>3. two \in Seq(S) /\ Len(two) = 2 /\ two[1] = a /\ two[2] = b
  BY <1>1
<1>4. three \in Seq(S) /\ Len(three) = 3 /\ three[1] = a /\ three[2] = b /\ three[3] = c
  BY <1>1
<1>5. Append(<<>>, a) = one
  OBVIOUS
<1> HIDE DEF one, two, three
<1>6. Append(one, b) = two
  <2> DEFINE t == Append(one, b)
  <2>1. t \in Seq(S) /\ Len(t) = 2 /\ (\A i \in 1 .. 1 : t[i] = one[i]) /\ t[2] = b
    BY <1>1, <1>2, AppendProperties
  <2> HIDE DEF t
  <2>2. \A i \in 1 .. 2 : i = 1 \/ i = 2
    OBVIOUS
  <2>3. \A i \in 1 .. Len(t) : t[i] = two[i]
    BY <1>2, <1>3, <2>1, <2>2
  <2>4. t = two
    BY <1>3, <2>1, <2>3, SeqEqual
  <2>5. QED
    BY <2>4 DEF t
<1>7. Append(two, c) = three
  <2> DEFINE t == Append(two, c)
  <2>1. t \in Seq(S) /\ Len(t) = 3 /\ (\A i \in 1 .. 2 : t[i] = two[i]) /\ t[3] = c
    BY <1>1, <1>3, AppendProperties
  <2> HIDE DEF t
  <2>2. \A i \in 1 .. 3 : i = 1 \/ i = 2 \/ i = 3
    OBVIOUS
  <2>3. \A i \in 1 .. Len(t) : t[i] = three[i]
    BY <1>3, <1>4, <2>1, <2>2
  <2>4. t = three
    BY <1>4, <2>1, <2>3, SeqEqual
  <2>5. QED
    BY <2>4 DEF t
<1>8. QED
  BY <1>5, <1>6, <1>7 DEF one, two, three

\* The answer of a server to the request, when all before it has been understood.
LEMMA ServerAnswers ==
    ASSUME NEW x, NEW s, NEW g, Run(x, s, g), NEW u \in Bytes, NEW a, IsAddress(a),
           NEW d, ThreeAndAddr(d, 0, a), NEW tail \in Bytes, Between(s, u, d, tail),
           NEW meant, Stands(g[Len(u)], "response_read", meant)
    PROVE  Understood(g[Len(s)], Append(meant, Msg("response", a, 0)), tail)
<1>1. d \in Bytes /\ Len(d) > 0
  <2>1. d \in Bytes /\ Len(d) = 3 + Len(PutAddr(a))
    BY ResponseHeard
  <2>2. Len(PutAddr(a)) \in Nat
    BY AddressShort
  <2> DEFINE l == Len(PutAddr(a))
  <2>3. l \in Nat /\ Len(d) = 3 + l
    BY <2>1, <2>2
  <2> HIDE DEF l
  <2>4. QED
    BY <2>1, <2>3
<1>2. Meets(x, s, g, Len(u), d, "response_read", meant)
  BY <1>1, NextMeets
<1>3. Stands(g[Len(u) + Len(d)], "served", Append(meant, Msg("response", a, 0)))
  BY <1>2, ResponseStep
<1>4. QED
  BY <1>1, <1>3, LastServed

\* Its first answer.
LEMMA ServerBegins ==
    ASSUME NEW s, NEW g, Run(Reader("method_read"), s, g),
           NEW c \in {NoAuth, Userpass}, c = Userpass => script.userpass,
           NEW p, IsPair(p, Version, c), NEW v \in Bytes, NEW w \in Bytes, Between(s, p, v, w)
    PROVE  /\ p \in Bytes /\ Len(p) = 2
           /\ Stands(g[Len(p)], IF c = NoAuth THEN "response_read" ELSE "auth_read", <<Plain("method")>>)
<1> DEFINE x == Reader("method_read")
           next == IF c = NoAuth THEN "response_read" ELSE "auth_read"
<1>1. p \in Bytes /\ Len(p) = 2
  BY ProtocolBytes, Pair DEF IsPair
<1>2. Meets(x, s, g, 0, p, "method_read", <<>>)
  <2>1. "method_read" \in Phases /\ Len(p) > 0
    BY <1>1 DEF Phases
  <2>2. QED
    BY <1>1, <2>1, FirstMeets
<1> HIDE DEF x
<1>3. Stands(g[0 + Len(p)], next, Append(<<>>, Plain("method")))
  BY <1>2, MethodStep
<1> HIDE DEF next
<1>4. 0 + Len(p) = Len(p) /\ Append(<<>>, Plain("method")) = <<Plain("method")>>
  BY <1>1, OneAfterOther
<1>5. Stands(g[Len(p)], next, <<Plain("method")>>)
  BY <1>3, <1>4, Zenon
<1>6. QED
  BY <1>1, <1>5 DEF next

\* A server that asks for no password.
LEMMA ServerPlain ==
    ASSUME NEW s, NEW g, Run(Reader("method_read"), s, g),
           NEW p, IsPair(p, Version, NoAuth), NEW a, IsAddress(a), NEW d, ThreeAndAddr(d, 0, a),
           NEW tail \in Bytes, Between(s, p, d, tail)
    PROVE  Understood(g[Len(s)], <<Plain("method"), Msg("response", a, 0)>>, tail)
<1>1. p \in Bytes /\ Stands(g[Len(p)], "response_read", <<Plain("method")>>)
  <2>1. NoAuth \in {NoAuth, Userpass} /\ (NoAuth = Userpass => script.userpass)
    BY DEF NoAuth, Userpass
  <2>2. d \in Bytes
    BY ResponseHeard
  <2>3. QED
    BY <2>1, <2>2, ServerBegins
<1>2. Understood(g[Len(s)], Append(<<Plain("method")>>, Msg("response", a, 0)), tail)
  BY <1>1, ServerAnswers
<1>3. QED
  BY <1>2, OneAfterOther

\* One that does.
LEMMA ServerAsks ==
    ASSUME NEW s, NEW g, Run(Reader("method_read"), s, g), script.userpass,
           NEW p, IsPair(p, Version, Userpass), NEW q, IsPair(q, AuthVersion, 0),
           NEW a, IsAddress(a), NEW d, ThreeAndAddr(d, 0, a),
           NEW tail \in Bytes, Between(s, p \o q, d, tail)
    PROVE  Understood(g[Len(s)], <<Plain("method"), Plain("auth"), Msg("response", a, 0)>>, tail)
<1> DEFINE x == Reader("method_read")
           rest == d \o tail
           pq == p \o q
           two == <<Plain("method"), Plain("auth")>>
<1>1. p \in Bytes /\ Len(p) = 2 /\ q \in Bytes /\ Len(q) = 2 /\ d \in Bytes /\ rest \in Bytes
  <2>1. d \in Bytes
    BY ResponseHeard
  <2>2. p \in Bytes /\ Len(p) = 2 /\ q \in Bytes /\ Len(q) = 2
    BY ProtocolBytes, Pair DEF IsPair
  <2>3. QED
    BY <2>1, <2>2, Joined
<1>2. pq \in Bytes /\ Len(pq) = Len(p) + Len(q)
  BY <1>1, Joined
<1>3. Between(s, p, q, rest)
  BY <1>1, TwoInFront
<1>4. Run(x, s, g) /\ Between(s, pq, d, tail)
  OBVIOUS
<1> HIDE DEF rest, pq
<1>5. Stands(g[Len(p)], "auth_read", <<Plain("method")>>)
  <2>1. Userpass \in {NoAuth, Userpass} /\ (Userpass = Userpass => script.userpass)
    OBVIOUS
  <2>2. Userpass # NoAuth
    BY DEF NoAuth, Userpass
  <2>3. QED
    BY <1>1, <1>3, <2>1, <2>2, ServerBegins
<1> HIDE DEF x
<1>6. Meets(x, s, g, Len(p), q, "auth_read", <<Plain("method")>>)
  <2>1. Len(q) > 0
    BY <1>1
  <2>2. QED
    BY <1>1, <1>3, <1>4, <1>5, <2>1, NextMeets
<1>7. Stands(g[Len(p) + Len(q)], "response_read", Append(<<Plain("method")>>, Plain("auth")))
  BY <1>6, AuthStep
<1>8. Append(<<Plain("method")>>, Plain("auth")) = two
  BY OneAfterOther
<1> HIDE DEF two
<1>9. Stands(g[Len(pq)], "response_read", two)
  BY <1>2, <1>7, <1>8
<1>10. Understood(g[Len(s)], Append(two, Msg("response", a, 0)), tail)
  BY <1>2, <1>4, <1>9, ServerAnswers
<1>11. Append(two, Msg("response", a, 0)) = <<Plain("method"), Plain("auth"), Msg("response", a, 0)>>
  BY OneAfterOther DEF two
<1>12. QED
  BY <1>10, <1>11

\* A local client that speaks SOCKS5.
LEMMA Socks5Client ==
    ASSUME NEW s, NEW g, Run(Reader("classify"), s, g), script.socks5,
           NEW n \in Byte, NEW methods \in Bytes, Len(methods) = n,
           \E i \in 1 .. n : methods[i] = NoAuth, NEW p, IsGreeting(p, n, methods),
           NEW c \in {Connect, Associate}, NEW a, IsAddress(a), NEW d, ThreeAndAddr(d, c, a),
           NEW tail \in Bytes, Between(s, p, d, tail)
    PROVE  Understood(g[Len(s)], <<Plain("greeting"), Msg("request", a, c)>>, tail)
<1> DEFINE x == Reader("classify")
           one == <<Plain("greeting")>>
<1>1. p \in Bytes
  BY GreetingHeard
<1>2. d \in Bytes /\ Len(d) > 0
  <2>1. d \in Bytes /\ Len(d) = 3 + Len(PutAddr(a))
    BY RequestHeard, ProtocolBytes
  <2>2. Len(PutAddr(a)) \in Nat
    BY AddressShort
  <2> DEFINE l == Len(PutAddr(a))
  <2>3. l \in Nat /\ Len(d) = 3 + l
    BY <2>1, <2>2
  <2> HIDE DEF l
  <2>4. QED
    BY <2>1, <2>3
<1>3. PieceAt(s, 0, p)
  <2> DEFINE rest == d \o tail
  <2>1. rest \in Bytes /\ Between(s, <<>>, p, rest)
    BY <1>1, <1>2, AtFront
  <2> HIDE DEF rest
  <2>2. PieceAt(s, Len(<<>>), p)
    BY <1>1, <2>1, NoBytes, PieceAmong
  <2>3. QED
    BY <2>2, NoBytes, Zenon
<1>4. Stands(g[Len(p)], "request", one)
  BY <1>3, GreetingStep
<1>5. Run(x, s, g)
  OBVIOUS
<1> HIDE DEF x, one
<1>6. Meets(x, s, g, Len(p), d, "request", one)
  BY <1>1, <1>2, <1>4, <1>5, NextMeets
<1>7. Stands(g[Len(p) + Len(d)], "served", Append(one, Msg("request", a, c)))
  BY <1>6, RequestStep
<1>8. Understood(g[Len(s)], Append(one, Msg("request", a, c)), tail)
  BY <1>1, <1>2, <1>5, <1>7, LastServed
<1>9. Append(one, Msg("request", a, c)) = <<Plain("greeting"), Msg("request", a, c)>>
  BY OneAfterOther DEF one
<1>10. QED
  BY <1>8, <1>9

\* A Trojan client's key and command.
LEMMA TrojanBegins ==
    ASSUME NEW s, NEW g, Run(Reader("prefix"), s, g), NEW key \in Keys, NEW p, KeyAndBreak(p, key),
           NEW c \in {Connect, Associate}, NEW a, IsAddress(a), NEW d, IsCommand(d, c, a),
           NEW w \in Bytes, Between(s, p, d, w)
    PROVE  /\ p \in Bytes /\ d \in Bytes
           /\ Stands(g[Len(p) + Len(d)], IF c = Connect THEN "served" ELSE "udp",
                     <<Plain("prefix"), Msg("command", a, c)>>)
<1> DEFINE x == Reader("prefix")
           one == <<Plain("prefix")>>
           next == IF c = Connect THEN "served" ELSE "udp"
<1>1. p \in Bytes /\ Len(p) > 0 /\ Len(p) \in Nat
  <2>1. p \in Bytes /\ Len(p) = PrefixLen
    BY PrefixHeard
  <2>2. PrefixLen > 0 /\ PrefixLen \in Nat
    BY Rooms DEF PrefixLen
  <2>3. QED
    BY <2>1, <2>2
<1>2. d \in Bytes /\ Len(d) > 0
  <2>1. d \in Bytes /\ Len(d) = 3 + Len(PutAddr(a))
    BY CommandHeard
  <2>2. Len(PutAddr(a)) \in Nat
    BY AddressShort
  <2> DEFINE l == Len(PutAddr(a))
  <2>3. l \in Nat /\ Len(d) = 3 + l
    BY <2>1, <2>2
  <2> HIDE DEF l
  <2>4. QED
    BY <2>1, <2>3
<1>3. Meets(x, s, g, 0, p, "prefix", <<>>)
  <2>1. "prefix" \in Phases
    BY DEF Phases
  <2>2. QED
    BY <1>1, <1>2, <2>1, FirstMeets
<1>4. Run(x, s, g)
  OBVIOUS
<1> HIDE DEF x, next
<1>5. Stands(g[Len(p)], "command", one)
  <2>1. Stands(g[0 + Len(p)], "command", Append(<<>>, Plain("prefix")))
    BY <1>3, PrefixStep
  <2>2. 0 + Len(p) = Len(p) /\ Append(<<>>, Plain("prefix")) = <<Plain("prefix")>>
    BY <1>1, OneAfterOther
  <2>3. QED
    BY <2>1, <2>2, Zenon
<1> HIDE DEF one
<1>6. Meets(x, s, g, Len(p), d, "command", one)
  BY <1>1, <1>2, <1>4, <1>5, NextMeets
<1>7. Stands(g[Len(p) + Len(d)], next, Append(one, Msg("command", a, c)))
  BY <1>6, CommandStep DEF next
<1>8. Append(one, Msg("command", a, c)) = <<Plain("prefix"), Msg("command", a, c)>>
  BY OneAfterOther DEF one
<1>9. QED
  BY <1>1, <1>2, <1>7, <1>8 DEF next

\* One that connects.
LEMMA TrojanConnects ==
    ASSUME NEW s, NEW g, Run(Reader("prefix"), s, g), NEW key \in Keys, NEW p, KeyAndBreak(p, key),
           NEW a, IsAddress(a), NEW d, IsCommand(d, Connect, a),
           NEW tail \in Bytes, Between(s, p, d, tail)
    PROVE  Understood(g[Len(s)], <<Plain("prefix"), Msg("command", a, Connect)>>, tail)
<1> DEFINE two == <<Plain("prefix"), Msg("command", a, Connect)>>
<1>1. p \in Bytes /\ d \in Bytes /\ Stands(g[Len(p) + Len(d)], "served", two)
  <2>1. Connect \in {Connect, Associate}
    OBVIOUS
  <2>2. QED
    BY <2>1, TrojanBegins
<1> HIDE DEF two
<1>2. Understood(g[Len(s)], two, tail)
  BY <1>1, LastServed
<1>3. QED
  BY <1>2 DEF two

\* One that sends frames.
LEMMA TrojanAssociates ==
    ASSUME NEW s, NEW g, Run(Reader("prefix"), s, g), NEW key \in Keys, NEW p, KeyAndBreak(p, key),
           NEW a, IsAddress(a), NEW d, IsCommand(d, Associate, a),
           NEW sent \in Texts, Between(s, p \o d, FlattenSeq(sent), <<>>),
           NEW M, NEW frames \in Seq(M), Len(frames) = Len(sent),
           Plain("prefix") \in M, Msg("command", a, Associate) \in M,
           \A i \in 1 .. Len(sent) :
               /\ frames[i] = Frame(frames[i].addr, frames[i].payload)
               /\ ReadAsFrame(sent[i], frames[i].addr, frames[i].payload)
               /\ Len(sent[i]) <= UdpRoom
    PROVE  Understood(g[Len(s)], <<Plain("prefix"), Msg("command", a, Associate)>> \o frames, <<>>)
<1> DEFINE x == Reader("prefix")
           two == <<Plain("prefix"), Msg("command", a, Associate)>>
           f == FlattenSeq(sent)
           pd == p \o d
           rest == f \o <<>>
<1>1. p \in Bytes /\ d \in Bytes
  <2>1. Associate \in {Connect, Associate}
    OBVIOUS
  <2>2. QED
    BY <2>1, PrefixHeard, CommandHeard
<1>2. f \in Bytes
  BY NoBytes, FlattenAppend
<1>3. pd \in Bytes /\ Len(pd) = Len(p) + Len(d)
  BY <1>1, Joined
<1> HIDE DEF f
<1>4. rest \in Bytes /\ Between(s, p, d, rest)
  <2>1. Between(s, p \o d, f, <<>>)
    BY DEF f
  <2>2. QED
    BY <1>1, <1>2, <2>1, NoBytes, Joined, TwoInFront
<1>5. two \in Seq(M)
  OBVIOUS
<1>6. Run(x, s, g)
  OBVIOUS
<1>7. Between(s, pd, f, <<>>)
  BY DEF f
<1> HIDE DEF rest, pd, x
<1>8. Stands(g[Len(pd)], "udp", two)
  <2>1. Stands(g[Len(p) + Len(d)], IF Associate = Connect THEN "served" ELSE "udp", two)
    <3> HIDE DEF two
    <3>1. Associate \in {Connect, Associate}
      OBVIOUS
    <3>2. Run(Reader("prefix"), s, g)
      OBVIOUS
    <3>3. QED
      BY <1>4, <3>1, <3>2, TrojanBegins DEF two
  <2>2. Associate # Connect
    BY DEF Associate, Connect
  <2>3. QED
    BY <1>3, <2>1, <2>2
<1> HIDE DEF two
<1>9. FramesCome(x, s, g, pd, <<>>, sent, two, frames, M)
  BY <1>3, <1>5, <1>6, <1>7, <1>8, NoBytes DEF FramesCome, f
<1>10. Stands(g[Len(pd) + Len(f)], "udp", two \o frames)
  BY <1>9, FramesGiven DEF f
<1>11. Len(pd) + Len(f) = Len(s)
  <2> DEFINE e == pd \o f
  <2>1. e \in Bytes /\ Len(e) = Len(pd) + Len(f)
    BY <1>2, <1>3, Joined
  <2>2. s = e \o <<>>
    BY <1>7 DEF Between
  <2> HIDE DEF e
  <2>3. s = e
    BY <2>1, <2>2, NoBytes
  <2>4. QED
    BY <2>1, <2>3
<1>12. Understood(g[Len(s)], two \o frames, <<>>)
  <2>1. Stands(g[Len(s)], "udp", two \o frames)
    BY <1>10, <1>11
  <2>2. QED
    BY <2>1 DEF Stands, Understood
<1>13. QED
  BY <1>12 DEF two

-----------------------------------------------------------------------------
(* Every script but those of HTTP. *)

\* The reader that gets the stream of the script byte by byte.
LEMMA ScriptRuns ==
    ASSUME script \in Scripts, NEW g, Walks(g)
    PROVE  /\ Run(Start(script), script.stream, g) /\ script.tail \in Bytes
           /\ Len(script.meant) \in Nat
           /\ script.mode = "trojan" => Start(script) = Reader("prefix")
           /\ script.mode = "local" => Start(script) = Reader("classify")
           /\ script.mode = "server" => Start(script) = Reader("method_read")
<1>1. /\ script.mode = "trojan" => Start(script) = Reader("prefix")
      /\ script.mode = "local" => Start(script) = Reader("classify")
      /\ script.mode = "server" => Start(script) = Reader("method_read")
  BY DEF Start
<1>2. script.mode \in {"trojan", "local", "server"}
  BY FramingAssumption
<1>3. ReaderRight(Reader("prefix")) /\ ReaderRight(Reader("classify"))
        /\ ReaderRight(Reader("method_read"))
  <2>1. "prefix" \in Phases /\ "classify" \in Phases /\ "method_read" \in Phases
    BY DEF Phases
  <2>2. QED
    BY <2>1, StartRight
<1>4. ReaderRight(Start(script))
  BY <1>1, <1>2, <1>3
<1>5. script.stream \in Bytes
  BY StreamOf
<1>6. Run(Start(script), script.stream, g)
  BY <1>4, <1>5, Zenon DEF Run, Walks
<1>7. QED
  BY <1>1, <1>6, PeerAssumption

\* What is written for a message.
LEMMA WrittenIs ==
    ASSUME NEW a, NEW c
    PROVE  /\ IsCommand(Written(Msg("command", a, c)), c, a)
           /\ ThreeAndAddr(Written(Msg("request", a, c)), c, a)
           /\ ThreeAndAddr(Written(Msg("response", a, 0)), 0, a)
  BY DEF Written, Msg, IsCommand, ThreeAndAddr, BuildRequest, BuildResponse

\* A server that keeps to the protocol is understood.
LEMMA ServerUnderstood ==
    ASSUME script \in Scripts, script.mode = "server", SpeaksServer(script), NEW g, Walks(g)
    PROVE  Understood(g[Len(script.stream)], script.meant, script.tail)
<1> DEFINE s == script.stream
           tail == script.tail
           meant == script.meant
           last == meant[Len(meant)]
           a == last.addr
           d == Written(last)
<1>1. Run(Reader("method_read"), s, g) /\ tail \in Bytes
  BY ScriptRuns
<1>2. last = Msg("response", a, 0) /\ IsAddress(a)
  BY DEF SpeaksServer
<1>3. \/ meant = <<Plain("method"), last>> /\ s = <<Version, NoAuth>> \o d \o tail
      \/ /\ script.userpass /\ meant = <<Plain("method"), Plain("auth"), last>>
         /\ s = <<Version, Userpass>> \o <<AuthVersion, 0>> \o d \o tail
  BY DEF SpeaksServer
<1> HIDE DEF s, tail, meant, last, a
<1>4. ThreeAndAddr(d, 0, a)
  BY <1>2, WrittenIs
<1> HIDE DEF d
<1>5. CASE meant = <<Plain("method"), last>> /\ s = <<Version, NoAuth>> \o d \o tail
  <2> DEFINE p == <<Version, NoAuth>>
  <2>1. IsPair(p, Version, NoAuth)
    BY DEF IsPair
  <2>2. Between(s, p, d, tail)
    BY <1>5 DEF Between
  <2> HIDE DEF p
  <2>3. Understood(g[Len(s)], <<Plain("method"), Msg("response", a, 0)>>, tail)
    BY <1>1, <1>2, <1>4, <2>1, <2>2, ServerPlain
  <2>4. meant = <<Plain("method"), Msg("response", a, 0)>>
    BY <1>2, <1>5, Zenon
  <2>5. QED
    BY <2>3, <2>4, Zenon DEF s, tail, meant
<1>6. CASE /\ script.userpass /\ meant = <<Plain("method"), Plain("auth"), last>>
           /\ s = <<Version, Userpass>> \o <<AuthVersion, 0>> \o d \o tail
  <2> DEFINE p == <<Version, Userpass>>
             q == <<AuthVersion, 0>>
  <2>1. IsPair(p, Version, Userpass) /\ IsPair(q, AuthVersion, 0)
    BY DEF IsPair
  <2>2. Between(s, p \o q, d, tail)
    BY <1>6 DEF Between
  <2> HIDE DEF p, q
  <2>3. Understood(g[Len(s)], <<Plain("method"), Plain("auth"), Msg("response", a, 0)>>, tail)
    BY <1>1, <1>2, <1>4, <1>6, <2>1, <2>2, ServerAsks
  <2>4. meant = <<Plain("method"), Plain("auth"), Msg("response", a, 0)>>
    BY <1>2, <1>6, Zenon
  <2>5. QED
    BY <2>3, <2>4, Zenon DEF s, tail, meant
<1>7. QED
  BY <1>3, <1>5, <1>6

\* The front of two stays where it is.
LEMMA FrontStays ==
    ASSUME NEW S, NEW a \in Seq(S), NEW b \in Seq(S), NEW j \in 1 .. Len(a)
    PROVE  a \o b \in Seq(S) /\ j \in 1 .. Len(a \o b) /\ (a \o b)[j] = a[j]
<1> DEFINE m == Len(a)
           n == Len(b)
           ab == a \o b
<1>1. m \in Nat /\ n \in Nat /\ j \in 1 .. m
  OBVIOUS
<1>2. ab \in Seq(S) /\ Len(ab) = m + n
      /\ \A i \in 1 .. m + n : ab[i] = IF i <= m THEN a[i] ELSE b[i - m]
  BY ConcatProperties
<1> HIDE DEF m, n, ab
<1>3. j \in 1 .. m + n /\ j <= m
  BY <1>1
<1>4. QED
  BY <1>2, <1>3 DEF ab

\* The second of many.
LEMMA SecondOf ==
    ASSUME NEW S, NEW v \in S, NEW n \in S, NEW a \in Seq(S), NEW b \in Seq(S), NEW c \in Seq(S)
    PROVE  /\ (<<v, n>> \o a \o b \o c)[2] = n
           /\ 2 \in 1 .. Len(<<v, n>> \o a \o b \o c)
<1> DEFINE w == <<v, n>>
           wa == w \o a
           wab == wa \o b
           all == wab \o c
<1>1. w \in Seq(S) /\ 2 \in 1 .. Len(w) /\ w[2] = n
  OBVIOUS
<1> HIDE DEF w
<1>2. wa \in Seq(S) /\ 2 \in 1 .. Len(wa) /\ wa[2] = n
  BY <1>1, FrontStays
<1> HIDE DEF wa
<1>3. wab \in Seq(S) /\ 2 \in 1 .. Len(wab) /\ wab[2] = n
  BY <1>2, FrontStays
<1> HIDE DEF wab
<1>4. all \in Seq(S) /\ 2 \in 1 .. Len(all) /\ all[2] = n
  BY <1>3, FrontStays
<1>5. QED
  BY <1>4 DEF wab, wa, w

\* A local client that speaks SOCKS5 is.
LEMMA Socks5Understood ==
    ASSUME script \in Scripts, script.mode = "local", SpeaksSocks5(script), NEW g, Walks(g)
    PROVE  Understood(g[Len(script.stream)], script.meant, script.tail)
<1> DEFINE s == script.stream
           tail == script.tail
           meant == script.meant
           asked == meant[2]
           a == asked.addr
           c == asked.command
           d == Written(asked)
<1>1. Run(Reader("classify"), s, g) /\ tail \in Bytes /\ s \in Bytes
  BY ScriptRuns, StreamOf
<1>2. asked = Msg("request", a, c) /\ IsAddress(a) /\ c \in {Connect, Associate}
      /\ script.socks5 /\ meant = <<Plain("greeting"), asked>>
  BY DEF SpeaksSocks5
<1>3. PICK n \in 1 .. Len(s) - 2 :
          /\ \E i \in 1 .. n : SubSeq(s, 3, 2 + n)[i] = NoAuth
          /\ s = <<Version, n>> \o SubSeq(s, 3, 2 + n) \o d \o tail
  BY DEF SpeaksSocks5
<1> HIDE DEF s, tail, meant, asked, a, c
<1>4. ThreeAndAddr(d, c, a)
  BY <1>2, WrittenIs
<1> HIDE DEF d
<1> DEFINE methods == SubSeq(s, 3, 2 + n)
           p == <<Version, n>> \o methods
<1>5. methods \in Bytes /\ Len(methods) = n /\ n \in Nat
  <2> DEFINE m == Len(s)
  <2>1. m \in Nat
    BY <1>1 DEF Bytes
  <2>2. n \in 1 .. m - 2
    BY <1>3
  <2> HIDE DEF m
  <2>3. 2 \in 0 .. m /\ 2 + n \in 2 .. m /\ n \in Nat /\ 2 + n - 2 = n /\ 2 + 1 = 3
    BY <2>1, <2>2
  <2>4. SubSeq(s, 2 + 1, 2 + n) \in Bytes /\ Len(SubSeq(s, 2 + 1, 2 + n)) = 2 + n - 2
    BY <1>1, <2>3, Part DEF m
  <2>5. QED
    BY <2>3, <2>4
<1>6. (\E i \in 1 .. n : methods[i] = NoAuth) /\ IsGreeting(p, n, methods) /\ Between(s, p, d, tail)
  BY <1>3 DEF IsGreeting, Between
<1>7. n \in Byte
  <2>1. d \in Bytes
    BY <1>2, <1>4, RequestHeard, ProtocolBytes
  <2>2. /\ methods \in Seq(Nat) /\ d \in Seq(Nat) /\ tail \in Seq(Nat)
        /\ Version \in Nat /\ n \in Nat
    <3>1. Byte \subseteq Nat
      BY DEF Byte
    <3> HIDE DEF methods
    <3>2. QED
      BY <1>1, <1>5, <2>1, <3>1, SeqMonotonic DEF Bytes, Version
  <2> HIDE DEF methods
  <2>3. /\ (<<Version, n>> \o methods \o d \o tail)[2] = n
        /\ 2 \in 1 .. Len(<<Version, n>> \o methods \o d \o tail)
    BY <2>2, SecondOf
  <2>4. s = <<Version, n>> \o methods \o d \o tail
    BY <1>3 DEF methods
  <2>5. s[2] = n /\ 2 \in 1 .. Len(s)
    BY <2>3, <2>4
  <2>6. QED
    BY <1>1, <2>5 DEF Bytes
<1> HIDE DEF methods, p
<1>8. Understood(g[Len(s)], <<Plain("greeting"), Msg("request", a, c)>>, tail)
  BY <1>1, <1>2, <1>4, <1>5, <1>6, <1>7, Socks5Client
<1>9. meant = <<Plain("greeting"), Msg("request", a, c)>>
  BY <1>2, Zenon
<1>10. QED
  BY <1>8, <1>9, Zenon DEF s, tail, meant

\* A Trojan client is.
LEMMA TrojanUnderstood ==
    ASSUME script \in Scripts, script.mode = "trojan", SpeaksTrojan(script), NEW g, Walks(g)
    PROVE  Understood(g[Len(script.stream)], script.meant, script.tail)
<1> DEFINE s == script.stream
           tail == script.tail
           meant == script.meant
           asked == meant[2]
           a == asked.addr
           c == asked.command
           d == Written(asked)
           n == Len(meant) - 2
           frames == FramesOf(script)
           sent == Packed(frames)
           f == FlattenSeq(sent)
<1>1. Run(Reader("prefix"), s, g) /\ tail \in Bytes /\ Len(meant) \in Nat
  BY ScriptRuns
<1>2. /\ Len(meant) >= 2 /\ meant = <<Plain("prefix"), asked>> \o frames
      /\ asked = Msg("command", a, c) /\ IsAddress(a)
      /\ \/ c = Connect /\ frames = <<>>
         \/ c = Associate /\ tail = <<>>
  BY DEF SpeaksTrojan
<1>3. \A i \in DOMAIN frames :
          /\ frames[i] = Frame(frames[i].addr, frames[i].payload) /\ IsAddress(frames[i].addr)
          /\ frames[i].payload \in Bytes /\ Len(frames[i].payload) < 65536
          /\ Len(sent[i]) <= UdpRoom
  BY DEF SpeaksTrojan
<1>4. PICK key \in Keys : s = TrojanStream(key, asked, frames, tail)
  BY DEF SpeaksTrojan
<1> HIDE DEF s, tail, frames, sent
<1>5. n \in Nat
  <2> DEFINE l == Len(meant)
  <2>1. l \in Nat /\ l >= 2
    BY <1>1, <1>2
  <2> HIDE DEF l
  <2>2. l - 2 \in Nat
    BY <2>1
  <2>3. QED
    BY <2>2 DEF l
<1> DEFINE M == {Plain("prefix"), asked} \cup {meant[i + 2] : i \in 1 .. n}
<1>6. frames \in Seq(M) /\ Len(frames) = n /\ DOMAIN frames = 1 .. n
  <2>1. \A i \in 1 .. n : meant[i + 2] \in M
    OBVIOUS
  <2>2. frames = [i \in 1 .. n |-> meant[i + 2]]
    BY DEF frames, FramesOf
  <2> HIDE DEF M, n, meant
  <2>3. QED
    BY <1>5, <2>1, <2>2
<1>7. Plain("prefix") \in M /\ asked \in M
  OBVIOUS
<1> HIDE DEF M, n, meant, asked
<1>8. ASSUME NEW i \in 1 .. n
      PROVE  ReadAsFrame(sent[i], frames[i].addr, frames[i].payload)
  <2> DEFINE e == sent[i]
             b == frames[i].addr
             w == frames[i].payload
  <2>1. IsAddress(b) /\ w \in Bytes /\ Len(w) < 65536
    BY <1>3, <1>6, <1>8
  <2>2. IsFrameOf(e, b, w)
    BY <1>6, <1>8 DEF IsFrameOf, sent, Packed
  <2> HIDE DEF e, b, w
  <2>3. ReadAsFrame(e, b, w)
    BY <2>1, <2>2, FrameHeard
  <2>4. QED
    BY <2>3 DEF e, b, w
<1>9. sent \in Texts /\ Len(sent) = n
  <2>1. \A i \in 1 .. n : sent[i] \in Bytes
    BY <1>8 DEF ReadAsFrame
  <2>2. sent = [i \in 1 .. n |-> sent[i]]
    BY <1>6 DEF sent, Packed
  <2>3. QED
    BY <1>5, <2>1, <2>2 DEF Texts
<1>10. frames = <<>> => f = <<>>
  <2>1. ASSUME frames = <<>> PROVE sent = <<>>
    <3>1. Len(frames) = 0
      BY <2>1, NoBytes
    <3>2. Len(sent) = 0
      BY <1>6, <1>9, <3>1
    <3>3. QED
      BY <1>9, <3>2 DEF Texts
  <2>2. FlattenSeq(<<>>) = <<>>
    BY NoBytes, FlattenOne
  <2>3. QED
    BY <2>1, <2>2
<1>11. \A i \in 1 .. Len(sent) :
          /\ frames[i] = Frame(frames[i].addr, frames[i].payload)
          /\ ReadAsFrame(sent[i], frames[i].addr, frames[i].payload)
          /\ Len(sent[i]) <= UdpRoom
  <2>1. QED
    BY <1>3, <1>6, <1>8, <1>9
<1> HIDE DEF f
<1>12. IsCommand(d, c, a)
  BY <1>2, WrittenIs
<1> HIDE DEF d, a, c
<1> DEFINE p == key \o <<CR, LF>>
<1>13. KeyAndBreak(p, key) /\ Between(s, p \o d, f, tail)
  BY <1>4 DEF KeyAndBreak, Between, TrojanStream, d, f, sent
<1> HIDE DEF p
<1>14. p \in Bytes /\ d \in Bytes /\ p \o d \in Bytes
  <2>1. c \in {Connect, Associate}
    BY <1>2
  <2>2. p \in Bytes /\ d \in Bytes
    BY <1>2, <1>12, <1>13, <2>1, PrefixHeard, CommandHeard
  <2>3. QED
    BY <2>2, Joined
<1>15. CASE c = Connect /\ frames = <<>>
  <2> DEFINE two == <<Plain("prefix"), Msg("command", a, Connect)>>
  <2>1. Between(s, p, d, tail)
    <3> DEFINE pd == p \o d
    <3>1. pd \o <<>> = pd
      BY <1>14, NoBytes
    <3>2. s = (pd \o <<>>) \o tail
      BY <1>10, <1>13, <1>15 DEF Between
    <3>3. QED
      BY <3>1, <3>2 DEF Between
  <2>2. IsCommand(d, Connect, a)
    BY <1>12, <1>15
  <2>3. Understood(g[Len(s)], two, tail)
    BY <1>1, <1>2, <1>13, <2>1, <2>2, TrojanConnects
  <2>4. meant = two
    <3>1. meant = <<Plain("prefix"), asked>> \o <<>> /\ asked = Msg("command", a, Connect)
      BY <1>2, <1>15
    <3>2. <<Plain("prefix"), asked>> \in Seq(M)
      BY <1>7
    <3> DEFINE w == <<Plain("prefix"), asked>>
    <3>3. w \in Seq(M) /\ meant = w \o <<>>
      BY <3>1, <3>2
    <3> HIDE DEF w
    <3>4. meant = w
      BY <3>3, ConcatEmptySeq
    <3>5. QED
      BY <3>1, <3>4 DEF w
  <2>5. QED
    BY <2>3, <2>4 DEF s, tail, meant
<1>16. CASE c = Associate /\ tail = <<>>
  <2>1. Between(s, p \o d, FlattenSeq(sent), <<>>)
    BY <1>13, <1>16 DEF f
  <2>2. IsCommand(d, Associate, a) /\ Msg("command", a, Associate) \in M /\ asked = Msg("command", a, Associate)
    BY <1>2, <1>7, <1>12, <1>16
  <2>3. Understood(g[Len(s)], <<Plain("prefix"), Msg("command", a, Associate)>> \o frames, <<>>)
    BY <1>1, <1>2, <1>6, <1>7, <1>9, <1>11, <1>13, <2>1, <2>2, TrojanAssociates
  <2>4. meant = <<Plain("prefix"), Msg("command", a, Associate)>> \o frames
    BY <1>2, <2>2, Zenon
  <2>5. QED
    BY <1>16, <2>3, <2>4, Zenon DEF s, tail, meant
<1>17. QED
  BY <1>2, <1>15, <1>16

-----------------------------------------------------------------------------
(* The port in the target of a CONNECT is read as it is written. *)

\* Where a byte stands.
PlacesWith(t, c) == {i \in 1 .. Len(t) : t[i] = c}
FirstPlace(t, c) == IF PlacesWith(t, c) # {} THEN Min(PlacesWith(t, c)) ELSE 0
LastPlace(t, c) == IF PlacesWith(t, c) # {} THEN Max(PlacesWith(t, c)) ELSE 0

\* Where it stands first.
LEMMA FirstPlaceIs ==
    ASSUME NEW t \in Bytes, NEW c, NEW k \in 1 .. Len(t), t[k] = c, \A i \in 1 .. k - 1 : t[i] # c
    PROVE  FirstPlace(t, c) = k
<1> DEFINE I == PlacesWith(t, c)
           m == Len(t)
           least == Min(I)
<1>1. m \in Nat /\ k \in 1 .. m
  BY DEF Bytes
<1>2. k \in I /\ \A i \in I : i \in 1 .. m /\ t[i] = c
  BY DEF PlacesWith
<1> HIDE DEF I, m
<1>3. \A i \in I : k <= i
  <2> SUFFICES ASSUME NEW i \in I, ~(k <= i) PROVE FALSE
    OBVIOUS
  <2>1. i \in 1 .. k - 1
    BY <1>1, <1>2
  <2>2. QED
    BY <1>2, <2>1
<1>4. least \in I /\ \A i \in I : least <= i
  BY <1>2, <1>3 DEF Min
<1> HIDE DEF least
<1>5. least = k
  BY <1>1, <1>2, <1>3, <1>4
<1>6. QED
  BY <1>2, <1>5 DEF FirstPlace, I, least

\* And last.
LEMMA LastPlaceIs ==
    ASSUME NEW t \in Bytes, NEW c, NEW k \in 1 .. Len(t), t[k] = c,
           \A i \in k + 1 .. Len(t) : t[i] # c
    PROVE  LastPlace(t, c) = k
<1> DEFINE I == PlacesWith(t, c)
           m == Len(t)
           most == Max(I)
<1>1. m \in Nat /\ k \in 1 .. m /\ \A i \in k + 1 .. m : t[i] # c
  BY DEF Bytes
<1>2. k \in I /\ \A i \in I : i \in 1 .. m /\ t[i] = c
  BY DEF PlacesWith
<1> HIDE DEF I, m
<1>3. \A i \in I : i <= k
  <2> SUFFICES ASSUME NEW i \in I, ~(i <= k) PROVE FALSE
    OBVIOUS
  <2>1. i \in k + 1 .. m
    BY <1>1, <1>2
  <2>2. QED
    BY <1>1, <1>2, <2>1
<1>4. most \in I /\ \A i \in I : i <= most
  BY <1>2, <1>3 DEF Max
<1> HIDE DEF most
<1>5. most = k
  BY <1>1, <1>2, <1>3, <1>4
<1>6. QED
  BY <1>2, <1>5 DEF LastPlace, I, most

\* A target by the places of its bracket and its colon.
LEMMA TargetIs ==
    ASSUME NEW t
    PROVE  Target(t) =
               LET closing == FirstPlace(t, 93)
                   colon == LastPlace(t, Colon)
               IN  IF t[1] = 91
                   THEN IF closing = 0 \/ closing + 1 > Len(t) \/ t[closing + 1] # Colon
                        THEN [host |-> <<>>, port |-> <<>>]
                        ELSE [host |-> SubSeq(t, 2, closing - 1), port |-> From(t, closing + 2)]
                   ELSE [host |-> SubSeq(t, 1, colon - 1),
                         port |-> IF colon = 0 THEN <<>> ELSE From(t, colon + 1)]
  BY DEF Target, SelectInSeq, SelectLastInSeq, FirstPlace, LastPlace, PlacesWith

\* What is behind CONNECT by the place of the space.
LEMMA ConnectLineIs ==
    ASSUME NEW line
    PROVE  ConnectLine(line) =
               LET rest == From(line, Len(ConnectWord) + 1)
                   space == FirstPlace(rest, SP)
                   version == From(rest, space + 1)
                   target == Target(SubSeq(rest, 1, space - 1))
                   No == [rc |-> "bad", addr |-> Failed.addr]
               IN  IF space < 2 \/ Len(version) < Len(VersionWord) + 1 \/ ~IsPrefix(VersionWord, version)
                   THEN No
                   ELSE IF ParsePort(target.port) = 0 \/ Len(target.host) \notin 1 .. 255 THEN No
                   ELSE [rc |-> "ok", addr |-> FillHost(target.host, ParsePort(target.port))]
  BY DEF ConnectLine, SelectInSeq, FirstPlace, PlacesWith

\* What is kept of a number.
Kept(w) == w \in 1 .. MaxPort

\* The number that digits come to, one by one.
DigitOn(t, v, i) ==
    IF i = 0 THEN 0
    ELSE LET w == 10 * v[i - 1] + t[i] - 48 IN
         IF t[i] \in 48 .. 57 /\ Kept(w) /\ (i > 1 => v[i - 1] > 0) THEN w ELSE 0

Digits(t, v, n) == v = [i \in 0 .. n |-> DigitOn(t, v, i)]

\* One of them.
LEMMA OneDigit ==
    ASSUME NEW t, NEW v, NEW n, Digits(t, v, n), NEW i \in 0 .. n
    PROVE  v[i] = DigitOn(t, v, i)
<1> DEFINE D(w, j) == DigitOn(t, w, j)
<1>1. v = [j \in 0 .. n |-> D(v, j)]
  BY DEF Digits
<1> HIDE DEF D
<1>2. v[i] = D(v, i)
  BY <1>1, Zenon
<1>3. QED
  BY <1>2 DEF D

\* The reader's own.
LEMMA DigitsMeant ==
    ASSUME NEW t
    PROVE  ParsePort(t) = (CHOOSE f : Digits(t, f, Len(t)))[Len(t)]
  BY DEF ParsePort, Digits, DigitOn, Kept

\* That is what they are read as: induction on their number.
LEMMA DigitsRead ==
    ASSUME NEW t, NEW n \in Nat, Len(t) = n, NEW v, Digits(t, v, n)
    PROVE  ParsePort(t) = v[n]
<1> DEFINE F == CHOOSE f : Digits(t, f, n)
           N == {i \in Nat : i <= n => F[i] = v[i]}
<1>1. Digits(t, F, n)
  BY Zenon
<1>2. ParsePort(t) = F[n]
  BY DigitsMeant
<1> HIDE DEF F
<1>3. 0 \in N
  <2>1. 0 \in 0 .. n
    OBVIOUS
  <2>2. F[0] = DigitOn(t, F, 0) /\ v[0] = DigitOn(t, v, 0)
    BY <1>1, <2>1, OneDigit
  <2>3. QED
    BY <2>2 DEF DigitOn
<1>4. ASSUME NEW i \in N PROVE i + 1 \in N
  <2>1. i \in Nat /\ (i <= n => F[i] = v[i])
    OBVIOUS
  <2> HIDE DEF N
  <2>2. ASSUME i + 1 <= n PROVE F[i + 1] = v[i + 1]
    <3> DEFINE j == i + 1
    <3>1. j \in 0 .. n /\ i <= n /\ j - 1 = i /\ j # 0
      BY <2>1, <2>2
    <3> HIDE DEF j
    <3>2. F[j] = DigitOn(t, F, j) /\ v[j] = DigitOn(t, v, j)
      BY <1>1, <3>1, OneDigit
    <3>3. F[j - 1] = v[j - 1]
      BY <2>1, <3>1
    <3>4. DigitOn(t, F, j) = DigitOn(t, v, j)
      BY <3>3 DEF DigitOn
    <3>5. QED
      BY <3>2, <3>4 DEF j
  <2>3. QED
    BY <2>1, <2>2 DEF N
<1>5. N = Nat
  <2>1. N \in SUBSET Nat
    OBVIOUS
  <2> HIDE DEF N
  <2>2. QED
    BY <1>3, <1>4, <2>1, AllNumbers
<1>6. n \in N
  BY <1>5
<1>7. QED
  BY <1>2, <1>6

\* It has five digits at most.
LEMMA FiveDigits == MaxPort \in Nat /\ MaxPort < 100000
  BY SMT DEF MaxPort

\* The powers of ten.
LEMMA PowersAre ==
    /\ Powers[1] = 1 /\ Powers[2] = 10 /\ Powers[3] = 100 /\ Powers[4] = 1000
    /\ Powers[5] = 10000 /\ Powers[6] = 100000
  BY SMT DEF Powers

\* A number by its quotient and its rest.
LEMMA QuotientAndRest ==
    ASSUME NEW n \in Nat, NEW k \in 1 .. 6
    PROVE  /\ Powers[k] \in Nat /\ n \div Powers[k] \in Nat /\ n % Powers[k] \in Nat
           /\ n % Powers[k] < Powers[k]
           /\ n = Powers[k] * (n \div Powers[k]) + (n % Powers[k])
<1> DEFINE Right(p, h, l) == /\ p \in Nat /\ h \in Nat /\ l \in Nat
                             /\ l < p /\ n = p * h + l
           Divides(p) == \A h, l : h = n \div p /\ l = n % p => Right(p, h, l)
<1>1. Divides(1)
  BY SMT
<1>2. Divides(10)
  BY SMT
<1>3. Divides(100)
  BY SMT
<1>4. Divides(1000)
  BY SMT
<1>5. Divides(10000)
  BY SMT
<1>6. Divides(100000)
  BY SMT
<1> HIDE DEF Right, Divides
<1>7. k = 1 \/ k = 2 \/ k = 3 \/ k = 4 \/ k = 5 \/ k = 6
  BY SMT
<1>8. Divides(Powers[k])
  BY <1>1, <1>2, <1>3, <1>4, <1>5, <1>6, <1>7, PowersAre, SMT
<1>9. Right(Powers[k], n \div Powers[k], n % Powers[k])
  BY <1>8, Zenon DEF Divides
<1>10. QED
  BY <1>9, Zenon DEF Right

\* One digit more.
LEMMA TenTimes ==
    ASSUME NEW k \in 1 .. 5, NEW a \in Nat, NEW b \in Nat, NEW x \in Nat, NEW y \in Nat, NEW n,
           n = Powers[k] * a + x, n = Powers[k + 1] * b + y, x < Powers[k], y < Powers[k + 1]
    PROVE  a - 10 * b \in 0 .. 9
<1>1. CASE k = 1
  BY <1>1, PowersAre, SMT
<1>2. CASE k = 2
  BY <1>2, PowersAre, SMT
<1>3. CASE k = 3
  BY <1>3, PowersAre, SMT
<1>4. CASE k = 4
  BY <1>4, PowersAre, SMT
<1>5. CASE k = 5
  BY <1>5, PowersAre, SMT
<1>6. QED
  BY <1>1, <1>2, <1>3, <1>4, <1>5, SMT

\* What is left above a power.
LEMMA AboveThePower ==
    ASSUME NEW n \in Nat, NEW k \in 1 .. 6, NEW h \in Nat, NEW l \in Nat, l < Powers[k],
           n = Powers[k] * h + l
    PROVE  h <= n /\ (n < Powers[k] => h = 0) /\ (n >= Powers[k] => h > 0)
<1>1. CASE k = 1
  BY <1>1, PowersAre, SMT
<1>2. CASE k = 2
  BY <1>2, PowersAre, SMT
<1>3. CASE k = 3
  BY <1>3, PowersAre, SMT
<1>4. CASE k = 4
  BY <1>4, PowersAre, SMT
<1>5. CASE k = 5
  BY <1>5, PowersAre, SMT
<1>6. CASE k = 6
  BY <1>6, PowersAre, SMT
<1>7. QED
  BY <1>1, <1>2, <1>3, <1>4, <1>5, <1>6, SMT

\* What a number is without its last digits, and with one of them more.
LEMMA OneDigitMore ==
    ASSUME NEW n \in Nat, NEW k \in 1 .. 5
    PROVE  /\ n \div Powers[k] \in Nat /\ n \div Powers[k + 1] \in Nat
           /\ (n \div Powers[k]) % 10 \in 0 .. 9
           /\ n \div Powers[k] = 10 * (n \div Powers[k + 1]) + ((n \div Powers[k]) % 10)
           /\ n \div Powers[k] <= n
           /\ n < Powers[k + 1] => n \div Powers[k + 1] = 0
           /\ n >= Powers[k] => n \div Powers[k] > 0
<1> DEFINE p == Powers[k]
           q == Powers[k + 1]
           a == n \div p
           x == n % p
           b == n \div q
           y == n % q
<1>1. k \in 1 .. 6 /\ k + 1 \in 1 .. 6
  BY SMT
<1>2. p \in Nat /\ a \in Nat /\ x \in Nat /\ x < p /\ n = p * a + x
  BY <1>1, QuotientAndRest, Zenon
<1>3. q \in Nat /\ b \in Nat /\ y \in Nat /\ y < q /\ n = q * b + y
  BY <1>1, QuotientAndRest, Zenon
<1> HIDE DEF a, b, x, y
<1>4. a - 10 * b \in 0 .. 9
  BY <1>2, <1>3, TenTimes
<1>5. a % 10 = a - 10 * b
  BY <1>2, <1>3, <1>4, SMT
<1>6. a <= n /\ (n >= p => a > 0) /\ (n < q => b = 0)
  BY <1>1, <1>2, <1>3, AboveThePower
<1> HIDE DEF p, q
<1>7. a % 10 \in 0 .. 9 /\ a = 10 * b + (a % 10)
  BY <1>2, <1>3, <1>4, <1>5
<1>8. QED
  BY <1>2, <1>3, <1>6, <1>7 DEF a, b, p, q

\* They grow.
LEMMA PowersGrow ==
    ASSUME NEW j \in 1 .. 6, NEW k \in 1 .. 6, j <= k
    PROVE  Powers[j] \in Nat /\ Powers[k] \in Nat /\ Powers[j] <= Powers[k]
<1>1. j = 1 \/ j = 2 \/ j = 3 \/ j = 4 \/ j = 5 \/ j = 6
  OBVIOUS
<1>2. k = 1 \/ k = 2 \/ k = 3 \/ k = 4 \/ k = 5 \/ k = 6
  OBVIOUS
<1>3. QED
  BY <1>1, <1>2, PowersAre, SMT

\* The digits of a number of a width.
DigitsOf(n, w) == [i \in 1 .. w |-> 48 + ((n \div Powers[w + 1 - i]) % 10)]
Wide(n, w) == w \in 1 .. 5 /\ Powers[w] <= n /\ n < Powers[w + 1]

\* Each port has a width.
LEMMA DecimalIs ==
    ASSUME NEW n \in 1 .. MaxPort
    PROVE  \E w \in 1 .. 5 : Wide(n, w) /\ Decimal(n) = DigitsOf(n, w)
<1> DEFINE width == CHOOSE w \in 1 .. 5 : Powers[w] <= n /\ n < Powers[w + 1]
<1>1. \E w \in 1 .. 5 : Powers[w] <= n /\ n < Powers[w + 1]
  <2> DEFINE In(w) == Powers[w] <= n /\ n < Powers[w + 1]
  <2>1. In(1) \/ In(2) \/ In(3) \/ In(4) \/ In(5)
    BY PowersAre, FiveDigits, SMT
  <2> HIDE DEF In
  <2>2. \E w \in 1 .. 5 : In(w)
    BY <2>1, SMT
  <2>3. QED
    BY <2>2 DEF In
<1>2. width \in 1 .. 5 /\ Powers[width] <= n /\ n < Powers[width + 1]
  BY <1>1
<1>3. Decimal(n) = DigitsOf(n, width)
  BY DEF Decimal, DigitsOf
<1> HIDE DEF width
<1>4. QED
  BY <1>2, <1>3 DEF Wide

\* They are digits.
LEMMA DigitsAre ==
    ASSUME NEW n \in 1 .. MaxPort, NEW w \in 1 .. 5, Wide(n, w)
    PROVE  /\ DigitsOf(n, w) \in Bytes /\ Len(DigitsOf(n, w)) = w
           /\ \A i \in 1 .. w : /\ DigitsOf(n, w)[i] = 48 + ((n \div Powers[w + 1 - i]) % 10)
                                /\ DigitsOf(n, w)[i] \in 48 .. 57
<1> DEFINE d == DigitsOf(n, w)
<1>1. ASSUME NEW i \in 1 .. w PROVE 48 + ((n \div Powers[w + 1 - i]) % 10) \in 48 .. 57
  <2> DEFINE k == w + 1 - i
  <2>1. k \in 1 .. 5 /\ n \in Nat
    BY FiveDigits
  <2> HIDE DEF k
  <2>2. (n \div Powers[k]) % 10 \in 0 .. 9
    BY <2>1, OneDigitMore
  <2>3. QED
    BY <2>2 DEF k
<1>2. \A i \in 1 .. w : d[i] = 48 + ((n \div Powers[w + 1 - i]) % 10)
  BY DEF DigitsOf
<1>3. \A i \in 1 .. w : d[i] \in 48 .. 57 /\ d[i] \in Byte
  <2> HIDE DEF d
  <2>1. \A i \in 1 .. w : d[i] \in 48 .. 57
    BY <1>1, <1>2
  <2>2. QED
    BY <2>1 DEF Byte
<1>4. w \in Nat /\ d = [i \in 1 .. w |-> d[i]]
  BY DEF DigitsOf
<1> HIDE DEF d
<1>5. d \in Seq(Byte) /\ Len(d) = w
  BY <1>3, <1>4
<1>6. QED
  BY <1>2, <1>3, <1>5 DEF Bytes, d

\* A port is read as it is written.
LEMMA PortRead ==
    ASSUME NEW n \in 1 .. MaxPort
    PROVE  /\ ParsePort(Decimal(n)) = n /\ Decimal(n) \in Bytes /\ Len(Decimal(n)) \in 1 .. 5
           /\ \A i \in 1 .. Len(Decimal(n)) : Decimal(n)[i] \in 48 .. 57
<1>1. PICK w \in 1 .. 5 : Wide(n, w) /\ Decimal(n) = DigitsOf(n, w)
  BY DecimalIs
<1> DEFINE t == DigitsOf(n, w)
           v == [i \in 0 .. w |-> IF i = 0 THEN 0 ELSE n \div Powers[w + 1 - i]]
<1>2. /\ t \in Bytes /\ Len(t) = w
      /\ \A i \in 1 .. w : t[i] = 48 + ((n \div Powers[w + 1 - i]) % 10) /\ t[i] \in 48 .. 57
  BY <1>1, DigitsAre
<1>3. v[0] = 0 /\ \A i \in 1 .. w : v[i] = n \div Powers[w + 1 - i]
  OBVIOUS
<1>4. w \in 1 .. 5 /\ Powers[w] <= n /\ n < Powers[w + 1] /\ n \in Nat
  BY <1>1, FiveDigits DEF Wide
<1> HIDE DEF t
<1>5. ASSUME NEW i \in 0 .. w PROVE v[i] = DigitOn(t, v, i)
  <2>1. CASE i = 0
    BY <2>1, <1>3 DEF DigitOn
  <2>2. CASE i # 0
    <3> DEFINE k == w + 1 - i
               q == n \div Powers[k]
               up == n \div Powers[k + 1]
    <3>1. i \in 1 .. w /\ k \in 1 .. 5 /\ k <= w /\ w \in 1 .. 6
      BY <1>4, <2>2, SMT
    <3>2. t[i] = 48 + (q % 10) /\ t[i] \in 48 .. 57 /\ v[i] = q
      BY <1>2, <1>3, <3>1, Zenon
    <3>3. i - 1 # 0 => v[i - 1] = up
      <4> SUFFICES ASSUME i - 1 # 0 PROVE v[i - 1] = up
        OBVIOUS
      <4>1. i - 1 \in 1 .. w /\ w + 1 - (i - 1) = k + 1
        BY <3>1
      <4> HIDE DEF v
      <4>2. QED
        BY <1>3, <4>1
    <3>4. i = 1 => up = 0 /\ v[i - 1] = 0
      <4> SUFFICES ASSUME i = 1 PROVE up = 0 /\ v[i - 1] = 0
        OBVIOUS
      <4>1. k = w /\ i - 1 = 0
        BY <1>4
      <4>2. up = 0
        BY <1>4, <4>1, OneDigitMore
      <4> HIDE DEF v, up, k
      <4>3. QED
        BY <1>3, <4>1, <4>2
    <3>5. /\ q \in Nat /\ up \in Nat /\ q % 10 \in 0 .. 9 /\ q = 10 * up + (q % 10)
          /\ q <= n
      BY <1>4, <3>1, OneDigitMore
    <3>6. q > 0
      <4>1. Powers[k] <= n
        <5>1. k \in 1 .. 6
          BY <3>1
        <5> HIDE DEF k
        <5>2. Powers[k] \in Nat /\ Powers[w] \in Nat /\ Powers[k] <= Powers[w]
          BY <3>1, <5>1, PowersGrow
        <5>3. QED
          BY <1>4, <5>2
      <4> HIDE DEF k
      <4>2. QED
        BY <1>4, <3>1, <4>1, OneDigitMore
    <3>7. i > 1 => up > 0
      <4> SUFFICES ASSUME i > 1 PROVE up > 0
        OBVIOUS
      <4> DEFINE l == k + 1
      <4>1. l \in 1 .. 5 /\ l <= w /\ l \in 1 .. 6
        BY <1>4, <3>1
      <4> HIDE DEF l
      <4>2. Powers[l] \in Nat /\ Powers[w] \in Nat /\ Powers[l] <= Powers[w]
        BY <3>1, <4>1, PowersGrow
      <4>3. Powers[l] <= n
        BY <1>4, <4>2
      <4>4. n \div Powers[l] > 0
        BY <1>4, <4>1, <4>3, OneDigitMore
      <4>5. QED
        BY <4>4 DEF l
    <3> DEFINE d == q % 10
    <3> HIDE DEF v, q, up, k
    <3>8. v[i - 1] = up
      BY <3>3, <3>4, <3>1
    <3>9. t[i] = 48 + d /\ d \in 0 .. 9 /\ q = 10 * up + d /\ q \in Nat /\ q <= n
      BY <3>2, <3>5, Zenon
    <3> HIDE DEF d
    <3>10. q = 10 * v[i - 1] + t[i] - 48
      BY <3>5, <3>8, <3>9
    <3>11. q > 0 /\ q <= n /\ q \in Nat
      BY <3>9, <3>6
    <3>12. i > 1 => v[i - 1] > 0
      BY <3>7, <3>8
    <3>13. DigitOn(t, v, i) = q
      <4>1. Kept(q)
        BY <3>11, FiveDigits DEF Kept
      <4>2. Kept(10 * v[i - 1] + t[i] - 48)
        BY <3>10, <4>1, Zenon
      <4>3. DigitOn(t, v, i) = 10 * v[i - 1] + t[i] - 48
        BY <2>2, <3>2, <3>12, <4>2, Zenon DEF DigitOn
      <4>4. QED
        BY <3>10, <4>3, Zenon
    <3>14. QED
      BY <3>2, <3>13
  <2>3. QED
    BY <2>1, <2>2
<1>6. Digits(t, v, w)
  <2> DEFINE u == [i \in 0 .. w |-> DigitOn(t, v, i)]
  <2>1. DOMAIN v = 0 .. w /\ DOMAIN u = 0 .. w /\ v = [i \in 0 .. w |-> v[i]]
    OBVIOUS
  <2> HIDE DEF v
  <2>2. u = [i \in 0 .. w |-> v[i]]
    BY <1>5
  <2>3. QED
    BY <2>1, <2>2 DEF Digits
<1>7. v[w] = n
  <2>1. w \in 1 .. w /\ w + 1 - w = 1
    BY <1>4
  <2>2. v[w] = n \div Powers[1]
    BY <1>3, <2>1
  <2> HIDE DEF v
  <2>3. QED
    BY <1>4, <2>2, PowersAre, SMT
<1> HIDE DEF v
<1>8. ParsePort(t) = n
  BY <1>2, <1>4, <1>6, <1>7, DigitsRead
<1>9. Decimal(n) = t
  BY <1>1 DEF t
<1>10. QED
  BY <1>2, <1>4, <1>8, <1>9

-----------------------------------------------------------------------------
(* Host and port of a target. *)

\* A byte between others.
Around(t, u, c, w) == t = u \o <<c>> \o w

\* Where it is, and where they are.
LEMMA AroundOne ==
    ASSUME NEW u \in Bytes, NEW c \in Byte, NEW w \in Bytes, NEW t, Around(t, u, c, w)
    PROVE  /\ t \in Bytes /\ Len(t) = Len(u) + 1 + Len(w)
           /\ Len(u) \in Nat /\ Len(w) \in Nat /\ Len(u) + 1 \in 1 .. Len(t)
           /\ t[Len(u) + 1] = c
           /\ \A i \in 1 .. Len(u) : t[i] = u[i]
           /\ \A i \in 1 .. Len(w) : t[Len(u) + 1 + i] = w[i]
           /\ SubSeq(t, 1, Len(u)) = u /\ From(t, Len(u) + 2) = w
<1> DEFINE one == <<c>>
           uc == u \o one
           m == Len(u)
           n == Len(w)
<1>1. one \in Bytes /\ Len(one) = 1 /\ one[1] = c
  BY Singleton
<1>2. m \in Nat /\ n \in Nat
  BY DEF Bytes
<1> HIDE DEF one
<1>3. /\ uc \in Bytes /\ Len(uc) = m + 1 /\ uc[m + 1] = c /\ \A i \in 1 .. m : uc[i] = u[i]
  <2>1. /\ uc \in Bytes /\ Len(uc) = Len(u) + Len(one)
        /\ \A i \in 1 .. Len(u) : uc[i] = u[i]
        /\ \A i \in 1 .. Len(one) : uc[Len(u) + i] = one[i]
    BY <1>1, Joined
  <2>2. 1 \in 1 .. Len(one)
    BY <1>1
  <2>3. uc[Len(u) + 1] = one[1]
    BY <2>1, <2>2
  <2> HIDE DEF uc
  <2>4. QED
    BY <1>1, <2>1, <2>3
<1>4. t = uc \o w
  BY DEF Around, one
<1> HIDE DEF uc
<1>5. /\ t \in Bytes /\ Len(t) = m + 1 + n /\ \A i \in 1 .. m + 1 : t[i] = uc[i]
      /\ \A i \in 1 .. n : t[m + 1 + i] = w[i]
  <2> DEFINE e == uc \o w
  <2>1. /\ e \in Bytes /\ Len(e) = Len(uc) + Len(w)
        /\ \A i \in 1 .. Len(uc) : e[i] = uc[i]
        /\ \A i \in 1 .. Len(w) : e[Len(uc) + i] = w[i]
    BY <1>3, Joined
  <2>2. t = e
    BY <1>4
  <2> HIDE DEF e
  <2>3. QED
    BY <1>2, <1>3, <2>1, <2>2 DEF n
<1>6. SubSeq(t, 1, Len(uc)) = uc /\ From(t, Len(uc) + 1) = w
  BY <1>3, <1>4, Behind
<1> HIDE DEF m, n
<1>7. From(t, m + 2) = w
  <2>1. Len(uc) + 1 = m + 2
    BY <1>2, <1>3
  <2>2. QED
    BY <1>6, <2>1
<1>8. \A i \in 1 .. m : t[i] = u[i]
  <2>1. \A i \in 1 .. m : i \in 1 .. m + 1
    BY <1>2
  <2>2. QED
    BY <1>3, <1>5, <2>1
<1>9. t[m + 1] = c /\ m + 1 \in 1 .. m + 1 + n
  BY <1>2, <1>3, <1>5
<1>10. SubSeq(t, 1, m) = u
  <2>1. Longer(u, t)
    <3>1. m <= m + 1 + n
      BY <1>2
    <3>2. QED
      BY <1>5, <1>8, <3>1 DEF Longer, m
  <2>2. m \in 0 .. Len(u) /\ SubSeq(u, 1, m) = u
    <3>1. m \in 0 .. m
      BY <1>2
    <3>2. SubSeq(u, 1, Len(u)) = u
      BY SubSeqFull DEF Bytes
    <3>3. QED
      BY <3>1, <3>2 DEF m
  <2>3. QED
    BY <1>5, <2>1, <2>2, SameFront
<1>11. QED
  BY <1>2, <1>5, <1>7, <1>8, <1>9, <1>10 DEF m, n

\* A byte before others.
LEMMA Headmost ==
    ASSUME NEW c \in Byte, NEW w \in Bytes
    PROVE  /\ <<c>> \o w \in Bytes /\ Len(<<c>> \o w) = 1 + Len(w) /\ Len(w) \in Nat
           /\ (<<c>> \o w)[1] = c /\ From(<<c>> \o w, 2) = w
<1> DEFINE one == <<c>>
           v == one \o w
           n == Len(w)
<1>1. one \in Bytes /\ Len(one) = 1 /\ one[1] = c
  BY Singleton
<1>2. n \in Nat
  BY DEF Bytes
<1> HIDE DEF one, n
<1>3. /\ v \in Bytes /\ Len(v) = Len(one) + Len(w)
      /\ \A i \in 1 .. Len(one) : v[i] = one[i]
      /\ \A i \in 1 .. Len(w) : v[Len(one) + i] = w[i]
  BY <1>1, Joined
<1>4. From(v, Len(one) + 1) = w
  BY <1>1, Behind
<1>5. 1 \in 1 .. Len(one) /\ Len(one) + 1 = 2
  BY <1>1
<1> HIDE DEF v
<1>6. QED
  BY <1>1, <1>2, <1>3, <1>4, <1>5 DEF v, one, n

\* A byte does not occur.
Free(s, c) == \A i \in 1 .. Len(s) : s[i] # c

\* Nor in what is put together.
LEMMA FreeJoined ==
    ASSUME NEW u \in Bytes, NEW w \in Bytes, NEW c, Free(u, c), Free(w, c)
    PROVE  u \o w \in Bytes /\ Free(u \o w, c)
<1> DEFINE t == u \o w
           m == Len(u)
           n == Len(w)
<1>1. m \in Nat /\ n \in Nat
  BY DEF Bytes
<1>2. /\ t \in Bytes /\ Len(t) = m + n /\ \A i \in 1 .. m : t[i] = u[i]
      /\ \A i \in 1 .. n : t[m + i] = w[i]
  BY Joined
<1> HIDE DEF t, m, n
<1>3. ASSUME NEW i \in 1 .. m + n PROVE t[i] # c
  <2>1. CASE i <= m
    <3>1. i \in 1 .. m
      BY <1>1, <2>1
    <3>2. QED
      BY <1>2, <3>1 DEF Free, m
  <2>2. CASE i > m
    <3> DEFINE j == i - m
    <3>1. j \in 1 .. n /\ i = m + j
      BY <1>1, <2>2
    <3> HIDE DEF j
    <3>2. t[i] = w[j]
      BY <1>2, <3>1
    <3>3. QED
      BY <3>1, <3>2 DEF Free, n
  <2>3. QED
    BY <1>1, <2>1, <2>2
<1>4. Free(t, c)
  BY <1>2, <1>3 DEF Free
<1>5. QED
  BY <1>2, <1>4 DEF t

\* Nor in another byte.
LEMMA FreeOne ==
    ASSUME NEW h \in Byte, NEW c, h # c
    PROVE  <<h>> \in Bytes /\ Free(<<h>>, c)
<1> DEFINE one == <<h>>
<1>1. one \in Bytes /\ Len(one) = 1 /\ one[1] = h
  BY Singleton
<1> HIDE DEF one
<1>2. \A i \in 1 .. 1 : i = 1
  OBVIOUS
<1>3. Free(one, c)
  BY <1>1, <1>2 DEF Free
<1>4. QED
  BY <1>1, <1>3 DEF one

\* A host and a port.
LEMMA TargetPlain ==
    ASSUME NEW h \in Bytes, Len(h) > 0, h[1] # 91, NEW d \in Bytes, Free(d, Colon),
           NEW t, Around(t, h, Colon, d)
    PROVE  Target(t) = [host |-> h, port |-> d]
<1> DEFINE m == Len(h)
           n == Len(d)
           k == m + 1
<1>0. Colon \in Byte
  BY DEF Colon, Byte
<1>1. /\ t \in Bytes /\ Len(t) = m + 1 + n /\ m \in Nat /\ n \in Nat /\ k \in 1 .. Len(t)
      /\ t[k] = Colon /\ \A i \in 1 .. m : t[i] = h[i]
      /\ \A i \in 1 .. n : t[m + 1 + i] = d[i]
      /\ SubSeq(t, 1, m) = h /\ From(t, m + 2) = d
  BY <1>0, AroundOne
<1>2. m > 0 /\ \A i \in 1 .. n : d[i] # Colon
  BY DEF Free
<1> HIDE DEF m, n
<1>3. \A i \in k + 1 .. Len(t) : t[i] # Colon
  <2> SUFFICES ASSUME NEW i \in k + 1 .. m + 1 + n PROVE t[i] # Colon
    BY <1>1
  <2> DEFINE j == i - (m + 1)
  <2>1. j \in 1 .. n /\ i = m + 1 + j
    BY <1>1
  <2> HIDE DEF j
  <2>2. QED
    BY <1>1, <1>2, <2>1
<1>4. k - 1 = m /\ k + 1 = m + 2 /\ k # 0 /\ 1 \in 1 .. m
  BY <1>1, <1>2
<1> HIDE DEF k
<1>5. LastPlace(t, Colon) = k
  BY <1>1, <1>3, LastPlaceIs
<1>6. t[1] # 91
  BY <1>1, <1>4
<1>7. Target(t) = [host |-> SubSeq(t, 1, k - 1), port |-> From(t, k + 1)]
  BY <1>4, <1>5, <1>6, TargetIs
<1>8. QED
  BY <1>1, <1>4, <1>7

\* A host in brackets.
Bracketed(f, h) == f = <<91>> \o h \o <<93>>

\* Such a host and a port.
LEMMA TargetBracketed ==
    ASSUME NEW h \in Bytes, Free(h, 93), NEW d \in Bytes,
           NEW f, Bracketed(f, h), NEW t, Around(t, f, Colon, d)
    PROVE  Target(t) = [host |-> h, port |-> d]
<1> DEFINE o == <<91>>
           u == o \o h
           c == <<Colon>>
           v == c \o d
           b == u \o <<93>>
           m == Len(h)
<1>0. 91 \in Byte /\ 93 \in Byte /\ Colon \in Byte /\ 91 # 93
  BY DEF Colon, Byte
<1>1. o \in Bytes /\ Len(o) = 1 /\ o[1] = 91 /\ c \in Bytes /\ Len(c) = 1 /\ c[1] = Colon
      /\ <<93>> \in Bytes
  BY <1>0, Singleton
<1>2. m \in Nat
  BY DEF Bytes
<1>3. Free(o, 93)
  BY <1>0, FreeOne
<1> HIDE DEF o, c
<1>4. u \in Bytes /\ Free(u, 93) /\ Len(u) = 1 + m /\ u[1] = 91 /\ From(u, 2) = h
  <2>1. u \in Bytes /\ Free(u, 93)
    BY <1>1, <1>3, FreeJoined
  <2>2. Len(u) = 1 + Len(h) /\ u[1] = 91 /\ From(u, 2) = h
    BY <1>0, Headmost DEF o
  <2> HIDE DEF u
  <2>3. QED
    BY <2>1, <2>2
<1> HIDE DEF u
<1>5. v \in Bytes /\ Len(v) > 0 /\ v[1] = Colon
  <2>1. v \in Bytes /\ Len(v) = 1 + Len(d) /\ v[1] = Colon /\ Len(d) \in Nat
    BY <1>0, Headmost DEF c
  <2> HIDE DEF v
  <2>2. QED
    BY <2>1
<1>6. b \in Bytes
  BY <1>1, <1>4, Joined
<1>7. t = (b \o c) \o d
  BY DEF Around, Bracketed, u, o, c
<1>8. (b \o c) \o d = b \o v
  <2> HIDE DEF b
  <2>1. b \in Seq(Byte) /\ c \in Seq(Byte) /\ d \in Seq(Byte)
    BY <1>1, <1>6 DEF Bytes
  <2>2. QED
    BY <2>1, ConcatAssociative
<1> HIDE DEF v
<1>9. Around(t, u, 93, v)
  BY <1>7, <1>8, Zenon DEF Around
<1> DEFINE k == Len(u) + 1
<1>10. /\ t \in Bytes /\ Len(t) = Len(u) + 1 + Len(v) /\ k \in 1 .. Len(t)
       /\ t[k] = 93 /\ \A i \in 1 .. Len(u) : t[i] = u[i]
       /\ \A i \in 1 .. Len(v) : t[Len(u) + 1 + i] = v[i]
  <2>1. /\ t \in Bytes /\ Len(t) = Len(u) + 1 + Len(v) /\ Len(u) + 1 \in 1 .. Len(t)
        /\ t[Len(u) + 1] = 93 /\ \A i \in 1 .. Len(u) : t[i] = u[i]
        /\ \A i \in 1 .. Len(v) : t[Len(u) + 1 + i] = v[i]
    <3>1. u \in Bytes /\ 93 \in Byte /\ v \in Bytes
      BY <1>0, <1>4, <1>5
    <3>2. QED
      BY <1>9, <3>1, AroundOne
  <2>2. QED
    BY <2>1
<1>11. Around(t, b, Colon, d)
  BY <1>7 DEF Around, c
<1>12. From(t, Len(b) + 2) = d /\ Len(b) = k
  <2>1. From(t, Len(b) + 2) = d
    <3> HIDE DEF b
    <3>1. QED
      BY <1>0, <1>6, <1>11, AroundOne
  <2>2. Len(b) = Len(u) + Len(<<93>>) /\ Len(<<93>>) = 1
    BY <1>0, <1>1, <1>4, Joined, Singleton
  <2>3. QED
    BY <2>1, <2>2
<1> HIDE DEF b
<1>13. Len(v) \in Nat
  BY <1>5 DEF Bytes
<1>14. \A i \in 1 .. Len(u) : u[i] # 93
  BY <1>4 DEF Free
<1> DEFINE n == Len(v)
           l == Len(u)
<1>15. l = 1 + m /\ n \in Nat /\ n > 0 /\ Len(t) = l + 1 + n /\ k = l + 1
  BY <1>4, <1>5, <1>10, <1>13
<1> HIDE DEF n, l, k
<1>16. k - 1 = l /\ \A i \in 1 .. k - 1 : i \in 1 .. l
  BY <1>2, <1>15
<1>17. FirstPlace(t, 93) = k
  <2>1. \A i \in 1 .. k - 1 : t[i] # 93
    BY <1>10, <1>14, <1>16 DEF l
  <2>2. QED
    BY <1>10, <2>1, FirstPlaceIs
<1>18. t[1] = 91
  <2>1. 1 \in 1 .. l
    BY <1>2, <1>15
  <2>2. QED
    BY <1>4, <1>10, <2>1 DEF l
<1>19. t[k + 1] = Colon /\ ~(k = 0) /\ ~(k + 1 > Len(t))
  <2>1. 1 \in 1 .. n /\ ~(k = 0) /\ ~(k + 1 > Len(t))
    BY <1>2, <1>15
  <2>2. t[l + 1 + 1] = v[1]
    BY <1>10, <2>1 DEF l, n
  <2>3. QED
    BY <1>5, <1>15, <2>1, <2>2
<1>20. SubSeq(t, 2, k - 1) = h
  <2>1. Longer(u, t)
    <3>1. l <= l + 1 + n
      BY <1>2, <1>15
    <3>2. QED
      BY <1>10, <1>15, <3>1 DEF Longer, l
  <2>2. 1 \in 0 .. l /\ l \in 1 .. l
    BY <1>2, <1>15
  <2>3. SubSeq(t, 1 + 1, l) = SubSeq(u, 1 + 1, l)
    BY <1>4, <1>10, <2>1, <2>2, SamePiece DEF l
  <2>4. SubSeq(u, 2, l) = h
    BY <1>4 DEF From, l
  <2>5. 1 + 1 = 2
    OBVIOUS
  <2>6. QED
    BY <1>16, <2>3, <2>4, <2>5, Zenon
<1>21. Target(t) = [host |-> SubSeq(t, 2, k - 1), port |-> From(t, k + 2)]
  BY <1>17, <1>18, <1>19, TargetIs
<1>22. QED
  BY <1>12, <1>20, <1>21

-----------------------------------------------------------------------------
(* The line of a head. *)

\* What is put in front begins it.
LEMMA BeginsWith ==
    ASSUME NEW u \in Bytes, NEW w \in Bytes
    PROVE  IsPrefix(u, u \o w)
<1> DEFINE t == u \o w
           m == Len(u)
           n == Len(w)
<1>1. SubSeq(t, 1, m) = u
  BY Behind
<1>2. SubSeq(u, 1, m) = u
  BY SubSeqFull DEF Bytes
<1>3. Len(t) = m + n
  BY Joined
<1>4. m \in Nat /\ n \in Nat
  BY DEF Bytes
<1> HIDE DEF t, m, n
<1>5. m <= Len(t)
  BY <1>3, <1>4
<1>6. IsPrefix(u, t)
  BY <1>1, <1>2, <1>5, Zenon DEF IsPrefix, m
<1>7. QED
  BY <1>6 DEF t

\* And what begins it has something behind.
LEMMA BegunBy ==
    ASSUME NEW p \in Bytes, NEW b \in Bytes, IsPrefix(p, b)
    PROVE  From(b, Len(p) + 1) \in Bytes /\ b = p \o From(b, Len(p) + 1)
<1> DEFINE m == Len(p)
           n == Len(b)
<1>1. m \in Nat /\ n \in Nat
  BY DEF Bytes
<1>2. m <= n /\ SubSeq(p, 1, m) = SubSeq(b, 1, m)
  BY Zenon DEF IsPrefix
<1>3. SubSeq(p, 1, m) = p
  BY SubSeqFull DEF Bytes
<1> HIDE DEF m, n
<1>4. m \in 0 .. n
  BY <1>1, <1>2
<1>5. From(b, m + 1) \in Bytes /\ SubSeq(b, 1, m) \o From(b, m + 1) = b
  BY <1>4, Cut DEF n
<1>6. QED
  BY <1>2, <1>3, <1>5 DEF m

\* The words of HTTP.
LEMMA HttpWords ==
    /\ ConnectWord \in Bytes /\ Len(ConnectWord) \in Nat /\ Len(ConnectWord) > 0
    /\ VersionWord \in Bytes /\ Len(VersionWord) \in Nat
    /\ Free(ConnectWord, CR) /\ Free(VersionWord, CR)
    /\ MinLine = Len(ConnectWord) + 1 + Len(VersionWord) + 1
<1>1. ConnectWord \in Bytes /\ VersionWord \in Bytes /\ ConnectWord # <<>>
  BY WireAssumption, PeerAssumption
<1>2. Free(ConnectWord, CR) /\ Free(VersionWord, CR)
  BY PeerAssumption DEF Free
<1>3. Len(ConnectWord) > 0 /\ Len(ConnectWord) \in Nat /\ Len(VersionWord) \in Nat
  BY <1>1 DEF Bytes
<1>4. QED
  BY <1>1, <1>2, <1>3 DEF MinLine

\* A line that asks for a target.
IsLine(line, t, minor) ==
    \E rest, version : /\ line = ConnectWord \o rest
                       /\ Around(rest, t, SP, version) /\ version = VersionWord \o <<minor>>

\* It is read so.
LEMMA LineRead ==
    ASSUME NEW t \in Bytes, Len(t) > 0, Free(t, SP), NEW minor \in Byte, NEW line, IsLine(line, t, minor),
           NEW host, NEW d, Target(t) = [host |-> host, port |-> d],
           NEW port, ParsePort(d) = port, port # 0, Len(host) \in 1 .. 255
    PROVE  /\ line \in Bytes /\ Len(line) \in Nat /\ MinLine <= Len(line) /\ IsPrefix(ConnectWord, line)
           /\ ConnectLine(line) = [rc |-> "ok", addr |-> FillHost(host, port)]
<1>1. PICK rest, version : /\ line = ConnectWord \o rest
                           /\ Around(rest, t, SP, version) /\ version = VersionWord \o <<minor>>
  BY DEF IsLine
<1>2. /\ ConnectWord \in Bytes /\ Len(ConnectWord) \in Nat /\ VersionWord \in Bytes
      /\ Len(VersionWord) \in Nat /\ MinLine = Len(ConnectWord) + 1 + Len(VersionWord) + 1
  BY HttpWords
<1>3. version \in Bytes /\ Len(version) = Len(VersionWord) + 1 /\ IsPrefix(VersionWord, version)
  <2> DEFINE one == <<minor>>
             v == VersionWord \o one
  <2>1. one \in Bytes /\ Len(one) = 1
    BY Singleton
  <2> HIDE DEF one
  <2>2. v \in Bytes /\ Len(v) = Len(VersionWord) + Len(one) /\ IsPrefix(VersionWord, v)
    BY <1>2, <2>1, Joined, BeginsWith
  <2>3. version = v
    BY <1>1 DEF one
  <2> HIDE DEF v
  <2>4. QED
    BY <2>1, <2>2, <2>3
<1>4. SP \in Byte
  BY DEF SP, Byte
<1> DEFINE m == Len(t)
           n == Len(version)
           k == m + 1
<1>5. /\ rest \in Bytes /\ Len(rest) = m + 1 + n /\ m \in Nat /\ n \in Nat
      /\ m + 1 \in 1 .. Len(rest) /\ rest[m + 1] = SP /\ \A i \in 1 .. m : rest[i] = t[i]
      /\ SubSeq(rest, 1, m) = t /\ From(rest, m + 2) = version
  <2>1. Around(rest, t, SP, version) /\ version \in Bytes
    BY <1>1, <1>3
  <2>2. QED
    BY <1>4, <2>1, AroundOne
<1>6. m > 0 /\ \A i \in 1 .. m : t[i] # SP
  BY DEF Free
<1> HIDE DEF m, n
<1>7. k - 1 = m /\ k + 1 = m + 2 /\ ~(k < 2) /\ k \in 1 .. Len(rest)
  BY <1>5, <1>6
<1> HIDE DEF k
<1>8. FirstPlace(rest, SP) = k
  <2>1. rest[k] = SP /\ \A i \in 1 .. k - 1 : rest[i] # SP
    BY <1>5, <1>6, <1>7 DEF k
  <2>2. QED
    BY <1>5, <1>7, <2>1, FirstPlaceIs
<1> DEFINE e == ConnectWord \o rest
<1>9. /\ e \in Bytes /\ Len(e) = Len(ConnectWord) + Len(rest)
      /\ IsPrefix(ConnectWord, e) /\ From(e, Len(ConnectWord) + 1) = rest
  BY <1>2, <1>5, Joined, BeginsWith, Behind
<1>10. line = e
  BY <1>1
<1> HIDE DEF e
<1>11. MinLine <= Len(line)
  <2> DEFINE a == Len(ConnectWord)
             b == Len(VersionWord)
  <2>1. a \in Nat /\ b \in Nat /\ MinLine = a + 1 + b + 1 /\ Len(line) = a + (m + 1 + n) /\ n = b + 1
    BY <1>2, <1>3, <1>5, <1>9, <1>10 DEF n
  <2> HIDE DEF a, b
  <2>2. QED
    BY <1>5, <1>6, <2>1
<1>12. ~(Len(version) < Len(VersionWord) + 1)
  BY <1>2, <1>3
<1>13. From(line, Len(ConnectWord) + 1) = rest /\ SubSeq(rest, 1, k - 1) = t /\ From(rest, k + 1) = version
  BY <1>5, <1>7, <1>9, <1>10
<1>14. Target(t).host = host /\ Target(t).port = d
  OBVIOUS
<1>15. ConnectLine(line) = [rc |-> "ok", addr |-> FillHost(host, port)]
  <2> DEFINE No == [rc |-> "bad", addr |-> Failed.addr]
             yes == [rc |-> "ok", addr |-> FillHost(host, port)]
  <2>1. ConnectLine(line) =
            IF k < 2 \/ Len(version) < Len(VersionWord) + 1 \/ ~IsPrefix(VersionWord, version) THEN No
            ELSE IF ParsePort(d) = 0 \/ Len(host) \notin 1 .. 255 THEN No
            ELSE [rc |-> "ok", addr |-> FillHost(host, ParsePort(d))]
    <3> HIDE DEF No
    <3>1. QED
      BY <1>8, <1>13, <1>14, ConnectLineIs, Zenon DEF No
  <2>2. ParsePort(d) = port /\ port # 0 /\ Len(host) \in 1 .. 255
    OBVIOUS
  <2> HIDE DEF No
  <2>3. QED
    BY <1>3, <1>7, <1>12, <2>1, <2>2
<1>16. Len(line) \in Nat
  BY <1>9, <1>10 DEF Bytes
<1>17. QED
  BY <1>9, <1>10, <1>11, <1>15, <1>16

\* The first line of a head.
LEMMA LineOfHead ==
    ASSUME NEW line \in Bytes, Free(line, CR), NEW w \in Bytes,
           NEW b, b = (line \o <<CR, LF>>) \o w, NEW end \in Nat, end <= Len(b), Len(line) + 2 <= end
    PROVE  RequestLine(b, end) = line
<1> DEFINE pair == <<CR, LF>>
           front == line \o pair
           m == Len(line)
           n == Len(w)
           k == m + 1
<1>1. pair \in Bytes /\ Len(pair) = 2 /\ pair[1] = CR /\ pair[2] = LF
  <2>1. CR \in Byte /\ LF \in Byte
    BY DEF CR, LF, Byte
  <2>2. QED
    BY <2>1, Pair
<1>2. m \in Nat /\ n \in Nat
  BY DEF Bytes
<1> HIDE DEF pair
<1>3. /\ front \in Bytes /\ Len(front) = Len(line) + Len(pair)
      /\ \A i \in 1 .. Len(line) : front[i] = line[i]
      /\ \A i \in 1 .. Len(pair) : front[Len(line) + i] = pair[i]
  BY <1>1, Joined
<1>4. b = front \o w
  BY DEF pair
<1> HIDE DEF front
<1>5. /\ b \in Bytes /\ Len(b) = Len(front) + Len(w)
      /\ \A i \in 1 .. Len(front) : b[i] = front[i]
      /\ \A i \in 1 .. Len(w) : b[Len(front) + i] = w[i]
  <2> DEFINE e == front \o w
  <2>1. /\ e \in Bytes /\ Len(e) = Len(front) + Len(w)
        /\ \A i \in 1 .. Len(front) : e[i] = front[i]
        /\ \A i \in 1 .. Len(w) : e[Len(front) + i] = w[i]
    BY <1>3, Joined
  <2>2. e = b
    BY <1>4
  <2> HIDE DEF e
  <2>3. QED
    BY <2>1, <2>2, Zenon
<1>6. m + 2 <= end /\ end <= Len(b) /\ \A i \in 1 .. m : line[i] # CR
  BY DEF Free
<1>7. /\ Len(front) = m + 2 /\ Len(b) = m + 2 + n
      /\ \A i \in 1 .. m : front[i] = line[i]
      /\ 1 \in 1 .. Len(pair) /\ 2 \in 1 .. Len(pair)
  BY <1>1, <1>2, <1>3, <1>5
<1> HIDE DEF m, n
<1>8. front[m + 1] = CR /\ front[m + 2] = LF
  BY <1>1, <1>3, <1>7 DEF m
<1>9. b[k] = CR /\ b[k + 1] = LF /\ k \in 1 .. Len(b) - 1 /\ k \in 1 .. end - 1
  <2>1. m + 1 \in 1 .. Len(front) /\ m + 2 \in 1 .. Len(front) /\ k + 1 = m + 2
        /\ k \in 1 .. Len(b) - 1 /\ k \in 1 .. end - 1
    BY <1>2, <1>6, <1>7
  <2>2. QED
    BY <1>5, <1>8, <2>1
<1>10. \A i \in 1 .. m : b[i] # CR /\ i \in 1 .. Len(b) - 1
  <2> SUFFICES ASSUME NEW i \in 1 .. m PROVE b[i] # CR /\ i \in 1 .. Len(b) - 1
    OBVIOUS
  <2>1. i \in 1 .. Len(front) /\ i \in 1 .. Len(b) - 1
    BY <1>2, <1>7
  <2>2. QED
    BY <1>5, <1>6, <1>7, <2>1
<1>11. BreakAt(b, k)
  <2>1. SubSeq(b, k, k + 1) = <<b[k], b[k + 1]>>
    <3> HIDE DEF k
    <3>1. QED
      BY <1>5, <1>9, TwoBytes
  <2> HIDE DEF k
  <2>2. QED
    BY <1>9, <2>1 DEF BreakAt
<1>12. ASSUME NEW i \in 1 .. m PROVE ~BreakAt(b, i)
  <2>1. b[i] # CR /\ i \in 1 .. Len(b) - 1
    BY <1>10
  <2>2. SubSeq(b, i, i + 1) = <<b[i], b[i + 1]>>
    BY <1>5, <2>1, TwoBytes
  <2>3. QED
    BY <2>1, <2>2 DEF BreakAt
<1>13. k - 1 = m
  BY <1>2
<1> DEFINE cut == CHOOSE i \in 1 .. end - 1 : FirstBreak(b, i)
<1>14. FirstBreak(b, k)
  BY <1>11, <1>12, <1>13 DEF FirstBreak
<1>15. cut \in 1 .. end - 1 /\ FirstBreak(b, cut)
  BY <1>9, <1>14
<1>16. RequestLine(b, end) = SubSeq(b, 1, cut - 1)
  BY DEF RequestLine, FirstBreak, BreakAt
<1> HIDE DEF cut
<1>17. cut = k
  <2>1. ~(cut < k)
    <3> SUFFICES ASSUME cut < k PROVE FALSE
      OBVIOUS
    <3>1. cut \in 1 .. m
      BY <1>2, <1>15
    <3>2. QED
      BY <1>12, <1>15, <3>1 DEF FirstBreak
  <2>2. ~(k < cut)
    <3> SUFFICES ASSUME k < cut PROVE FALSE
      OBVIOUS
    <3>1. k \in 1 .. cut - 1
      BY <1>2, <1>15
    <3>2. QED
      BY <1>11, <1>15, <3>1 DEF FirstBreak
  <2>3. QED
    BY <1>2, <1>15, <2>1, <2>2
<1>18. SubSeq(b, 1, m) = line
  <2>1. SubSeq(b, 1, Len(line)) = SubSeq(line, 1, Len(line))
    <3>1. Longer(line, b)
      <4>1. m <= m + 2 + n
        BY <1>2
      <4>2. \A i \in 1 .. m : b[i] = line[i]
        <5> SUFFICES ASSUME NEW i \in 1 .. m PROVE b[i] = line[i]
          OBVIOUS
        <5>1. i \in 1 .. Len(front)
          BY <1>2, <1>7
        <5>2. QED
          BY <1>5, <1>7, <5>1
      <4>3. QED
        BY <1>7, <4>1, <4>2 DEF Longer, m
    <3>2. m \in 0 .. m
      BY <1>2
    <3>3. QED
      BY <1>5, <3>1, <3>2, SameFront DEF m
  <2>2. SubSeq(line, 1, Len(line)) = line
    BY SubSeqFull DEF Bytes
  <2>3. QED
    BY <2>1, <2>2 DEF m
<1>19. QED
  BY <1>13, <1>16, <1>17, <1>18

\* Three pieces, grouped either way.
EitherWay(a, b, c) ==
    /\ a \o b \in Bytes /\ b \o c \in Bytes /\ (a \o b) \o c \in Bytes
    /\ (a \o b) \o c = a \o (b \o c)

\* It is the same.
LEMMA OtherGroups ==
    ASSUME NEW a \in Bytes, NEW b \in Bytes, NEW c \in Bytes
    PROVE  EitherWay(a, b, c)
<1>1. a \o b \in Bytes /\ b \o c \in Bytes
  BY Joined
<1>2. (a \o b) \o c \in Bytes
  <2> DEFINE ab == a \o b
  <2>1. ab \in Bytes
    BY <1>1
  <2> HIDE DEF ab
  <2>2. ab \o c \in Bytes
    BY <2>1, Joined
  <2>3. QED
    BY <2>2 DEF ab
<1>3. (a \o b) \o c = a \o (b \o c)
  BY ConcatAssociative DEF Bytes
<1>4. QED
  BY <1>1, <1>2, <1>3, Zenon DEF EitherWay

\* A line and its break.
LineThenBreak(w, h, c, d, sp, v, m, e) ==
    w \o h \o c \o d \o sp \o v \o (m \o e) = (w \o (((h \o c \o d) \o sp) \o (v \o m))) \o e

\* Their pieces belong together so.
LEMMA LineAndBreak ==
    ASSUME NEW w \in Bytes, NEW h \in Bytes, NEW c \in Bytes, NEW d \in Bytes, NEW sp \in Bytes,
           NEW v \in Bytes, NEW m \in Bytes, NEW e \in Bytes
    PROVE  LineThenBreak(w, h, c, d, sp, v, m, e)
<1> DEFINE hc == h \o c
           t == hc \o d
           a == w \o t
           sv == v \o m
           ts == t \o sp
           rest == ts \o sv
           asp == a \o sp
           av == asp \o v
<1>1. hc \in Bytes /\ (w \o h) \o c = w \o hc
  <2>1. EitherWay(w, h, c)
    BY OtherGroups
  <2>2. QED
    BY <2>1, Zenon DEF EitherWay
<1> HIDE DEF hc
<1>2. t \in Bytes /\ (w \o hc) \o d = a
  <2>1. EitherWay(w, hc, d)
    BY <1>1, OtherGroups
  <2>2. QED
    BY <2>1, Zenon DEF EitherWay
<1> HIDE DEF t
<1>3. ts \in Bytes /\ a \in Bytes /\ a \o sp = w \o ts
  <2>1. EitherWay(w, t, sp)
    BY <1>2, OtherGroups
  <2>2. QED
    BY <2>1, Zenon DEF EitherWay
<1> HIDE DEF a, ts
<1>4. sv \in Bytes /\ asp \in Bytes /\ asp \o v \in Bytes /\ av \o m = asp \o sv
  <2>1. EitherWay(a, sp, v)
    BY <1>3, OtherGroups
  <2>2. asp \in Bytes
    BY <2>1, Zenon DEF EitherWay
  <2> HIDE DEF asp
  <2>3. EitherWay(asp, v, m)
    BY <2>2, OtherGroups
  <2>4. QED
    BY <2>2, <2>3, Zenon DEF EitherWay
<1> HIDE DEF sv
<1>5. (w \o ts) \o sv = w \o rest
  <2>1. EitherWay(w, ts, sv)
    BY <1>3, <1>4, OtherGroups
  <2>2. QED
    BY <2>1, Zenon DEF EitherWay
<1>6. (av \o m) \o e = av \o (m \o e)
  <2>1. av \in Bytes
    BY <1>4
  <2> HIDE DEF av
  <2>2. EitherWay(av, m, e)
    BY <2>1, OtherGroups
  <2>3. QED
    BY <2>2, Zenon DEF EitherWay
<1> HIDE DEF asp, rest
<1>7. av \o m = w \o rest
  BY <1>3, <1>4, <1>5, Zenon DEF asp
<1>8. w \o h \o c \o d \o sp \o v = av
  BY <1>1, <1>2, Zenon DEF asp
<1>9. QED
  BY <1>6, <1>7, <1>8, Zenon DEF LineThenBreak, rest, ts, sv, t, hc

\* The minor version and the break.
LEMMA MinorAndBreak ==
    ASSUME NEW m \in Byte
    PROVE  /\ <<m>> \in Bytes /\ <<CR, LF>> \in Bytes /\ <<m>> \o <<CR, LF>> = <<m, CR, LF>>
           /\ Len(<<CR, LF>>) = 2
<1> DEFINE b == <<m>>
           c == <<CR, LF>>
           d == <<m, CR, LF>>
<1>0. CR \in Byte /\ LF \in Byte
  BY DEF CR, LF, Byte
<1>1. b \in Bytes /\ Len(b) = 1 /\ b[1] = m
  BY Singleton
<1>2. c \in Bytes /\ Len(c) = 2 /\ c[1] = CR /\ c[2] = LF
  BY <1>0, Pair
<1>3. d \in Bytes /\ Len(d) = 3 /\ d[1] = m /\ d[2] = CR /\ d[3] = LF
  BY <1>0, Triple
<1> HIDE DEF b, c, d
<1>4. /\ b \o c \in Bytes /\ Len(b \o c) = Len(b) + Len(c)
      /\ \A i \in 1 .. Len(b) : (b \o c)[i] = b[i]
      /\ \A i \in 1 .. Len(c) : (b \o c)[Len(b) + i] = c[i]
  BY <1>1, <1>2, Joined
<1> DEFINE bc == b \o c
<1>5. Len(bc) = 3 /\ bc[1] = m /\ bc[1 + 1] = CR /\ bc[1 + 2] = LF
  BY <1>1, <1>2, <1>4
<1>6. \A i \in 1 .. 3 : i = 1 \/ i = 1 + 1 \/ i = 1 + 2
  OBVIOUS
<1> HIDE DEF bc
<1>7. \A i \in 1 .. 3 : bc[i] = d[i]
  BY <1>3, <1>5, <1>6
<1>8. bc = d
  BY <1>3, <1>4, <1>5, <1>7, SeqEqual DEF Bytes, bc
<1>9. QED
  BY <1>1, <1>2, <1>8 DEF b, c, d, bc

\* A target as it is written.
IsTarget(t, h, port) == Around(t, h, Colon, Decimal(port))

\* What a client sends first is a line and a break.
LEMMA ConnectToIs ==
    ASSUME NEW h \in Bytes, NEW port \in 1 .. MaxPort, NEW minor \in Byte
    PROVE  \E t, line : /\ IsTarget(t, h, port) /\ IsLine(line, t, minor)
                        /\ ConnectTo(h, port, minor) = line \o <<CR, LF>>
<1> DEFINE c == <<Colon>>
           d == Decimal(port)
           sp == <<SP>>
           m == <<minor>>
           e == <<CR, LF>>
           t == h \o c \o d
           v == VersionWord \o m
           rest == (t \o sp) \o v
           line == ConnectWord \o rest
<1>1. c \in Bytes /\ sp \in Bytes /\ m \in Bytes /\ e \in Bytes
  <2>1. Colon \in Byte /\ SP \in Byte
    BY DEF Colon, SP, Byte
  <2>2. QED
    BY <2>1, Singleton, MinorAndBreak
<1>2. d \in Bytes
  BY PortRead
<1>3. ConnectWord \in Bytes /\ VersionWord \in Bytes
  BY HttpWords
<1>4. m \o e = <<minor, CR, LF>>
  BY MinorAndBreak
<1>5. ConnectTo(h, port, minor) = ConnectWord \o h \o c \o d \o sp \o VersionWord \o (m \o e)
  BY <1>4, Zenon DEF ConnectTo
<1> HIDE DEF c, d, sp, m, e
<1>6. ConnectTo(h, port, minor) = line \o e
  <2>1. LineThenBreak(ConnectWord, h, c, d, sp, VersionWord, m, e)
    BY <1>1, <1>2, <1>3, LineAndBreak
  <2>2. QED
    BY <1>5, <2>1, Zenon DEF LineThenBreak
<1>7. IsTarget(t, h, port)
  BY DEF IsTarget, Around, c, d
<1> HIDE DEF t
<1>8. Around(rest, t, SP, v)
  BY DEF Around, sp
<1>9. IsLine(line, t, minor)
  <2> HIDE DEF rest
  <2>1. QED
    BY <1>8, Zenon DEF IsLine, m
<1> HIDE DEF line
<1>10. QED
  BY <1>6, <1>7, <1>9, Zenon DEF e

-----------------------------------------------------------------------------
(* The whole head. *)

\* A host as it is written in a target: as it is, or in brackets.
Aims(h, host) ==
    \/ h = host /\ host[1] # 91
    \/ h = <<91>> \o host \o <<93>> /\ Free(host, 93)

\* A target is read as it is written.
LEMMA TargetRead ==
    ASSUME NEW host \in Bytes, Len(host) > 0, Free(host, SP), Free(host, CR),
           NEW h, Aims(h, host), NEW port \in 1 .. MaxPort, NEW t, IsTarget(t, h, port)
    PROVE  /\ h \in Bytes /\ t \in Bytes /\ Len(t) > 0 /\ Free(t, SP) /\ Free(t, CR)
           /\ Target(t) = [host |-> host, port |-> Decimal(port)]
<1> DEFINE d == Decimal(port)
           c == <<Colon>>
<1>1. d \in Bytes /\ \A i \in 1 .. Len(d) : d[i] \in 48 .. 57
  BY PortRead
<1> HIDE DEF d
<1>2. /\ Colon \in Byte /\ SP \in Byte /\ CR \in Byte /\ 91 \in Byte /\ 93 \in Byte
      /\ Colon # SP /\ Colon # CR /\ 91 # SP /\ 91 # CR /\ 93 # SP /\ 93 # CR
      /\ SP \notin 48 .. 57 /\ CR \notin 48 .. 57 /\ Colon \notin 48 .. 57
  BY DEF Colon, SP, CR, Byte
<1>3. Free(d, SP) /\ Free(d, CR) /\ Free(d, Colon)
  BY <1>1, <1>2 DEF Free
<1>4. h \in Bytes /\ Free(h, SP) /\ Free(h, CR)
  <2>1. CASE h = host
    BY <2>1
  <2>2. CASE h = <<91>> \o host \o <<93>>
    <3> DEFINE o == <<91>>
               e == <<93>>
               u == o \o host
               w == u \o e
    <3>1. o \in Bytes /\ Free(o, SP) /\ Free(o, CR) /\ e \in Bytes /\ Free(e, SP) /\ Free(e, CR)
      BY <1>2, FreeOne
    <3> HIDE DEF o, e
    <3>2. u \in Bytes /\ Free(u, SP) /\ Free(u, CR)
      BY <3>1, FreeJoined
    <3> HIDE DEF u
    <3>3. w \in Bytes /\ Free(w, SP) /\ Free(w, CR)
      BY <3>1, <3>2, FreeJoined
    <3>4. h = w
      BY <2>2 DEF u, o, e
    <3> HIDE DEF w
    <3>5. QED
      BY <3>3, <3>4
  <2>3. QED
    BY <2>1, <2>2 DEF Aims
<1>5. Around(t, h, Colon, d)
  BY DEF IsTarget, d
<1>6. t \in Bytes /\ Len(t) = Len(h) + 1 + Len(d) /\ Len(h) \in Nat /\ Len(d) \in Nat
  BY <1>1, <1>2, <1>4, <1>5, AroundOne
<1>7. Free(t, SP) /\ Free(t, CR)
  <2> DEFINE u == h \o c
             w == u \o d
  <2>1. c \in Bytes /\ Free(c, SP) /\ Free(c, CR)
    BY <1>2, FreeOne
  <2> HIDE DEF c
  <2>2. u \in Bytes /\ Free(u, SP) /\ Free(u, CR)
    BY <1>4, <2>1, FreeJoined
  <2>3. t = w
    BY <1>5 DEF Around, c
  <2> HIDE DEF u
  <2>4. Free(w, SP) /\ Free(w, CR)
    BY <1>1, <1>3, <2>2, FreeJoined
  <2> HIDE DEF w
  <2>5. QED
    BY <2>3, <2>4
<1>8. Len(t) > 0
  <2> DEFINE m == Len(h)
             n == Len(d)
  <2>1. m \in Nat /\ n \in Nat /\ Len(t) = m + 1 + n
    BY <1>6
  <2> HIDE DEF m, n
  <2>2. QED
    BY <2>1
<1>9. Target(t) = [host |-> host, port |-> d]
  <2>1. CASE h = host /\ host[1] # 91
    <3>1. Around(t, host, Colon, d)
      BY <1>5, <2>1
    <3>2. QED
      BY <1>1, <1>3, <2>1, <3>1, TargetPlain
  <2>2. CASE h = <<91>> \o host \o <<93>> /\ Free(host, 93)
    <3>1. Bracketed(h, host)
      BY <2>2, Zenon DEF Bracketed
    <3>2. QED
      BY <1>1, <1>5, <2>2, <3>1, TargetBracketed, Zenon
  <2>3. QED
    BY <2>1, <2>2 DEF Aims
<1>10. QED
  BY <1>4, <1>6, <1>7, <1>8, <1>9 DEF d

\* There is no break in the line.
LEMMA LineUnbroken ==
    ASSUME NEW t \in Bytes, Free(t, CR), NEW minor \in Byte, minor # CR,
           NEW line, IsLine(line, t, minor)
    PROVE  line \in Bytes /\ Free(line, CR)
<1> DEFINE m == <<minor>>
           sp == <<SP>>
           v == VersionWord \o m
           u == t \o sp
           z == u \o v
           l == ConnectWord \o z
<1>1. SP \in Byte /\ SP # CR
  BY DEF SP, CR, Byte
<1>2. m \in Bytes /\ Free(m, CR) /\ sp \in Bytes /\ Free(sp, CR)
  BY <1>1, FreeOne
<1>3. /\ ConnectWord \in Bytes /\ VersionWord \in Bytes
      /\ Free(ConnectWord, CR) /\ Free(VersionWord, CR)
  BY HttpWords
<1>4. line = l
  <2>1. PICK rest, version : /\ line = ConnectWord \o rest
                             /\ Around(rest, t, SP, version) /\ version = VersionWord \o <<minor>>
    BY DEF IsLine
  <2>2. QED
    BY <2>1, Zenon DEF Around
<1> HIDE DEF m, sp
<1>5. v \in Bytes /\ Free(v, CR)
  BY <1>2, <1>3, FreeJoined
<1>6. u \in Bytes /\ Free(u, CR)
  BY <1>2, FreeJoined
<1> HIDE DEF u, v
<1>7. z \in Bytes /\ Free(z, CR)
  BY <1>5, <1>6, FreeJoined
<1> HIDE DEF z
<1>8. l \in Bytes /\ Free(l, CR)
  BY <1>3, <1>7, FreeJoined
<1> HIDE DEF l
<1>9. QED
  BY <1>4, <1>8

\* A head that asks for a host, and ends with its first empty line.
IsHead(b, host, port) ==
    /\ b \in Bytes /\ \A i \in 4 .. Len(b) : i \in HeadEnds(b) <=> i = Len(b)
    /\ \E h, minor : /\ Aims(h, host) /\ minor \in 48 .. 57
                     /\ IsPrefix(ConnectTo(h, port, minor), b)

\* It is read to its end.
LEMMA HeadRead ==
    ASSUME NEW host \in Bytes, Len(host) \in 1 .. 255, Free(host, SP), Free(host, CR),
           NEW port \in 1 .. MaxPort, NEW b, IsHead(b, host, port)
    PROVE  /\ ParseConnect(b) = [rc |-> "ok", needed |-> Len(b), addr |-> FillHost(host, port)]
           /\ Len(b) > 1 /\ IsPrefix(ConnectWord, b)
<1> DEFINE n == Len(b)
           e == <<CR, LF>>
<1>1. b \in Bytes /\ \A i \in 4 .. n : i \in HeadEnds(b) <=> i = n
  BY DEF IsHead
<1>2. PICK h, minor : /\ Aims(h, host) /\ minor \in 48 .. 57
                      /\ IsPrefix(ConnectTo(h, port, minor), b)
  BY DEF IsHead
<1>3. minor \in Byte /\ minor # CR /\ Len(host) > 0
  <2>1. minor \in 48 .. 57
    BY <1>2
  <2>2. minor \in Byte /\ minor # CR
    BY <2>1 DEF Byte, CR
  <2> DEFINE k == Len(host)
  <2>3. k \in 1 .. 255
    OBVIOUS
  <2> HIDE DEF k
  <2>4. k > 0
    BY <2>3
  <2>5. QED
    BY <2>2, <2>4 DEF k
<1>4. h \in Bytes
  <2> DEFINE c == h \o <<Colon>> \o Decimal(port)
  <2>1. IsTarget(c, h, port)
    BY DEF IsTarget, Around
  <2> HIDE DEF c
  <2>2. QED
    BY <1>2, <1>3, <2>1, TargetRead
<1>5. PICK t, line : /\ IsTarget(t, h, port) /\ IsLine(line, t, minor)
                     /\ ConnectTo(h, port, minor) = line \o <<CR, LF>>
  BY <1>3, <1>4, ConnectToIs
<1>6. /\ t \in Bytes /\ Len(t) > 0 /\ Free(t, SP) /\ Free(t, CR)
      /\ Target(t) = [host |-> host, port |-> Decimal(port)]
  BY <1>2, <1>3, <1>5, TargetRead
<1>7. ParsePort(Decimal(port)) = port /\ port # 0
  BY PortRead, FiveDigits
<1>8. /\ line \in Bytes /\ Len(line) \in Nat /\ MinLine <= Len(line) /\ IsPrefix(ConnectWord, line)
      /\ ConnectLine(line) = [rc |-> "ok", addr |-> FillHost(host, port)]
  BY <1>3, <1>5, <1>6, <1>7, LineRead
<1>9. Free(line, CR)
  BY <1>3, <1>5, <1>6, LineUnbroken
<1>10. e \in Bytes /\ Len(e) = 2
  BY <1>3, MinorAndBreak
<1> HIDE DEF e
<1> DEFINE front == line \o e
           rest == From(b, Len(front) + 1)
<1>11. front \in Bytes /\ Len(front) = Len(line) + 2
  <2>1. line \in Bytes
    BY <1>8
  <2>2. front \in Bytes /\ Len(front) = Len(line) + Len(e)
    BY <1>10, <2>1, Joined
  <2>3. QED
    BY <1>10, <2>2
<1>12. IsPrefix(front, b)
  BY <1>2, <1>5 DEF e
<1>13. rest \in Bytes /\ b = front \o rest
  <2> HIDE DEF front
  <2>1. QED
    BY <1>1, <1>11, <1>12, BegunBy
<1>14. Len(front) + Len(rest) = n /\ Len(rest) \in Nat
  <2> HIDE DEF front, rest
  <2> DEFINE all == front \o rest
  <2>1. Len(all) = Len(front) + Len(rest)
    BY <1>11, <1>13, Joined
  <2>2. b = all
    BY <1>13
  <2> HIDE DEF all
  <2>3. QED
    BY <1>13, <2>1, <2>2 DEF Bytes
<1>15. b = (line \o <<CR, LF>>) \o rest
  BY <1>13, Zenon DEF front, e
<1> HIDE DEF front, rest
<1> DEFINE m == Len(line)
           a == Len(ConnectWord)
<1>16. m \in Nat /\ n \in Nat /\ m + 2 <= n /\ n >= 4 /\ a \in Nat /\ a > 0 /\ a <= m
  <2> DEFINE v == Len(VersionWord)
             k == Len(rest)
  <2>1. a \in Nat /\ a > 0 /\ v \in Nat /\ MinLine = a + 1 + v + 1
    BY HttpWords
  <2>2. m \in Nat /\ MinLine <= m /\ k \in Nat /\ n = m + 2 + k
    BY <1>8, <1>11, <1>14
  <2> HIDE DEF v, k, m, n, a
  <2>3. QED
    BY <2>1, <2>2
<1> HIDE DEF n
<1>17. HeaderEnd(b) = n
  <2>1. n \in 4 .. n
    BY <1>16
  <2>2. n \in HeadEnds(b)
    BY <1>1, <2>1
  <2>3. HeaderEnd(b) \in HeadEnds(b)
    BY <1>1, <2>2, HeaderEndIs
  <2>4. HeaderEnd(b) \in 4 .. n
    BY <2>3 DEF HeadEnds, n
  <2>5. QED
    BY <1>1, <2>3, <2>4
<1>18. RequestLine(b, n) = line
  <2>1. n <= Len(b) /\ Len(line) + 2 <= n
    BY <1>16 DEF n
  <2>2. QED
    BY <1>8, <1>9, <1>13, <1>15, <1>16, <2>1, LineOfHead
<1>19. IsPrefix(ConnectWord, b)
  <2>1. Longer(line, b)
    <3>1. SubSeq(line, 1, m) = line
      BY <1>8, SubSeqFull DEF Bytes
    <3>2. \A i \in 1 .. m : b[i] = line[i]
      <4> SUFFICES ASSUME NEW i \in 1 .. m PROVE b[i] = line[i]
        OBVIOUS
      <4> DEFINE u == e \o rest
                 w == line \o u
      <4>1. u \in Bytes
        BY <1>10, <1>13, Joined
      <4>2. b = w
        <5>1. EitherWay(line, e, rest)
          BY <1>8, <1>10, <1>13, OtherGroups
        <5>2. QED
          BY <1>15, <5>1, Zenon DEF EitherWay, e
      <4> HIDE DEF u
      <4>3. w[i] = line[i]
        BY <1>8, <4>1, Joined
      <4>4. QED
        BY <4>2, <4>3, Zenon
    <3>3. m <= n
      BY <1>16
    <3>4. QED
      BY <3>2, <3>3 DEF Longer, m, n
  <2>2. a \in 0 .. m
    BY <1>16
  <2>3. SubSeq(b, 1, a) = SubSeq(line, 1, a)
    BY <1>1, <1>8, <2>1, <2>2, SameFront DEF m
  <2>4. a <= n
    BY <1>16
  <2>5. SubSeq(ConnectWord, 1, Len(ConnectWord)) = SubSeq(line, 1, Len(ConnectWord))
    BY <1>8, Zenon DEF IsPrefix
  <2>6. QED
    BY <2>3, <2>4, <2>5, Zenon DEF IsPrefix, a, n
<1>20. ParseConnect(b) = [rc |-> "ok", needed |-> n, addr |-> FillHost(host, port)]
  <2> DEFINE No(rc) == [rc |-> rc, needed |-> n, addr |-> Failed.addr]
  <2>1. ~(n = 0) /\ ~(Len(line) < MinLine)
    <3>1. m \in Nat /\ MinLine \in Nat /\ MinLine <= m
      BY <1>8, WordsShort
    <3>2. ~(m < MinLine) /\ ~(n = 0)
      BY <1>16, <3>1
    <3>3. QED
      BY <3>2
  <2>2. ConnectLine(line).rc = "ok" /\ ConnectLine(line).addr = FillHost(host, port)
    BY <1>8
  <2>3. ParseConnect(b) = [rc |-> ConnectLine(line).rc, needed |-> n, addr |-> ConnectLine(line).addr]
    BY <1>17, <1>18, <1>19, <2>1 DEF ParseConnect
  <2>4. QED
    BY <2>2, <2>3
<1>21. QED
  BY <1>16, <1>19, <1>20 DEF n

-----------------------------------------------------------------------------
(* Clients of HTTP, and every peer. *)

\* One byte is no head yet.
LEMMA OneByteMore ==
    ASSUME NEW b \in Bytes, Len(b) = 1, NEW y, y.buf = b
    PROVE  Http(y) = y
<1>1. HeadEnds(b) = {}
  BY DEF HeadEnds
<1>2. HeaderEnd(b) = 0
  BY <1>1, HeaderEndIs
<1>3. ParseConnect(b).rc = "more"
  BY <1>2 DEF ParseConnect
<1>4. Len(y.buf) # Socks5Room
  BY Rooms
<1>5. QED
  BY <1>3, <1>4 DEF Http

\* The first byte of a head.
LEMMA HeadFirst ==
    ASSUME NEW b \in Bytes, Len(b) > 1, IsPrefix(ConnectWord, b)
    PROVE  /\ b[1] \in Byte /\ b[1] # 22 /\ SubSeq(b, 1, 1) = <<b[1]>>
           /\ \A socks5, http : http => Classify(<<b[1]>>, socks5, http) = "http"
<1> DEFINE w == ConnectWord
           m == Len(w)
           n == Len(b)
           c == b[1]
           one == <<c>>
<1>1. w \in Bytes /\ m \in Nat /\ m > 0 /\ n \in Nat /\ w[1] \notin {Version, 22}
  BY HttpWords, PeerAssumption DEF Bytes
<1>2. 1 \in 1 .. m /\ 1 \in 1 .. n /\ 1 <= m
  <2>1. n > 1
    OBVIOUS
  <2> HIDE DEF m, n
  <2>2. QED
    BY <1>1, <2>1
<1>3. SubSeq(b, 1, 1) = one /\ c \in Byte
  BY <1>2, OneByte
<1>4. c = w[1]
  <2>1. b = w \o From(b, Len(w) + 1) /\ From(b, Len(w) + 1) \in Bytes
    BY <1>1, BegunBy
  <2> DEFINE rest == From(b, Len(w) + 1)
             all == w \o rest
  <2>2. rest \in Bytes /\ b = all
    BY <2>1
  <2> HIDE DEF rest, w
  <2>3. all[1] = w[1]
    BY <1>1, <1>2, <2>2, Joined
  <2>4. QED
    BY <2>2, <2>3
<1>5. SubSeq(w, 1, 1) = <<w[1]>>
  BY <1>1, <1>2, OneByte
<1>6. IsPrefix(one, w)
  <2>1. one \in Bytes /\ Len(one) = 1 /\ SubSeq(one, 1, 1) = one
    BY <1>3, Singleton, SubSeqFull DEF Bytes
  <2>2. SubSeq(one, 1, Len(one)) = SubSeq(w, 1, Len(one)) /\ Len(one) <= Len(w)
    BY <1>2, <1>4, <1>5, <2>1
  <2> HIDE DEF one, w
  <2>3. QED
    BY <2>2, Zenon DEF IsPrefix
<1>7. one # <<>> /\ one[1] = c
  BY <1>3, Singleton
<1>8. LooksLikeHttp(one)
  BY <1>6, <1>7 DEF LooksLikeHttp, HasPrefix
<1>9. ASSUME NEW socks5, NEW http, http PROVE Classify(one, socks5, http) = "http"
  <2>1. one[1] # Version
    BY <1>1, <1>4, <1>7
  <2> HIDE DEF one
  <2>2. QED
    BY <1>8, <1>9, <2>1 DEF Classify
<1>10. QED
  BY <1>1, <1>3, <1>4, <1>9

\* A head that is read to its end is the message.
HeadOf(d, addr) ==
    /\ d \in Bytes /\ Len(d) > 1 /\ Len(d) <= Socks5Room /\ IsPrefix(ConnectWord, d)
    /\ ParseConnect(d) = [rc |-> "ok", needed |-> Len(d), addr |-> addr]

\* The client has asked, and nothing of the rest was read.
LEMMA HeadTaken ==
    ASSUME NEW y, IsReader(y), GotRight(y.got), NEW d, y.buf = d, NEW addr, HeadOf(d, addr),
           ReaderRight(Http(y))
    PROVE  Stands(Http(y), "served", Append(MeaningsOf(y.got), Msg("http", addr, Connect)))
<1> DEFINE item == Item(y, "http", Len(d), addr, Connect)
           rest == From(d, Len(d) + 1)
           z == Headed(y, item, rest)
<1>1. d \in Bytes /\ ParseConnect(d) = [rc |-> "ok", needed |-> Len(d), addr |-> addr]
  BY DEF HeadOf
<1>2. Http(y) = z
  BY <1>1 DEF Http, Headed
<1>3. rest = <<>>
  <2>1. Len(d) \in Nat /\ Len(d) + 1 > Len(d)
    BY <1>1 DEF Bytes
  <2>2. SubSeq(d, Len(d) + 1, Len(d)) = <<>>
    BY <2>1, SubSeqEmpty
  <2>3. QED
    BY <2>2 DEF From
<1> HIDE DEF rest, item
<1>4. z.phase = "served" /\ z.buf = <<>> /\ z.got = Append(y.got, item) /\ z.handed = <<>>
  BY <1>3, HeadedFields
<1> HIDE DEF z
<1>5. MeaningsOf(z.got) = Append(MeaningsOf(y.got), MeaningOf(item))
  BY <1>4, MeaningsMore
<1>6. MeaningOf(item) = Msg("http", addr, Connect)
  BY ItemMeans DEF item
<1>7. QED
  BY <1>2, <1>4, <1>5, <1>6 DEF Stands

\* A head at the beginning.
LEMMA HeadStep ==
    ASSUME NEW s, NEW g, Run(Reader("classify"), s, g), script.http,
           NEW d, NEW addr, HeadOf(d, addr), PieceAt(s, 0, d)
    PROVE  Stands(g[Len(d)], "served", <<Msg("http", addr, Connect)>>)
<1> DEFINE x == Reader("http")
           c == d[1]
           one == <<c>>
           rest == From(d, 2)
           n == Len(d)
           m == Len(s)
           y == Filled(x, d)
<1>1. d \in Bytes /\ n > 1 /\ n <= Socks5Room /\ IsPrefix(ConnectWord, d)
  BY DEF HeadOf
<1>2. s \in Bytes /\ Goes(Reader("classify"), s, g, m) /\ n \in Nat /\ m \in Nat /\ n <= m
  BY <1>1 DEF Run, Bytes, PieceAt
<1>3. /\ c \in Byte /\ c # 22 /\ SubSeq(d, 1, 1) = one
      /\ \A socks5, http : http => Classify(one, socks5, http) = "http"
  BY <1>1, HeadFirst
<1>4. one \in Bytes /\ Len(one) = 1
  BY <1>3, Singleton
<1>5. s[1] = c
  <2>1. Len(d) > 0
    BY <1>1, <1>2
  <2>2. QED
    BY <1>1, <1>2, <2>1, PieceFirst
<1>6. Classify(<<s[1]>>, script.socks5, script.http) = "http"
  BY <1>3, <1>5
<1>7. g[1] = Http(HasOnly("http", one))
  <2>1. m > 0
    BY <1>1, <1>2
  <2>2. g[1] = Http(HasOnly("http", <<s[1]>>))
    BY <1>3, <1>5, <1>6, <2>1, FirstByte
  <2>3. QED
    BY <1>5, <2>2
<1> HIDE DEF c
<1> HIDE DEF one
<1>8. g[1] = Filled(x, one)
  <2> DEFINE h == HasOnly("http", one)
  <2>1. h.buf = one
    BY DEF HasOnly
  <2> HIDE DEF h
  <2>2. Http(h) = h
    BY <1>4, <2>1, OneByteMore
  <2>3. Filled(x, one) = h
    BY <1>4, FilledNew DEF h
  <2>4. QED
    BY <1>7, <2>2, <2>3 DEF h
<1>9. IsReader(x) /\ x.buf = <<>> /\ x.phase = "http" /\ x.got = <<>> /\ GotRight(x.got)
  <2>1. Stands(x, "http", <<>>)
    BY NewStands DEF Phases
  <2>2. x.got = <<>>
    BY DEF Reader
  <2> HIDE DEF x
  <2>3. QED
    BY <2>1, <2>2 DEF Stands, ReaderRight
<1> HIDE DEF x
<1>10. rest \in Bytes /\ Len(rest) = n - 1 /\ one \o rest = d
  <2>1. 1 \in 0 .. n
    BY <1>1, <1>2
  <2>2. /\ SubSeq(d, 1, 1) \o From(d, 1 + 1) = d /\ From(d, 1 + 1) \in Bytes
        /\ Len(From(d, 1 + 1)) = n - 1
    BY <1>1, <2>1, Cut
  <2>3. 1 + 1 = 2
    OBVIOUS
  <2>4. From(d, 1 + 1) = rest
    BY <2>3, Zenon
  <2> HIDE DEF rest, n
  <2>5. QED
    BY <1>3, <2>2, <2>4
<1>11. PieceAt(s, 1, rest)
  <2>1. SubSeq(s, 0 + 1, 0 + n) = d
    BY DEF PieceAt
  <2>2. 0 + 1 = 1 /\ 0 + n = n /\ 1 + 1 = 2 /\ 1 + (n - 1) = n
    BY <1>2
  <2>3. SubSeq(s, 1, n) = d
    BY <2>1, <2>2
  <2>4. 1 \in 0 .. m /\ n \in 1 .. m /\ 1 \in 0 .. n /\ n \in 0 .. m
    BY <1>1, <1>2
  <2>5. SubSeq(s, 1, 1) \o SubSeq(s, 2, n) = SubSeq(s, 1, n) /\ SubSeq(s, 2, n) \in Bytes
    BY <1>2, <2>2, <2>4, Part
  <2>6. SubSeq(s, 1, 1) = one
    <3>1. 1 \in 1 .. m
      BY <1>1, <1>2
    <3>2. SubSeq(s, 1, 1) = <<s[1]>>
      BY <1>2, <3>1, OneByte
    <3>3. QED
      BY <1>5, <3>2 DEF one
  <2> DEFINE e == SubSeq(s, 2, n)
  <2>7. e \in Bytes /\ one \o e = d
    BY <2>3, <2>5, <2>6
  <2>8. From(d, 2) = e
    <3> HIDE DEF e
    <3>1. From(one \o e, Len(one) + 1) = e
      BY <1>4, <2>7, Behind
    <3>2. QED
      BY <1>4, <2>2, <2>7, <3>1
  <2>9. 1 + Len(rest) <= m /\ 1 + Len(rest) = n
    BY <1>2, <1>10, <2>2
  <2>10. SubSeq(s, 1 + 1, 1 + Len(rest)) = rest
    BY <2>2, <2>8, <2>9
  <2>11. QED
    BY <2>9, <2>10 DEF PieceAt
<1>12. g[1].phase = "http" /\ g[1].buf = one
  BY <1>4, <1>8, <1>9, FilledBetween
<1>13. ReaderRight(g[1])
  <2>1. 1 \in 0 .. m
    BY <1>1, <1>2
  <2>2. ReaderRight(Reader("classify"))
    BY DEF Run
  <2>3. QED
    BY <1>2, <2>1, <2>2, WalkRight
<1> HIDE DEF rest
<1>14. Len(rest) > 0 /\ Len(rest) <= Wanted(g[1]) /\ 1 + Len(rest) = n
  <2> DEFINE k == Len(rest)
             want == Wanted(g[1])
  <2>1. want = Socks5Room - 1
    BY <1>4, <1>12 DEF Wanted
  <2>2. k = n - 1 /\ Socks5Room \in Nat
    BY <1>10, Rooms
  <2> HIDE DEF k, want, n
  <2>3. k > 0 /\ k <= want /\ 1 + k = n
    BY <1>1, <1>2, <2>1, <2>2
  <2>4. QED
    BY <2>3 DEF k, want
<1>15. g[n] = Fed(g[1], rest) /\ ReaderRight(g[n])
  <2> HIDE DEF n
  <2>1. g[1 + Len(rest)] = Fed(g[1], rest) /\ ReaderRight(g[1 + Len(rest)])
    BY <1>2, <1>10, <1>11, <1>13, <1>14, PieceTaken DEF m
  <2>2. QED
    BY <1>14, <2>1
<1>16. Fed(g[1], rest) = Http(y)
  <2>1. "http" \in Phases /\ "http" # "prefix"
    BY DEF Phases
  <2>2. Fed(g[1], rest) = Handle("http", Filled(g[1], rest))
    BY <1>12, <2>1, FedHandles
  <2>3. Filled(Filled(x, one), rest) = Filled(x, one \o rest)
    BY <1>4, <1>9, <1>10, NoBytes, FilledTwice
  <2>4. QED
    BY <1>8, <1>10, <2>2, <2>3 DEF Handle
<1>17. IsReader(y) /\ y.buf = d /\ y.got = <<>>
  BY <1>1, <1>9, FilledBetween
<1> HIDE DEF y
<1>18. Stands(Http(y), "served", Append(MeaningsOf(y.got), Msg("http", addr, Connect)))
  BY <1>9, <1>15, <1>16, <1>17, HeadTaken
<1>19. Append(MeaningsOf(<<>>), Msg("http", addr, Connect)) = <<Msg("http", addr, Connect)>>
  <2>1. MeaningsOf(<<>>) = <<>>
    BY DEF MeaningsOf
  <2>2. QED
    BY <2>1, OneAfterOther
<1>20. QED
  BY <1>15, <1>16, <1>17, <1>18, <1>19

\* Lengths are numbers.
LEMMA LengthOf == \A b \in Bytes : Len(b) \in Nat
  BY DEF Bytes

\* The head is what is in front of the tail.
LEMMA BeforeTail ==
    ASSUME NEW s \in Bytes, NEW tail \in Bytes, NEW head,
           head = SubSeq(s, 1, Len(s) - Len(tail))
    PROVE  head \in Bytes /\ Len(head) \in Nat
<1> DEFINE m == Len(s)
           n == Len(tail)
           k == m - n
<1>1. m \in Nat /\ n \in Nat
  BY LengthOf, Zenon
<1>2. head = SubSeq(s, 1, k)
  OBVIOUS
<1> HIDE DEF m, n
<1>3. k \in Int /\ (k \in 0 .. m \/ k < 1)
  BY <1>1
<1> HIDE DEF k
<1>4. CASE k \in 0 .. m
  <2>1. SubSeq(s, 1, k) \in Bytes
    BY <1>4, Cut DEF m
  <2>2. QED
    BY <1>2, <2>1 DEF Bytes
<1>5. CASE k < 1
  <2>1. SubSeq(s, 1, k) = <<>>
    BY <1>3, <1>5, SubSeqEmpty
  <2>2. head = <<>>
    BY <1>2, <2>1, Zenon
  <2>3. <<>> \in Bytes /\ Len(<<>>) \in Nat
    BY NoBytes
  <2>4. QED
    BY <2>2, <2>3, Zenon
<1>6. QED
  BY <1>3, <1>4, <1>5

\* A host in a head, with what its bytes may not be.
LEMMA HostWithin ==
    ASSUME NEW head \in Bytes, NEW i \in 1 .. Len(head), NEW n \in 1 .. 255, i + n <= Len(head)
    PROVE  /\ SubSeq(head, i, i + n - 1) \in Bytes
           /\ Len(SubSeq(head, i, i + n - 1)) = n
<1> DEFINE m == Len(head)
           a == i - 1
           z == i + n - 1
<1>1. m \in Nat /\ i \in 1 .. m /\ i + n <= m /\ n \in Nat
  BY DEF Bytes
<1> HIDE DEF m
<1>2. a \in 0 .. m /\ z \in a .. m /\ z - a = n /\ a + 1 = i
  BY <1>1
<1> HIDE DEF a, z
<1>3. SubSeq(head, a + 1, z) \in Bytes /\ Len(SubSeq(head, a + 1, z)) = z - a
  BY <1>2, Part DEF m
<1>4. SubSeq(head, i, z) \in Bytes /\ Len(SubSeq(head, i, z)) = n
  BY <1>2, <1>3, Zenon
<1>5. QED
  BY <1>4 DEF z

\* A client of HTTP keeps to the protocol with such a head.
LEMMA HttpHead ==
    ASSUME NEW s, s.stream \in Bytes, s.tail \in Bytes, SpeaksHttp(s)
    PROVE  \E head, addr : /\ HeadOf(head, addr) /\ Between(s.stream, <<>>, head, s.tail)
                           /\ s.http /\ s.meant = <<Msg("http", addr, Connect)>>
<1> DEFINE addr == s.meant[1].addr
           port == addr.port
           head == SubSeq(s.stream, 1, Len(s.stream) - Len(s.tail))
           Begins(h, minor) == IsPrefix(ConnectTo(h, port, minor), head)
<1>1. /\ s.http /\ s.meant = <<Msg("http", addr, Connect)>>
      /\ s.stream = head \o s.tail /\ Len(head) <= Socks5Room
  BY DEF SpeaksHttp
<1>2. \A i \in 4 .. Len(head) :
          SubSeq(head, i - 3, i) = <<CR, LF, CR, LF>> <=> i = Len(head)
  BY DEF SpeaksHttp
<1>3. port \in 1 .. MaxPort
  BY DEF SpeaksHttp
<1>4. PICK i \in 1 .. Len(head), n \in 1 .. 255, minor \in 48 .. 57 :
          LET host == SubSeq(head, i, i + n - 1) IN
          /\ i + n <= Len(head) /\ addr = FillHost(host, port)
          /\ \A j \in 1 .. n : host[j] \notin {SP, CR}
          /\ \/ host[1] # 91 /\ Begins(host, minor)
             \/ (\A j \in 1 .. n : host[j] # 93) /\ Begins(<<91>> \o host \o <<93>>, minor)
  BY DEF SpeaksHttp
<1>5. head \in Bytes
  <2> DEFINE S == s.stream
             T == s.tail
  <2>1. S \in Bytes /\ T \in Bytes /\ head = SubSeq(S, 1, Len(S) - Len(T))
    BY Zenon
  <2> HIDE DEF S, T, head
  <2>2. QED
    BY <2>1, BeforeTail, Zenon
<1> HIDE DEF head, addr, port
<1> DEFINE host == SubSeq(head, i, i + n - 1)
<1>6. host \in Bytes /\ Len(host) = n
  <2>1. i \in 1 .. Len(head) /\ n \in 1 .. 255 /\ i + n <= Len(head)
    BY <1>4
  <2>2. QED
    BY <1>5, <2>1, HostWithin, Zenon
<1>7. /\ addr = FillHost(host, port) /\ (\A j \in 1 .. n : host[j] \notin {SP, CR})
      /\ \/ host[1] # 91 /\ Begins(host, minor)
         \/ (\A j \in 1 .. n : host[j] # 93) /\ Begins(<<91>> \o host \o <<93>>, minor)
  BY <1>4
<1> HIDE DEF host
<1>8. Free(host, SP) /\ Free(host, CR)
  BY <1>6, <1>7 DEF Free
<1>9. \E h : Aims(h, host) /\ Begins(h, minor)
  <2>1. CASE host[1] # 91 /\ Begins(host, minor)
    <3>1. Aims(host, host)
      BY <2>1 DEF Aims
    <3> HIDE DEF Begins
    <3>2. QED
      BY <2>1, <3>1
  <2>2. CASE (\A j \in 1 .. n : host[j] # 93) /\ Begins(<<91>> \o host \o <<93>>, minor)
    <3>1. Free(host, 93)
      BY <1>6, <2>2 DEF Free
    <3> DEFINE h == <<91>> \o host \o <<93>>
    <3>2. Aims(h, host)
      BY <3>1, Zenon DEF Aims
    <3>3. Begins(h, minor)
      BY <2>2
    <3> HIDE DEF h, Begins
    <3>4. QED
      BY <3>2, <3>3
  <2>3. QED
    BY <1>7, <2>1, <2>2
<1>10. IsHead(head, host, port)
  <2>1. \A j \in 4 .. Len(head) : j \in HeadEnds(head) <=> j = Len(head)
    BY <1>2 DEF HeadEnds
  <2>2. minor \in 48 .. 57
    OBVIOUS
  <2>3. QED
    BY <1>5, <1>9, <2>1, <2>2, Zenon DEF IsHead
<1>11. Len(host) \in 1 .. 255
  BY <1>6
<1>12. /\ ParseConnect(head) = [rc |-> "ok", needed |-> Len(head), addr |-> FillHost(host, port)]
       /\ Len(head) > 1 /\ IsPrefix(ConnectWord, head)
  BY <1>3, <1>6, <1>8, <1>10, <1>11, HeadRead
<1>13. HeadOf(head, addr)
  BY <1>1, <1>5, <1>7, <1>12 DEF HeadOf
<1>14. Between(s.stream, <<>>, head, s.tail)
  BY <1>1, <1>5, NoBytes DEF Between
<1>15. QED
  BY <1>1, <1>13, <1>14

\* And is understood.
LEMMA HttpUnderstood ==
    ASSUME script \in Scripts, script.mode = "local", SpeaksHttp(script), NEW g, Walks(g)
    PROVE  Understood(g[Len(script.stream)], script.meant, script.tail)
<1> DEFINE s == script.stream
           tail == script.tail
           x == Reader("classify")
<1>1. Run(x, s, g) /\ tail \in Bytes /\ s \in Bytes
  BY ScriptRuns, StreamOf
<1>2. PICK head, addr : /\ HeadOf(head, addr) /\ Between(s, <<>>, head, tail)
                        /\ script.http /\ script.meant = <<Msg("http", addr, Connect)>>
  BY <1>1, HttpHead
<1> DEFINE meant == <<Msg("http", addr, Connect)>>
           n == Len(head)
<1> HIDE DEF s, tail
<1>3. head \in Bytes /\ <<>> \in Bytes /\ Len(<<>>) = 0 /\ n \in Nat
  BY <1>2, NoBytes DEF HeadOf, Bytes
<1>4. PieceAt(s, 0, head)
  BY <1>1, <1>2, <1>3, PieceAmong
<1>5. Stands(g[n], "served", meant)
  BY <1>1, <1>2, <1>4, HeadStep
<1> HIDE DEF meant, x
<1>6. Stands(g[Len(<<>>) + Len(head)], "served", meant)
  BY <1>3, <1>5
<1>7. Understood(g[Len(s)], meant, tail)
  BY <1>1, <1>2, <1>3, <1>6, LastServed
<1>8. QED
  BY <1>2, <1>7 DEF meant, s, tail

\* Whoever keeps to the protocol is understood when all has come.
LEMMA AllUnderstood ==
    ASSUME script \in Scripts, KeepsToProtocol(script), NEW g, Walks(g)
    PROVE  Understood(g[Len(script.stream)], script.meant, script.tail)
  BY TrojanUnderstood, Socks5Understood, HttpUnderstood, ServerUnderstood DEF KeepsToProtocol

\* And as soon as nothing more can come.
LEMMA UnderstoodAtLast == CutsInv => PeersAreUnderstood
<1> SUFFICES ASSUME CutsInv, KeepsToProtocol(script), AllRead
             PROVE  /\ Meanings = script.meant
                    /\ r.handed \o From(script.stream, taken + 1) = script.tail
  BY DEF PeersAreUnderstood
<1> DEFINE s == script.stream
<1>1. PICK g : Walks(g) /\ (r.phase = "gone" \/ r = g[taken])
  BY DEF CutsInv
<1>2. r = g[taken] /\ (Wanted(g[taken]) = 0 \/ taken = Len(s))
  BY <1>1 DEF AllRead, HasAll
<1>3. script \in Scripts /\ taken \in 0 .. Len(s)
  BY DEF CutsInv, FramingInv
<1>4. Understood(g[Len(s)], script.meant, script.tail)
  BY <1>1, <1>3, AllUnderstood
<1>5. Run(Start(script), s, g)
  BY <1>1, <1>3, ScriptRuns
<1> HIDE DEF s
<1>6. MeaningsOf(g[taken].got) = script.meant /\ g[taken].handed \o From(s, taken + 1) = script.tail
  BY <1>2, <1>3, <1>4, <1>5, UnderstoodNow
<1>7. QED
  BY <1>2, <1>6 DEF Meanings, MeaningsOf, s

\* Whoever keeps to the protocol is understood to the last message as soon as that has
\* come, however it came, and what was sent beyond is there for the relay: for all
\* streams, keys, addresses, ports, frames and sizes.
THEOREM PeersUnderstood == CutsSpec => []PeersAreUnderstood
<1>1. CutsSpec => []CutsInv
  BY CutsInvHoldsFirst, CutsInvKept, PTL DEF CutsSpec
<1>2. QED
  BY <1>1, UnderstoodAtLast, PTL
=============================================================================
