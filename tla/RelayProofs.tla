---------------------------- MODULE RelayProofs -----------------------------
(***************************************************************************)
(* Proofs about Relay, for every supply, room and limit: a blocked relay   *)
(* can always be woken, no unread data goes unsignalled, and where the     *)
(* initial payload fits into the upstream's send queue an orderly end      *)
(* loses nothing.  Only the last needs that condition; the run             *)
(* relay_initial shows what happens without it.                            *)
(***************************************************************************)
EXTENDS Relay, TLAPS

-----------------------------------------------------------------------------
(* What holds of one direction between two wakeups. *)

Bounded(x) == x.supply + x.queue <= Supply

Signalled(x) == x.queue > 0 => x.edge \/ x.ready

Waiting(x) == x.buf > 0 => x.blocked

\* The end is taken only from recv, after all that the source had to send.
Ended(x) ==
    /\ x.fin => x.supply = 0
    /\ x.eof => x.fin /\ x.queue = 0

Sound(x) == x \in Direction /\ Bounded(x) /\ Signalled(x) /\ Ended(x)

LEMMA LeastType ==
    ASSUME NEW a \in Nat, NEW b \in Nat
    PROVE  /\ Least(a, b) \in Nat
           /\ Least(a, b) <= a /\ Least(a, b) <= b
           /\ Least(a, b) = a \/ Least(a, b) = b
  BY DEF Least

\* y is a direction with these fields.
Fielded(y, s, q, f, e, r, z, b, m, k) ==
    /\ y \in Direction
    /\ y.supply = s /\ y.queue = q /\ y.fin = f /\ y.edge = e /\ y.ready = r
    /\ y.eof = z /\ y.buf = b /\ y.room = m /\ y.blocked = k

\* Units are sent.
WithSent(x, b, m, k) ==
    [x EXCEPT !.buf = b, !.room = m, !.blocked = k]

LEMMA UpdateSent ==
    ASSUME NEW x \in Direction,
           NEW b \in 0 .. 1, NEW m \in 0 .. Room, NEW k \in BOOLEAN
    PROVE  Fielded(WithSent(x, b, m, k),
                   x.supply, x.queue, x.fin, x.edge, x.ready, x.eof, b, m, k)
  BY Zenon DEF Fielded, Direction, WithSent

\* Units are read and sent.
WithRead(x, q, m, b, k) ==
    [x EXCEPT !.queue = q, !.room = m, !.buf = b, !.blocked = k]

LEMMA UpdateRead ==
    ASSUME NEW x \in Direction,
           NEW q \in 0 .. Supply, NEW m \in 0 .. Room, NEW b \in 0 .. 1, NEW k \in BOOLEAN
    PROVE  Fielded(WithRead(x, q, m, b, k),
                   x.supply, q, x.fin, x.edge, x.ready, x.eof, b, m, k)
  BY Zenon DEF Fielded, Direction, WithRead

\* recv has nothing more to give.
WithDry(x, r, z) ==
    [x EXCEPT !.ready = r, !.eof = z]

LEMMA UpdateDry ==
    ASSUME NEW x \in Direction,
           NEW r \in BOOLEAN, NEW z \in BOOLEAN
    PROVE  Fielded(WithDry(x, r, z),
                   x.supply, x.queue, x.fin, x.edge, r, z, x.buf, x.room, x.blocked)
  BY Zenon DEF Fielded, Direction, WithDry

\* The initial payload is sent.
WithRoom(x, m, k) ==
    [x EXCEPT !.room = m, !.blocked = k]

LEMMA UpdateRoom ==
    ASSUME NEW x \in Direction,
           NEW m \in 0 .. Room, NEW k \in BOOLEAN
    PROVE  Fielded(WithRoom(x, m, k),
                   x.supply, x.queue, x.fin, x.edge, x.ready, x.eof, x.buf, m, k)
  BY Zenon DEF Fielded, Direction, WithRoom

\* And not all of it.
WithBlocked(x, k) ==
    [x EXCEPT !.blocked = k]

LEMMA UpdateBlocked ==
    ASSUME NEW x \in Direction,
           NEW k \in BOOLEAN
    PROVE  Fielded(WithBlocked(x, k),
                   x.supply, x.queue, x.fin, x.edge, x.ready, x.eof, x.buf, x.room, k)
  BY Zenon DEF Fielded, Direction, WithBlocked

\* A read event is delivered.
WithTold(x, e, r) ==
    [x EXCEPT !.edge = e, !.ready = r]

LEMMA UpdateTold ==
    ASSUME NEW x \in Direction,
           NEW e \in BOOLEAN, NEW r \in BOOLEAN
    PROVE  Fielded(WithTold(x, e, r),
                   x.supply, x.queue, x.fin, e, r, x.eof, x.buf, x.room, x.blocked)
  BY Zenon DEF Fielded, Direction, WithTold

\* A unit arrives.
WithArrived(x, s, q, e) ==
    [x EXCEPT !.supply = s, !.queue = q, !.edge = e]

LEMMA UpdateArrived ==
    ASSUME NEW x \in Direction,
           NEW s \in 0 .. Supply, NEW q \in 0 .. Supply, NEW e \in BOOLEAN
    PROVE  Fielded(WithArrived(x, s, q, e),
                   s, q, x.fin, e, x.ready, x.eof, x.buf, x.room, x.blocked)
  BY Zenon DEF Fielded, Direction, WithArrived

\* The source closes.
WithShut(x, f, e) ==
    [x EXCEPT !.fin = f, !.edge = e]

LEMMA UpdateShut ==
    ASSUME NEW x \in Direction,
           NEW f \in BOOLEAN, NEW e \in BOOLEAN
    PROVE  Fielded(WithShut(x, f, e),
                   x.supply, x.queue, f, e, x.ready, x.eof, x.buf, x.room, x.blocked)
  BY Zenon DEF Fielded, Direction, WithShut

\* The destination reads.
WithConsumed(x, m) ==
    [x EXCEPT !.room = m]

LEMMA UpdateConsumed ==
    ASSUME NEW x \in Direction,
           NEW m \in 0 .. Room
    PROVE  Fielded(WithConsumed(x, m),
                   x.supply, x.queue, x.fin, x.edge, x.ready, x.eof, x.buf, m, x.blocked)
  BY Zenon DEF Fielded, Direction, WithConsumed

-----------------------------------------------------------------------------
(* process_direction. *)

\* The send of what is buffered leaves the source alone, and a buffer that is not
\* empty afterwards is one whose destination has blocked.
LEMMA FlushedSound ==
    ASSUME NEW x, Sound(x)
    PROVE  /\ Sound(Flushed(x)) /\ Waiting(Flushed(x))
           /\ ~Flushed(x).blocked => Flushed(x).buf = 0
<1>1. /\ x \in Direction /\ x.buf \in 0 .. 1 /\ x.room \in 0 .. Room
      /\ x.buf \in Nat /\ x.room \in Nat
  BY RelayAssumption DEF Sound, Direction
<1>2. PICK sent : sent = Least(x.buf, x.room)
  OBVIOUS
<1>3. sent \in Nat /\ sent <= x.buf /\ sent <= x.room
  BY <1>1, <1>2, LeastType
<1>4. PICK b \in 0 .. 1, m \in 0 .. Room : b = x.buf - sent /\ m = x.room - sent
  BY <1>1, <1>3, RelayAssumption
<1>5. (sent < x.buf) \in BOOLEAN
  BY <1>1, <1>3
<1>6. PICK k \in BOOLEAN : k = (sent < x.buf)
  BY <1>5, Zenon
<1>7. PICK y : y = WithSent(x, b, m, k)
  OBVIOUS
<1>8. Flushed(x) = y
  BY <1>2, <1>4, <1>6, <1>7, Zenon DEF Flushed, WithSent
<1>9. Fielded(y, x.supply, x.queue, x.fin, x.edge, x.ready, x.eof, b, m, k)
  BY <1>1, <1>7, UpdateSent
<1>10. /\ y \in Direction
      /\ y.supply = x.supply /\ y.queue = x.queue /\ y.fin = x.fin
      /\ y.edge = x.edge /\ y.ready = x.ready /\ y.eof = x.eof
      /\ y.buf = b /\ y.blocked = k
  BY <1>9, Zenon DEF Fielded
<1>11. Sound(y)
  BY <1>10, Zenon DEF Sound, Bounded, Signalled, Ended
<1>12. ~(sent < x.buf) => b = 0
  BY <1>1, <1>3, <1>4
<1>13. b > 0 => sent < x.buf
  BY <1>1, <1>3, <1>4
<1>14. Waiting(y) /\ (~y.blocked => y.buf = 0)
  BY <1>10, <1>6, <1>12, <1>13, Zenon DEF Waiting
<1>15. QED
  BY <1>8, <1>11, <1>14

\* The reading loop stops with the source unread only where the destination has
\* blocked or the limit is reached, and then the source stays ready.
LEMMA PumpedSound ==
    ASSUME NEW x, Sound(x), x.ready, x.buf = 0
    PROVE  Sound(Pumped(x)) /\ Waiting(Pumped(x))
<1>1. x \in Direction /\ x.fin \in BOOLEAN
  BY Zenon DEF Sound, Direction
<1>2. /\ x.queue \in 0 .. Supply /\ x.room \in 0 .. Room /\ x.supply \in 0 .. Supply
      /\ x.queue \in Nat /\ x.room \in Nat
      /\ x.room + 1 \in Nat /\ Limit \in Nat \ {0}
  BY <1>1, RelayAssumption DEF Direction
<1>3. PICK most : most = Least(Limit, x.room + 1)
  OBVIOUS
<1>4. most \in Nat /\ most <= x.room + 1 /\ (most = Limit \/ most = x.room + 1)
  BY <1>2, <1>3, LeastType
<1>5. PICK read : read = Least(x.queue, most)
  OBVIOUS
<1>6. read \in Nat /\ read <= x.queue /\ read <= most /\ (read = x.queue \/ read = most)
  BY <1>2, <1>4, <1>5, LeastType
<1>7. PICK sent : sent = Least(read, x.room)
  OBVIOUS
<1>8. sent \in Nat /\ sent <= read /\ sent <= x.room /\ (sent = read \/ sent = x.room)
  BY <1>2, <1>6, <1>7, LeastType
<1>9. PICK q \in 0 .. Supply, m \in 0 .. Room, b \in 0 .. 1 :
          q = x.queue - read /\ m = x.room - sent /\ b = read - sent
  BY <1>2, <1>4, <1>6, <1>8, RelayAssumption
<1>10. (sent < read) \in BOOLEAN
  BY <1>6, <1>8
<1>11. PICK k \in BOOLEAN : k = (sent < read)
  BY <1>10, Zenon
<1>12. PICK y : y = WithRead(x, q, m, b, k)
  OBVIOUS
<1>13. Fielded(y, x.supply, q, x.fin, x.edge, x.ready, x.eof, b, m, k)
  BY <1>1, <1>12, UpdateRead
<1>14. /\ y \in Direction
       /\ y.supply = x.supply /\ y.queue = q /\ y.fin = x.fin
       /\ y.edge = x.edge /\ y.ready = x.ready /\ y.eof = x.eof
       /\ y.buf = b /\ y.blocked = k
  BY <1>13, Zenon DEF Fielded
<1>15. /\ x.supply + x.queue <= Supply
       /\ x.fin => x.supply = 0
       /\ x.eof => x.fin /\ x.queue = 0
  BY DEF Sound, Bounded, Ended
<1>16. Sound(y) /\ Waiting(y)
  <2>1. x.supply + q <= Supply /\ (x.queue = 0 => q = 0) /\ (b > 0 => sent < read)
    BY <1>2, <1>6, <1>8, <1>9, <1>15, RelayAssumption
  <2>2. Bounded(y)
    BY <1>14, <2>1, Zenon DEF Bounded
  <2>3. Signalled(y)
    BY <1>14, Zenon DEF Signalled
  <2>4. Ended(y)
    BY <1>14, <1>15, <2>1, Zenon DEF Ended
  <2>5. Waiting(y)
    BY <1>14, <1>11, <2>1, Zenon DEF Waiting
  <2>6. QED
    BY <1>14, <2>2, <2>3, <2>4, <2>5, Zenon DEF Sound
<1>17. CASE y.blocked \/ read = Limit
  <2>1. Pumped(x) = y
    BY <1>3, <1>5, <1>7, <1>9, <1>12, <1>17, <1>11, Zenon DEF Pumped, WithRead
  <2>2. QED
    BY <1>16, <2>1
<1>18. CASE ~(y.blocked \/ read = Limit)
  <2>1. PICK z : z = WithDry(y, FALSE, x.fin)
    OBVIOUS
  <2>2. Pumped(x) = z
    BY <1>3, <1>5, <1>7, <1>9, <1>12, <1>18, <1>11, <2>1, Zenon DEF Pumped, WithRead, WithDry
  <2>3. Fielded(z, y.supply, y.queue, y.fin, y.edge, FALSE, x.fin, y.buf, y.room, y.blocked)
    BY <1>1, <1>14, <2>1, UpdateDry
  <2>4. /\ z \in Direction
        /\ z.supply = y.supply /\ z.queue = y.queue /\ z.fin = y.fin
        /\ z.edge = y.edge /\ z.ready = FALSE /\ z.eof = x.fin
        /\ z.buf = y.buf /\ z.blocked = y.blocked
    BY <2>3, Zenon DEF Fielded
  <2>5. ~(sent < read) /\ read # Limit
    BY <1>14, <1>18, <1>11, Zenon
  <2>6. q = 0 /\ b = 0 /\ x.supply + q <= Supply
    BY <1>2, <1>4, <1>6, <1>8, <1>9, <2>5, RelayAssumption
  <2>7. ~(0 > 0)
    OBVIOUS
  <2>8. Bounded(z) /\ Signalled(z) /\ Ended(z) /\ Waiting(z)
    BY <1>14, <1>15, <2>4, <2>6, <2>7, Zenon DEF Bounded, Signalled, Ended, Waiting
  <2>9. QED
    BY <2>2, <2>4, <2>8, Zenon DEF Sound
<1>19. QED
  BY <1>17, <1>18

LEMMA ProcessDirectionSound ==
    ASSUME NEW x, Sound(x)
    PROVE  Sound(ProcessDirection(x)) /\ Waiting(ProcessDirection(x))
<1>1. PICK y : y = Flushed(x)
  OBVIOUS
<1>2. Sound(y) /\ Waiting(y) /\ (~y.blocked => y.buf = 0)
  BY <1>1, FlushedSound
<1>3. CASE y.blocked \/ y.eof \/ ~y.ready
  BY <1>1, <1>2, <1>3, Zenon DEF ProcessDirection
<1>4. CASE ~(y.blocked \/ y.eof \/ ~y.ready)
  <2>1. ProcessDirection(x) = Pumped(y)
    BY <1>1, <1>4, Zenon DEF ProcessDirection
  <2>2. Sound(Pumped(y)) /\ Waiting(Pumped(y))
    BY <1>2, <1>4, PumpedSound
  <2>3. QED
    BY <2>1, <2>2
<1>5. QED
  BY <1>3, <1>4

-----------------------------------------------------------------------------
(* process_proxy. *)

\* Room and the write event are the destination's and do not touch the source.
LEMMA SourceAlone ==
    ASSUME NEW x, Sound(x), NEW y, NEW b, NEW m, NEW k,
           Fielded(y, x.supply, x.queue, x.fin, x.edge, x.ready, x.eof, b, m, k)
    PROVE  Sound(y)
  BY Zenon DEF Sound, Bounded, Signalled, Ended, Fielded

\* What a wakeup leaves behind, whatever events it was woken with.
AfterWakeup ==
    /\ stage' \in {"relaying", "closed"}
    /\ pending' \in 0 .. Initial
    /\ overtaken' \in BOOLEAN
    /\ dir' \in [Directions -> Direction]
    /\ \A d \in Directions : Sound(dir'[d]) /\ Waiting(dir'[d])
    /\ (pending' > 0) => dir'["up"].blocked
    /\ stage' = "closed" => \A d \in Directions : Drained(dir'[d])

LEMMA WakeupSound ==
    ASSUME pending \in 0 .. Initial, overtaken \in BOOLEAN,
           NEW x, x["up"] \in Direction, Sound(x["up"]), Sound(x["down"]),
           NEW freed \in 0 .. Room, freed + x["up"].room <= Room,
           ProcessProxy(x, freed)
    PROVE  /\ AfterWakeup
           /\ pending <= x["up"].room => pending' = 0
           /\ pending = 0 => pending' = 0
<1>1. /\ pending \in Nat /\ x["up"].room \in 0 .. Room /\ x["up"].room \in Nat
  BY RelayAssumption DEF Direction
<1>2. PICK sent : sent = Least(pending, x["up"].room)
  OBVIOUS
<1>3. /\ sent \in Nat /\ sent <= pending /\ sent <= x["up"].room
      /\ sent = pending \/ sent = x["up"].room
  BY <1>1, <1>2, LeastType
<1>4. PICK left \in 0 .. Initial, m \in 0 .. Room :
          left = pending - sent /\ m = x["up"].room - sent + freed
  <2>1. pending - sent \in 0 .. Initial
    BY <1>1, <1>3, RelayAssumption
  <2>2. x["up"].room - sent + freed \in 0 .. Room
    BY <1>1, <1>3, RelayAssumption
  <2>3. QED
    BY <2>1, <2>2, Zenon
<1>5. (left > 0) \in BOOLEAN /\ x["up"].blocked \in BOOLEAN
  <2>1. (left > 0) \in BOOLEAN
    BY <1>4
  <2>2. x["up"].blocked \in BOOLEAN
    BY Zenon DEF Direction
  <2>3. QED
    BY <2>1, <2>2
<1>6. PICK k \in BOOLEAN : k = IF pending > 0 THEN left > 0 ELSE x["up"].blocked
  BY <1>5, Zenon
<1>7. PICK up0 : up0 = WithRoom(x["up"], m, k)
  OBVIOUS
<1>8. Sound(up0)
  <2>1. Fielded(up0, x["up"].supply, x["up"].queue, x["up"].fin, x["up"].edge, x["up"].ready,
                x["up"].eof, x["up"].buf, m, k)
    BY <1>7, UpdateRoom
  <2>2. QED
    BY <2>1, SourceAlone
<1>9. PICK up1 : up1 = ProcessDirection(up0)
  OBVIOUS
<1>10. Sound(up1) /\ Waiting(up1) /\ up1 \in Direction /\ up1.blocked \in BOOLEAN
  <2>1. Sound(up1) /\ Waiting(up1)
    BY <1>8, <1>9, ProcessDirectionSound
  <2>2. QED
    BY <2>1, Zenon DEF Sound, Direction
<1>11. PICK down1 : down1 = ProcessDirection(x["down"])
  OBVIOUS
<1>12. Sound(down1) /\ Waiting(down1) /\ down1 \in Direction
  BY <1>11, ProcessDirectionSound DEF Sound
<1>13. PICK k2 \in BOOLEAN : k2 = (up1.blocked \/ left > 0)
  BY <1>5, <1>10, Zenon
<1>14. PICK up2 : up2 = WithBlocked(up1, k2)
  OBVIOUS
<1>15. Fielded(up2, up1.supply, up1.queue, up1.fin, up1.edge, up1.ready, up1.eof, up1.buf,
               up1.room, k2)
  BY <1>10, <1>14, UpdateBlocked
<1>16. Sound(up2) /\ Waiting(up2) /\ up2 \in Direction /\ (left > 0 => up2.blocked)
  <2>1. Sound(up2)
    BY <1>10, <1>15, SourceAlone
  <2>2. up2 \in Direction /\ up2.blocked = k2 /\ up2.buf = up1.buf
    BY <1>15, Zenon DEF Fielded
  <2>3. QED
    BY <1>10, <1>13, <2>1, <2>2, Zenon DEF Waiting
<1>17. Drained(up1) => Drained(up2)
  BY <1>15, Zenon DEF Drained, Fielded
<1>18. /\ pending' = left
       /\ dir' = [d \in Directions |-> IF d = "up" THEN up2 ELSE down1]
       /\ stage' = IF Drained(up1) /\ Drained(down1) THEN "closed" ELSE "relaying"
  BY <1>2, <1>4, <1>6, <1>7, <1>9, <1>11, <1>13, <1>14, Zenon
     DEF ProcessProxy, PendingSent, WithRoom, WithBlocked
<1>19. overtaken' \in BOOLEAN
  BY Zenon DEF ProcessProxy
<1>20. "up" \in Directions /\ \A d \in Directions : dir'[d] = up2 \/ dir'[d] = down1
  BY <1>18 DEF Directions
<1>21. dir'["up"] = up2 /\ dir' \in [Directions -> Direction]
  BY <1>12, <1>16, <1>18, <1>20
<1>22. AfterWakeup
  <2>1. \A d \in Directions : Sound(dir'[d]) /\ Waiting(dir'[d])
    BY <1>12, <1>16, <1>20, Zenon
  <2>2. stage' = "closed" => \A d \in Directions : Drained(dir'[d])
    BY <1>17, <1>18, <1>20
  <2>3. stage' \in {"relaying", "closed"}
    BY <1>18
  <2>4. (pending' > 0) => dir'["up"].blocked
    BY <1>16, <1>18, <1>21, Zenon
  <2>5. QED
    BY <1>4, <1>18, <1>19, <1>21, <2>1, <2>2, <2>3, <2>4, Zenon DEF AfterWakeup
<1>23. (pending <= x["up"].room => pending' = 0) /\ (pending = 0 => pending' = 0)
  BY <1>1, <1>3, <1>4, <1>18
<1>24. QED
  BY <1>22, <1>23

-----------------------------------------------------------------------------
(* The inductive invariant. *)

\* A relay that has closed has read both ends, and the end is behind all data;
\* an initial payload that fits is gone with the first wakeup.
RelayInv ==
    /\ stage \in {"connecting", "relaying", "closed"}
    /\ pending \in 0 .. Initial
    /\ overtaken \in BOOLEAN
    /\ dir \in [Directions -> Direction]
    /\ \A d \in Directions : Sound(dir[d]) /\ Waiting(dir[d])
    /\ stage # "connecting" => (pending > 0 => dir["up"].blocked)
    /\ Initial <= Room => pending = 0 \/ (stage = "connecting" /\ dir["up"].room = Room)
    /\ stage = "closed" => \A d \in Directions : Drained(dir[d])

LEMMA InitInv == Init => RelayInv
<1> SUFFICES ASSUME Init PROVE RelayInv
  OBVIOUS
<1> DEFINE fresh == [supply |-> Supply, queue |-> 0, fin |-> FALSE, edge |-> FALSE,
                     ready |-> FALSE, eof |-> FALSE, buf |-> 0, room |-> Room,
                     blocked |-> FALSE]
<1>1. 0 \in 0 .. Supply /\ Supply \in 0 .. Supply /\ Room \in 0 .. Room /\ 0 \in 0 .. 1
      /\ Initial \in 0 .. Initial /\ Supply + 0 <= Supply /\ ~(0 > 0)
  BY RelayAssumption
<1>2. Sound(fresh) /\ Waiting(fresh) /\ fresh.room = Room
  BY <1>1, Zenon DEF Sound, Bounded, Signalled, Ended, Waiting, Direction
<1>3. dir = [d \in Directions |-> fresh]
  BY Zenon DEF Init
<1> HIDE DEF fresh
<1>4. \A d \in Directions : dir[d] = fresh
  BY <1>3, Zenon
<1>5. dir["up"] = fresh
  BY <1>4 DEF Directions
<1>6. fresh \in Direction
  BY <1>2, Zenon DEF Sound
<1>7. dir \in [Directions -> Direction]
  BY <1>3, <1>6
<1>8. stage = "connecting" /\ pending \in 0 .. Initial /\ overtaken \in BOOLEAN
  BY <1>1 DEF Init
<1>9. stage # "closed"
  BY <1>8
<1>10. QED
  BY <1>2, <1>4, <1>5, <1>7, <1>8, <1>9, Zenon DEF RelayInv

\* The relay is woken.
LEMMA WokenInv ==
    ASSUME RelayInv, NEW x, x["up"] \in Direction, Sound(x["up"]), Sound(x["down"]),
           x["up"].room = dir["up"].room, Woken(x)
    PROVE  RelayInv'
<1>1. PICK freed \in 0 .. Room : CanFree(freed) /\ ProcessProxy(x, freed)
  BY Zenon DEF Woken
<1>2. freed + x["up"].room <= Room /\ pending \in 0 .. Initial /\ overtaken \in BOOLEAN
  BY <1>1 DEF CanFree, RelayInv
<1>3. /\ AfterWakeup
      /\ pending <= x["up"].room => pending' = 0
      /\ pending = 0 => pending' = 0
  BY <1>1, <1>2, WakeupSound
<1>4. Initial <= Room => pending' = 0
  <2>1. Initial <= Room => pending = 0 \/ dir["up"].room = Room
    BY Zenon DEF RelayInv
  <2>2. QED
    BY <1>2, <1>3, <2>1, RelayAssumption
<1>5. stage' \in {"connecting", "relaying", "closed"}
  BY <1>3 DEF AfterWakeup
<1>6. QED
  BY <1>3, <1>4, <1>5, Zenon DEF AfterWakeup, RelayInv

\* One direction changes, by its peer, the kernel or an event not yet handled.
LEMMA AroundInv ==
    ASSUME RelayInv, NEW d \in Directions, NEW y,
           dir' = [dir EXCEPT ![d] = y], UNCHANGED <<stage, pending, overtaken>>,
           Sound(y), Waiting(y), y.eof = dir[d].eof, y.buf = dir[d].buf,
           y.blocked = dir[d].blocked,
           y.room = dir[d].room \/ dir[d].room < Room
    PROVE  RelayInv'
<1>1. /\ dir \in [Directions -> Direction] /\ y \in Direction
      /\ stage' = stage /\ pending' = pending /\ overtaken' = overtaken
  BY Zenon DEF RelayInv, Sound
<1>2. /\ dir' \in [Directions -> Direction] /\ dir'[d] = y
      /\ \A e \in Directions : e # d => dir'[e] = dir[e]
  BY <1>1
<1>3. "up" \in Directions
  BY DEF Directions
<1>4. /\ dir'["up"].blocked = dir["up"].blocked
      /\ \A e \in Directions : Drained(dir[e]) => Drained(dir'[e])
      /\ \A e \in Directions : Sound(dir'[e]) /\ Waiting(dir'[e])
  BY <1>2, <1>3, Zenon DEF RelayInv, Drained
<1>5. dir["up"].room = Room => dir'["up"].room = Room
  <2>1. dir'["up"].room = dir["up"].room \/ dir["up"].room < Room
    BY <1>2, <1>3, Zenon
  <2>2. QED
    BY <2>1, RelayAssumption
<1>6. QED
  BY <1>1, <1>2, <1>4, <1>5, Zenon DEF RelayInv

LEMMA ToldSound ==
    ASSUME NEW x, Sound(x), NEW y, y = WithTold(x, FALSE, TRUE)
    PROVE  /\ y \in Direction /\ Sound(y) /\ (Waiting(x) => Waiting(y))
           /\ y.eof = x.eof /\ y.buf = x.buf /\ y.blocked = x.blocked /\ y.room = x.room
<1>1. x \in Direction
  BY DEF Sound
<1>2. Fielded(y, x.supply, x.queue, x.fin, FALSE, TRUE, x.eof, x.buf, x.room, x.blocked)
  BY <1>1, UpdateTold
<1>3. QED
  BY <1>2, Zenon DEF Fielded, Sound, Bounded, Signalled, Ended, Waiting

LEMMA NextInv == RelayInv /\ [Next \/ Quiescent]_vars => RelayInv'
<1> SUFFICES ASSUME RelayInv, [Next \/ Quiescent]_vars PROVE RelayInv'
  OBVIOUS
<1>1. /\ "up" \in Directions /\ "down" \in Directions
      /\ \A d \in Directions : d = "up" \/ d = "down"
  BY DEF Directions
<1>2. /\ \A d \in Directions : dir[d] \in Direction /\ Sound(dir[d]) /\ Waiting(dir[d])
      /\ dir \in [Directions -> Direction]
  BY Zenon DEF RelayInv, Sound
<1>3. CASE Connected
  BY <1>1, <1>2, <1>3, WokenInv DEF Connected
<1>4. CASE EarlyReadable
  <2>1. PICK x : x = dir["up"]
    OBVIOUS
  <2>2. x \in Direction /\ Sound(x) /\ Waiting(x)
    BY <1>1, <1>2, <2>1, Zenon
  <2>3. PICK y : y = WithTold(x, FALSE, TRUE)
    OBVIOUS
  <2>4. dir' = [dir EXCEPT !["up"] = y]
    BY <1>4, <2>1, <2>3, Zenon DEF EarlyReadable, WithTold
  <2>5. UNCHANGED <<stage, pending, overtaken>>
    BY <1>4 DEF EarlyReadable
  <2>6. /\ Sound(y) /\ Waiting(y) /\ y.eof = x.eof /\ y.buf = x.buf
        /\ y.blocked = x.blocked /\ y.room = x.room
    BY <2>2, <2>3, ToldSound
  <2>7. QED
    BY <1>1, <2>1, <2>4, <2>5, <2>6, AroundInv
<1>5. ASSUME NEW d \in Directions, Readable(d) PROVE RelayInv'
  <2>1. PICK y : y = WithTold(dir[d], FALSE, TRUE)
    OBVIOUS
  <2>2. y \in Direction /\ Sound(y) /\ y.room = dir[d].room
    BY <1>2, <2>1, ToldSound
  <2>3. PICK x : x = [dir EXCEPT ![d] = y]
    OBVIOUS
  <2>4. Woken(x)
    BY <1>5, <2>1, <2>3, Zenon DEF Readable, WithTold
  <2>5. \A e \in Directions : x[e] = IF e = d THEN y ELSE dir[e]
    BY <1>2, <2>3
  <2>6. /\ x["up"] \in Direction /\ Sound(x["up"]) /\ Sound(x["down"])
        /\ x["up"].room = dir["up"].room
    BY <1>1, <1>2, <2>2, <2>5, Zenon
  <2>7. QED
    BY <2>4, <2>6, WokenInv
<1>6. ASSUME NEW d \in Directions, Writable(d) PROVE RelayInv'
  BY <1>1, <1>2, <1>6, WokenInv DEF Writable
<1>7. ASSUME NEW d \in Directions, Arrive(d) PROVE RelayInv'
  <2>1. PICK x : x = dir[d]
    OBVIOUS
  <2>2. x \in Direction /\ Sound(x) /\ Waiting(x)
    BY <1>2, <2>1
  <2>3. x.supply > 0 /\ x.supply \in 0 .. Supply /\ x.queue \in 0 .. Supply
        /\ x.supply + x.queue <= Supply
    BY <1>7, <2>1, <2>2 DEF Arrive, Direction, Sound, Bounded
  <2>4. PICK s \in 0 .. Supply, q \in 0 .. Supply : s = x.supply - 1 /\ q = x.queue + 1
    <3>1. x.supply - 1 \in 0 .. Supply /\ x.queue + 1 \in 0 .. Supply
      BY <2>3, RelayAssumption
    <3>2. QED
      BY <3>1, Zenon
  <2>5. s + q <= Supply /\ x.supply # 0
    BY <2>3, <2>4, RelayAssumption
  <2>6. PICK y : y = WithArrived(x, s, q, TRUE)
    OBVIOUS
  <2>7. dir' = [dir EXCEPT ![d] = y]
    BY <1>7, <2>1, <2>4, <2>6, Zenon DEF Arrive, WithArrived
  <2>8. UNCHANGED <<stage, pending, overtaken>>
    BY <1>7 DEF Arrive
  <2>9. Fielded(y, s, q, x.fin, TRUE, x.ready, x.eof, x.buf, x.room, x.blocked)
    BY <2>2, <2>6, UpdateArrived
  <2>10. Sound(y) /\ Waiting(y)
    BY <2>2, <2>5, <2>9, Zenon DEF Fielded, Sound, Bounded, Signalled, Ended, Waiting
  <2>11. y.eof = x.eof /\ y.buf = x.buf /\ y.blocked = x.blocked /\ y.room = x.room
    BY <2>9, Zenon DEF Fielded
  <2>12. QED
    BY <2>1, <2>7, <2>8, <2>10, <2>11, AroundInv
<1>8. ASSUME NEW d \in Directions, ShutDown(d) PROVE RelayInv'
  <2>1. PICK x : x = dir[d]
    OBVIOUS
  <2>2. x \in Direction /\ Sound(x) /\ Waiting(x) /\ x.supply = 0 /\ ~x.fin
    BY <1>2, <1>8, <2>1, Zenon DEF ShutDown
  <2>3. PICK y : y = WithShut(x, TRUE, TRUE)
    OBVIOUS
  <2>4. dir' = [dir EXCEPT ![d] = y]
    BY <1>8, <2>1, <2>3, Zenon DEF ShutDown, WithShut
  <2>5. UNCHANGED <<stage, pending, overtaken>>
    BY <1>8 DEF ShutDown
  <2>6. Fielded(y, x.supply, x.queue, TRUE, TRUE, x.ready, x.eof, x.buf, x.room, x.blocked)
    BY <2>2, <2>3, UpdateShut
  <2>7. Sound(y) /\ Waiting(y)
    BY <2>2, <2>6, Zenon DEF Fielded, Sound, Bounded, Signalled, Ended, Waiting
  <2>8. y.eof = x.eof /\ y.buf = x.buf /\ y.blocked = x.blocked /\ y.room = x.room
    BY <2>6, Zenon DEF Fielded
  <2>9. QED
    BY <2>1, <2>4, <2>5, <2>7, <2>8, AroundInv
<1>9. ASSUME NEW d \in Directions, Consume(d) PROVE RelayInv'
  <2>1. PICK x : x = dir[d]
    OBVIOUS
  <2>2. x \in Direction /\ Sound(x) /\ Waiting(x) /\ x.room < Room
    BY <1>2, <1>9, <2>1, Zenon DEF Consume
  <2>3. PICK m \in 0 .. Room : m = x.room + 1
    <3>1. x.room + 1 \in 0 .. Room
      BY <2>2, RelayAssumption DEF Direction
    <3>2. QED
      BY <3>1, Zenon
  <2>4. PICK y : y = WithConsumed(x, m)
    OBVIOUS
  <2>5. dir' = [dir EXCEPT ![d] = y]
    BY <1>9, <2>1, <2>3, <2>4, Zenon DEF Consume, WithConsumed
  <2>6. UNCHANGED <<stage, pending, overtaken>>
    BY <1>9 DEF Consume
  <2>7. Fielded(y, x.supply, x.queue, x.fin, x.edge, x.ready, x.eof, x.buf, m, x.blocked)
    BY <2>2, <2>4, UpdateConsumed
  <2>8. Sound(y) /\ Waiting(y)
    BY <2>2, <2>7, Zenon DEF Fielded, Sound, Bounded, Signalled, Ended, Waiting
  <2>9. y.eof = x.eof /\ y.buf = x.buf /\ y.blocked = x.blocked
    BY <2>7, Zenon DEF Fielded
  <2>10. QED
    BY <2>1, <2>2, <2>5, <2>6, <2>8, <2>9, AroundInv
<1>10. CASE Quiescent \/ UNCHANGED vars
  <2>1. UNCHANGED <<stage, pending, dir, overtaken>>
    BY <1>10 DEF Quiescent, vars
  <2>2. QED
    BY <2>1 DEF RelayInv, Sound, Waiting, Bounded, Signalled, Ended, Drained
<1>11. QED
  BY <1>3, <1>4, <1>5, <1>6, <1>7, <1>8, <1>9, <1>10 DEF Next

\* What is said of a direction between two wakeups holds of both, always.
THEOREM InvHolds == Spec => []RelayInv
  BY InitInv, NextInv, PTL DEF Spec

-----------------------------------------------------------------------------
(* What follows. *)

\* The relay is well typed, for every supply, room and limit.
THEOREM TypeCorrect == Spec => []TypeOK
<1>1. RelayInv => TypeOK
  BY Zenon DEF RelayInv, TypeOK
<1>2. QED
  BY <1>1, InvHolds, PTL

\* A relay with units in a buffer waits for a destination that has blocked, and
\* will be woken by its write event.
THEOREM StuckCorrect == Spec => []StuckUnitsWaitForRoom
<1>1. RelayInv => StuckUnitsWaitForRoom
  <2> SUFFICES ASSUME RelayInv, stage = "relaying"
               PROVE  /\ \A d \in Directions : (dir[d].buf > 0) => dir[d].blocked
                      /\ (pending > 0) => dir["up"].blocked
    BY DEF StuckUnitsWaitForRoom
  <2>1. stage # "connecting"
    OBVIOUS
  <2>2. QED
    BY <2>1, Zenon DEF RelayInv, Waiting
<1>2. QED
  BY <1>1, InvHolds, PTL

\* Data in a receive queue is known to the relay or about to be: no event is used
\* up while something is left to read, whatever limit stops the reading.
THEOREM SignalledCorrect == Spec => []UnreadIsSignalled
<1>1. RelayInv => UnreadIsSignalled
  BY Zenon DEF RelayInv, UnreadIsSignalled, Sound, Signalled
<1>2. QED
  BY <1>1, InvHolds, PTL

\* With an initial payload that fits into the send queue of the upstream, a relay
\* closes only when everything has been sent on.
THEOREM CloseCorrect == ASSUME Initial <= Room PROVE Spec => []CloseLosesNothing
<1>1. RelayInv => CloseLosesNothing
  <2> SUFFICES ASSUME RelayInv, stage = "closed"
               PROVE  /\ pending = 0
                      /\ \A d \in Directions :
                           dir[d].supply = 0 /\ dir[d].queue = 0 /\ dir[d].buf = 0
    BY DEF CloseLosesNothing
  <2>1. pending = 0
    BY DEF RelayInv
  <2>2. \A d \in Directions : Drained(dir[d]) /\ Ended(dir[d])
    BY Zenon DEF RelayInv, Sound
  <2>3. QED
    BY <2>1, <2>2, Zenon DEF Drained, Ended
<1>2. QED
  BY <1>1, InvHolds, PTL
=============================================================================
