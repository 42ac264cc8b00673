-------------------------- MODULE RouteDrainProofs --------------------------
(***************************************************************************)
(* Theorems about RouteDrain for any number of sessions, slots and rules   *)
(* and any client timeout: sessions and the lists of the route entries     *)
(* agree, and draining never closes a relay that is in use.                *)
(***************************************************************************)
EXTENDS RouteDrain, TLAPS

-----------------------------------------------------------------------------
(* One session. *)

\* The age of route_last_active never exceeds the time since a byte moved: it is
\* set again wherever that happens on a listed session.
Settled(x) == x.linked => x.quiet <= x.silence

Good(x) == x \in Conn /\ Consistent(x) /\ Settled(x)

\* Bounds of the time fields.
LEMMA Bounds == Drain \in Nat /\ ClientTimeout \in Nat /\ ClientTimeout > Drain
                /\ Drain = 1 /\ NoTimer = ClientTimeout + 1
BY DrainAssumption DEF Drain, NoTimer

\* Taking a session off its list leaves nothing of the tracking behind.
LEMMA UntrackedGood ==
    ASSUME NEW x, Good(x)
    PROVE  Good(Untracked(x)) /\ ~Untracked(x).linked /\ ~Untracked(x).stale
BY DEF Good, Conn, Consistent, Settled, Untracked, NoOutbound

\* A closed session is on no list.
LEMMA ClosedGood ==
    ASSUME NEW x, Good(x), NEW why \in {"drain", "timeout", "end"}
    PROVE  Good(Closed(x, why))
<1>1. PICK y : y = Untracked(x)
  OBVIOUS
<1>2. Good(y) /\ ~y.linked /\ ~y.stale
  BY <1>1, UntrackedGood
<1>3. Closed(x, why) = [y EXCEPT !.stage = "closed", !.timer = NoTimer, !.closedBy = why]
  BY <1>1 DEF Closed
<1>4. NoTimer \in 0 .. NoTimer
  BY Bounds
<1>5. y \in Conn /\ Consistent(y)
  BY <1>2 DEF Good
<1> HIDE DEF NoTimer
<1>6. Closed(x, why) \in Conn
  BY <1>3, <1>4, <1>5 DEF Conn
<1>7. ~Closed(x, why).linked /\ ~Closed(x, why).stale
  BY <1>2, <1>3, <1>5 DEF Conn
<1> QED
  BY <1>6, <1>7 DEF Good, Consistent, Settled

\* Only a quiet relay with nothing buffered is closed for draining.
Spares(x, y) ==
    y.closedBy = "drain" /\ x.closedBy # "drain" => ~x.busy /\ x.silence >= Drain

\* ngx_stream_mtrojan_finalize closes for the reason it is called for.
LEMMA ClosedBy ==
    ASSUME NEW x, Good(x), NEW why \in {"drain", "timeout", "end"}
    PROVE  Closed(x, why).closedBy = why
<1>1. Untracked(x) \in Conn
  BY UntrackedGood DEF Good
<1> QED
  BY <1>1 DEF Closed, Conn

\* Eviction of its entry does not close a session.
LEMMA UntrackedSpares ==
    ASSUME NEW x, Good(x)
    PROVE  Spares(x, Untracked(x))
BY DEF Good, Conn, Spares, Untracked

\* A relay that starts is listed on its entry for the outbound it took.
LEMMA StartedGood ==
    ASSUME NEW x, Good(x), x.stage = "connecting", NEW y,
           y = [Tracked(x) EXCEPT !.stage = "relaying", !.timer = ClientTimeout,
                                  !.silence = 0, !.relayFor = 0]
    PROVE  Good(y) /\ Spares(x, y)
<1>1. x \in Conn /\ ~x.linked /\ ~x.stale
  BY DEF Good, Consistent
<1>2. ClientTimeout \in 0 .. NoTimer /\ 0 \in 0 .. Drain /\ 0 \in 0 .. ClientTimeout
  BY Bounds
<1>3. CASE Tracked(x) = x
  <2>1. y \in Conn /\ ~y.linked /\ ~y.stale /\ y.closedBy = x.closedBy
    BY <1>1, <1>2, <1>3 DEF Conn
  <2> QED
    BY <2>1 DEF Good, Consistent, Settled, Spares
<1>4. CASE Tracked(x) # x
  <2> DEFINE z == [x EXCEPT !.tracked = x.outbound, !.linked = TRUE, !.stale = FALSE,
                            !.quiet = 0]
  <2>1. Tracked(x) = z /\ x.entry # None
    BY <1>4 DEF Tracked
  <2>2. /\ z \in Conn /\ z.linked /\ ~z.stale /\ z.quiet = 0
        /\ z.tracked = z.outbound /\ z.entry \in Slots /\ z.closedBy = x.closedBy
    BY <1>1, <1>2, <2>1 DEF Conn
  <2> HIDE DEF z
  <2>3. /\ y \in Conn /\ y.stage = "relaying" /\ ~y.stale
        /\ y.quiet = 0 /\ y.silence = 0
        /\ y.tracked = y.outbound /\ y.entry \in Slots /\ y.closedBy = x.closedBy
    BY ZenonT(40), <1>2, <2>1, <2>2 DEF Conn
  <2> QED
    BY <2>3 DEF Good, Consistent, Settled, Spares
<1> QED
  BY <1>3, <1>4

\* A listed session that becomes stale stays a relay, due within the drain time.
LEMMA MarkedGood ==
    ASSUME NEW x, Good(x), x.linked, NEW old
    PROVE  Good(Marked(x, old)) /\ Spares(x, Marked(x, old))
<1>1. x \in Conn /\ Consistent(x) /\ x.silence \in Nat /\ x.silence >= 0
  BY Bounds DEF Good, Conn
<1>2. Drain \in 0 .. NoTimer /\ 0 \in 0 .. Drain /\ Drain <= Drain
  BY Bounds
<1>3. CASE x.tracked = old
  <2> DEFINE y == [x EXCEPT !.stale = TRUE, !.quiet = 0, !.timer = Drain]
  <2>1. /\ y \in Conn /\ y.linked /\ y.stage = x.stage /\ y.entry = x.entry
        /\ y.tracked = x.tracked /\ y.outbound = x.outbound /\ y.timer = Drain
        /\ y.quiet = 0 /\ y.silence = x.silence /\ y.closedBy = x.closedBy
    BY <1>1, <1>2 DEF Conn
  <2>2. Marked(x, old) = y
    BY <1>3 DEF Marked
  <2> HIDE DEF y
  <2> QED
    BY <1>1, <1>2, <2>1, <2>2 DEF Good, Consistent, Settled, Spares
<1>4. CASE x.tracked # old
  BY <1>4 DEF Marked, Spares
<1> QED
  BY <1>3, <1>4

\* ngx_stream_mtrojan_route_check_tcp_stale closes only what is quiet.
LEMMA CheckedGood ==
    ASSUME NEW x, Good(x)
    PROVE  Good(Checked(x)) /\ Spares(x, Checked(x))
<1>1. x \in Conn /\ Consistent(x) /\ Settled(x)
      /\ x.silence \in Nat /\ x.quiet \in Nat /\ 0 \in 0 .. Drain /\ Drain \in Nat
  BY Bounds DEF Good, Conn
<1>2. CASE ~x.linked \/ ~x.stale
  BY <1>2 DEF Checked, Spares
<1>3. CASE x.linked /\ x.stale /\ x.busy
  <2> DEFINE y == [x EXCEPT !.quiet = 0]
  <2>1. /\ y \in Conn /\ y.linked = x.linked /\ y.stale = x.stale
        /\ y.stage = x.stage /\ y.entry = x.entry /\ y.timer = x.timer
        /\ y.tracked = x.tracked /\ y.outbound = x.outbound
        /\ y.quiet = 0 /\ y.silence = x.silence /\ y.closedBy = x.closedBy
    BY <1>1 DEF Conn
  <2>2. Checked(x) = y
    BY <1>3 DEF Checked
  <2> HIDE DEF y
  <2> QED
    BY <1>1, <2>1, <2>2 DEF Good, Consistent, Settled, Spares
<1>4. CASE x.linked /\ x.stale /\ ~x.busy /\ x.quiet >= Drain
  BY <1>1, <1>4, ClosedGood DEF Checked, Settled, Spares
<1>5. CASE x.linked /\ x.stale /\ ~x.busy /\ ~(x.quiet >= Drain)
  BY <1>5 DEF Checked, Spares
<1> QED
  BY <1>2, <1>3, <1>4, <1>5

\* Bytes that move keep a relay open, whatever they leave in a buffer.
LEMMA RelayedGood ==
    ASSUME NEW x, Good(x), NEW b \in BOOLEAN, NEW y,
           y = [Touched(x) EXCEPT !.busy = b]
    PROVE  Good(Checked(y)) /\ Spares(x, Checked(y))
<1>1. x \in Conn /\ Consistent(x) /\ 0 \in 0 .. Drain /\ Drain = 1
  BY Bounds DEF Good
<1>2. /\ y \in Conn /\ y.linked = x.linked /\ y.stale = x.stale
      /\ y.stage = x.stage /\ y.entry = x.entry /\ y.timer = x.timer
      /\ y.tracked = x.tracked /\ y.outbound = x.outbound
      /\ y.closedBy = x.closedBy /\ y.silence = 0
      /\ x.linked => y.quiet = 0
  BY <1>1 DEF Conn, Touched
<1>3. Good(y)
  BY <1>1, <1>2 DEF Good, Consistent, Settled
<1>4. Checked(y).closedBy = y.closedBy
  <2>1. ~y.linked \/ ~y.stale \/ y.busy \/ ~(y.quiet >= Drain)
    BY <1>1, <1>2
  <2> QED
    BY <1>2, <2>1 DEF Checked, Conn
<1> QED
  BY <1>2, <1>3, <1>4, CheckedGood DEF Spares

\* The client timer of a stale relay that is still busy is armed once more.
LEMMA RearmedGood ==
    ASSUME NEW x, Good(x)
    PROVE  Good([x EXCEPT !.timer = Drain])
<1>1. x \in Conn /\ Drain \in 0 .. NoTimer /\ Drain <= Drain
  BY Bounds DEF Good
<1> DEFINE y == [x EXCEPT !.timer = Drain]
<1>2. /\ y \in Conn /\ y.linked = x.linked /\ y.stale = x.stale
      /\ y.stage = x.stage /\ y.entry = x.entry /\ y.timer = Drain
      /\ y.tracked = x.tracked /\ y.outbound = x.outbound
      /\ y.quiet = x.quiet /\ y.silence = x.silence
  BY <1>1 DEF Conn
<1> HIDE DEF y
<1>3. Good(y)
  BY <1>1, <1>2 DEF Good, Consistent, Settled
<1> QED
  BY <1>3 DEF y

\* Time passes for a relay whose timer is not due.
Aged(x) ==
    [x EXCEPT !.quiet = Cap(@, Drain), !.silence = Cap(@, Drain),
              !.relayFor = Cap(@, ClientTimeout),
              !.timer = IF @ = NoTimer THEN @ ELSE @ - 1]

\* Time that passes with no timer due keeps a session good.
LEMMA AgedGood ==
    ASSUME NEW x, Good(x), x.timer # 0
    PROVE  Good(Aged(x)) /\ Aged(x).closedBy = x.closedBy
<1>1. /\ x \in Conn /\ Drain \in Nat /\ ClientTimeout \in Nat /\ NoTimer \in Nat
      /\ NoTimer > Drain
  BY Bounds DEF Good
<1>2. PICK q, s, f, t :
        /\ q = Cap(x.quiet, Drain) /\ s = Cap(x.silence, Drain)
        /\ f = Cap(x.relayFor, ClientTimeout)
        /\ t = IF x.timer = NoTimer THEN x.timer ELSE x.timer - 1
  OBVIOUS
<1>3. /\ x.quiet \in 0 .. Drain /\ x.silence \in 0 .. Drain
      /\ x.relayFor \in 0 .. ClientTimeout /\ x.timer \in 0 .. NoTimer
  BY <1>1 DEF Conn
<1>4. /\ q \in 0 .. Drain /\ s \in 0 .. Drain /\ f \in 0 .. ClientTimeout
      /\ t \in 0 .. NoTimer
      /\ x.quiet <= x.silence => q <= s
      /\ x.timer <= Drain => t <= Drain
  BY <1>1, <1>2, <1>3 DEF Cap
<1>5. Aged(x) = [x EXCEPT !.quiet = q, !.silence = s, !.relayFor = f, !.timer = t]
  BY <1>2 DEF Aged
<1>6. PICK y : y = Aged(x)
  OBVIOUS
<1>7. /\ y \in Conn /\ y.linked = x.linked /\ y.stale = x.stale
      /\ y.stage = x.stage /\ y.entry = x.entry /\ y.timer = t
      /\ y.tracked = x.tracked /\ y.outbound = x.outbound
      /\ y.quiet = q /\ y.silence = s /\ y.closedBy = x.closedBy
  BY ZenonT(40), <1>1, <1>4, <1>5, <1>6 DEF Conn
<1>8. Good(y)
  BY <1>4, <1>7 DEF Good, Consistent, Settled
<1> QED
  BY <1>6, <1>7, <1>8

-----------------------------------------------------------------------------
(* All sessions. *)

IInv ==
    /\ SlotsTypeOK
    /\ conn \in [Conns -> Conn]
    /\ \A c \in Conns : Good(conn[c])

SparesAll == \A c \in Conns : Spares(conn[c], conn'[c])

\* A step of one session that keeps that session good keeps them all.
LEMMA StepKeeps ==
    ASSUME IInv, NEW c \in Conns, NEW y, Good(y), Spares(conn[c], y), Step(c, y)
    PROVE  IInv' /\ SparesAll
<1>1. /\ conn' = [conn EXCEPT ![c] = y] /\ UNCHANGED slot
      /\ conn \in [Conns -> Conn] /\ y \in Conn
  BY DEF Step, IInv, Good
<1>2. /\ conn' \in [Conns -> Conn] /\ conn'[c] = y
      /\ \A d \in Conns : d # c => conn'[d] = conn[d]
  BY <1>1
<1>3. SlotsTypeOK'
  BY <1>1 DEF IInv, SlotsTypeOK
<1>4. \A d \in Conns : Good(conn'[d])
  BY <1>2 DEF IInv
<1>5. SparesAll
  BY <1>2 DEF SparesAll, Spares
<1> QED
  BY <1>2, <1>3, <1>4, <1>5 DEF IInv

\* A step of the cache gives each session a good successor.
LEMMA AllKeep ==
    ASSUME IInv, SlotsTypeOK', conn' = [c \in Conns |-> conn'[c]],
           \A c \in Conns : Good(conn'[c]) /\ Spares(conn[c], conn'[c])
    PROVE  IInv' /\ SparesAll
<1>1. conn' \in [Conns -> Conn]
  BY DEF Good
<1> QED
  BY <1>1 DEF IInv, SparesAll

\* Evicting an entry only takes the sessions listed on it off the list.
LEMMA EvictKeeps ==
    ASSUME IInv, NEW k \in Slots, NEW t \in Targets, NEW o \in OutboundIds,
           NEW ttl \in BOOLEAN, Evict(k, t, o, ttl)
    PROVE  IInv' /\ SparesAll
<1>1. SlotsTypeOK'
  BY DEF IInv, SlotsTypeOK, SlotContent, Evict, Reassign
<1>2. conn' = [c \in Conns |->
                 IF c \in ListedOn(k) THEN Untracked(conn[c]) ELSE conn[c]]
  BY DEF Evict
<1>3. ASSUME NEW c \in Conns
      PROVE  Good(conn'[c]) /\ Spares(conn[c], conn'[c])
  <2>1. Good(conn[c])
    BY DEF IInv
  <2>2. conn'[c] = Untracked(conn[c]) \/ conn'[c] = conn[c]
    BY <1>2
  <2>3. Spares(conn[c], conn[c])
    BY DEF Spares
  <2> QED
    BY <2>1, <2>2, <2>3, UntrackedGood, UntrackedSpares
<1>4. conn' = [c \in Conns |-> conn'[c]]
  BY <1>2
<1> QED
  BY <1>1, <1>3, <1>4, AllKeep

\* Revising an entry only marks sessions listed on it stale.
LEMMA ReviseKeeps ==
    ASSUME IInv, NEW k \in Slots, NEW o \in OutboundIds, NEW ttl \in BOOLEAN,
           Revise(k, o, ttl)
    PROVE  IInv' /\ SparesAll
<1>1. SlotsTypeOK'
  BY DEF IInv, SlotsTypeOK, SlotContent, Revise, Redecide
<1>2. conn' = [c \in Conns |->
                 IF c \in ListedOn(k) /\ o # slot[k].outbound
                 THEN Marked(conn[c], slot[k].outbound) ELSE conn[c]]
  BY DEF Revise
<1>3. ASSUME NEW c \in Conns
      PROVE  Good(conn'[c]) /\ Spares(conn[c], conn'[c])
  <2>1. Good(conn[c])
    BY DEF IInv
  <2>2. \/ c \in ListedOn(k) /\ conn'[c] = Marked(conn[c], slot[k].outbound)
        \/ conn'[c] = conn[c]
    BY <1>2
  <2>3. Spares(conn[c], conn[c])
    BY DEF Spares
  <2>4. c \in ListedOn(k) => conn[c].linked
    BY DEF ListedOn
  <2> QED
    BY <2>1, <2>2, <2>3, <2>4, MarkedGood
<1>4. conn' = [c \in Conns |-> conn'[c]]
  BY <1>2
<1> QED
  BY <1>1, <1>3, <1>4, AllKeep

\* The passing of time moves no session.
LEMMA TickKeeps ==
    ASSUME IInv, Tick
    PROVE  IInv' /\ SparesAll
<1>1. SlotsTypeOK'
  BY DEF IInv, SlotsTypeOK, Tick
<1>2. conn' = [c \in Conns |->
                 IF conn[c].stage # "relaying" THEN conn[c] ELSE Aged(conn[c])]
  BY DEF Tick, Aged
<1>3. ASSUME NEW c \in Conns
      PROVE  Good(conn'[c]) /\ Spares(conn[c], conn'[c])
  <2>1. Good(conn[c]) /\ conn[c].timer # 0
    BY DEF IInv, Tick
  <2>2. conn'[c] = conn[c] \/ conn'[c] = Aged(conn[c])
    BY <1>2
  <2> QED
    BY <2>1, <2>2, AgedGood DEF Spares
<1>4. conn' = [c \in Conns |-> conn'[c]]
  BY <1>2
<1> QED
  BY <1>1, <1>3, <1>4, AllKeep

\* The steps of a session.
LEMMA SessionKeeps ==
    ASSUME IInv, NEW c \in Conns,
           \/ \E k \in Slots : Decide(c, k)
           \/ DecideUncached(c) \/ StartRelay(c)
           \/ \E busy \in BOOLEAN : Relay(c, busy)
           \/ Wakeup(c) \/ ClientTimer(c) \/ End(c)
    PROVE  IInv' /\ SparesAll
<1>1. PICK x : x = conn[c]
  OBVIOUS
<1>2. Good(x)
  BY <1>1 DEF IInv
<1>3. \A y : Good(y) /\ Spares(x, y) /\ Step(c, y) => IInv' /\ SparesAll
  BY <1>1, StepKeeps
<1>4. ASSUME NEW k \in Slots, Decide(c, k)
      PROVE  IInv' /\ SparesAll
  <2>1. PICK y : y = [x EXCEPT !.stage = "connecting", !.entry = k,
                               !.outbound = slot[k].outbound]
    OBVIOUS
  <2>2. Step(c, y) /\ x.stage = "idle"
    BY <1>1, <1>4, <2>1 DEF Decide
  <2>3. slot[k].outbound \in OutboundIds \cup {NoOutbound}
    BY DEF IInv, SlotsTypeOK, SlotContent
  <2>4. x \in Conn /\ ~x.linked /\ ~x.stale
    BY <1>2, <2>2 DEF Good, Consistent
  <2>5. y \in Conn /\ ~y.linked /\ ~y.stale /\ y.closedBy = x.closedBy
    BY <2>1, <2>3, <2>4 DEF Conn
  <2> QED
    BY <1>3, <2>2, <2>5 DEF Good, Consistent, Settled, Spares
<1>5. CASE DecideUncached(c)
  <2>1. PICK y : y = [x EXCEPT !.stage = "connecting"]
    OBVIOUS
  <2>2. Step(c, y) /\ x.stage = "idle"
    BY <1>1, <1>5, <2>1 DEF DecideUncached
  <2>3. x \in Conn /\ ~x.linked /\ ~x.stale
    BY <1>2, <2>2 DEF Good, Consistent
  <2>4. y \in Conn /\ ~y.linked /\ ~y.stale /\ y.closedBy = x.closedBy
    BY <2>1, <2>3 DEF Conn
  <2> QED
    BY <1>3, <2>2, <2>4 DEF Good, Consistent, Settled, Spares
<1>6. CASE StartRelay(c)
  <2>1. PICK y : y = [Tracked(x) EXCEPT !.stage = "relaying", !.timer = ClientTimeout,
                                        !.silence = 0, !.relayFor = 0]
    OBVIOUS
  <2>2. Step(c, y) /\ x.stage = "connecting"
    BY <1>1, <1>6, <2>1 DEF StartRelay
  <2> QED
    BY <1>2, <1>3, <2>1, <2>2, StartedGood
<1>7. ASSUME NEW b \in BOOLEAN, Relay(c, b)
      PROVE  IInv' /\ SparesAll
  <2>1. PICK y : y = [Touched(x) EXCEPT !.busy = b]
    OBVIOUS
  <2>2. Step(c, Checked(y))
    BY <1>1, <1>7, <2>1 DEF Relay
  <2>3. Good(Checked(y)) /\ Spares(x, Checked(y))
    BY <1>2, <2>1, RelayedGood
  <2> QED
    BY <1>3, <2>2, <2>3
<1>8. CASE Wakeup(c)
  BY <1>1, <1>2, <1>3, <1>8, CheckedGood DEF Wakeup
<1>9. CASE ClientTimer(c)
  <2>1. CASE ~x.stale
    <3>1. Step(c, Closed(x, "timeout"))
      BY <1>1, <1>9, <2>1 DEF ClientTimer
    <3>2. Good(Closed(x, "timeout")) /\ Closed(x, "timeout").closedBy = "timeout"
      BY <1>2, ClosedGood, ClosedBy
    <3> QED
      BY <1>3, <3>1, <3>2 DEF Spares
  <2>2. CASE x.stale /\ Checked(x).stage = "closed"
    <3>1. Step(c, Checked(x))
      BY <1>1, <1>9, <2>2 DEF ClientTimer
    <3> QED
      BY <1>2, <1>3, <3>1, CheckedGood
  <2>3. CASE x.stale /\ Checked(x).stage # "closed"
    <3>1. PICK z, y : z = Checked(x) /\ y = [z EXCEPT !.timer = Drain]
      OBVIOUS
    <3>2. Step(c, y)
      BY <1>1, <1>9, <2>3, <3>1 DEF ClientTimer
    <3>3. Good(z) /\ Spares(x, z)
      BY <1>2, <3>1, CheckedGood
    <3>4. Good(y)
      BY <3>1, <3>3, RearmedGood
    <3>5. y.closedBy = z.closedBy
      BY <3>1, <3>3 DEF Good, Conn
    <3> QED
      BY <1>3, <3>2, <3>3, <3>4, <3>5 DEF Spares
  <2> QED
    BY <2>1, <2>2, <2>3
<1>10. CASE End(c)
  <2>1. Step(c, Closed(x, "end"))
    BY <1>1, <1>10 DEF End
  <2>2. Good(Closed(x, "end")) /\ Closed(x, "end").closedBy = "end"
    BY <1>2, ClosedGood, ClosedBy
  <2> QED
    BY <1>3, <2>1, <2>2 DEF Spares
<1> QED
  BY <1>4, <1>5, <1>6, <1>7, <1>8, <1>9, <1>10

\* New sessions satisfy the invariant.
LEMMA InitIInv == Init => IInv
<1> SUFFICES ASSUME Init PROVE IInv
  OBVIOUS
<1>1. SlotsTypeOK
  BY DEF Init, SlotsInit, SlotsTypeOK, SlotContent, EmptySlot
<1>2. NewConn \in Conn /\ ~NewConn.linked /\ ~NewConn.stale
  BY Bounds DEF NewConn, Conn
<1>3. Good(NewConn)
  BY <1>2 DEF Good, Consistent, Settled
<1> QED
  BY <1>1, <1>2, <1>3 DEF Init, IInv

\* Every step keeps the invariant, and closes no relay in use to drain it.
LEMMA NextKeeps == IInv /\ [Next]_drainVars => IInv' /\ (SparesAll \/ UNCHANGED drainVars)
<1> SUFFICES ASSUME IInv, [Next]_drainVars
             PROVE  IInv' /\ (SparesAll \/ UNCHANGED drainVars)
  OBVIOUS
<1>1. CASE CacheStep
  BY <1>1, EvictKeeps, ReviseKeeps DEF CacheStep
<1>2. CASE Tick
  BY <1>2, TickKeeps
<1>3. CASE UNCHANGED drainVars
  BY <1>3 DEF drainVars, IInv, SlotsTypeOK
<1> QED
  BY <1>1, <1>2, <1>3, SessionKeeps DEF Next

\* The invariant holds throughout.
LEMMA Invariant == Spec => []IInv
BY InitIInv, NextKeeps, PTL DEF Spec

-----------------------------------------------------------------------------
(* The theorems. *)

\* Slots and session contexts are always well typed; timers stay within bounds.
THEOREM TypeCorrect == Spec => []TypeOK
<1>1. IInv => TypeOK
  BY DEF IInv, TypeOK
<1> QED
  BY <1>1, Invariant, PTL

\* Whatever is evicted and revised while sessions come and go, the lists of the
\* entries and the session contexts agree (route_track_tcp, route_untrack_tcp,
\* route_cache_unlink_active, route_mark_stale and finalize together).
THEOREM ListsAgree == Spec => []TrackingConsistent
<1>1. IInv => TrackingConsistent
  BY DEF IInv, TrackingConsistent, Good
<1> QED
  BY <1>1, Invariant, PTL

\* `route_drain fast` closes no relay that has moved a byte within the drain time
\* or has one in a buffer, for any number of relays, evictions and revisions.
THEOREM DrainIsSafe == Spec => DrainSparesActive
<1>1. IInv /\ [Next]_drainVars =>
        [\A c \in Conns :
           conn'[c].closedBy = "drain" /\ conn[c].closedBy # "drain"
              => ~conn[c].busy /\ conn[c].silence >= Drain]_drainVars
  BY NextKeeps DEF SparesAll, Spares
<1> QED
  BY <1>1, Invariant, PTL DEF Spec, DrainSparesActive
=============================================================================
