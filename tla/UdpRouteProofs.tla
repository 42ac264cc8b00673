--------------------------- MODULE UdpRouteProofs ---------------------------
(***************************************************************************)
(* Proofs about the UDP relay, in two halves that share nothing.           *)
(*                                                                         *)
(* UdpRoute, for any outbounds and rules, any targets and slots, every     *)
(* configuration of a session and any number of datagrams.  The invariant  *)
(* has two parts that do not meet: Flow says of a context what its         *)
(* association, its waiting datagram and its outbound have to do with each *)
(* other; Agree says of its mappings and the cache that they route alike.  *)
(* There is one lemma per operator of UdpRoute, in the order in which they *)
(* call one another, and the actions follow from them.                     *)
(*                                                                         *)
(* UdpReply, for any sockets, any room in the client's connection and any  *)
(* number of replies: one place for a frame set aside is enough, and what  *)
(* the client gets is what was read, in that order.                        *)
(***************************************************************************)
EXTENDS UdpRoute, UdpReply, SequenceTheorems, TLAPS

-----------------------------------------------------------------------------
(* The invariant of a context x under configuration c. *)

\* A handshake is on its way.
Connecting(x) == x.server # NoOutbound /\ ~x.ready

\* The connect timer runs only during one.
TimerFlow(x) == x.timer => Connecting(x)

\* A waiting datagram waits for the association that is being set up, which its
\* route allows.
PendingFlow(c, x) ==
    x.pending # None =>
        /\ x.pending.route = x.server
        /\ x.server \in c.socks5 /\ x.server \notin c.blocked

\* Names are resolved in the background only with the nginx resolver, and for
\* sending only on a direct route.
RequestFlow(c, x) ==
    x.request # None =>
        /\ c.nginx
        /\ x.request.kind = "udp" =>
               x.request.route \notin c.socks5 /\ x.request.route \notin c.blocked

\* The association is named after its server: already when the name is taken from
\* the context's outbound, which other datagrams may have changed in the meantime.
AssocFlow(c, x) ==
    /\ x.leaked = 0 /\ x.sock /\ x.assoc \in c.socks5 => x.assoc = x.server
    /\ Connecting(x) /\ x.outbound \in c.socks5 => x.outbound = x.server

\* SentByRoute of x.
SentFlow(c, x) ==
    x.sent # None /\ x.leaked = 0 =>
        /\ x.sent.route \notin c.blocked
        /\ x.sent.via = IF x.sent.route \in c.socks5 THEN x.sent.route ELSE NoOutbound

\* A Trojan session does one thing at a time: it reads nothing during a handshake,
\* and its server is always known by its name afterwards.
TrojanFlow(c, x) ==
    /\ c.local => x.unwind = None
    /\ ~c.local =>
        /\ x.leaked = 0
        /\ x.request # None => x.state = "resolving"
        /\ x.state # "handshake" =>
               /\ x.pending = None
               /\ x.server # NoOutbound => x.ready /\ x.assoc # NoOutbound
        /\ x.state = "handshake" =>
               /\ Connecting(x) /\ x.outbound = x.server
               /\ x.unwind # None => x.pending # None

\* The session's own outbound is in place, or kept for a waiting datagram.
OwnFlow(c, x) ==
    ~c.local /\ ~c.nginx /\ c.own # NoOutbound =>
        /\ x.unwind = None
        /\ x.state # "closed" /\ x.pending = None => x.outbound = c.own
        /\ x.pending # None => x.restore = c.own

Flow(c, x) ==
    /\ x \in Context /\ Len(x.in) <= MaxQueue
    /\ TimerFlow(x) /\ PendingFlow(c, x) /\ RequestFlow(c, x) /\ AssocFlow(c, x)
    /\ SentFlow(c, x) /\ TrojanFlow(c, x) /\ OwnFlow(c, x)

-----------------------------------------------------------------------------
(* The invariant of mappings and slots. *)

\* A decision is cached with the outbound it names.
SlotsDecided(slots) ==
    /\ slots \in [Slots -> SlotContent]
    /\ \A k \in Slots : slots[k].target # None => slots[k].outbound \in OutboundIds

\* MappingsAgree of these slots and mappings.
Agree(slots, maps) ==
    \A m \in maps :
        /\ m.linked => m.entry \in Slots /\ slots[m.entry].target = m.target
        /\ m.linked /\ ~m.stale => slots[m.entry].outbound = m.outbound
        /\ \A n \in maps : n.target = m.target => n = m

UdpInv ==
    /\ conf \in Configs /\ SlotsDecided(slot) /\ Flow(conf, ctx)
    /\ ~conf.atOnce => Agree(slot, ctx.maps)
-----------------------------------------------------------------------------
(* The changes that the operators of UdpRoute make to a context, field by  *)
(* field.                                                                  *)

States == {"service", "resolving", "handshake", "closed"}

SameConn(y, x) ==
    /\ y.server = x.server /\ y.ready = x.ready /\ y.timer = x.timer
    /\ y.sock = x.sock /\ y.assoc = x.assoc /\ y.leaked = x.leaked

SameOut(y, x) ==
    /\ y.outbound = x.outbound /\ y.restore = x.restore

SameWait(y, x) ==
    /\ y.pending = x.pending /\ y.request = x.request /\ y.unwind = x.unwind

SameRest(y, x) ==
    /\ y.state = x.state /\ y.in = x.in /\ y.sent = x.sent
    /\ y.maps = x.maps /\ y.closedBy = x.closedBy

\* The last step's datagram is forgotten.
LEMMA NowFields ==
    ASSUME NEW x \in Context
    PROVE  LET y == [x EXCEPT !.sent = None]
           IN  /\ y \in Context
               /\ y.sent = None
               /\ y.state = x.state /\ y.in = x.in /\ y.maps = x.maps
               /\ y.closedBy = x.closedBy
               /\ SameConn(y, x) /\ SameOut(y, x) /\ SameWait(y, x)
  BY Zenon DEF Context, SameConn, SameOut, SameWait

\* A datagram goes out.
LEMMA SentFields ==
    ASSUME NEW x \in Context,
           NEW sent \in [target : Targets, route : MaybeOutbound, intact : BOOLEAN,
                         via : MaybeOutbound]
    PROVE  LET y == [x EXCEPT !.sent = sent]
           IN  /\ y \in Context
               /\ y.sent = sent
               /\ y.state = x.state /\ y.in = x.in /\ y.maps = x.maps
               /\ y.closedBy = x.closedBy
               /\ SameConn(y, x) /\ SameOut(y, x) /\ SameWait(y, x)
  BY Zenon DEF Context, SameConn, SameOut, SameWait

LEMMA DirectFields ==
    ASSUME NEW x \in Context,
           NEW direct \in BOOLEAN
    PROVE  LET y == [x EXCEPT !.direct = direct]
           IN  /\ y \in Context
               /\ SameConn(y, x) /\ SameOut(y, x) /\ SameWait(y, x)
               /\ SameRest(y, x)
  BY Zenon DEF Context, SameConn, SameOut, SameWait, SameRest

\* The outbound of the context and what is to be restored.
LEMMA RestoredFields ==
    ASSUME NEW x \in Context
    PROVE  LET y == Restored(x)
           IN  /\ y \in Context
               /\ y.restore = NoOutbound
               /\ y.outbound = x.outbound
               /\ SameConn(y, x) /\ SameWait(y, x) /\ SameRest(y, x)
<1>1. NoOutbound \in MaybeOutbound
  BY UdpAssumption DEF MaybeOutbound
<1>2. QED
  BY <1>1, Zenon DEF Context, SameConn, SameWait, SameRest, Restored

LEMMA SwappedFields ==
    ASSUME NEW x \in Context,
           NEW o \in MaybeOutbound
    PROVE  LET y == Swapped(x, o)
           IN  /\ y \in Context
               /\ y.outbound = o /\ y.restore = x.outbound
               /\ SameConn(y, x) /\ SameWait(y, x) /\ SameRest(y, x)
  BY Zenon DEF Context, SameConn, SameWait, SameRest, Swapped

\* What is going on.
LEMMA StateFields ==
    ASSUME NEW x \in Context,
           NEW state \in States
    PROVE  LET y == [x EXCEPT !.state = state]
           IN  /\ y \in Context
               /\ y.state = state
               /\ y.in = x.in /\ y.sent = x.sent /\ y.maps = x.maps
               /\ y.closedBy = x.closedBy
               /\ SameConn(y, x) /\ SameOut(y, x) /\ SameWait(y, x)
  BY Zenon DEF Context, SameConn, SameOut, SameWait, States

LEMMA WaitingFields ==
    ASSUME NEW x \in Context,
           NEW kind \in {"route", "udp"},
           NEW t \in Targets,
           NEW o \in MaybeOutbound
    PROVE  LET y == Waiting(x, kind, t, o)
           IN  /\ y \in Context
               /\ y.state = "resolving"
               /\ y.request = [kind |-> kind, target |-> t, route |-> o]
               /\ y.pending = x.pending /\ y.unwind = x.unwind
               /\ y.in = x.in /\ y.sent = x.sent /\ y.maps = x.maps
               /\ y.closedBy = x.closedBy
               /\ SameConn(y, x) /\ SameOut(y, x)
<1>1. "resolving" \in {"service", "resolving", "handshake", "closed"}
  BY UdpAssumption DEF MaybeOutbound
<1>2. QED
  BY <1>1, Zenon DEF Context, SameConn, SameOut, Waiting

LEMMA PendingFields ==
    ASSUME NEW x \in Context,
           NEW waiting \in Datagram \cup {None}
    PROVE  LET y == [x EXCEPT !.pending = waiting]
           IN  /\ y \in Context
               /\ y.pending = waiting
               /\ y.request = x.request /\ y.unwind = x.unwind
               /\ SameConn(y, x) /\ SameOut(y, x) /\ SameRest(y, x)
  BY Zenon DEF Context, SameConn, SameOut, SameRest

LEMMA UnwindFields ==
    ASSUME NEW x \in Context,
           NEW unwind \in MaybeOutbound \cup {None}
    PROVE  LET y == [x EXCEPT !.unwind = unwind]
           IN  /\ y \in Context
               /\ y.unwind = unwind
               /\ y.pending = x.pending /\ y.request = x.request
               /\ SameConn(y, x) /\ SameOut(y, x) /\ SameRest(y, x)
  BY Zenon DEF Context, SameConn, SameOut, SameRest

Nested(x, unwind) == [x EXCEPT !.state = "service", !.unwind = unwind]

LEMMA NestedFields ==
    ASSUME NEW x \in Context,
           NEW unwind \in MaybeOutbound \cup {None}
    PROVE  LET y == Nested(x, unwind)
           IN  /\ y \in Context
               /\ y.state = "service" /\ y.unwind = unwind
               /\ y.pending = x.pending /\ y.request = x.request
               /\ y.in = x.in /\ y.sent = x.sent /\ y.maps = x.maps
               /\ y.closedBy = x.closedBy
               /\ SameConn(y, x) /\ SameOut(y, x)
<1>1. "service" \in {"service", "resolving", "handshake", "closed"}
  OBVIOUS
<1>2. QED
  BY <1>1, Zenon DEF Nested, Context, SameConn, SameOut

LEMMA UnwoundFields ==
    ASSUME NEW x \in Context,
           NEW o \in MaybeOutbound
    PROVE  LET y == [x EXCEPT !.outbound = o, !.restore = NoOutbound, !.unwind = None]
           IN  /\ y \in Context
               /\ y.outbound = o /\ y.restore = NoOutbound
               /\ y.unwind = None
               /\ y.pending = x.pending /\ y.request = x.request
               /\ SameConn(y, x) /\ SameRest(y, x)
<1>1. NoOutbound \in MaybeOutbound
  BY UdpAssumption DEF MaybeOutbound
<1>2. QED
  BY <1>1, Zenon DEF Context, SameConn, SameRest

\* An association is set up, and done.
Started(x, o, leaked) ==
    [x EXCEPT !.state = "handshake", !.server = o, !.ready = FALSE,
              !.timer = TRUE, !.sock = FALSE, !.assoc = NoOutbound,
              !.leaked = leaked]

Named(x) ==
    [x EXCEPT !.state = "service", !.ready = TRUE, !.timer = FALSE,
              !.sock = TRUE, !.assoc = x.outbound]

LEMMA StartedFields ==
    ASSUME NEW x \in Context, NEW o \in MaybeOutbound, NEW leaked \in 0 .. MaxLeaked
    PROVE  LET y == Started(x, o, leaked)
           IN  /\ y \in Context
               /\ y.state = "handshake" /\ y.server = o /\ ~y.ready
               /\ y.timer /\ ~y.sock /\ y.assoc = NoOutbound
               /\ y.leaked = leaked
               /\ y.in = x.in /\ y.sent = x.sent /\ y.maps = x.maps
               /\ y.closedBy = x.closedBy
               /\ SameOut(y, x) /\ SameWait(y, x)
<1>1. NoOutbound \in MaybeOutbound /\ TRUE \in BOOLEAN /\ FALSE \in BOOLEAN
      /\ "handshake" \in {"service", "resolving", "handshake", "closed"}
  BY UdpAssumption DEF MaybeOutbound
<1>2. QED
  BY <1>1, Zenon DEF Started, Context, SameOut, SameWait

LEMMA NamedFields ==
    ASSUME NEW x \in Context
    PROVE  LET y == Named(x)
           IN  /\ y \in Context
               /\ y.state = "service" /\ y.ready /\ ~y.timer
               /\ y.sock /\ y.assoc = x.outbound
               /\ y.server = x.server /\ y.leaked = x.leaked /\ y.in = x.in
               /\ y.sent = x.sent /\ y.maps = x.maps
               /\ y.closedBy = x.closedBy
               /\ SameOut(y, x) /\ SameWait(y, x)
<1>1. TRUE \in BOOLEAN /\ FALSE \in BOOLEAN
      /\ "service" \in {"service", "resolving", "handshake", "closed"}
  BY UdpAssumption DEF MaybeOutbound
<1>2. QED
  BY <1>1, Zenon DEF Named, Context, SameOut, SameWait

LEMMA ReleasedFields ==
    ASSUME NEW x \in Context,
           NEW o \in MaybeOutbound
    PROVE  LET y == [x EXCEPT !.pending = None, !.restore = NoOutbound, !.outbound = o]
           IN  /\ y \in Context
               /\ y.outbound = o /\ y.restore = NoOutbound
               /\ y.pending = None
               /\ y.request = x.request /\ y.unwind = x.unwind
               /\ SameConn(y, x) /\ SameRest(y, x)
<1>1. NoOutbound \in MaybeOutbound
  BY UdpAssumption DEF MaybeOutbound
<1>2. QED
  BY <1>1, Zenon DEF Context, SameConn, SameRest

\* What the client sends, and the mappings.
LEMMA InFields ==
    ASSUME NEW x \in Context,
           NEW in \in Seq(Targets)
    PROVE  LET y == [x EXCEPT !.in = in]
           IN  /\ y \in Context
               /\ y.in = in
               /\ y.state = x.state /\ y.sent = x.sent /\ y.maps = x.maps
               /\ y.closedBy = x.closedBy
               /\ SameConn(y, x) /\ SameOut(y, x) /\ SameWait(y, x)
  BY Zenon DEF Context, SameConn, SameOut, SameWait

LEMMA MapsFields ==
    ASSUME NEW x \in Context,
           NEW maps \in SUBSET Mapping
    PROVE  LET y == [x EXCEPT !.maps = maps]
           IN  /\ y \in Context
               /\ y.maps = maps
               /\ y.state = x.state /\ y.in = x.in /\ y.sent = x.sent
               /\ y.closedBy = x.closedBy
               /\ SameConn(y, x) /\ SameOut(y, x) /\ SameWait(y, x)
  BY Zenon DEF Context, SameConn, SameOut, SameWait

ReadOff(x, in, maps) == [x EXCEPT !.in = in, !.maps = maps]

LEMMA TakenFields ==
    ASSUME NEW x \in Context,
           NEW in \in Seq(Targets),
           NEW maps \in SUBSET Mapping
    PROVE  LET y == ReadOff(x, in, maps)
           IN  /\ y \in Context
               /\ y.in = in /\ y.maps = maps
               /\ y.state = x.state /\ y.sent = x.sent
               /\ y.closedBy = x.closedBy
               /\ SameConn(y, x) /\ SameOut(y, x) /\ SameWait(y, x)
  BY Zenon DEF ReadOff, Context, SameConn, SameOut, SameWait

\* A name has been resolved.
LEMMA AnswerFields ==
    ASSUME NEW x \in Context
    PROVE  LET y == [x EXCEPT !.request = None]
           IN  /\ y \in Context
               /\ y.request = None
               /\ y.pending = x.pending /\ y.unwind = x.unwind
               /\ SameConn(y, x) /\ SameOut(y, x) /\ SameRest(y, x)
  BY Zenon DEF Context, SameConn, SameOut, SameRest

Served(x) == [x EXCEPT !.request = None, !.state = "service"]

LEMMA ServedFields ==
    ASSUME NEW x \in Context
    PROVE  LET y == Served(x)
           IN  /\ y \in Context
               /\ y.state = "service" /\ y.request = None
               /\ y.pending = x.pending /\ y.unwind = x.unwind
               /\ y.in = x.in /\ y.sent = x.sent /\ y.maps = x.maps
               /\ y.closedBy = x.closedBy
               /\ SameConn(y, x) /\ SameOut(y, x)
<1>1. "service" \in {"service", "resolving", "handshake", "closed"}
  BY UdpAssumption DEF MaybeOutbound
<1>2. QED
  BY <1>1, Zenon DEF Served, Context, SameConn, SameOut
-----------------------------------------------------------------------------
(* Each of those changes keeps the flow. *)

\* What becomes of the mappings and of the session on the way from x to y.
Way(x, y) ==
    /\ y.maps = x.maps \/ y.maps = {}
    /\ y.closedBy = x.closedBy \/ y.closedBy = "end"

Kept(x, ys) == \A y \in ys : Flow(conf, y) /\ Way(x, y)

LEMMA KeptTwice ==
    ASSUME NEW x, NEW z, NEW ys, Way(x, z), Kept(z, ys)
    PROVE  Kept(x, ys)
  BY DEF Kept, Way

LEMMA Ids ==
    /\ NoOutbound \notin OutboundIds /\ NoOutbound \in MaybeOutbound
    /\ \A o \in OutboundIds : o \in MaybeOutbound
  BY DEF NoOutbound, OutboundIds, MaybeOutbound

LEMMA ConfigTyped ==
    ASSUME NEW c \in Configs
    PROVE  /\ c.own \in MaybeOutbound /\ c.own \notin c.blocked
           /\ c.socks5 \subseteq OutboundIds /\ c.blocked \subseteq OutboundIds
           /\ NoOutbound \notin c.socks5 /\ NoOutbound \notin c.blocked
           /\ c.local \in BOOLEAN /\ c.nginx \in BOOLEAN
<1>1. c \in Config
  BY UdpAssumption
<1>2. /\ c.own \in MaybeOutbound
      /\ c.socks5 \subseteq OutboundIds /\ c.blocked \subseteq OutboundIds
      /\ c.local \in BOOLEAN /\ c.nginx \in BOOLEAN
  BY <1>1 DEF Config
<1>3. c.own \notin c.blocked
  BY UdpAssumption
<1>4. QED
  BY <1>2, <1>3, Ids

\* A new context, for the start and the end of a session.
LEMMA NewFields ==
    ASSUME conf \in Configs
    PROVE  /\ NewContext \in Context
           /\ NewContext.state = "service" /\ NewContext.in = <<>>
           /\ NewContext.outbound = conf.own /\ NewContext.restore = NoOutbound
           /\ NewContext.pending = None /\ NewContext.request = None
           /\ NewContext.server = NoOutbound /\ NewContext.ready = FALSE
           /\ NewContext.timer = FALSE /\ NewContext.sock = FALSE
           /\ NewContext.assoc = NoOutbound /\ NewContext.leaked = 0
           /\ NewContext.maps = {} /\ NewContext.unwind = None
           /\ NewContext.sent = None /\ NewContext.closedBy = "none"
<1>1. /\ conf.own \in MaybeOutbound /\ NoOutbound \in MaybeOutbound
      /\ 0 \in 0 .. MaxLeaked
  BY ConfigTyped, Ids, UdpAssumption
<1>2. <<>> \in Seq(Targets) /\ {} \in SUBSET Mapping
  BY EmptySeq
<1>3. /\ "service" \in {"service", "resolving", "handshake", "closed"}
      /\ "none" \in {"none", "connect", "end"} /\ FALSE \in BOOLEAN
  OBVIOUS
<1>4. QED
  BY <1>1, <1>2, <1>3, Zenon DEF NewContext, Context

LEMMA ClosedFields ==
    ASSUME NEW x \in Context, NEW why \in {"connect", "end"}
    PROVE  LET y == [x EXCEPT !.state = "closed", !.closedBy = why]
           IN  /\ y \in Context /\ y.state = "closed" /\ y.closedBy = why
               /\ y.in = x.in /\ y.sent = x.sent /\ y.maps = x.maps
               /\ SameConn(y, x) /\ SameOut(y, x) /\ SameWait(y, x)
<1>1. /\ "closed" \in {"service", "resolving", "handshake", "closed"}
      /\ why \in {"none", "connect", "end"}
  OBVIOUS
<1>2. QED
  BY <1>1, Zenon DEF Context, SameConn, SameOut, SameWait

LEMMA NewFlow == conf \in Configs => Flow(conf, NewContext)
<1> SUFFICES ASSUME conf \in Configs PROVE Flow(conf, NewContext)
  OBVIOUS
<1>1. PICK y : y = NewContext
  OBVIOUS
<1>2. /\ y \in Context /\ y.state = "service" /\ y.in = <<>> /\ y.outbound = conf.own
      /\ y.pending = None /\ y.request = None /\ y.server = NoOutbound
      /\ ~y.timer /\ ~y.sock /\ y.leaked = 0 /\ y.unwind = None
      /\ y.sent = None
  BY <1>1, NewFields
<1>3. Len(<<>>) <= MaxQueue
  BY UdpAssumption, EmptySeq
<1>4. Flow(conf, y)
  BY <1>2, <1>3 DEF Flow, Connecting, TimerFlow, PendingFlow, RequestFlow, AssocFlow,
                    SentFlow, TrojanFlow, OwnFlow
<1>5. QED
  BY <1>1, <1>4

LEMMA FinalizeFlow ==
    ASSUME conf \in Configs, NEW x, NEW why \in {"connect", "end"}
    PROVE  /\ Flow(conf, Finalize(x, why))
           /\ Finalize(x, why).maps = {} /\ Finalize(x, why).closedBy = why
<1>1. PICK z : z = NewContext
  OBVIOUS
<1>2. PICK y : y = [z EXCEPT !.state = "closed", !.closedBy = why]
  OBVIOUS
<1>3. /\ z \in Context /\ Flow(conf, z) /\ z.server = NoOutbound
      /\ z.pending = None /\ z.request = None
      /\ z.unwind = None /\ z.maps = {} /\ z.leaked = 0
  BY <1>1, NewFields, NewFlow
<1>4. /\ y \in Context /\ y.state = "closed" /\ y.closedBy = why
      /\ y.in = z.in /\ y.sent = z.sent /\ y.maps = z.maps
      /\ SameConn(y, z) /\ SameOut(y, z) /\ SameWait(y, z)
  BY <1>2, <1>3, ClosedFields
<1>5. Flow(conf, y)
  BY <1>3, <1>4 DEF Flow, Connecting, TimerFlow, PendingFlow, RequestFlow, AssocFlow,
                    SentFlow, TrojanFlow, OwnFlow, SameConn, SameOut, SameWait
<1>6. QED
  BY <1>1, <1>2, <1>3, <1>4, <1>5 DEF Finalize

LEMMA FinalizeWay ==
    ASSUME conf \in Configs, NEW x, NEW z
    PROVE  Flow(conf, Finalize(x, "end")) /\ Way(z, Finalize(x, "end"))
  BY FinalizeFlow DEF Way

LEMMA NowFlow ==
    ASSUME NEW x, Flow(conf, x)
    PROVE  LET y == [x EXCEPT !.sent = None]
           IN  Flow(conf, y) /\ Way(x, y) /\ y.sent = None
<1>1. PICK y : y = [x EXCEPT !.sent = None]
  OBVIOUS
<1>2. /\ y \in Context /\ y.sent = None
      /\ y.state = x.state /\ y.in = x.in /\ y.maps = x.maps
      /\ y.closedBy = x.closedBy
      /\ SameConn(y, x) /\ SameOut(y, x) /\ SameWait(y, x)
  BY <1>1, NowFields DEF Flow
<1>3. Flow(conf, y)
  BY <1>2 DEF Flow, Connecting, TimerFlow, PendingFlow, RequestFlow, AssocFlow,
              SentFlow, TrojanFlow, OwnFlow, SameConn, SameOut, SameWait
<1>4. QED
  BY <1>1, <1>2, <1>3 DEF Way

\* A context in another state: while something else is done, and afterwards.
LEMMA StateFlow ==
    ASSUME NEW x, Flow(conf, x), NEW state \in {"service", "resolving"},
           x.state # "closed",
           ~conf.local => x.state # "handshake" /\ x.request = None
    PROVE  LET y == [x EXCEPT !.state = state]
           IN  /\ Flow(conf, y) /\ Way(x, y) /\ y.state = state
               /\ y.in = x.in /\ y.sent = x.sent
               /\ SameConn(y, x) /\ SameOut(y, x) /\ SameWait(y, x)
<1>1. PICK y : y = [x EXCEPT !.state = state]
  OBVIOUS
<1>2. state \in States
  BY DEF States
<1>3. /\ y \in Context /\ y.state = state
      /\ y.in = x.in /\ y.sent = x.sent /\ y.maps = x.maps
      /\ y.closedBy = x.closedBy
      /\ SameConn(y, x) /\ SameOut(y, x) /\ SameWait(y, x)
  BY <1>1, <1>2, StateFields DEF Flow
<1>4. Flow(conf, y)
  BY <1>3 DEF Flow, Connecting, TimerFlow, PendingFlow, RequestFlow, AssocFlow,
              SentFlow, TrojanFlow, OwnFlow, SameConn, SameOut, SameWait
<1>5. QED
  BY <1>1, <1>3, <1>4 DEF Way

LEMMA RestoredFlow ==
    ASSUME NEW x, Flow(conf, x), ~conf.local => x.pending = None
    PROVE  /\ Flow(conf, Restored(x)) /\ Way(x, Restored(x))
           /\ SameConn(Restored(x), x) /\ SameWait(Restored(x), x)
           /\ SameRest(Restored(x), x)
<1>1. PICK y : y = Restored(x)
  OBVIOUS
<1>2. /\ y \in Context /\ y.outbound = x.outbound
      /\ SameConn(y, x) /\ SameWait(y, x) /\ SameRest(y, x)
  BY <1>1, RestoredFields DEF Flow
<1>3. Flow(conf, y)
  BY <1>2 DEF Flow, Connecting, TimerFlow, PendingFlow, RequestFlow, AssocFlow,
              SentFlow, TrojanFlow, OwnFlow, SameConn, SameWait, SameRest
<1>4. QED
  BY <1>1, <1>2, <1>3 DEF Way, SameRest

\* The outbound is swapped for one without a server, with the nginx resolver only.
LEMMA SwappedFlow ==
    ASSUME NEW x, Flow(conf, x), conf.nginx, NEW o \in MaybeOutbound, o \notin conf.socks5,
           ~conf.local => x.state # "handshake"
    PROVE  /\ Flow(conf, Swapped(x, o)) /\ Way(x, Swapped(x, o))
           /\ SameConn(Swapped(x, o), x) /\ SameWait(Swapped(x, o), x)
           /\ SameRest(Swapped(x, o), x)
<1>1. PICK y : y = Swapped(x, o)
  OBVIOUS
<1>2. /\ y \in Context /\ y.outbound = o
      /\ SameConn(y, x) /\ SameWait(y, x) /\ SameRest(y, x)
  BY <1>1, SwappedFields DEF Flow
<1>3. Flow(conf, y)
  BY <1>2 DEF Flow, Connecting, TimerFlow, PendingFlow, RequestFlow, AssocFlow,
              SentFlow, TrojanFlow, OwnFlow, SameConn, SameWait, SameRest
<1>4. QED
  BY <1>1, <1>2, <1>3 DEF Way, SameRest

-----------------------------------------------------------------------------
(* Sending. *)

\* A datagram goes out over the association its route calls for.
LEMMA SendtoOfFlow ==
    ASSUME NEW x, Flow(conf, x), NEW dgram \in Datagram, NEW via \in MaybeOutbound,
           x.leaked = 0 =>
               /\ dgram.route \notin conf.blocked
               /\ via = IF dgram.route \in conf.socks5 THEN dgram.route ELSE NoOutbound
    PROVE  Kept(x, SendtoOf(x, dgram, via))
<1>1. PICK z : z = [x EXCEPT !.direct = x.direct \/ via = NoOutbound]
  OBVIOUS
<1>2. (x.direct \/ via = NoOutbound) \in BOOLEAN
  OBVIOUS
<1>3. /\ z \in Context
      /\ SameConn(z, x) /\ SameOut(z, x) /\ SameWait(z, x) /\ SameRest(z, x)
  BY <1>1, <1>2, DirectFields, Zenon DEF Flow
<1>4. Flow(conf, z) /\ Way(x, z)
  BY <1>3 DEF Flow, Connecting, TimerFlow, PendingFlow, RequestFlow, AssocFlow,
              SentFlow, TrojanFlow, OwnFlow, SameConn, SameOut, SameWait, SameRest, Way
<1>5. PICK sent : sent = [target |-> dgram.target, route |-> dgram.route,
                          intact |-> dgram.intact, via |-> via]
  OBVIOUS
<1>6. /\ sent \in [target : Targets, route : MaybeOutbound, intact : BOOLEAN,
                   via : MaybeOutbound]
      /\ sent.route = dgram.route /\ sent.via = via
  BY <1>5 DEF Datagram
<1>7. PICK y : y = [z EXCEPT !.sent = sent]
  OBVIOUS
<1>8. /\ y \in Context /\ y.sent = sent
      /\ y.state = z.state /\ y.in = z.in /\ y.maps = z.maps
      /\ y.closedBy = z.closedBy
      /\ SameConn(y, z) /\ SameOut(y, z) /\ SameWait(y, z)
  BY <1>3, <1>6, <1>7, SentFields
<1>9. Flow(conf, y) /\ Way(x, y)
  <2>1. SentFlow(conf, y)
    BY <1>3, <1>6, <1>8 DEF SentFlow, SameConn
  <2>2. QED
    BY <1>4, <1>8, <2>1 DEF Flow, Connecting, TimerFlow, PendingFlow, RequestFlow,
        AssocFlow, TrojanFlow, OwnFlow, SameConn, SameOut, SameWait, Way
<1>10. SendtoOf(x, dgram, via) = {y, z}
  BY <1>1, <1>5, <1>7 DEF SendtoOf
<1>11. QED
  BY <1>4, <1>9, <1>10 DEF Kept

LEMMA SendtoFlow ==
    ASSUME NEW x, Flow(conf, x), NEW t \in Targets, NEW o \in MaybeOutbound,
           NEW via \in MaybeOutbound,
           x.leaked = 0 =>
               /\ o \notin conf.blocked
               /\ via = IF o \in conf.socks5 THEN o ELSE NoOutbound
    PROVE  Kept(x, Sendto(x, t, o, via))
<1>1. PICK dgram : dgram = [target |-> t, route |-> o, intact |-> TRUE]
  OBVIOUS
<1>2. dgram \in Datagram /\ dgram.route = o
  BY <1>1 DEF Datagram
<1>3. Kept(x, SendtoOf(x, dgram, via))
  BY <1>2, SendtoOfFlow
<1>4. QED
  BY <1>1, <1>3 DEF Sendto

LEMMA SendFailsFlow ==
    ASSUME conf \in Configs, NEW x, conf.local => Flow(conf, x)
    PROVE  Kept(x, SendFails(x))
<1>1. Flow(conf, Finalize(x, "end")) /\ Way(x, Finalize(x, "end"))
  BY FinalizeWay
<1>2. Way(x, x)
  BY DEF Way
<1>3. QED
  BY <1>1, <1>2 DEF SendFails, Kept

LEMMA StartSocks5UdpFields ==
    ASSUME NEW x \in Context, NEW o \in MaybeOutbound,
           x.leaked < MaxLeaked \/ x.server = NoOutbound,
           NEW y \in StartSocks5Udp(x, o), y # Finalize(x, "end")
    PROVE  /\ y \in Context
           /\ y.state = "handshake" /\ y.server = o /\ ~y.ready
           /\ y.timer /\ ~y.sock /\ y.assoc = NoOutbound
           /\ y.leaked = 0 => x.leaked = 0
           /\ x.leaked = 0 /\ (x.server # NoOutbound => x.assoc # NoOutbound)
                => y.leaked = 0
           /\ y.in = x.in /\ y.sent = x.sent /\ y.maps = x.maps
           /\ y.closedBy = x.closedBy
           /\ SameOut(y, x) /\ SameWait(y, x)
<1>1. PICK leaked : leaked = IF x.server # NoOutbound /\ x.assoc = NoOutbound
                             THEN x.leaked + 1 ELSE x.leaked
  OBVIOUS
<1>2. x.leaked \in 0 .. MaxLeaked /\ MaxLeaked \in Nat
  BY UdpAssumption DEF Context
<1>3. leaked \in 0 .. MaxLeaked
  BY <1>1, <1>2
<1>4. /\ leaked = 0 => x.leaked = 0
      /\ x.leaked = 0 /\ (x.server # NoOutbound => x.assoc # NoOutbound) => leaked = 0
  BY <1>1, <1>2
<1>5. y = Started(x, o, leaked)
  BY <1>1, Zenon DEF StartSocks5Udp, Started
<1>6. /\ y \in Context
      /\ y.state = "handshake" /\ y.server = o /\ ~y.ready
      /\ y.timer /\ ~y.sock /\ y.assoc = NoOutbound
      /\ y.leaked = leaked
      /\ y.in = x.in /\ y.sent = x.sent /\ y.maps = x.maps
      /\ y.closedBy = x.closedBy
      /\ SameOut(y, x) /\ SameWait(y, x)
  BY <1>3, <1>5, StartedFields
<1>7. QED
  BY <1>4, <1>6

\* The server of an association is the outbound of the context, and a Trojan
\* session abandons no connection for it.
LEMMA StartSocks5UdpFlow ==
    ASSUME conf \in Configs, NEW x \in Context, Len(x.in) <= MaxQueue,
           NEW o \in conf.socks5, x.outbound = o,
           x.pending # None => x.pending.route = o /\ o \notin conf.blocked,
           x.leaked < MaxLeaked \/ x.server = NoOutbound,
           RequestFlow(conf, x), SentFlow(conf, x),
           conf.local => x.unwind = None,
           ~conf.local =>
               /\ x.leaked = 0 /\ x.request = None
               /\ x.server # NoOutbound => x.assoc # NoOutbound
               /\ x.unwind # None => x.pending # None,
           ~conf.local /\ ~conf.nginx /\ conf.own # NoOutbound =>
               /\ x.unwind = None
               /\ x.pending = None => o = conf.own
               /\ x.pending # None => x.restore = conf.own
    PROVE  Kept(x, StartSocks5Udp(x, o))
<1>1. o \in MaybeOutbound /\ o # NoOutbound
  BY ConfigTyped, Ids
<1>2. SUFFICES ASSUME NEW y \in StartSocks5Udp(x, o), y # Finalize(x, "end")
               PROVE  Flow(conf, y) /\ Way(x, y)
  BY FinalizeWay DEF Kept
<1>3. /\ y \in Context
      /\ y.state = "handshake" /\ y.server = o /\ ~y.ready
      /\ y.timer /\ ~y.sock /\ y.assoc = NoOutbound
      /\ y.leaked = 0 => x.leaked = 0
      /\ x.leaked = 0 /\ (x.server # NoOutbound => x.assoc # NoOutbound)
           => y.leaked = 0
      /\ y.in = x.in /\ y.sent = x.sent /\ y.maps = x.maps
      /\ y.closedBy = x.closedBy
      /\ SameOut(y, x) /\ SameWait(y, x)
  BY <1>1, <1>2, StartSocks5UdpFields
<1>4. TimerFlow(y) /\ PendingFlow(conf, y) /\ RequestFlow(conf, y)
  BY <1>1, <1>3 DEF Connecting, TimerFlow, PendingFlow, RequestFlow, SameWait
<1>5. AssocFlow(conf, y) /\ SentFlow(conf, y)
  BY <1>3 DEF Connecting, AssocFlow, SentFlow, SameOut
<1>6. TrojanFlow(conf, y)
  BY <1>1, <1>3 DEF Connecting, TrojanFlow, SameOut, SameWait
<1>7. OwnFlow(conf, y)
  BY <1>3 DEF OwnFlow, SameOut, SameWait
<1>8. QED
  BY <1>3, <1>4, <1>5, <1>6, <1>7 DEF Flow, Way

\* A datagram is kept while the association it calls for is set up.
LEMMA PendingStartFlow ==
    ASSUME conf \in Configs, NEW x, Flow(conf, x), x.leaked < MaxLeaked,
           x.state # "closed",
           ~conf.local => x.state # "handshake" /\ x.request = None,
           NEW t \in Targets, NEW o \in conf.socks5, o \notin conf.blocked
    PROVE  Kept(x, StartSocks5Udp([Swapped(x, o) EXCEPT
                       !.pending = [target |-> t, route |-> o, intact |-> TRUE]], o))
<1>1. PICK dgram : dgram = [target |-> t, route |-> o, intact |-> TRUE]
  OBVIOUS
<1>2. o \in MaybeOutbound
  BY ConfigTyped, Ids
<1>3. dgram \in Datagram /\ dgram.route = o /\ dgram # None
  <2>1. dgram \in Datagram /\ dgram.route = o
    BY <1>1, <1>2 DEF Datagram
  <2>2. QED
    BY <2>1, UdpAssumption
<1>4. PICK z : z = Swapped(x, o)
  OBVIOUS
<1>5. /\ z \in Context
      /\ z.outbound = o /\ z.restore = x.outbound
      /\ SameConn(z, x) /\ SameWait(z, x) /\ SameRest(z, x)
  BY <1>2, <1>4, SwappedFields DEF Flow
<1>6. PICK y : y = [z EXCEPT !.pending = dgram]
  OBVIOUS
<1>7. /\ y \in Context /\ y.pending = dgram
      /\ y.request = z.request /\ y.unwind = z.unwind
      /\ SameConn(y, z) /\ SameOut(y, z) /\ SameRest(y, z)
  BY <1>3, <1>5, <1>6, PendingFields
<1>8. Way(x, y)
  BY <1>5, <1>7 DEF Way, SameRest
<1>9. /\ Len(y.in) <= MaxQueue /\ y.leaked < MaxLeaked
      /\ RequestFlow(conf, y) /\ SentFlow(conf, y)
  BY <1>5, <1>7 DEF Flow, RequestFlow, SentFlow, SameConn, SameWait, SameRest
<1>10. conf.local => y.unwind = None
  BY <1>5, <1>7 DEF Flow, TrojanFlow, SameWait
<1>11. ~conf.local =>
         /\ y.leaked = 0 /\ y.request = None
         /\ y.server # NoOutbound => y.assoc # NoOutbound
         /\ y.unwind # None => y.pending # None
  BY <1>3, <1>5, <1>7 DEF Flow, TrojanFlow, SameConn, SameWait
<1>12. ~conf.local /\ ~conf.nginx /\ conf.own # NoOutbound =>
         y.unwind = None /\ y.restore = conf.own
  BY <1>5, <1>7 DEF Flow, TrojanFlow, OwnFlow, SameWait, SameOut
<1>13. y.outbound = o
  BY <1>5, <1>7 DEF SameOut
<1>14. Kept(y, StartSocks5Udp(y, o))
  BY <1>3, <1>7, <1>9, <1>10, <1>11, <1>12, <1>13, StartSocks5UdpFlow
<1>15. QED
  BY <1>1, <1>4, <1>6, <1>8, <1>14, KeptTwice

\* The name of a target is being resolved, with the nginx resolver.
LEMMA WaitingFlow ==
    ASSUME NEW x, Flow(conf, x), x.state # "closed", conf.nginx,
           NEW kind \in {"route", "udp"},
           NEW t \in Targets, NEW o \in MaybeOutbound,
           kind = "udp" => o \notin conf.socks5 /\ o \notin conf.blocked,
           ~conf.local => x.state # "handshake"
    PROVE  Flow(conf, Waiting(x, kind, t, o)) /\ Way(x, Waiting(x, kind, t, o))
<1>1. PICK y : y = Waiting(x, kind, t, o)
  OBVIOUS
<1>2. /\ y \in Context
      /\ y.state = "resolving"
      /\ y.request = [kind |-> kind, target |-> t, route |-> o]
      /\ y.pending = x.pending /\ y.unwind = x.unwind
      /\ y.in = x.in /\ y.sent = x.sent /\ y.maps = x.maps
      /\ y.closedBy = x.closedBy
      /\ SameConn(y, x) /\ SameOut(y, x)
  BY <1>1, WaitingFields DEF Flow
<1>3. RequestFlow(conf, y)
  BY <1>2 DEF RequestFlow
<1>4. Flow(conf, y)
  BY <1>2, <1>3 DEF Flow, Connecting, TimerFlow, PendingFlow, AssocFlow,
                    SentFlow, TrojanFlow, OwnFlow, SameConn, SameOut
<1>5. QED
  BY <1>1, <1>2, <1>4 DEF Way

\* A datagram can be sent: no handshake of a Trojan session is on its way.
Free(x) ==
    /\ x.state # "closed" /\ x.leaked < MaxLeaked
    /\ ~conf.local => x.state # "handshake" /\ x.request = None

LEMMA AfterAgainFlow ==
    ASSUME conf \in Configs, NEW x, Flow(conf, x), Free(x), conf.nginx,
           NEW o \in MaybeOutbound, o \notin conf.socks5
    PROVE  LET y == AfterAgain(x, o)
           IN  /\ Flow(conf, y) /\ Way(x, y)
               /\ SameConn(y, x) /\ SameWait(y, x) /\ SameRest(y, x)
<1>1. CASE x.pending = None
  BY <1>1, RestoredFlow DEF AfterAgain
<1>2. CASE x.pending # None
  BY <1>2, SwappedFlow DEF AfterAgain, Free
<1>3. QED
  BY <1>1, <1>2

\* The nested calls of a Trojan session: the outermost puts the outbound back.
LEMMA NestedFlow ==
    ASSUME NEW x, Flow(conf, x), x.state # "closed", x.state # "handshake",
           x.request = None, ~conf.local, conf.nginx,
           NEW unwind \in MaybeOutbound \cup {None}
    PROVE  LET y == Nested(x, unwind)
           IN  Flow(conf, y) /\ Way(x, y) /\ y.leaked = x.leaked
<1>1. PICK y : y = Nested(x, unwind)
  OBVIOUS
<1>2. x \in Context
  BY DEF Flow
<1>3. /\ y \in Context
      /\ y.state = "service" /\ y.unwind = unwind
      /\ y.pending = x.pending /\ y.request = x.request
      /\ y.in = x.in /\ y.sent = x.sent /\ y.maps = x.maps
      /\ y.closedBy = x.closedBy
      /\ SameConn(y, x) /\ SameOut(y, x)
  BY <1>1, <1>2, NestedFields
<1>4. Flow(conf, y)
  BY <1>3 DEF Flow, Connecting, TimerFlow, PendingFlow, RequestFlow, AssocFlow,
              SentFlow, TrojanFlow, OwnFlow, SameConn, SameOut
<1>5. QED
  BY <1>1, <1>3, <1>4 DEF Way, SameConn

LEMMA SentAtOnceFlow ==
    ASSUME conf \in Configs, NEW x, Flow(conf, x), Free(x), conf.nginx,
           NEW t \in Targets,
           NEW o \in MaybeOutbound, o \notin conf.socks5, o \notin conf.blocked
    PROVE  Kept(x, SentAtOnce(x, t, o))
<1>1. NoOutbound \in MaybeOutbound
  BY Ids
<1>2. CASE conf.local
  <2>1. PICK y : y = AfterAgain(x, o)
    OBVIOUS
  <2>2. /\ Flow(conf, y) /\ Way(x, y)
        /\ SameConn(y, x) /\ SameWait(y, x) /\ SameRest(y, x)
    BY <2>1, AfterAgainFlow
  <2>3. y.state # "closed"
    BY <2>2 DEF Free, SameRest
  <2>4. PICK z : z = [y EXCEPT !.state = "service"]
    OBVIOUS
  <2>5. Flow(conf, z) /\ Way(y, z)
    BY <1>2, <2>2, <2>3, <2>4, StateFlow
  <2>6. Kept(z, Sendto(z, t, o, NoOutbound))
    BY <1>1, <2>5, SendtoFlow
  <2>7. Kept(x, Sendto(z, t, o, NoOutbound))
    BY <2>2, <2>5, <2>6, KeptTwice
  <2>8. QED
    BY <1>2, <2>1, <2>4, <2>7 DEF SentAtOnce
<1>3. CASE ~conf.local
  <2>1. PICK y : y = Swapped(x, o)
    OBVIOUS
  <2>2. /\ Flow(conf, y) /\ Way(x, y)
        /\ SameConn(y, x) /\ SameWait(y, x) /\ SameRest(y, x)
    BY <2>1, SwappedFlow DEF Free
  <2>3. y.state # "closed" /\ y.state # "handshake" /\ y.request = None
    BY <1>3, <2>2 DEF Free, SameRest, SameWait
  <2>4. PICK unwind : unwind = IF x.unwind = None THEN x.outbound ELSE y.unwind
    OBVIOUS
  <2>5. x.outbound \in MaybeOutbound /\ y.unwind \in MaybeOutbound \cup {None}
    BY <2>2, Zenon DEF Flow, Context
  <2>6. unwind \in MaybeOutbound \cup {None}
    BY <2>4, <2>5
  <2>7. PICK z : z = Nested(y, unwind)
    OBVIOUS
  <2>8. Flow(conf, z) /\ Way(y, z)
    BY <1>3, <2>2, <2>3, <2>6, <2>7, NestedFlow
  <2>9. Kept(z, Sendto(z, t, o, NoOutbound))
    BY <1>1, <2>8, SendtoFlow
  <2>10. Kept(x, Sendto(z, t, o, NoOutbound))
    BY <2>2, <2>8, <2>9, KeptTwice
  <2>11. z = [y EXCEPT !.state = "service",
                       !.unwind = IF x.unwind = None THEN x.outbound ELSE @]
    BY <2>4, <2>7 DEF Nested
  <2>12. QED
    BY <1>3, <2>1, <2>10, <2>11 DEF SentAtOnce
<1>4. QED
  BY <1>2, <1>3

LEMMA ResolveAndSendFlow ==
    ASSUME conf \in Configs, NEW x, Flow(conf, x), Free(x), conf.nginx,
           NEW t \in Targets,
           NEW o \in MaybeOutbound, o \notin conf.socks5, o \notin conf.blocked
    PROVE  Kept(x, ResolveAndSend(x, t, o))
<1>1. PICK y : y = AfterAgain(x, o)
  OBVIOUS
<1>2. /\ Flow(conf, y) /\ Way(x, y)
      /\ SameConn(y, x) /\ SameWait(y, x) /\ SameRest(y, x)
  BY <1>1, AfterAgainFlow
<1>3. y.state # "closed" /\ (~conf.local => y.state # "handshake")
  BY <1>2 DEF Free, SameRest
<1>4. PICK w : w = Waiting(y, "udp", t, o)
  OBVIOUS
<1>5. Flow(conf, w) /\ Way(x, w)
  <2>1. Flow(conf, w) /\ Way(y, w)
    BY <1>2, <1>3, <1>4, WaitingFlow
  <2>2. QED
    BY <1>2, <2>1 DEF Way
<1>6. PICK r : r = Restored(x)
  OBVIOUS
<1>7. PICK z : z = [r EXCEPT !.state = "resolving"]
  OBVIOUS
<1>8. Kept(x, SendFails(z))
  <2>1. conf.local => Flow(conf, r) /\ Way(x, r) /\ r.state = x.state
    BY <1>6, RestoredFlow DEF SameRest
  <2>2. conf.local => Flow(conf, z) /\ Way(r, z)
    BY <1>7, <2>1, StateFlow DEF Free
  <2>3. conf.local => Kept(z, SendFails(z)) /\ Way(x, z)
    BY <2>1, <2>2, SendFailsFlow DEF Way
  <2>4. CASE conf.local
    BY <2>3, <2>4, KeptTwice
  <2>5. CASE ~conf.local
    BY <2>5, FinalizeWay DEF SendFails, Kept
  <2>6. QED
    BY <2>4, <2>5
<1>9. Kept(x, SentAtOnce(x, t, o)) /\ Kept(x, {Finalize(x, "end")})
  BY SentAtOnceFlow, FinalizeWay DEF Kept
<1>10. \A u \in ResolveAndSend(x, t, o) :
         u = w \/ u \in SendFails(z) \/ u \in SentAtOnce(x, t, o)
           \/ u \in {Finalize(x, "end")}
  BY <1>1, <1>4, <1>6, <1>7, Zenon DEF ResolveAndSend
<1>11. QED
  BY <1>5, <1>8, <1>9, <1>10, Zenon DEF Kept

\* send_udp_frame with outbound o, from a context that is free to send.
LEMMA RouteFlow ==
    ASSUME conf \in Configs, NEW x, Flow(conf, x), Free(x),
           NEW t \in Targets, NEW o \in MaybeOutbound
    PROVE  Kept(x, Route(x, t, o))
<1>1. PICK y : y = Restored(x)
  OBVIOUS
<1>2. /\ Flow(conf, y) /\ Way(x, y) /\ SameConn(y, x)
  BY <1>1, RestoredFlow DEF Flow, TrojanFlow, Free
<1>3. Kept(x, SendFails(y))
  BY <1>2, SendFailsFlow, KeptTwice
<1>4. CASE o \in conf.blocked
  BY <1>1, <1>2, <1>4 DEF Route, UdpFrameBlocked, Kept
<1>5. CASE o \notin conf.blocked /\ o \in conf.socks5 /\ NeedsAssociation(x, o)
  BY <1>5, PendingStartFlow DEF Route, UdpFrameBlocked, Free
<1>6. CASE o \notin conf.blocked /\ o \in conf.socks5 /\ ~NeedsAssociation(x, o)
  <2>1. x.leaked = 0 => x.server = o
    BY <1>6 DEF NeedsAssociation, Flow, AssocFlow
  <2>2. x.server \in MaybeOutbound /\ y.leaked = x.leaked
    BY <1>2, Zenon DEF Flow, Context, SameConn
  <2>3. Kept(y, Sendto(y, t, o, x.server))
    BY <1>2, <1>6, <2>1, <2>2, SendtoFlow
  <2>4. Kept(x, Sendto(y, t, o, x.server))
    BY <1>2, <2>3, KeptTwice
  <2>5. QED
    BY <1>1, <1>3, <1>6, <2>4 DEF Route, UdpFrameBlocked, Kept
<1>7. CASE o \notin conf.blocked /\ o \notin conf.socks5 /\ conf.nginx /\ t \in Domains
  BY <1>7, ResolveAndSendFlow DEF Route, UdpFrameBlocked
<1>8. CASE o \notin conf.blocked /\ o \notin conf.socks5 /\ ~(conf.nginx /\ t \in Domains)
  <2>1. Kept(y, Sendto(y, t, o, NoOutbound))
    BY <1>2, <1>8, Ids, SendtoFlow
  <2>2. Kept(x, Sendto(y, t, o, NoOutbound))
    BY <1>2, <2>1, KeptTwice
  <2>3. QED
    BY <1>1, <1>3, <1>8, <2>2 DEF Route, UdpFrameBlocked, Kept
<1>9. QED
  BY <1>4, <1>5, <1>6, <1>7, <1>8

\* The same in resolve_handler.
LEMMA RouteAnsweredFlow ==
    ASSUME conf \in Configs, NEW x, Flow(conf, x), Free(x), conf.nginx,
           NEW t \in Targets, NEW o \in MaybeOutbound
    PROVE  Kept(x, RouteAnswered(x, t, o))
<1>1. PICK y : y = [x EXCEPT !.state = "service"]
  OBVIOUS
<1>2. /\ Flow(conf, y) /\ Way(x, y) /\ y.state = "service"
      /\ SameConn(y, x) /\ SameWait(y, x)
  BY <1>1, StateFlow DEF Free
<1>3. PICK r : r = Restored(y)
  OBVIOUS
<1>4. Flow(conf, r) /\ Way(x, r) /\ r.leaked = x.leaked
  <2>1. ~conf.local => y.pending = None
    BY <1>2 DEF Flow, TrojanFlow
  <2>2. Flow(conf, r) /\ Way(y, r) /\ SameConn(r, y)
    BY <1>2, <1>3, <2>1, RestoredFlow
  <2>3. QED
    BY <1>2, <2>2 DEF Way, SameConn
<1>5. Kept(x, {Finalize(x, "end")})
  BY FinalizeWay DEF Kept
<1>6. CASE o \in conf.blocked
  BY <1>1, <1>3, <1>4, <1>6 DEF RouteAnswered, UdpFrameBlocked, Kept
<1>7. CASE o \notin conf.blocked /\ o \in conf.socks5 /\ NeedsAssociation(x, o)
  BY <1>7, PendingStartFlow DEF RouteAnswered, UdpFrameBlocked, Free
<1>8. CASE o \notin conf.blocked /\ o \in conf.socks5 /\ ~NeedsAssociation(x, o)
  <2>1. x.leaked = 0 => x.server = o
    BY <1>8 DEF NeedsAssociation, Flow, AssocFlow
  <2>2. x.server \in MaybeOutbound
    BY Zenon DEF Flow, Context
  <2>3. Kept(r, Sendto(r, t, o, x.server))
    BY <1>4, <1>8, <2>1, <2>2, SendtoFlow
  <2>4. Kept(x, Sendto(r, t, o, x.server))
    BY <1>4, <2>3, KeptTwice
  <2>5. QED
    BY <1>1, <1>3, <1>5, <1>8, <2>4 DEF RouteAnswered, UdpFrameBlocked, Kept
<1>9. CASE o \notin conf.blocked /\ o \notin conf.socks5
  <2>1. PICK u : u = Swapped(x, o)
    OBVIOUS
  <2>2. Flow(conf, u) /\ Way(x, u) /\ u.state = x.state
    BY <1>9, <2>1, SwappedFlow DEF Free, SameRest
  <2>3. PICK w : w = Waiting(u, "udp", t, o)
    OBVIOUS
  <2>4. Flow(conf, w) /\ Way(u, w)
    BY <1>9, <2>2, <2>3, WaitingFlow DEF Free
  <2>5. PICK v : v = Swapped(y, o)
    OBVIOUS
  <2>6. Flow(conf, v) /\ Way(y, v)
    BY <1>2, <1>9, <2>5, SwappedFlow
  <2>7. Kept(v, Sendto(v, t, o, NoOutbound))
    BY <1>9, <2>6, Ids, SendtoFlow
  <2>8. Kept(x, Sendto(v, t, o, NoOutbound))
    BY <1>2, <2>6, <2>7, KeptTwice
  <2>9. Way(x, w)
    BY <2>2, <2>4 DEF Way
  <2>10. \A z \in RouteAnswered(x, t, o) :
           z = w \/ z = Finalize(x, "end") \/ z \in Sendto(v, t, o, NoOutbound)
    BY <1>1, <1>9, <2>1, <2>3, <2>5 DEF RouteAnswered, UdpFrameBlocked
  <2>11. QED
    BY <1>5, <2>4, <2>8, <2>9, <2>10 DEF Kept
<1>10. QED
  BY <1>6, <1>7, <1>8, <1>9

\* The association is named after the outbound of the context, which is its server
\* unless a connection has been abandoned.
LEMMA AssociatedFlow ==
    ASSUME conf \in Configs, NEW x, Flow(conf, x), x.state # "closed",
           Connecting(x) \/ x.leaked > 0
    PROVE  Kept(x, Associated(x))
<1>1. x \in Context /\ x.leaked \in Nat
  <2>1. x \in Context
    BY DEF Flow
  <2>2. x.leaked \in 0 .. MaxLeaked
    BY <2>1, Zenon DEF Context
  <2>3. QED
    BY <2>1, <2>2
<1>2. /\ x.outbound \in MaybeOutbound /\ x.restore \in MaybeOutbound
      /\ x.server \in MaybeOutbound /\ x.pending \in Datagram \cup {None}
  BY <1>1, Zenon DEF Context
<1>3. x.leaked = 0 => Connecting(x)
  BY <1>1
<1>4. ~conf.local => /\ x.state = "handshake" /\ x.leaked = 0
                     /\ x.outbound = x.server /\ x.server # NoOutbound
  BY <1>3 DEF Flow, TrojanFlow, Connecting
<1>5. PICK y : y = Named(x)
  OBVIOUS
<1>6. /\ y \in Context
      /\ y.state = "service" /\ y.ready /\ ~y.timer
      /\ y.sock /\ y.assoc = x.outbound
      /\ y.server = x.server /\ y.leaked = x.leaked /\ y.in = x.in
      /\ y.sent = x.sent /\ y.maps = x.maps
      /\ y.closedBy = x.closedBy
      /\ SameOut(y, x) /\ SameWait(y, x)
  BY <1>1, <1>5, NamedFields
<1>7. x.pending = None => Flow(conf, y)
  BY <1>3, <1>4, <1>6 DEF Flow, Connecting, TimerFlow, PendingFlow, RequestFlow,
      AssocFlow, SentFlow, TrojanFlow, OwnFlow, SameOut, SameWait
<1>8. PICK o : o = IF x.restore # NoOutbound THEN x.restore ELSE y.outbound
  OBVIOUS
<1>9. o \in MaybeOutbound
  BY <1>2, <1>6, <1>8 DEF SameOut
<1>10. PICK z : z = [y EXCEPT !.pending = None, !.restore = NoOutbound, !.outbound = o]
  OBVIOUS
<1>11. /\ z \in Context
       /\ z.outbound = o /\ z.restore = NoOutbound
       /\ z.pending = None
       /\ z.request = y.request /\ z.unwind = y.unwind
       /\ SameConn(z, y) /\ SameRest(z, y)
  BY <1>6, <1>9, <1>10, ReleasedFields
<1>12. x.pending # None => Flow(conf, z)
  <2>1. TimerFlow(z) /\ PendingFlow(conf, z) /\ AssocFlow(conf, z)
    BY <1>3, <1>6, <1>11 DEF Flow, Connecting, TimerFlow, PendingFlow, AssocFlow,
                             SameConn
  <2>2. RequestFlow(conf, z) /\ SentFlow(conf, z)
    BY <1>6, <1>11 DEF Flow, RequestFlow, SentFlow, SameConn, SameRest, SameWait
  <2>3. TrojanFlow(conf, z)
    BY <1>4, <1>6, <1>11 DEF Flow, TrojanFlow, SameConn, SameRest, SameWait
  <2>4. x.pending # None => OwnFlow(conf, z)
    BY <1>6, <1>8, <1>11 DEF Flow, OwnFlow, SameWait
  <2>5. Len(z.in) <= MaxQueue
    BY <1>6, <1>11 DEF Flow, SameRest
  <2>6. QED
    BY <1>11, <2>1, <2>2, <2>3, <2>4, <2>5 DEF Flow
<1>13. Way(x, y) /\ Way(x, z) /\ z.leaked = x.leaked
  BY <1>6, <1>11 DEF Way, SameRest, SameConn
<1>14. x.pending # None => Kept(x, SendtoOf(z, x.pending, x.server))
  <2>1. SUFFICES ASSUME x.pending # None
                 PROVE  Kept(x, SendtoOf(z, x.pending, x.server))
    OBVIOUS
  <2>2. x.pending \in Datagram
    BY <1>2, <2>1
  <2>3. x.pending.route = x.server /\ x.server \in conf.socks5 /\ x.server \notin conf.blocked
    BY <2>1 DEF Flow, PendingFlow
  <2>4. Kept(z, SendtoOf(z, x.pending, x.server))
    BY <1>2, <1>12, <2>1, <2>2, <2>3, SendtoOfFlow
  <2>5. QED
    BY <1>13, <2>4, KeptTwice
<1>15. Associated(x) = {Finalize(x, "end")}
           \cup (IF x.pending = None THEN {y} ELSE SendtoOf(z, x.pending, x.server))
  BY <1>5, <1>8, <1>10 DEF Associated, Named
<1>16. QED
  BY <1>7, <1>13, <1>14, <1>15, FinalizeWay DEF Kept

\* What the callers of nested calls do leaves the flow as it is.
LEMMA SettledFlow ==
    ASSUME NEW x, Flow(conf, x)
    PROVE  Flow(conf, Settled(x)) /\ Way(x, Settled(x))
<1>1. x \in Context
  BY DEF Flow
<1>2. x.unwind \in MaybeOutbound \cup {None}
  BY <1>1, Zenon DEF Context
<1>3. CASE x.unwind = None \/ (x.state = "service" /\ x.in # <<>>)
  BY <1>3 DEF Settled, Way
<1>4. CASE /\ ~(x.unwind = None \/ (x.state = "service" /\ x.in # <<>>))
           /\ x.pending # None
  <2>1. PICK y : y = [x EXCEPT !.unwind = None]
    OBVIOUS
  <2>2. /\ y \in Context /\ y.unwind = None
        /\ y.pending = x.pending /\ y.request = x.request
        /\ SameConn(y, x) /\ SameOut(y, x) /\ SameRest(y, x)
    BY <1>1, <2>1, UnwindFields
  <2>3. Flow(conf, y) /\ Way(x, y)
    BY <2>2 DEF Flow, Connecting, TimerFlow, PendingFlow, RequestFlow, AssocFlow,
                SentFlow, TrojanFlow, OwnFlow, SameConn, SameOut, SameRest, Way
  <2>4. QED
    BY <1>4, <2>1, <2>3 DEF Settled
<1>5. CASE /\ ~(x.unwind = None \/ (x.state = "service" /\ x.in # <<>>))
           /\ x.pending = None
  <2>1. PICK y : y = [x EXCEPT !.outbound = x.unwind, !.restore = NoOutbound,
                               !.unwind = None]
    OBVIOUS
  <2>2. x.unwind \in MaybeOutbound
    BY <1>2, <1>5
  <2>3. /\ y \in Context
        /\ y.outbound = x.unwind /\ y.restore = NoOutbound
        /\ y.unwind = None
        /\ y.pending = x.pending /\ y.request = x.request
        /\ SameConn(y, x) /\ SameRest(y, x)
    BY <1>1, <2>1, <2>2, UnwoundFields
  <2>4. Flow(conf, y) /\ Way(x, y)
    BY <1>5, <2>3 DEF Flow, Connecting, TimerFlow, PendingFlow, RequestFlow, AssocFlow,
                SentFlow, TrojanFlow, OwnFlow, SameConn, SameRest, Way
  <2>5. QED
    BY <1>5, <2>1, <2>4 DEF Settled
<1>6. QED
  BY <1>3, <1>4, <1>5

\* What an action makes of the session.
LEMMA BecomeFlow ==
    ASSUME NEW x, NEW xs, Kept(x, xs), Become(xs)
    PROVE  Flow(conf, ctx') /\ Way(x, ctx') /\ conf' = conf
<1>1. PICK y \in xs : ctx' = Settled(y)
  BY DEF Become
<1>2. Flow(conf, y) /\ Way(x, y)
  BY DEF Kept
<1>3. Flow(conf, Settled(y)) /\ Way(y, Settled(y))
  BY <1>2, SettledFlow
<1>4. QED
  BY <1>1, <1>2, <1>3 DEF Way, Become

-----------------------------------------------------------------------------
(* Mappings. *)

\* The route of mapping n is that of m.
SameRoute(n, m) ==
    /\ n.target = m.target /\ n.outbound = m.outbound
    /\ n.entry = m.entry /\ n.linked = m.linked /\ n.stale = m.stale

LEMMA Ages == 0 \in 0 .. UdpTimeout + 1 /\ UdpTimeout \in Nat /\ Drain = 1 /\ UdpTimeout > 1
  BY UdpAssumption DEF Drain

LEMMA AgedFields ==
    ASSUME NEW m \in Mapping, NEW age \in 0 .. UdpTimeout + 1
    PROVE  LET n == [m EXCEPT !.age = age]
           IN  n \in Mapping /\ n.age = age /\ SameRoute(n, m)
  BY Zenon DEF Mapping, SameRoute

UnlinkedOne(m, k) ==
    IF m.linked /\ m.entry = k THEN [m EXCEPT !.linked = FALSE, !.entry = None] ELSE m

LEMMA UnlinkedFields ==
    ASSUME NEW m \in Mapping, NEW k
    PROVE  LET n == UnlinkedOne(m, k)
           IN  /\ n \in Mapping /\ n.target = m.target
               /\ n.linked => n = m /\ m.entry # k
<1>1. None \in Slots \cup {None} /\ FALSE \in BOOLEAN
  OBVIOUS
<1>2. PICK n : n = [m EXCEPT !.linked = FALSE, !.entry = None]
  OBVIOUS
<1>3. n \in Mapping /\ n.target = m.target /\ ~n.linked
  BY <1>1, <1>2, Zenon DEF Mapping
<1>4. QED
  BY <1>2, <1>3 DEF UnlinkedOne

MarkedOne(m, k, old) ==
    IF m.linked /\ m.entry = k /\ m.outbound = old
    THEN [m EXCEPT !.stale = TRUE, !.age = 0] ELSE m

LEMMA MarkedFields ==
    ASSUME NEW m \in Mapping, NEW k, NEW old
    PROVE  LET n == MarkedOne(m, k, old)
           IN  /\ n \in Mapping /\ n.target = m.target
               /\ n.linked <=> m.linked
               /\ n.entry = m.entry /\ n.outbound = m.outbound
               /\ ~n.stale => ~m.stale /\ ~(m.linked /\ m.entry = k /\ m.outbound = old)
<1>1. TRUE \in BOOLEAN
  OBVIOUS
<1>2. PICK n : n = [m EXCEPT !.stale = TRUE, !.age = 0]
  OBVIOUS
<1>3. /\ n \in Mapping /\ n.target = m.target /\ n.stale /\ (n.linked <=> m.linked)
      /\ n.entry = m.entry /\ n.outbound = m.outbound
  BY <1>1, <1>2, Ages, Zenon DEF Mapping
<1>4. QED
  BY <1>2, <1>3 DEF MarkedOne

LEMMA NewMappingFields ==
    ASSUME NEW t \in Targets, NEW o \in OutboundIds, NEW k \in Slots, NEW ttl \in BOOLEAN
    PROVE  LET n == NewMapping(t, o, k, ttl)
           IN  /\ n \in Mapping /\ n.target = t /\ n.outbound = o
               /\ n.linked => n.entry = k
<1>1. PICK entry : entry = IF ttl THEN k ELSE None
  OBVIOUS
<1>2. entry \in Slots \cup {None} /\ (ttl => entry = k) /\ FALSE \in BOOLEAN
  BY <1>1
<1>3. NewMapping(t, o, k, ttl) =
        [target |-> t, outbound |-> o, entry |-> entry,
         linked |-> ttl, stale |-> FALSE, age |-> 0]
  BY <1>1 DEF NewMapping
<1>4. PICK n : n = NewMapping(t, o, k, ttl)
  OBVIOUS
<1>5. n \in Mapping
  BY <1>2, <1>3, <1>4, Ages DEF Mapping
<1>6. n.target = t /\ n.outbound = o /\ n.linked = ttl /\ n.entry = entry
  BY <1>3, <1>4
<1>7. QED
  BY <1>2, <1>4, <1>5, <1>6

\* Fewer mappings agree as well.
LEMMA FewerAgree ==
    ASSUME NEW slots, NEW maps, NEW fewer, fewer \subseteq maps, Agree(slots, maps)
    PROVE  Agree(slots, fewer)
  BY DEF Agree

\* So do mappings of which one has another age.
LEMMA SeenAgree ==
    ASSUME NEW slots, NEW maps, Agree(slots, maps), NEW m \in maps, NEW n,
           SameRoute(n, m)
    PROVE  Agree(slots, (maps \ {m}) \cup {n})
  BY DEF Agree, SameRoute

\* What a lookup leaves.
LEMMA LookedUpWays ==
    ASSUME NEW maps, NEW t, NEW left \in LookedUp(maps, t)
    PROVE  \/ \E gone \in SUBSET maps, hit \in Hits(maps, t) :
                 left = (maps \ (gone \cup {hit})) \cup {Seen(hit)}
           \/ \E gone \in SUBSET maps :
                 left = maps \ gone /\ \A m \in left : m.target # t
<1> DEFINE dead == {m \in maps : ~Alive(m)}
           all == {m \in dead : m.target = t}
<1>1. left \in
        {(maps \ (gone \cup {hit})) \cup {Seen(hit)} :
            gone \in SUBSET dead, hit \in Hits(maps, t)}
        \cup (IF Hits(maps, t) = {}
              THEN {maps \ (gone \cup all) : gone \in SUBSET dead} ELSE {})
  BY DEF LookedUp
<1>2. CASE \E gone \in SUBSET dead, hit \in Hits(maps, t) :
             left = (maps \ (gone \cup {hit})) \cup {Seen(hit)}
  BY <1>2
<1>3. ASSUME NEW gone \in SUBSET dead, left = maps \ (gone \cup all),
             Hits(maps, t) = {}
      PROVE  \E g \in SUBSET maps : left = maps \ g /\ \A m \in left : m.target # t
  <2>1. \A m \in left : m.target # t
    BY <1>3 DEF Hits
  <2>2. gone \cup all \in SUBSET maps
    OBVIOUS
  <2>3. QED
    BY <1>3, <2>1, <2>2
<1> HIDE DEF dead, all
<1>4. \/ \E gone \in SUBSET dead, hit \in Hits(maps, t) :
            left = (maps \ (gone \cup {hit})) \cup {Seen(hit)}
      \/ Hits(maps, t) = {} /\ \E gone \in SUBSET dead : left = maps \ (gone \cup all)
  BY <1>1
<1>5. QED
  BY <1>2, <1>3, <1>4

\* A lookup leaves mappings that agree, if they did.
LEMMA LookedUpAgrees ==
    ASSUME NEW maps \in SUBSET Mapping, NEW t, NEW left \in LookedUp(maps, t)
    PROVE  /\ left \in SUBSET Mapping
           /\ \A slots : Agree(slots, maps) => Agree(slots, left)
<1>1. CASE \E gone \in SUBSET maps : left = maps \ gone
  BY <1>1, FewerAgree
<1>2. ASSUME NEW gone \in SUBSET maps, NEW hit \in maps,
             left = (maps \ (gone \cup {hit})) \cup {Seen(hit)}
      PROVE  /\ left \in SUBSET Mapping
             /\ \A slots : Agree(slots, maps) => Agree(slots, left)
  <2>1. PICK n : n = Seen(hit)
    OBVIOUS
  <2>2. n \in Mapping /\ SameRoute(n, hit)
    BY <2>1, AgedFields, Ages DEF Seen
  <2>3. left \subseteq (maps \ {hit}) \cup {n}
    BY <1>2, <2>1
  <2>4. (maps \ {hit}) \cup {n} \in SUBSET Mapping
    BY <2>2
  <2>5. \A slots : Agree(slots, maps) => Agree(slots, (maps \ {hit}) \cup {n})
    BY <2>2, SeenAgree
  <2>6. QED
    BY <2>3, <2>4, <2>5, FewerAgree
<1>3. Hits(maps, t) \subseteq maps
  BY DEF Hits
<1>4. QED
  BY <1>1, <1>2, <1>3, LookedUpWays

\* A mapping that a lookup of its target leaves is found by the next one.
LEMMA LookedUpFinds ==
    ASSUME NEW maps \in SUBSET Mapping, NEW t, NEW left \in LookedUp(maps, t),
           \A m, n \in maps : n.target = m.target => n = m
    PROVE  \A m \in left : m.target = t => m \in Hits(left, t)
<1>1. ASSUME NEW gone \in SUBSET maps, NEW hit \in Hits(maps, t),
             left = (maps \ (gone \cup {hit})) \cup {Seen(hit)}
      PROVE  \A m \in left : m.target = t => m \in Hits(left, t)
  <2>1. PICK n : n = Seen(hit)
    OBVIOUS
  <2>2. hit \in maps /\ hit.target = t
    BY DEF Hits
  <2>3. n.age = 0 /\ n.target = t
    BY <2>1, <2>2, AgedFields, Ages DEF Seen, SameRoute
  <2>4. Alive(n)
    BY <2>3, Ages DEF Alive
  <2>5. n \in Hits(left, t)
    BY <1>1, <2>1, <2>3, <2>4 DEF Hits
  <2>6. \A m \in left : m.target = t => m = n
    BY <1>1, <2>1, <2>2
  <2>7. QED
    BY <2>5, <2>6
<1>2. QED
  BY <1>1, LookedUpWays

\* An insert replaces what a lookup finds, so that no target has two mappings.
LEMMA MappedFields ==
    ASSUME NEW x \in Context, NEW t \in Targets, NEW o \in OutboundIds,
           NEW k \in Slots, NEW ttl \in BOOLEAN, NEW y \in Mapped(x, t, o, k, ttl)
    PROVE  /\ y \in Context
           /\ y.state = x.state /\ y.in = x.in /\ y.sent = x.sent
           /\ y.closedBy = x.closedBy
           /\ SameConn(y, x) /\ SameOut(y, x) /\ SameWait(y, x)
           /\ \A slots : /\ Agree(slots, x.maps)
                         /\ slots[k].target = t /\ slots[k].outbound = o
                         => Agree(slots, y.maps)
<1>1. x.maps \in SUBSET Mapping
  BY Zenon DEF Context
<1>2. PICK n : n = NewMapping(t, o, k, ttl)
  OBVIOUS
<1>3. /\ n \in Mapping /\ n.target = t /\ n.outbound = o
      /\ n.linked => n.entry = k
  BY <1>2, NewMappingFields
<1>4. PICK left \in LookedUp(x.maps, t) :
        y = [x EXCEPT !.maps = (left \ Hits(left, t)) \cup {n}]
  BY <1>2, Zenon DEF Mapped
<1>5. /\ left \in SUBSET Mapping
      /\ \A slots : Agree(slots, x.maps) => Agree(slots, left)
  BY <1>1, LookedUpAgrees
<1>6. PICK maps : maps = (left \ Hits(left, t)) \cup {n}
  OBVIOUS
<1>7. maps \in SUBSET Mapping
  BY <1>3, <1>5, <1>6
<1>8. y = [x EXCEPT !.maps = maps]
  BY <1>4, <1>6
<1>9. /\ y \in Context /\ y.maps = maps
      /\ y.state = x.state /\ y.in = x.in /\ y.sent = x.sent
      /\ y.closedBy = x.closedBy
      /\ SameConn(y, x) /\ SameOut(y, x) /\ SameWait(y, x)
  BY <1>7, <1>8, MapsFields
<1>10. ASSUME NEW slots, Agree(slots, x.maps),
              slots[k].target = t, slots[k].outbound = o
       PROVE  Agree(slots, maps)
  <2>1. Agree(slots, left)
    BY <1>5, <1>10
  <2>2. \A a, b \in x.maps : b.target = a.target => b = a
    BY <1>10 DEF Agree
  <2>3. \A m \in left : m.target = t => m \in Hits(left, t)
    BY <1>1, <2>2, LookedUpFinds
  <2>4. QED
    BY <1>3, <1>6, <1>10, <2>1, <2>3 DEF Agree
<1>11. QED
  BY <1>9, <1>10

-----------------------------------------------------------------------------
(* The cache. *)

\* What an entry that changes hands leaves of its mappings.
LEMMA UnlinkedAgrees ==
    ASSUME NEW maps \in SUBSET Mapping, NEW k, NEW slots, NEW next,
           \A j \in Slots : j # k => next[j] = slots[j]
    PROVE  /\ Unlinked(maps, k) \in SUBSET Mapping
           /\ Agree(slots, maps) => Agree(next, Unlinked(maps, k))
<1>1. Unlinked(maps, k) = {UnlinkedOne(m, k) : m \in maps}
  BY DEF Unlinked, UnlinkedOne
<1>2. \A m \in maps :
        /\ UnlinkedOne(m, k) \in Mapping /\ UnlinkedOne(m, k).target = m.target
        /\ UnlinkedOne(m, k).linked => UnlinkedOne(m, k) = m /\ m.entry # k
  BY UnlinkedFields
<1>3. QED
  BY <1>1, <1>2 DEF Agree

\* An entry that is decided again makes stale its mappings that had its former
\* decision: all those that are not yet.
LEMMA MarkedAgrees ==
    ASSUME NEW maps \in SUBSET Mapping, NEW k, NEW slots, NEW next,
           \A j \in Slots : j # k => next[j] = slots[j],
           next[k].target = slots[k].target
    PROVE  /\ Marked(maps, k, slots[k].outbound) \in SUBSET Mapping
           /\ Agree(slots, maps) => Agree(next, Marked(maps, k, slots[k].outbound))
<1>1. PICK old : old = slots[k].outbound
  OBVIOUS
<1>2. Marked(maps, k, old) = {MarkedOne(m, k, old) : m \in maps}
  BY DEF Marked, MarkedOne
<1>3. \A m \in maps :
        LET n == MarkedOne(m, k, old)
        IN  /\ n \in Mapping /\ n.target = m.target
            /\ n.linked <=> m.linked
            /\ n.entry = m.entry /\ n.outbound = m.outbound
            /\ ~n.stale => ~m.stale /\ ~(m.linked /\ m.entry = k /\ m.outbound = old)
  BY MarkedFields
<1>4. Marked(maps, k, old) \in SUBSET Mapping
  BY <1>2, <1>3
<1>5. ASSUME Agree(slots, maps)
      PROVE  Agree(next, Marked(maps, k, old))
  <2>1. ASSUME NEW m \in maps, NEW n, n = MarkedOne(m, k, old)
        PROVE  /\ n.linked => n.entry \in Slots /\ next[n.entry].target = n.target
               /\ n.linked /\ ~n.stale => next[n.entry].outbound = n.outbound
    BY <1>1, <1>3, <1>5, <2>1 DEF Agree
  <2>2. \A m, q \in maps :
          MarkedOne(q, k, old).target = MarkedOne(m, k, old).target => q = m
    BY <1>3, <1>5 DEF Agree
  <2>3. QED
    BY <1>2, <2>1, <2>2 DEF Agree
<1>6. QED
  BY <1>1, <1>4, <1>5

\* Slot k comes to hold outbound o for target t, and the other slots stay.
Writes(k, t, o) ==
    /\ slot'[k].target = t /\ slot'[k].outbound = o
    /\ \A j \in Slots : j # k => slot'[j] = slot[j]

LEMMA CacheWritesFields ==
    ASSUME NEW x \in Context, NEW k \in Slots, NEW t, NEW o, NEW ttl, Writes(k, t, o)
    PROVE  LET y == CacheWrites(x, k, t, o, ttl)
           IN  /\ y \in Context
               /\ y.state = x.state /\ y.in = x.in /\ y.sent = x.sent
               /\ y.closedBy = x.closedBy
               /\ SameConn(y, x) /\ SameOut(y, x) /\ SameWait(y, x)
               /\ Agree(slot, x.maps) => Agree(slot', y.maps)
<1>1. x.maps \in SUBSET Mapping
  BY Zenon DEF Context
<1>2. PICK maps : maps = IF slot[k].target # t THEN Unlinked(x.maps, k)
                         ELSE IF slot[k].outbound # o
                              THEN Marked(x.maps, k, slot[k].outbound) ELSE x.maps
  OBVIOUS
<1>3. maps \in SUBSET Mapping /\ (Agree(slot, x.maps) => Agree(slot', maps))
  <2>1. CASE slot[k].target # t
    BY <1>1, <1>2, <2>1, UnlinkedAgrees DEF Writes
  <2>2. CASE slot[k].target = t /\ slot[k].outbound # o
    BY <1>1, <1>2, <2>2, MarkedAgrees DEF Writes
  <2>3. CASE slot[k].target = t /\ slot[k].outbound = o
    <3>1. \A j \in Slots : slot'[j].target = slot[j].target
                            /\ slot'[j].outbound = slot[j].outbound
      BY <2>3 DEF Writes
    <3>2. QED
      BY <1>1, <1>2, <2>3, <3>1 DEF Agree
  <2>4. QED
    BY <2>1, <2>2, <2>3
<1>4. PICK y : y = [x EXCEPT !.maps = maps]
  OBVIOUS
<1>5. /\ y \in Context /\ y.maps = maps
      /\ y.state = x.state /\ y.in = x.in /\ y.sent = x.sent
      /\ y.closedBy = x.closedBy
      /\ SameConn(y, x) /\ SameOut(y, x) /\ SameWait(y, x)
  BY <1>3, <1>4, MapsFields
<1>6. y = CacheWrites(x, k, t, o, ttl)
  BY <1>2, <1>4 DEF CacheWrites
<1>7. QED
  BY <1>3, <1>5, <1>6

\* The two ways an entry is written.
LEMMA ReassignWrites ==
    ASSUME SlotsDecided(slot), NEW k \in Slots, NEW t \in Targets,
           NEW o \in OutboundIds, NEW ttl \in BOOLEAN, Reassign(k, t, o, ttl)
    PROVE  SlotsDecided(slot') /\ Writes(k, t, o)
<1>1. slot \in [Slots -> SlotContent]
  BY DEF SlotsDecided
<1>2. PICK content : content = [target |-> t, outbound |-> o, ttl |-> ttl]
  OBVIOUS
<1>3. content \in SlotContent /\ content.target = t /\ content.outbound = o
  BY <1>2 DEF SlotContent
<1>4. slot' = [slot EXCEPT ![k] = content]
  BY <1>2 DEF Reassign
<1>5. /\ slot' \in [Slots -> SlotContent] /\ slot'[k] = content
      /\ \A j \in Slots : j # k => slot'[j] = slot[j]
  BY <1>1, <1>3, <1>4
<1>6. QED
  BY <1>3, <1>5 DEF SlotsDecided, Writes

LEMMA RedecideWrites ==
    ASSUME SlotsDecided(slot), NEW k \in Slots,
           NEW o \in OutboundIds, NEW ttl \in BOOLEAN, Redecide(k, o, ttl)
    PROVE  SlotsDecided(slot') /\ Writes(k, slot[k].target, o)
<1>1. slot \in [Slots -> SlotContent]
  BY DEF SlotsDecided
<1>2. PICK content : content = [slot[k] EXCEPT !.outbound = o, !.ttl = ttl]
  OBVIOUS
<1>3. /\ content \in SlotContent /\ content.target = slot[k].target
      /\ content.outbound = o
  BY <1>1, <1>2 DEF SlotContent
<1>4. slot' = [slot EXCEPT ![k] = content]
  BY <1>1, <1>2 DEF Redecide
<1>5. /\ slot' \in [Slots -> SlotContent] /\ slot'[k] = content
      /\ \A j \in Slots : j # k => slot'[j] = slot[j]
  BY <1>1, <1>3, <1>4
<1>6. QED
  BY <1>3, <1>5 DEF SlotsDecided, Writes

LEMMA PutWrites ==
    ASSUME SlotsDecided(slot), NEW k \in Slots, NEW t \in Targets,
           NEW o \in OutboundIds, NEW ttl \in BOOLEAN, Put(k, t, o, ttl)
    PROVE  SlotsDecided(slot') /\ Writes(k, t, o)
  BY ReassignWrites, RedecideWrites DEF Put

-----------------------------------------------------------------------------
(* Steps. *)

\* The reason of ConnectTimeoutWhileConnecting.
Reason ==
    ~conf.local /\ ctx'.closedBy = "connect" /\ ctx.closedBy = "none" => Connecting(ctx)

LEMMA SameFlow ==
    ASSUME NEW x, Flow(conf, x), NEW y \in Context, Len(y.in) <= MaxQueue,
           y.state = x.state, y.sent = x.sent \/ y.sent = None,
           SameConn(y, x), SameOut(y, x), SameWait(y, x)
    PROVE  Flow(conf, y) /\ (Free(x) => Free(y))
  BY DEF Flow, Connecting, TimerFlow, PendingFlow, RequestFlow, AssocFlow,
         SentFlow, TrojanFlow, OwnFlow, SameConn, SameOut, SameWait, Free

\* An action that goes through Become from context x.
LEMMA BecomeDone ==
    ASSUME UdpInv, NEW x, NEW xs, Kept(x, xs), Become(xs), SlotsDecided(slot'),
           ~conf.atOnce => Agree(slot', x.maps), x.closedBy = ctx.closedBy
    PROVE  UdpInv' /\ Reason
<1>1. Flow(conf, ctx') /\ Way(x, ctx') /\ conf' = conf
  BY BecomeFlow
<1>2. Agree(slot', {})
  BY DEF Agree
<1>3. ~conf.atOnce => Agree(slot', ctx'.maps)
  BY <1>1, <1>2 DEF Way
<1>4. Reason
  BY <1>1 DEF Way, Reason
<1>5. QED
  BY <1>1, <1>3, <1>4 DEF UdpInv

LEMMA NowKeeps ==
    ASSUME UdpInv
    PROVE  /\ Flow(conf, Now) /\ Now \in Context
           /\ Now.state = ctx.state /\ Now.in = ctx.in /\ Now.maps = ctx.maps
           /\ Now.closedBy = ctx.closedBy /\ Now.sent = None
           /\ SameConn(Now, ctx) /\ SameOut(Now, ctx) /\ SameWait(Now, ctx)
  BY NowFlow, NowFields DEF UdpInv, Flow, Now

\* The datagram that is read and what the lookup of its mapping leaves.
LEMMA TakenKeeps ==
    ASSUME UdpInv, Reading, NEW x \in Taken
    PROVE  /\ Target \in Targets /\ Target # None
           /\ x \in Context /\ Flow(conf, x) /\ Free(x)
           /\ x.outbound = ctx.outbound /\ x.closedBy = ctx.closedBy
           /\ Agree(slot, ctx.maps) => Agree(slot, x.maps)
<1>1. /\ Flow(conf, Now) /\ Now \in Context
      /\ Now.state = ctx.state /\ Now.in = ctx.in /\ Now.maps = ctx.maps
      /\ Now.closedBy = ctx.closedBy
      /\ SameConn(Now, ctx) /\ SameOut(Now, ctx) /\ SameWait(Now, ctx)
  BY NowKeeps
<1>2. Free(Now)
  BY <1>1 DEF Reading, Free, Flow, TrojanFlow, SameConn, SameWait
<1>3. ctx.in \in Seq(Targets) /\ ctx.in # <<>> /\ Now.maps \in SUBSET Mapping
  BY <1>1, Zenon DEF Reading, Context
<1>4. /\ Head(ctx.in) \in Targets /\ Tail(ctx.in) \in Seq(Targets)
      /\ Len(Tail(ctx.in)) = Len(ctx.in) - 1 /\ Len(ctx.in) \in Nat
  BY <1>3, HeadTailProperties, LenProperties
<1>5. Len(ctx.in) <= MaxQueue /\ MaxQueue \in Nat
  BY UdpAssumption DEF UdpInv, Flow
<1>6. Len(Tail(ctx.in)) <= MaxQueue
  BY <1>4, <1>5
<1>7. PICK maps \in LookedUp(ctx.maps, Target) :
        x = [Now EXCEPT !.in = Tail(Now.in), !.maps = maps]
  BY Zenon DEF Taken
<1>8. maps \in SUBSET Mapping /\ (Agree(slot, ctx.maps) => Agree(slot, maps))
  BY <1>1, <1>3, LookedUpAgrees
<1>9. PICK in : in = Tail(ctx.in)
  OBVIOUS
<1>10. x = ReadOff(Now, in, maps)
  BY <1>1, <1>7, <1>9 DEF ReadOff
<1>11. /\ x \in Context
       /\ x.in = in /\ x.maps = maps
       /\ x.state = Now.state /\ x.sent = Now.sent
       /\ x.closedBy = Now.closedBy
       /\ SameConn(x, Now) /\ SameOut(x, Now) /\ SameWait(x, Now)
  BY <1>1, <1>4, <1>8, <1>9, <1>10, TakenFields
<1>12. Flow(conf, x) /\ Free(x)
  BY <1>1, <1>2, <1>6, <1>9, <1>11, SameFlow
<1>13. x.outbound = ctx.outbound
  BY <1>1, <1>11 DEF SameOut
<1>14. QED
  BY <1>1, <1>4, <1>8, <1>11, <1>12, <1>13, UdpAssumption DEF Target

\* A mapping is made for it.
LEMMA MappedKeeps ==
    ASSUME NEW x \in Context, Flow(conf, x), Free(x), NEW t \in Targets,
           NEW o \in OutboundIds, NEW k \in Slots, NEW ttl \in BOOLEAN,
           NEW y \in Mapped(x, t, o, k, ttl)
    PROVE  /\ y \in Context /\ Flow(conf, y) /\ Free(y) /\ y.closedBy = x.closedBy
           /\ \A slots : /\ Agree(slots, x.maps)
                         /\ slots[k].target = t /\ slots[k].outbound = o
                         => Agree(slots, y.maps)
<1>1. /\ y \in Context
      /\ y.state = x.state /\ y.in = x.in /\ y.sent = x.sent
      /\ y.closedBy = x.closedBy
      /\ SameConn(y, x) /\ SameOut(y, x) /\ SameWait(y, x)
      /\ \A slots : /\ Agree(slots, x.maps)
                    /\ slots[k].target = t /\ slots[k].outbound = o
                    => Agree(slots, y.maps)
  BY MappedFields
<1>2. Len(y.in) <= MaxQueue
  BY <1>1 DEF Flow
<1>3. QED
  BY <1>1, <1>2, SameFlow

LEMMA CacheWritesKeeps ==
    ASSUME NEW x \in Context, Flow(conf, x), NEW k \in Slots, NEW t, NEW o, NEW ttl,
           Writes(k, t, o)
    PROVE  LET y == CacheWrites(x, k, t, o, ttl)
           IN  /\ y \in Context /\ Flow(conf, y) /\ (Free(x) => Free(y))
               /\ y.closedBy = x.closedBy
               /\ Agree(slot, x.maps) => Agree(slot', y.maps)
<1>1. PICK y : y = CacheWrites(x, k, t, o, ttl)
  OBVIOUS
<1>2. /\ y \in Context
      /\ y.state = x.state /\ y.in = x.in /\ y.sent = x.sent
      /\ y.closedBy = x.closedBy
      /\ SameConn(y, x) /\ SameOut(y, x) /\ SameWait(y, x)
      /\ Agree(slot, x.maps) => Agree(slot', y.maps)
  BY <1>1, CacheWritesFields
<1>3. Len(y.in) <= MaxQueue
  BY <1>2 DEF Flow
<1>4. QED
  BY <1>1, <1>2, <1>3, SameFlow

\* A decision is written to the cache and a mapping is made of it.
LEMMA DecidedKeeps ==
    ASSUME UdpInv, NEW x \in Context, Flow(conf, x), Free(x),
           ~conf.atOnce => Agree(slot, x.maps),
           NEW k \in Slots, NEW t \in Targets, NEW o \in OutboundIds,
           NEW ttl \in BOOLEAN, Writes(k, t, o),
           NEW y \in Mapped(CacheWrites(x, k, t, o, ttl), t, o, k, ttl)
    PROVE  /\ Flow(conf, y) /\ Free(y) /\ y.closedBy = x.closedBy
           /\ ~conf.atOnce => Agree(slot', y.maps)
<1>1. PICK z : z = CacheWrites(x, k, t, o, ttl)
  OBVIOUS
<1>2. /\ z \in Context /\ Flow(conf, z) /\ Free(z) /\ z.closedBy = x.closedBy
      /\ Agree(slot, x.maps) => Agree(slot', z.maps)
  BY <1>1, CacheWritesKeeps
<1>3. slot'[k].target = t /\ slot'[k].outbound = o
  BY DEF Writes
<1>4. /\ Flow(conf, y) /\ Free(y) /\ y.closedBy = z.closedBy
      /\ Agree(slot', z.maps) => Agree(slot', y.maps)
  BY <1>1, <1>2, <1>3, MappedKeeps
<1>5. QED
  BY <1>2, <1>4

LEMMA FrameMappedKeeps == UdpInv /\ FrameMapped => UdpInv' /\ Reason
<1> SUFFICES ASSUME UdpInv, FrameMapped
             PROVE  UdpInv' /\ Reason
  OBVIOUS
<1>1. PICK hit \in Hits(ctx.maps, Target), x \in Taken :
        Become(Route(x, Target, hit.outbound))
  BY DEF FrameMapped
<1>2. Reading /\ slot' = slot
  BY DEF FrameMapped
<1>3. /\ Target \in Targets /\ Flow(conf, x) /\ Free(x) /\ x.closedBy = ctx.closedBy
      /\ Agree(slot, ctx.maps) => Agree(slot, x.maps)
  BY <1>2, TakenKeeps
<1>4. hit.outbound \in MaybeOutbound
  <2>1. ctx.maps \in SUBSET Mapping
    BY Zenon DEF UdpInv, Flow, Context
  <2>2. hit \in Mapping
    BY <2>1 DEF Hits
  <2>3. hit.outbound \in OutboundIds
    BY <2>2, Zenon DEF Mapping
  <2>4. QED
    BY <2>3, Ids
<1>5. Kept(x, Route(x, Target, hit.outbound))
  BY <1>3, <1>4, RouteFlow DEF UdpInv
<1>6. SlotsDecided(slot') /\ (~conf.atOnce => Agree(slot', x.maps))
  BY <1>2, <1>3 DEF UdpInv
<1>7. QED
  BY <1>1, <1>3, <1>5, <1>6, BecomeDone

LEMMA FrameCachedKeeps ==
    ASSUME UdpInv, NEW k \in Slots, FrameCached(k)
    PROVE  UdpInv' /\ Reason
<1>1. Reading /\ slot' = slot /\ slot[k].target = Target
  BY DEF FrameCached, Unmapped
<1>2. PICK x \in Taken : \E y \in Mapped(x, Target, slot[k].outbound, k, slot[k].ttl) :
        Become(Route(y, Target, slot[k].outbound))
  BY DEF FrameCached
<1>3. PICK y \in Mapped(x, Target, slot[k].outbound, k, slot[k].ttl) :
        Become(Route(y, Target, slot[k].outbound))
  BY <1>2
<1>4. /\ Target \in Targets /\ Target # None
      /\ x \in Context /\ Flow(conf, x) /\ Free(x) /\ x.closedBy = ctx.closedBy
      /\ Agree(slot, ctx.maps) => Agree(slot, x.maps)
  BY <1>1, TakenKeeps
<1>5. slot[k].outbound \in OutboundIds /\ slot[k].ttl \in BOOLEAN
  BY <1>1, <1>4 DEF UdpInv, SlotsDecided, SlotContent
<1>6. /\ Flow(conf, y) /\ Free(y) /\ y.closedBy = x.closedBy
      /\ Agree(slot, x.maps) => Agree(slot, y.maps)
  BY <1>1, <1>4, <1>5, MappedKeeps
<1>7. Kept(y, Route(y, Target, slot[k].outbound))
  BY <1>4, <1>5, <1>6, Ids, RouteFlow DEF UdpInv
<1>8. SlotsDecided(slot') /\ (~conf.atOnce => Agree(slot', y.maps))
  BY <1>1, <1>4, <1>6 DEF UdpInv
<1>9. QED
  BY <1>3, <1>4, <1>6, <1>7, <1>8, BecomeDone

LEMMA FrameRefreshedKeeps ==
    ASSUME UdpInv, NEW k \in Slots, NEW o \in OutboundIds, NEW ttl \in BOOLEAN,
           FrameRefreshed(k, o, ttl)
    PROVE  UdpInv' /\ Reason
<1>1. Reading /\ slot[k].target = Target /\ Redecide(k, o, ttl) /\ conf.atOnce
  BY DEF FrameRefreshed, Unmapped
<1>2. PICK x \in Taken : \E y \in Mapped(CacheWrites(x, k, Target, o, ttl),
                                        Target, slot[k].outbound, k, ttl) :
        Become(Route(y, Target, slot[k].outbound))
  BY DEF FrameRefreshed
<1>3. PICK y \in Mapped(CacheWrites(x, k, Target, o, ttl),
                        Target, slot[k].outbound, k, ttl) :
        Become(Route(y, Target, slot[k].outbound))
  BY <1>2
<1>4. /\ Target \in Targets /\ Target # None
      /\ x \in Context /\ Flow(conf, x) /\ Free(x) /\ x.closedBy = ctx.closedBy
  BY <1>1, TakenKeeps
<1>5. SlotsDecided(slot') /\ Writes(k, Target, o)
  BY <1>1, RedecideWrites DEF UdpInv
<1>6. PICK z : z = CacheWrites(x, k, Target, o, ttl)
  OBVIOUS
<1>7. z \in Context /\ Flow(conf, z) /\ Free(z) /\ z.closedBy = x.closedBy
  BY <1>4, <1>5, <1>6, CacheWritesKeeps
<1>8. slot[k].outbound \in OutboundIds
  BY <1>1, <1>4 DEF UdpInv, SlotsDecided
<1>9. Flow(conf, y) /\ Free(y) /\ y.closedBy = z.closedBy
  BY <1>3, <1>4, <1>6, <1>7, <1>8, MappedKeeps
<1>10. Kept(y, Route(y, Target, slot[k].outbound))
  BY <1>4, <1>8, <1>9, Ids, RouteFlow DEF UdpInv
<1>11. QED
  BY <1>1, <1>3, <1>4, <1>5, <1>7, <1>9, <1>10, BecomeDone

LEMMA FrameDecidedKeeps ==
    ASSUME UdpInv, NEW k \in Slots, NEW d \in Decisions, FrameDecided(k, d)
    PROVE  UdpInv' /\ Reason
<1>1. Reading /\ Put(k, Target, d.outbound, d.ttl)
  BY DEF FrameDecided, Uncached, Unmapped
<1>2. PICK x \in Taken : \E y \in Mapped(CacheWrites(x, k, Target, d.outbound, d.ttl),
                                        Target, d.outbound, k, d.ttl) :
        Become(Route(y, Target, d.outbound))
  BY DEF FrameDecided
<1>3. PICK y \in Mapped(CacheWrites(x, k, Target, d.outbound, d.ttl),
                        Target, d.outbound, k, d.ttl) :
        Become(Route(y, Target, d.outbound))
  BY <1>2
<1>4. d.outbound \in OutboundIds /\ d.ttl \in BOOLEAN
  BY DEF Decisions
<1>5. /\ Target \in Targets
      /\ x \in Context /\ Flow(conf, x) /\ Free(x) /\ x.closedBy = ctx.closedBy
      /\ ~conf.atOnce => Agree(slot, x.maps)
  BY <1>1, TakenKeeps DEF UdpInv
<1>6. SlotsDecided(slot') /\ Writes(k, Target, d.outbound)
  BY <1>1, <1>4, <1>5, PutWrites DEF UdpInv
<1>7. /\ Flow(conf, y) /\ Free(y) /\ y.closedBy = x.closedBy
      /\ ~conf.atOnce => Agree(slot', y.maps)
  BY <1>3, <1>4, <1>5, <1>6, DecidedKeeps
<1>8. Kept(y, Route(y, Target, d.outbound))
  BY <1>4, <1>5, <1>7, Ids, RouteFlow DEF UdpInv
<1>9. QED
  BY <1>3, <1>5, <1>6, <1>7, <1>8, BecomeDone

LEMMA FrameAnsweredKeeps ==
    ASSUME UdpInv, NEW k \in Slots, NEW d \in Decisions, FrameAnswered(k, d)
    PROVE  UdpInv' /\ Reason
<1>1. Reading /\ Put(k, Target, d.outbound, d.ttl) /\ conf.nginx
  BY DEF FrameAnswered, Uncached, Unmapped
<1>2. PICK x \in Taken : \E y \in Mapped(CacheWrites(x, k, Target, d.outbound, d.ttl),
                                        Target, d.outbound, k, d.ttl) :
        Become(RouteAnswered(y, Target, d.outbound))
  BY DEF FrameAnswered
<1>3. PICK y \in Mapped(CacheWrites(x, k, Target, d.outbound, d.ttl),
                        Target, d.outbound, k, d.ttl) :
        Become(RouteAnswered(y, Target, d.outbound))
  BY <1>2
<1>4. d.outbound \in OutboundIds /\ d.ttl \in BOOLEAN
  BY DEF Decisions
<1>5. /\ Target \in Targets
      /\ x \in Context /\ Flow(conf, x) /\ Free(x) /\ x.closedBy = ctx.closedBy
      /\ ~conf.atOnce => Agree(slot, x.maps)
  BY <1>1, TakenKeeps DEF UdpInv
<1>6. SlotsDecided(slot') /\ Writes(k, Target, d.outbound)
  BY <1>1, <1>4, <1>5, PutWrites DEF UdpInv
<1>7. /\ Flow(conf, y) /\ Free(y) /\ y.closedBy = x.closedBy
      /\ ~conf.atOnce => Agree(slot', y.maps)
  BY <1>3, <1>4, <1>5, <1>6, DecidedKeeps
<1>8. Kept(y, RouteAnswered(y, Target, d.outbound))
  BY <1>1, <1>4, <1>5, <1>7, Ids, RouteAnsweredFlow DEF UdpInv
<1>9. QED
  BY <1>3, <1>5, <1>6, <1>7, <1>8, BecomeDone

\* The actions on a datagram that leave the cache alone.
LEMMA FrameUnroutedKeeps == UdpInv /\ FrameUnrouted => UdpInv' /\ Reason
<1> SUFFICES ASSUME UdpInv, FrameUnrouted
             PROVE  UdpInv' /\ Reason
  OBVIOUS
<1>1. Reading /\ slot' = slot
  BY DEF FrameUnrouted, Uncached, Unmapped
<1>2. PICK x \in Taken : Become(Route(x, Target, ctx.outbound))
  BY DEF FrameUnrouted
<1>3. /\ Target \in Targets /\ Flow(conf, x) /\ Free(x) /\ x.closedBy = ctx.closedBy
      /\ Agree(slot, ctx.maps) => Agree(slot, x.maps)
  BY <1>1, TakenKeeps
<1>4. ctx.outbound \in MaybeOutbound
  BY Zenon DEF UdpInv, Flow, Context
<1>5. Kept(x, Route(x, Target, ctx.outbound))
  BY <1>3, <1>4, RouteFlow DEF UdpInv
<1>6. SlotsDecided(slot') /\ (~conf.atOnce => Agree(slot', x.maps))
  BY <1>1, <1>3 DEF UdpInv
<1>7. QED
  BY <1>2, <1>3, <1>5, <1>6, BecomeDone

LEMMA FrameLostKeeps == UdpInv /\ FrameLost => UdpInv' /\ Reason
<1> SUFFICES ASSUME UdpInv, FrameLost
             PROVE  UdpInv' /\ Reason
  OBVIOUS
<1>1. Reading /\ slot' = slot /\ Become(Taken)
  BY DEF FrameLost, Uncached, Unmapped
<1>2. PICK x \in Taken : ctx' = Settled(x)
  BY <1>1 DEF Become
<1>3. Become({x})
  BY <1>1, <1>2 DEF Become
<1>4. /\ Flow(conf, x) /\ x.closedBy = ctx.closedBy
      /\ Agree(slot, ctx.maps) => Agree(slot, x.maps)
  BY <1>1, TakenKeeps
<1>5. Kept(x, {x})
  BY <1>4 DEF Kept, Way
<1>6. SlotsDecided(slot') /\ (~conf.atOnce => Agree(slot', x.maps))
  BY <1>1, <1>4 DEF UdpInv
<1>7. QED
  BY <1>3, <1>4, <1>5, <1>6, BecomeDone

LEMMA FrameAsksKeeps == UdpInv /\ FrameAsks => UdpInv' /\ Reason
<1> SUFFICES ASSUME UdpInv, FrameAsks
             PROVE  UdpInv' /\ Reason
  OBVIOUS
<1>1. Reading /\ slot' = slot /\ conf.nginx
  BY DEF FrameAsks, Uncached, Unmapped
<1>2. PICK x \in Taken :
        Become({Waiting(x, "route", Target, NoOutbound)}
               \cup SendFails([x EXCEPT !.state = "resolving"]))
  BY DEF FrameAsks
<1>3. /\ Target \in Targets /\ Flow(conf, x) /\ Free(x) /\ x.closedBy = ctx.closedBy
      /\ Agree(slot, ctx.maps) => Agree(slot, x.maps)
  BY <1>1, TakenKeeps
<1>4. Flow(conf, Waiting(x, "route", Target, NoOutbound))
      /\ Way(x, Waiting(x, "route", Target, NoOutbound))
  BY <1>1, <1>3, Ids, WaitingFlow DEF Free
<1>5. PICK z : z = [x EXCEPT !.state = "resolving"]
  OBVIOUS
<1>6. Flow(conf, z) /\ Way(x, z)
  BY <1>3, <1>5, StateFlow DEF Free
<1>7. Kept(x, SendFails(z))
  BY <1>6, SendFailsFlow, KeptTwice DEF UdpInv
<1>8. Kept(x, {Waiting(x, "route", Target, NoOutbound)}
              \cup SendFails([x EXCEPT !.state = "resolving"]))
  BY <1>4, <1>5, <1>7 DEF Kept
<1>9. SlotsDecided(slot') /\ (~conf.atOnce => Agree(slot', x.maps))
  BY <1>1, <1>3 DEF UdpInv
<1>10. QED
  BY <1>2, <1>3, <1>8, <1>9, BecomeDone

\* A name has been resolved.
LEMMA AnswerTyped ==
    ASSUME UdpInv, ctx.request # None
    PROVE  /\ ctx.request.target \in Targets /\ ctx.request.route \in MaybeOutbound
           /\ conf.nginx /\ (~conf.local => ctx.state # "handshake")
           /\ ctx.request.kind = "udp" =>
                  ctx.request.route \notin conf.socks5 /\ ctx.request.route \notin conf.blocked
<1>1. ctx.request \in [kind : {"route", "udp"}, target : Targets, route : MaybeOutbound]
  <2>1. ctx \in Context
    BY DEF UdpInv, Flow
  <2>2. ctx.request \in [kind : {"route", "udp"}, target : Targets,
                         route : MaybeOutbound] \cup {None}
    BY <2>1, Zenon DEF Context
  <2>3. QED
    BY <2>2
<1>2. /\ conf.nginx /\ (~conf.local => ctx.state # "handshake")
      /\ ctx.request.kind = "udp" =>
             ctx.request.route \notin conf.socks5 /\ ctx.request.route \notin conf.blocked
  BY DEF UdpInv, Flow, RequestFlow, TrojanFlow
<1>3. QED
  BY <1>1, <1>2

LEMMA RouteAnswerKeeps ==
    ASSUME UdpInv, NEW k \in Slots, NEW d \in Decisions, RouteAnswer(k, d)
    PROVE  UdpInv' /\ Reason
<1>1. PICK t : t = ctx.request.target
  OBVIOUS
<1>2. PICK z : z = [Now EXCEPT !.request = None]
  OBVIOUS
<1>3. /\ ctx.request # None /\ ctx.leaked < MaxLeaked /\ ctx.state # "closed"
      /\ Put(k, t, d.outbound, d.ttl)
  BY <1>1 DEF RouteAnswer, Between
<1>4. PICK y \in Mapped(CacheWrites(z, k, t, d.outbound, d.ttl), t, d.outbound, k, d.ttl) :
        Become(RouteAnswered(y, t, d.outbound))
  BY <1>1, <1>2 DEF RouteAnswer
<1>5. d.outbound \in OutboundIds /\ d.ttl \in BOOLEAN
  BY DEF Decisions
<1>6. t \in Targets /\ conf.nginx /\ (~conf.local => ctx.state # "handshake")
  BY <1>1, <1>3, AnswerTyped
<1>7. /\ Flow(conf, Now) /\ Now \in Context
      /\ Now.state = ctx.state /\ Now.maps = ctx.maps /\ Now.closedBy = ctx.closedBy
      /\ SameConn(Now, ctx)
  BY NowKeeps
<1>8. /\ z \in Context
      /\ z.request = None
      /\ z.pending = Now.pending /\ z.unwind = Now.unwind
      /\ SameConn(z, Now) /\ SameOut(z, Now) /\ SameRest(z, Now)
  BY <1>2, <1>7, AnswerFields
<1>9. Flow(conf, z)
  BY <1>7, <1>8 DEF Flow, Connecting, TimerFlow, PendingFlow, RequestFlow, AssocFlow,
                    SentFlow, TrojanFlow, OwnFlow, SameConn, SameOut, SameRest
<1>10. Free(z) /\ z.maps = ctx.maps /\ z.closedBy = ctx.closedBy
  BY <1>3, <1>6, <1>7, <1>8 DEF Free, SameConn, SameRest
<1>11. SlotsDecided(slot') /\ Writes(k, t, d.outbound)
  BY <1>3, <1>5, <1>6, PutWrites DEF UdpInv
<1>12. ~conf.atOnce => Agree(slot, z.maps)
  BY <1>10 DEF UdpInv
<1>13. /\ Flow(conf, y) /\ Free(y) /\ y.closedBy = z.closedBy
       /\ ~conf.atOnce => Agree(slot', y.maps)
  BY <1>4, <1>5, <1>6, <1>8, <1>9, <1>10, <1>11, <1>12, DecidedKeeps
<1>14. Kept(y, RouteAnswered(y, t, d.outbound))
  BY <1>5, <1>6, <1>13, Ids, RouteAnsweredFlow DEF UdpInv
<1>15. QED
  BY <1>4, <1>10, <1>11, <1>13, <1>14, BecomeDone

LEMMA UdpAnswerKeeps == UdpInv /\ UdpAnswer => UdpInv' /\ Reason
<1> SUFFICES ASSUME UdpInv, UdpAnswer
             PROVE  UdpInv' /\ Reason
  OBVIOUS
<1>1. PICK z : z = Served(Now)
  OBVIOUS
<1>2. PICK t, o : t = ctx.request.target /\ o = ctx.request.route
  OBVIOUS
<1>3. /\ ctx.request # None /\ ctx.request.kind = "udp" /\ slot' = slot
      /\ ctx.state # "closed"
      /\ Become({Finalize(Now, "end")} \cup Sendto(z, t, o, NoOutbound))
  BY <1>1, <1>2 DEF UdpAnswer, Between, Served
<1>4. /\ t \in Targets /\ o \in MaybeOutbound
      /\ ~conf.local => ctx.state # "handshake"
      /\ o \notin conf.socks5 /\ o \notin conf.blocked
  BY <1>2, <1>3, AnswerTyped
<1>5. /\ Flow(conf, Now) /\ Now \in Context
      /\ Now.state = ctx.state /\ Now.maps = ctx.maps /\ Now.closedBy = ctx.closedBy
  BY NowKeeps
<1>6. /\ z \in Context
      /\ z.state = "service" /\ z.request = None
      /\ z.pending = Now.pending /\ z.unwind = Now.unwind
      /\ z.in = Now.in /\ z.sent = Now.sent /\ z.maps = Now.maps
      /\ z.closedBy = Now.closedBy
      /\ SameConn(z, Now) /\ SameOut(z, Now)
  BY <1>1, <1>5, ServedFields
<1>7. Flow(conf, z)
  BY <1>3, <1>4, <1>5, <1>6
     DEF Flow, Connecting, TimerFlow, PendingFlow, RequestFlow, AssocFlow,
         SentFlow, TrojanFlow, OwnFlow, SameConn, SameOut
<1>8. Kept(z, Sendto(z, t, o, NoOutbound))
  BY <1>4, <1>7, Ids, SendtoFlow
<1>9. Kept(z, {Finalize(Now, "end")} \cup Sendto(z, t, o, NoOutbound))
  BY <1>8, FinalizeWay DEF Kept, UdpInv
<1>10. SlotsDecided(slot') /\ (~conf.atOnce => Agree(slot', z.maps))
  BY <1>3, <1>5, <1>6 DEF UdpInv
<1>11. QED
  BY <1>3, <1>5, <1>6, <1>9, <1>10, BecomeDone

\* The session ends.
LEMMA EndKeeps ==
    ASSUME UdpInv, slot' = slot, NEW why \in {"connect", "end"},
           Become({Finalize(Now, why)}),
           why = "connect" /\ ~conf.local => Connecting(ctx)
    PROVE  UdpInv' /\ Reason
<1>1. PICK z : z = Finalize(Now, why)
  OBVIOUS
<1>2. Flow(conf, z) /\ z.maps = {} /\ z.closedBy = why
  BY <1>1, FinalizeFlow DEF UdpInv
<1>3. Kept(z, {z})
  BY <1>2 DEF Kept, Way
<1>4. Flow(conf, ctx') /\ Way(z, ctx') /\ conf' = conf
  BY <1>1, <1>3, BecomeFlow
<1>5. Agree(slot', ctx'.maps)
  BY <1>2, <1>4 DEF Way, Agree
<1>6. Reason
  BY <1>2, <1>4 DEF Way, Reason
<1>7. QED
  BY <1>4, <1>5, <1>6 DEF UdpInv

LEMMA TimerConnecting ==
    ASSUME UdpInv, ctx.timer \/ (ctx.leaked > 0 /\ ~conf.local)
    PROVE  Connecting(ctx)
  BY DEF UdpInv, Flow, TimerFlow, TrojanFlow

\* The handshake ends, or an abandoned connection is taken for it.
LEMMA AssociatedKeeps ==
    ASSUME UdpInv, ctx.state # "closed", Connecting(ctx) \/ ctx.leaked > 0,
           Become(Associated(Now)), slot' = slot
    PROVE  UdpInv' /\ Reason
<1>1. /\ Flow(conf, Now)
      /\ Now.state = ctx.state /\ Now.maps = ctx.maps /\ Now.closedBy = ctx.closedBy
      /\ SameConn(Now, ctx)
  BY NowKeeps
<1>2. Connecting(Now) \/ Now.leaked > 0
  BY <1>1 DEF Connecting, SameConn
<1>3. Kept(Now, Associated(Now))
  BY <1>1, <1>2, AssociatedFlow DEF UdpInv
<1>4. SlotsDecided(slot') /\ (~conf.atOnce => Agree(slot', Now.maps))
  BY <1>1 DEF UdpInv
<1>5. QED
  BY <1>1, <1>3, <1>4, BecomeDone

\* A step that touches nothing but what the client has sent.
LEMMA InKeeps ==
    ASSUME UdpInv, NEW in \in Seq(Targets), Len(in) <= MaxQueue,
           ctx' = [Now EXCEPT !.in = in], UNCHANGED <<slot, conf>>
    PROVE  UdpInv' /\ Reason
<1>1. /\ Flow(conf, Now) /\ Now \in Context
      /\ Now.maps = ctx.maps /\ Now.closedBy = ctx.closedBy
  BY NowKeeps
<1>2. PICK y : y = [Now EXCEPT !.in = in]
  OBVIOUS
<1>3. /\ y \in Context
      /\ y.in = in
      /\ y.state = Now.state /\ y.sent = Now.sent /\ y.maps = Now.maps
      /\ y.closedBy = Now.closedBy
      /\ SameConn(y, Now) /\ SameOut(y, Now) /\ SameWait(y, Now)
  BY <1>1, <1>2, InFields
<1>4. Flow(conf, y)
  BY <1>1, <1>3, SameFlow
<1>5. UdpInv'
  BY <1>1, <1>2, <1>3, <1>4 DEF UdpInv
<1>6. Reason
  BY <1>1, <1>2, <1>3 DEF Reason
<1>7. QED
  BY <1>5, <1>6

LEMMA DropKeeps == UdpInv /\ DropWhileResolving => UdpInv' /\ Reason
<1> SUFFICES ASSUME UdpInv, DropWhileResolving
             PROVE  UdpInv' /\ Reason
  OBVIOUS
<1>1. ctx.in \in Seq(Targets) /\ ctx.in # <<>> /\ Now.in = ctx.in
      /\ Len(ctx.in) <= MaxQueue /\ MaxQueue \in Nat
  <2>1. ctx.in \in Seq(Targets)
    BY Zenon DEF UdpInv, Flow, Context
  <2>2. QED
    BY <2>1, NowKeeps, UdpAssumption DEF DropWhileResolving, UdpInv, Flow
<1>2. PICK in : in = Tail(ctx.in)
  OBVIOUS
<1>3. in \in Seq(Targets) /\ Len(in) <= MaxQueue
  BY <1>1, <1>2, HeadTailProperties, LenProperties
<1>4. ctx' = [Now EXCEPT !.in = in] /\ UNCHANGED <<slot, conf>>
  BY <1>1, <1>2 DEF DropWhileResolving
<1>5. QED
  BY <1>3, <1>4, InKeeps

LEMMA ArriveKeeps ==
    ASSUME UdpInv, NEW t \in Sends, Arrive(t)
    PROVE  UdpInv' /\ Reason
<1>1. ctx.in \in Seq(Targets) /\ Now.in = ctx.in
      /\ Len(ctx.in) < MaxQueue /\ MaxQueue \in Nat /\ t \in Targets
  <2>1. ctx.in \in Seq(Targets)
    BY Zenon DEF UdpInv, Flow, Context
  <2>2. QED
    BY <2>1, NowKeeps, UdpAssumption DEF Arrive
<1>2. PICK in : in = Append(ctx.in, t)
  OBVIOUS
<1>3. in \in Seq(Targets) /\ Len(in) <= MaxQueue
  BY <1>1, <1>2, AppendProperties, LenProperties
<1>4. ctx' = [Now EXCEPT !.in = in] /\ UNCHANGED <<slot, conf>>
  BY <1>1, <1>2 DEF Arrive
<1>5. QED
  BY <1>3, <1>4, InKeeps

LEMMA ReplyReadKeeps == UdpInv /\ ReplyRead => UdpInv' /\ Reason
<1> SUFFICES ASSUME UdpInv, ReplyRead
             PROVE  UdpInv' /\ Reason
  OBVIOUS
<1>1. /\ Flow(conf, Now) /\ Now \in Context
      /\ Now.maps = ctx.maps /\ Now.closedBy = ctx.closedBy
      /\ Now.pending = ctx.pending
  BY NowKeeps DEF SameWait
<1>2. Now.pending \in Datagram
  <2>1. Now.pending \in Datagram \cup {None}
    BY <1>1, Zenon DEF Context
  <2>2. QED
    BY <1>1, <2>1 DEF ReplyRead
<1>3. PICK waiting : waiting = [Now.pending EXCEPT !.intact = FALSE]
  OBVIOUS
<1>4. waiting \in Datagram /\ waiting.route = Now.pending.route
  BY <1>2, <1>3 DEF Datagram
<1>5. waiting # None /\ Now.pending # None
  BY <1>2, <1>4, UdpAssumption
<1>6. PICK y : y = [Now EXCEPT !.pending = waiting]
  OBVIOUS
<1>7. /\ y \in Context
      /\ y.pending = waiting
      /\ y.request = Now.request /\ y.unwind = Now.unwind
      /\ SameConn(y, Now) /\ SameOut(y, Now) /\ SameRest(y, Now)
  BY <1>1, <1>4, <1>6, PendingFields
<1>8. Flow(conf, y)
  BY <1>1, <1>4, <1>5, <1>7
     DEF Flow, Connecting, TimerFlow, PendingFlow, RequestFlow, AssocFlow,
         SentFlow, TrojanFlow, OwnFlow, SameConn, SameOut, SameRest
<1>9. ctx' = y /\ slot' = slot /\ conf' = conf
  BY <1>1, <1>3, <1>6, Zenon DEF ReplyRead
<1>10. UdpInv'
  BY <1>1, <1>7, <1>8, <1>9 DEF UdpInv, SameRest
<1>11. Reason
  BY <1>1, <1>7, <1>9 DEF Reason, SameRest
<1>12. QED
  BY <1>10, <1>11

\* A step that changes nothing but the mappings, and the cache.
LEMMA MapsKeep ==
    ASSUME UdpInv, NEW y \in Context, y.in = Now.in,
           y.state = Now.state, y.sent = Now.sent, y.closedBy = Now.closedBy,
           SameConn(y, Now), SameOut(y, Now), SameWait(y, Now),
           ctx' = y, conf' = conf, SlotsDecided(slot'),
           Agree(slot, Now.maps) => Agree(slot', y.maps)
    PROVE  UdpInv' /\ Reason
<1>1. Flow(conf, Now) /\ Now.maps = ctx.maps /\ Now.closedBy = ctx.closedBy
  BY NowKeeps
<1>2. Len(y.in) <= MaxQueue
  BY <1>1 DEF Flow
<1>3. Flow(conf, y)
  BY <1>1, <1>2, SameFlow
<1>4. UdpInv'
  BY <1>1, <1>3 DEF UdpInv
<1>5. Reason
  BY <1>1 DEF Reason
<1>6. QED
  BY <1>4, <1>5

Older(m) == [m EXCEPT !.age = IF @ <= UdpTimeout THEN @ + 1 ELSE @]

LEMMA OlderFields ==
    ASSUME NEW m \in Mapping
    PROVE  Older(m) \in Mapping /\ SameRoute(Older(m), m)
<1>1. m.age \in 0 .. UdpTimeout + 1
  BY Zenon DEF Mapping
<1>2. PICK age : age = IF m.age <= UdpTimeout THEN m.age + 1 ELSE m.age
  OBVIOUS
<1>3. age \in 0 .. UdpTimeout + 1
  BY <1>1, <1>2, Ages
<1>4. Older(m) = [m EXCEPT !.age = age]
  BY <1>2 DEF Older
<1>5. QED
  BY <1>3, <1>4, AgedFields

LEMMA TickKeeps == UdpInv /\ Tick => UdpInv' /\ Reason
<1> SUFFICES ASSUME UdpInv, Tick
             PROVE  UdpInv' /\ Reason
  OBVIOUS
<1>1. Now \in Context /\ Now.maps \in SUBSET Mapping
  BY NowKeeps, Zenon DEF Context
<1>2. PICK maps : maps = {Older(m) : m \in Now.maps}
  OBVIOUS
<1>3. \A m \in Now.maps : Older(m) \in Mapping /\ SameRoute(Older(m), m)
  BY <1>1, OlderFields
<1>4. maps \in SUBSET Mapping
  BY <1>2, <1>3
<1>5. Agree(slot, Now.maps) => Agree(slot, maps)
  BY <1>2, <1>3 DEF Agree, SameRoute
<1>6. PICK y : y = [Now EXCEPT !.maps = maps]
  OBVIOUS
<1>7. /\ y \in Context
      /\ y.maps = maps
      /\ y.state = Now.state /\ y.in = Now.in /\ y.sent = Now.sent
      /\ y.closedBy = Now.closedBy
      /\ SameConn(y, Now) /\ SameOut(y, Now) /\ SameWait(y, Now)
  BY <1>1, <1>4, <1>6, MapsFields
<1>8. ctx' = y /\ slot' = slot /\ conf' = conf
  BY <1>2, <1>6 DEF Tick, Older
<1>9. QED
  BY <1>5, <1>7, <1>8, MapsKeep DEF UdpInv

LEMMA WrittenKeeps ==
    ASSUME UdpInv, NEW k \in Slots, NEW t, NEW o, NEW ttl, Writes(k, t, o),
           SlotsDecided(slot'), ctx' = CacheWrites(Now, k, t, o, ttl), conf' = conf
    PROVE  UdpInv' /\ Reason
<1>1. PICK y : y = CacheWrites(Now, k, t, o, ttl)
  OBVIOUS
<1>2. Now \in Context
  BY NowKeeps
<1>3. /\ y \in Context
      /\ y.state = Now.state /\ y.in = Now.in /\ y.sent = Now.sent
      /\ y.closedBy = Now.closedBy
      /\ SameConn(y, Now) /\ SameOut(y, Now) /\ SameWait(y, Now)
      /\ Agree(slot, Now.maps) => Agree(slot', y.maps)
  BY <1>1, <1>2, CacheWritesFields
<1>4. QED
  BY <1>1, <1>3, MapsKeep

LEMMA EvictKeeps ==
    ASSUME UdpInv, NEW k \in Slots, NEW t \in Targets, NEW o \in OutboundIds,
           NEW ttl \in BOOLEAN, Evict(k, t, o, ttl)
    PROVE  UdpInv' /\ Reason
<1>1. SlotsDecided(slot') /\ Writes(k, t, o)
  BY ReassignWrites DEF Evict, UdpInv
<1>2. QED
  BY <1>1, WrittenKeeps DEF Evict

LEMMA ReviseKeeps ==
    ASSUME UdpInv, NEW k \in Slots, NEW o \in OutboundIds, NEW ttl \in BOOLEAN,
           Revise(k, o, ttl)
    PROVE  UdpInv' /\ Reason
<1>1. SlotsDecided(slot') /\ Writes(k, slot[k].target, o)
  BY RedecideWrites DEF Revise, UdpInv
<1>2. QED
  BY <1>1, WrittenKeeps DEF Revise

-----------------------------------------------------------------------------
(* The whole module. *)

\* A session begins without a datagram, with its own association on its way if its
\* outbound needs one.
LEMMA InitUdpInv == Init => UdpInv
<1> SUFFICES ASSUME Init
             PROVE  UdpInv
  OBVIOUS
<1>1. conf \in Configs
  BY DEF Init
<1>2. SlotsDecided(slot)
  <2>1. EmptySlot \in SlotContent /\ EmptySlot.target = None
    BY DEF EmptySlot, SlotContent
  <2>2. slot = [k \in Slots |-> EmptySlot]
    BY DEF Init, SlotsInit
  <2>3. QED
    BY <2>1, <2>2 DEF SlotsDecided
<1>3. PICK z : z = NewContext
  OBVIOUS
<1>4. /\ z \in Context
      /\ z.state = "service" /\ z.in = <<>> /\ z.outbound = conf.own
      /\ z.pending = None /\ z.request = None /\ z.server = NoOutbound
      /\ z.leaked = 0 /\ z.maps = {} /\ z.unwind = None /\ z.sent = None
  BY <1>1, <1>3, NewFields
<1>5. Flow(conf, z)
  BY <1>1, <1>3, NewFlow
<1>6. Flow(conf, ctx) /\ ctx.maps = {}
  <2>1. CASE conf.own \in conf.socks5
    <3>1. ctx \in StartSocks5Udp(z, conf.own)
      BY <1>3, <2>1 DEF Init
    <3>2. /\ Len(z.in) <= MaxQueue
          /\ RequestFlow(conf, z) /\ SentFlow(conf, z)
      BY <1>5 DEF Flow
    <3>3. Kept(z, StartSocks5Udp(z, conf.own))
      BY <1>1, <1>4, <2>1, <3>2, StartSocks5UdpFlow
    <3>4. QED
      BY <1>4, <3>1, <3>3 DEF Kept, Way
  <2>2. CASE conf.own \notin conf.socks5
    BY <1>3, <1>4, <1>5, <2>2 DEF Init
  <2>3. QED
    BY <2>1, <2>2
<1>7. Agree(slot, ctx.maps)
  BY <1>6 DEF Agree
<1>8. QED
  BY <1>1, <1>2, <1>6, <1>7 DEF UdpInv

\* Every step keeps the invariant, and ends a session for the connect timer only
\* during a handshake.
LEMMA NextKeeps == UdpInv /\ [Next]_udpVars => UdpInv' /\ (Reason \/ UNCHANGED udpVars)
<1> SUFFICES ASSUME UdpInv, [Next]_udpVars
             PROVE  UdpInv' /\ (Reason \/ UNCHANGED udpVars)
  OBVIOUS
<1>1. CASE UNCHANGED udpVars
  BY <1>1 DEF UdpInv, udpVars
<1>2. CASE Frame
  <2>1. CASE FrameMapped
    BY <2>1, FrameMappedKeeps
  <2>2. CASE FrameUnrouted
    BY <2>2, FrameUnroutedKeeps
  <2>3. CASE FrameLost
    BY <2>3, FrameLostKeeps
  <2>4. CASE FrameAsks
    BY <2>4, FrameAsksKeeps
  <2>5. ASSUME NEW k \in Slots, FrameCached(k)
        PROVE  UdpInv' /\ Reason
    BY <2>5, FrameCachedKeeps
  <2>6. ASSUME NEW k \in Slots, NEW o \in OutboundIds, NEW ttl \in BOOLEAN,
               FrameRefreshed(k, o, ttl)
        PROVE  UdpInv' /\ Reason
    BY <2>6, FrameRefreshedKeeps
  <2>7. ASSUME NEW k \in Slots, NEW d \in Decisions, FrameDecided(k, d)
        PROVE  UdpInv' /\ Reason
    BY <2>7, FrameDecidedKeeps
  <2>8. ASSUME NEW k \in Slots, NEW d \in Decisions, FrameAnswered(k, d)
        PROVE  UdpInv' /\ Reason
    BY <2>8, FrameAnsweredKeeps
  <2>9. QED
    BY <1>2, <2>1, <2>2, <2>3, <2>4, <2>5, <2>6, <2>7, <2>8 DEF Frame
<1>3. CASE DropWhileResolving
  BY <1>3, DropKeeps
<1>4. CASE Answer
  <2>1. CASE UdpAnswer
    BY <2>1, UdpAnswerKeeps
  <2>2. CASE AnswerFails
    BY <2>2, EndKeeps DEF AnswerFails
  <2>3. ASSUME NEW k \in Slots, NEW d \in Decisions, RouteAnswer(k, d)
        PROVE  UdpInv' /\ Reason
    BY <2>3, RouteAnswerKeeps
  <2>4. QED
    BY <1>4, <2>1, <2>2, <2>3 DEF Answer
<1>5. CASE HandshakeEnds
  BY <1>5, AssociatedKeeps DEF HandshakeEnds, Between, Connecting
<1>6. CASE ConnectTimeout
  BY <1>6, TimerConnecting, EndKeeps DEF ConnectTimeout
<1>7. CASE LeakedEvent
  BY <1>7, AssociatedKeeps DEF LeakedEvent, Between
<1>8. CASE LeakedTimeout
  BY <1>8, TimerConnecting, EndKeeps DEF LeakedTimeout
<1>9. CASE ReplyRead
  BY <1>9, ReplyReadKeeps
<1>10. CASE End
  BY <1>10, EndKeeps DEF End
<1>11. CASE Tick
  BY <1>11, TickKeeps
<1>12. CASE CacheStep
  BY <1>12, EvictKeeps, ReviseKeeps DEF CacheStep
<1>13. ASSUME NEW t \in Sends, Arrive(t)
       PROVE  UdpInv' /\ Reason
  BY <1>13, ArriveKeeps
<1>14. QED
  BY <1>1, <1>2, <1>3, <1>4, <1>5, <1>6, <1>7, <1>8, <1>9, <1>10, <1>11, <1>12, <1>13
     DEF Next

LEMMA UdpInvariant == Spec => []UdpInv
<1>1. UdpInv /\ [Next]_udpVars => UdpInv'
  BY NextKeeps
<1>2. QED
  BY InitUdpInv, <1>1, PTL DEF Spec

\* Contexts, mappings and slots are well typed after any steps of the session and
\* of others, no queue exceeds its bound, and a Trojan session, which reads nothing
\* during a handshake, never abandons a connection to a SOCKS5 server.
THEOREM UdpTypeCorrect == Spec => []TypeOK
<1>1. UdpInv => TypeOK
  BY DEF UdpInv, SlotsDecided, Flow, TrojanFlow, TypeOK, SlotsTypeOK
<1>2. QED
  BY UdpInvariant, <1>1, PTL

\* send_udp_frame_routed sends every datagram where its own route says, although the
\* outbound in the context belongs to other datagrams in the meantime; up to the
\* first connection that StartSocks5Udp abandons.
THEOREM SentWhereRouted == Spec => []SentByRoute
<1>1. UdpInv => SentByRoute
  BY DEF UdpInv, Flow, SentFlow, SentByRoute
<1>2. QED
  BY UdpInvariant, <1>1, PTL

\* route_mark_stale and route_cache_unlink_active reach every mapping that was made
\* of the entry they change: what is not stale routes as the cache does.
THEOREM MappingsFollowCache == Spec => []MappingsAgree
<1>1. UdpInv => MappingsAgree
  BY DEF UdpInv, Agree, MappingsAgree
<1>2. QED
  BY UdpInvariant, <1>1, PTL

\* Whatever swaps ctx->outbound for a datagram, the session's own is put back.
THEOREM OwnOutboundRestored == Spec => []OutboundRestored
<1>1. UdpInv => OutboundRestored
  BY DEF UdpInv, Flow, OwnFlow, OutboundRestored
<1>2. QED
  BY UdpInvariant, <1>1, PTL

\* The connect timer is deleted as soon as the association is ready: afterwards it
\* ends no Trojan session.
THEOREM TimeoutOnlyConnecting == Spec => ConnectTimeoutWhileConnecting
<1>1. UdpInv /\ [Next]_udpVars =>
        [~conf.local /\ ctx'.closedBy = "connect" /\ ctx.closedBy = "none"
            => ctx.server # NoOutbound /\ ~ctx.ready]_udpVars
  BY NextKeeps DEF Reason, Connecting
<1>2. QED
  BY UdpInvariant, <1>1, PTL DEF Spec, ConnectTimeoutWhileConnecting

-----------------------------------------------------------------------------
(* UdpReply. *)

ReplySeq == Seq(Replies)

-----------------------------------------------------------------------------
(* Sequences of replies. *)

LEMMA CutInTwo ==
    ASSUME NEW hand \in ReplySeq, NEW n \in 0 .. Len(hand)
    PROVE  /\ SubSeq(hand, 1, n) \in ReplySeq
           /\ SubSeq(hand, n + 1, Len(hand)) \in ReplySeq
           /\ Len(SubSeq(hand, 1, n)) = n
           /\ Len(SubSeq(hand, n + 1, Len(hand))) = Len(hand) - n
           /\ SubSeq(hand, 1, n) \o SubSeq(hand, n + 1, Len(hand)) = hand
<1>1. /\ hand \in Seq(Replies) /\ Len(hand) \in Nat /\ n \in Nat /\ n <= Len(hand)
      /\ \A i \in 1 .. Len(hand) : hand[i] \in Replies
  BY ElementOfSeq, LenProperties DEF ReplySeq
<1>2. /\ \A i \in 1 .. n : hand[i] \in Replies
      /\ \A i \in n + 1 .. Len(hand) : hand[i] \in Replies
  BY <1>1
<1>3. SubSeq(hand, 1, n) \in Seq(Replies) /\ Len(SubSeq(hand, 1, n)) = n
  BY <1>1, <1>2, SubSeqProperties
<1>4. /\ SubSeq(hand, n + 1, Len(hand)) \in Seq(Replies)
      /\ Len(SubSeq(hand, n + 1, Len(hand))) = Len(hand) - n
  BY <1>1, <1>2, SubSeqProperties
<1>5. SubSeq(hand, 1, n) \o SubSeq(hand, n + 1, Len(hand)) = SubSeq(hand, 1, Len(hand))
  <2>1. 1 \in 1 .. Len(hand) + 1 /\ n \in 1 - 1 .. Len(hand) /\ Len(hand) \in n .. Len(hand)
    BY <1>1
  <2>2. QED
    BY <1>1, <2>1, ConcatAdjacentSubSeq
<1>6. SubSeq(hand, 1, Len(hand)) = hand
  BY <1>1, SubSeqFull
<1>7. QED
  BY <1>3, <1>4, <1>5, <1>6 DEF ReplySeq

LEMMA Joined ==
    ASSUME NEW s \in ReplySeq, NEW t \in ReplySeq
    PROVE  s \o t \in ReplySeq /\ Len(s \o t) = Len(s) + Len(t)
  BY ConcatProperties DEF ReplySeq

LEMMA Regrouped ==
    \A s, t, u \in ReplySeq : (s \o t) \o u = s \o (t \o u)
  BY ConcatAssociative DEF ReplySeq

LEMMA LeastOf ==
    ASSUME NEW a \in Nat, NEW b \in Nat
    PROVE  /\ Least(a, b) \in Nat
           /\ Least(a, b) <= a /\ Least(a, b) <= b
           /\ Least(a, b) = a \/ Least(a, b) = b
  BY DEF Least

-----------------------------------------------------------------------------
(* flush_udp_client. *)

\* Of at most one frame more than fits nothing is lost: what is not written is one
\* frame, and there is a place for it.
LEMMA WriteSound ==
    ASSUME frames \in ReplySeq, Len(frames) <= Room,
           NEW hand \in ReplySeq, Len(hand) <= Space + 1, Write(hand)
    PROVE  \E front \in ReplySeq, back \in ReplySeq :
               /\ hand = front \o back
               /\ frames' = frames \o front /\ Len(frames') <= Room
               /\ pending' = back /\ Len(back) <= 1
               /\ blocked' \in BOOLEAN
<1>1. Len(hand) \in Nat /\ Len(frames) \in Nat /\ Room \in Nat
  BY ReplyAssumption, LenProperties DEF ReplySeq
<1>2. Space \in Nat /\ Space = Room - Len(frames)
  BY <1>1 DEF Space
<1>3. PICK n : n = Least(Space, Len(hand))
  OBVIOUS
<1>4. n \in 0 .. Len(hand) /\ n <= Space /\ (n = Space \/ n = Len(hand))
  BY <1>1, <1>2, <1>3, LeastOf
<1>5. PICK front : front = SubSeq(hand, 1, n)
  OBVIOUS
<1>6. PICK back : back = SubSeq(hand, n + 1, Len(hand))
  OBVIOUS
<1>7. /\ front \in ReplySeq /\ back \in ReplySeq /\ front \o back = hand
      /\ Len(front) = n /\ Len(back) = Len(hand) - n
  BY <1>4, <1>5, <1>6, CutInTwo
<1>8. Least(n + 1, Len(hand)) = Len(hand)
  BY <1>1, <1>2, <1>4 DEF Least
<1>9. frames' = frames \o front /\ pending' = back
  BY <1>3, <1>5, <1>6, <1>8 DEF Write
<1>10. (n < Len(hand)) \in BOOLEAN
  BY <1>1, <1>4
<1>11. blocked' \in BOOLEAN
  BY <1>3, <1>10 DEF Write
<1>12. Len(frames') <= Room
  <2>1. Len(frames \o front) = Len(frames) + Len(front)
    BY <1>7, Joined
  <2>2. QED
    BY <1>1, <1>2, <1>4, <1>7, <1>9, <2>1
<1>13. Len(back) <= 1
  BY <1>1, <1>2, <1>4, <1>7
<1>14. QED
  BY <1>7, <1>9, <1>11, <1>12, <1>13

-----------------------------------------------------------------------------
(* The inductive invariant. *)

\* All that was read is with the client, on the way or, of an open session, set
\* aside.
ReplyInv ==
    /\ ReplyTypeOK
    /\ \E rest \in ReplySeq :
         read = (got \o frames) \o rest /\ (open => rest = pending)

LEMMA InitReplyInv == ReplyInit => ReplyInv
<1> SUFFICES ASSUME ReplyInit PROVE ReplyInv
  OBVIOUS
<1>1. <<>> \in Seq(Replies) /\ Len(<<>>) = 0 /\ <<>> \in ReplySeq
  BY EmptySeq DEF ReplySeq
<1>2. ReplyTypeOK
  <2>1. 0 \in 0 .. MaxReplies /\ 0 <= Room /\ 0 <= 1
    BY ReplyAssumption
  <2>2. queue \in [Sockets -> Seq(Replies)]
    BY <1>1 DEF ReplyInit
  <2>3. QED
    BY <1>1, <2>1, <2>2 DEF ReplyInit, ReplyTypeOK
<1>3. read = (got \o frames) \o <<>> /\ (open => <<>> = pending)
  <2>1. <<>> \o <<>> = <<>>
    BY <1>1, ConcatEmptySeq
  <2>2. QED
    BY <2>1 DEF ReplyInit
<1>4. QED
  BY <1>1, <1>2, <1>3 DEF ReplyInv

\* A flush of what was set aside and what has just been read.
LEMMA WriteInv ==
    ASSUME ReplyInv, open, NEW taken \in ReplySeq, Len(pending \o taken) <= Space + 1,
           Write(pending \o taken), read' = read \o taken, got' = got, open' = open,
           arrived' = arrived, queue' \in [Sockets -> Seq(Replies)]
    PROVE  ReplyInv'
<1>1. /\ frames \in ReplySeq /\ pending \in ReplySeq /\ got \in ReplySeq
      /\ read \in ReplySeq /\ Len(frames) <= Room
      /\ arrived \in 0 .. MaxReplies /\ open \in BOOLEAN
  BY DEF ReplyInv, ReplyTypeOK, ReplySeq
<1>2. read = (got \o frames) \o pending
  BY DEF ReplyInv
<1>3. PICK hand \in ReplySeq : hand = pending \o taken
  BY <1>1, Joined
<1>4. PICK front \in ReplySeq, back \in ReplySeq :
          /\ hand = front \o back
          /\ frames' = frames \o front /\ Len(frames') <= Room
          /\ pending' = back /\ Len(back) <= 1
          /\ blocked' \in BOOLEAN
  BY <1>1, <1>3, WriteSound
<1>5. PICK before \in ReplySeq : before = got \o frames
  BY <1>1, Joined
<1>6. read' = (got' \o frames') \o back
  <2>1. read' = before \o hand
    <3>1. read' = (before \o pending) \o taken
      BY <1>2, <1>5
    <3>2. (before \o pending) \o taken = before \o (pending \o taken)
      <4>1. before \in ReplySeq /\ pending \in ReplySeq /\ taken \in ReplySeq
        BY <1>1
      <4>2. \A t, u \in ReplySeq : (before \o t) \o u = before \o (t \o u)
        BY <4>1, Regrouped, Zenon
      <4>3. QED
        BY <4>1, <4>2, Zenon
    <3>3. QED
      BY <1>3, <3>1, <3>2
  <2>2. before \o hand = (before \o front) \o back
    <3>1. before \in ReplySeq /\ front \in ReplySeq /\ back \in ReplySeq
      BY <1>1
    <3>2. \A t, u \in ReplySeq : (before \o t) \o u = before \o (t \o u)
      BY <3>1, Regrouped, Zenon
    <3>3. (before \o front) \o back = before \o (front \o back)
      BY <3>1, <3>2, Zenon
    <3>4. QED
      BY <1>4, <3>3
  <2>3. before \o front = got \o (frames \o front)
    <3>1. (got \o frames) \o front = got \o (frames \o front)
      <4>1. got \in ReplySeq /\ frames \in ReplySeq /\ front \in ReplySeq
        BY <1>1
      <4>2. \A t, u \in ReplySeq : (got \o t) \o u = got \o (t \o u)
        BY <4>1, Regrouped, Zenon
      <4>3. QED
        BY <4>1, <4>2, Zenon
    <3>2. QED
      BY <1>5, <3>1
  <2>4. QED
    BY <1>4, <2>1, <2>2, <2>3
<1>7. frames' \in ReplySeq /\ read' \in ReplySeq
  BY <1>1, <1>4, Joined
<1>8. ReplyTypeOK'
  BY <1>1, <1>4, <1>7 DEF ReplyTypeOK, ReplySeq
<1>9. QED
  BY <1>4, <1>6, <1>8 DEF ReplyInv

LEMMA NextReplyInv == ReplyInv /\ [ReplyNext]_replyVars => ReplyInv'
<1> SUFFICES ASSUME ReplyInv, [ReplyNext]_replyVars PROVE ReplyInv'
  OBVIOUS
<1>1. /\ frames \in ReplySeq /\ pending \in ReplySeq /\ got \in ReplySeq
      /\ read \in ReplySeq /\ Len(frames) <= Room /\ Len(pending) <= 1
      /\ arrived \in 0 .. MaxReplies /\ open \in BOOLEAN /\ blocked \in BOOLEAN
      /\ queue \in [Sockets -> Seq(Replies)]
  BY DEF ReplyInv, ReplyTypeOK, ReplySeq
<1>2. <<>> \in Seq(Replies) /\ <<>> \in ReplySeq /\ Len(<<>>) = 0
  BY EmptySeq DEF ReplySeq
<1>3. /\ Space \in Nat /\ Len(pending) \in Nat
      /\ Space = Room - Len(frames)
  BY <1>1, ReplyAssumption, LenProperties DEF Space, ReplySeq
<1>4. ASSUME NEW s \in Sockets, ReadSocket(s) PROVE ReplyInv'
  <2>1. PICK from \in ReplySeq : from = queue[s]
    BY <1>1 DEF ReplySeq
  <2>2. Len(from) \in Nat
    BY LenProperties DEF ReplySeq
  <2>3. PICK n : n = TakenReplies(s)
    OBVIOUS
  <2>4. n \in 0 .. Len(from) /\ Len(pending) + n <= Space + 1
    <3>1. CASE Space < Len(pending)
      BY <1>1, <1>3, <2>2, <2>3, <3>1 DEF TakenReplies
    <3>2. CASE ~(Space < Len(pending))
      <4>1. Space - Len(pending) + 1 \in Nat
        BY <1>3, <3>2
      <4>2. n = Least(Len(from), Space - Len(pending) + 1)
        BY <2>1, <2>3, <3>2 DEF TakenReplies
      <4>3. n \in Nat /\ n <= Len(from) /\ n <= Space - Len(pending) + 1
        BY <2>2, <4>1, <4>2, LeastOf
      <4>4. QED
        BY <1>3, <2>2, <4>3
    <3>3. QED
      BY <3>1, <3>2
  <2>5. PICK taken : taken = SubSeq(from, 1, n)
    OBVIOUS
  <2>6. PICK left : left = SubSeq(from, n + 1, Len(from))
    OBVIOUS
  <2>7. taken \in ReplySeq /\ left \in ReplySeq /\ Len(taken) = n
    BY <2>4, <2>5, <2>6, CutInTwo
  <2>8. /\ open /\ Write(pending \o taken) /\ read' = read \o taken
        /\ queue' = [queue EXCEPT ![s] = left]
        /\ got' = got /\ open' = open /\ arrived' = arrived
    BY <1>4, <2>1, <2>3, <2>5, <2>6 DEF ReadSocket
  <2>9. queue' \in [Sockets -> Seq(Replies)]
    BY <1>1, <2>7, <2>8 DEF ReplySeq
  <2>10. Len(pending \o taken) <= Space + 1
    <3>1. Len(pending \o taken) = Len(pending) + Len(taken)
      BY <1>1, <2>7, Joined
    <3>2. QED
      BY <2>4, <2>7, <3>1
  <2>11. QED
    BY <2>7, <2>8, <2>9, <2>10, WriteInv
<1>5. CASE WriteEvent
  <2>1. /\ open /\ Write(pending) /\ read' = read /\ got' = got /\ open' = open
        /\ arrived' = arrived /\ queue' = queue
    BY <1>5 DEF WriteEvent
  <2>2. pending \o <<>> = pending /\ read \o <<>> = read
    BY <1>1, ConcatEmptySeq DEF ReplySeq
  <2>3. Len(pending) <= Space + 1
    BY <1>1, <1>3
  <2>4. QED
    BY <1>1, <1>2, <2>1, <2>2, <2>3, WriteInv
<1>6. ASSUME NEW s \in Sockets, CloseSocket(s) PROVE ReplyInv'
  <2>1. queue' \in [Sockets -> Seq(Replies)]
    BY <1>1, <1>2, <1>6 DEF CloseSocket
  <2>2. UNCHANGED <<arrived, frames, pending, blocked, read, got, open>>
    BY <1>6 DEF CloseSocket
  <2>3. QED
    BY <2>1, <2>2 DEF ReplyInv, ReplyTypeOK
<1>7. CASE EndReplies
  <2>1. queue' \in [Sockets -> Seq(Replies)]
    BY <1>2, <1>7 DEF EndReplies
  <2>2. /\ open' = FALSE /\ pending' = <<>> /\ blocked' = FALSE
        /\ UNCHANGED <<arrived, frames, read, got>>
    BY <1>7 DEF EndReplies
  <2>3. ReplyTypeOK'
    <3>1. pending' \in Seq(Replies) /\ Len(pending') <= 1
      BY <2>2, EmptySeq
    <3>2. blocked' \in BOOLEAN /\ open' \in BOOLEAN
      BY <2>2, Zenon
    <3>3. /\ arrived' \in 0 .. MaxReplies
          /\ frames' \in Seq(Replies) /\ Len(frames') <= Room
          /\ read' \in Seq(Replies) /\ got' \in Seq(Replies)
      BY <1>1, <2>2 DEF ReplySeq
    <3>4. QED
      BY <2>1, <3>1, <3>2, <3>3 DEF ReplyTypeOK
  <2>4. PICK rest \in ReplySeq : read = (got \o frames) \o rest
    BY DEF ReplyInv
  <2>5. read' = (got' \o frames') \o rest /\ ~open'
    BY <2>2, <2>4
  <2>6. QED
    BY <2>3, <2>5 DEF ReplyInv
<1>8. ASSUME NEW s \in Sockets, ReplyArrives(s) PROVE ReplyInv'
  <2>1. arrived' = arrived + 1 /\ arrived < MaxReplies
    BY <1>8 DEF ReplyArrives
  <2>2. arrived' \in Replies /\ arrived' \in 0 .. MaxReplies
    BY <1>1, <2>1, ReplyAssumption DEF Replies
  <2>3. Append(queue[s], arrived') \in Seq(Replies)
    BY <1>1, <2>2, AppendProperties
  <2>4. queue' \in [Sockets -> Seq(Replies)]
    BY <1>1, <1>8, <2>3 DEF ReplyArrives
  <2>5. UNCHANGED <<frames, pending, blocked, read, got, open>>
    BY <1>8 DEF ReplyArrives
  <2>6. QED
    BY <2>2, <2>4, <2>5 DEF ReplyInv, ReplyTypeOK
<1>9. CASE Consume
  <2>1. /\ frames # <<>> /\ got' = Append(got, Head(frames)) /\ frames' = Tail(frames)
        /\ UNCHANGED <<arrived, queue, pending, blocked, read, open>>
    BY <1>9 DEF Consume
  <2>2. PICK head : head = Head(frames)
    OBVIOUS
  <2>3. PICK tail : tail = Tail(frames)
    OBVIOUS
  <2>4. head \in Replies /\ tail \in ReplySeq /\ Len(tail) = Len(frames) - 1
    BY <1>1, <2>1, <2>2, <2>3, HeadTailProperties DEF ReplySeq
  <2>5. frames = <<head>> \o tail /\ <<head>> \in ReplySeq
    BY <1>1, <2>1, <2>2, <2>3, <2>4 DEF ReplySeq
  <2>6. Append(got, head) = got \o <<head>> /\ Append(got, head) \in ReplySeq
    BY <1>1, <2>4, AppendIsConcat, AppendProperties DEF ReplySeq
  <2>7. got' \o frames' = got \o frames
    <3>1. (got \o <<head>>) \o tail = got \o (<<head>> \o tail)
      <4>1. got \in ReplySeq /\ <<head>> \in ReplySeq /\ tail \in ReplySeq
        BY <1>1, <2>4, <2>5
      <4>2. \A t, u \in ReplySeq : (got \o t) \o u = got \o (t \o u)
        BY <4>1, Regrouped, Zenon
      <4>3. QED
        BY <4>1, <4>2, Zenon
    <3>2. QED
      BY <2>1, <2>2, <2>3, <2>5, <2>6, <3>1
  <2>8. ReplyTypeOK'
    <3>1. Len(tail) <= Room
      BY <1>1, <2>4, ReplyAssumption, LenProperties DEF ReplySeq
    <3>2. QED
      BY <1>1, <2>1, <2>2, <2>3, <2>4, <2>6, <3>1 DEF ReplyTypeOK, ReplySeq
  <2>9. QED
    BY <2>1, <2>7, <2>8 DEF ReplyInv
<1>10. CASE UNCHANGED replyVars
  BY <1>10 DEF replyVars, ReplyInv, ReplyTypeOK
<1>11. QED
  BY <1>4, <1>5, <1>6, <1>7, <1>8, <1>9, <1>10 DEF ReplyNext

\* What was read is what the client got, what is on its way and what is left over.
THEOREM ReplyInvHolds == ReplySpec => []ReplyInv
  BY InitReplyInv, NextReplyInv, PTL DEF ReplySpec

-----------------------------------------------------------------------------
(* What follows. *)

\* The queues and the connection stay within their bounds, and one place for a
\* frame set aside is enough, for any number of sockets that take turns.
THEOREM ReplyTypeCorrect == ReplySpec => []ReplyTypeOK
<1>1. ReplyInv => ReplyTypeOK
  BY DEF ReplyInv
<1>2. QED
  BY <1>1, ReplyInvHolds, PTL

\* The replies read from the sockets reach the client in the order they were read,
\* none lost, repeated or overwritten, up to the end of the session.
THEOREM OrderKept == ReplySpec => []RepliesInOrder
<1>1. ReplyInv => RepliesInOrder
  <2> SUFFICES ASSUME ReplyInv PROVE RepliesInOrder
    OBVIOUS
  <2>1. frames \in ReplySeq /\ got \in ReplySeq /\ pending \in ReplySeq
    BY DEF ReplyInv, ReplyTypeOK, ReplySeq
  <2>2. PICK rest \in ReplySeq : read = (got \o frames) \o rest /\ (open => rest = pending)
    BY DEF ReplyInv
  <2>3. PICK sent \in ReplySeq : sent = got \o frames
    BY <2>1, Joined
  <2>4. Len(sent) = Len(got) + Len(frames)
    BY <2>1, <2>3, Joined
  <2>5. SubSeq(sent \o rest, 1, Len(sent)) = sent
    <3>1. CASE Len(sent) = 0
      <4>1. sent = <<>>
        BY <3>1, EmptySeq DEF ReplySeq
      <4>2. SubSeq(sent \o rest, 1, 0) = <<>>
        BY SubSeqEmpty
      <4>3. QED
        BY <3>1, <4>1, <4>2
    <3>2. CASE Len(sent) # 0
      <4>1. 1 \in 1 .. Len(sent) /\ Len(sent) \in 1 .. Len(sent)
        BY <3>2, LenProperties DEF ReplySeq
      <4>2. SubSeq(sent \o rest, 1, Len(sent)) = SubSeq(sent, 1, Len(sent))
        BY <4>1, SubSeqOfConcat1 DEF ReplySeq
      <4>3. QED
        BY <4>2, SubSeqFull DEF ReplySeq
    <3>3. QED
      BY <3>1, <3>2
  <2>6. got \o frames = SubSeq(read, 1, Len(got) + Len(frames))
    BY <2>2, <2>3, <2>4, <2>5
  <2>7. QED
    BY <2>2, <2>6 DEF RepliesInOrder
<1>2. QED
  BY <1>1, ReplyInvHolds, PTL
=============================================================================
