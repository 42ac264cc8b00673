------------------------------ MODULE UdpRoute ------------------------------
(***************************************************************************)
(* The UDP service of one session, from the client to the targets, with    *)
(* routing on: each datagram is routed by its own target through a table   *)
(* of mappings, the shared cache, the rules or the resolver, and leaves    *)
(* through a socket of the session or through the association with a       *)
(* SOCKS5 server, which is set up on demand.  ctx->outbound is swapped     *)
(* while a datagram is on its way and put back afterwards.                 *)
(*                                                                         *)
(* A Trojan client sends its datagrams in its stream, one after another;   *)
(* a local SOCKS5 client sends them to a socket that is read at any time.  *)
(*                                                                         *)
(* An operator from contexts to sets of contexts gives the ways one        *)
(* function can end, and an action picks one.  What finalize frees is not  *)
(* looked at again.                                                        *)
(***************************************************************************)
EXTENDS RouteSlots

CONSTANTS
    Configs,        \* what a session can be given, see Config
    Sends,          \* the targets its client sends datagrams to
    UdpTimeout,     \* trojan_udp_timeout, in drain times
    MaxQueue,       \* bound: datagrams waiting to be read
    MaxLeaked       \* bound: abandoned connections

Drain == 1          \* NGX_STREAM_MTROJAN_ROUTE_DRAIN_TIMEOUT

MaybeOutbound == OutboundIds \cup {NoOutbound}

\* intact: the payload is still the one that was read.
Datagram == [target : Targets, route : MaybeOutbound, intact : BOOLEAN]

\* local: the client is a local SOCKS5 client (inbound_socks5).
\* nginx: names are resolved by the nginx resolver; atOnce: which calls back
\*     inside ngx_resolve_name.
\* own: the outbound the session was routed to; NoOutbound is NULL.
\* socks5, blocked: outbounds with a SOCKS5 server, outbounds that block UDP.
Config == [local : BOOLEAN, nginx : BOOLEAN, atOnce : BOOLEAN,
           own : MaybeOutbound, socks5 : SUBSET OutboundIds,
           blocked : SUBSET OutboundIds]

ASSUME UdpAssumption ==
    /\ Configs \subseteq Config /\ Sends \subseteq Targets
    /\ \A c \in Configs : c.own \notin c.blocked
    /\ UdpTimeout \in Nat /\ UdpTimeout > Drain
    /\ MaxQueue \in Nat /\ MaxLeaked \in Nat
    /\ None \notin Targets /\ None \notin Datagram

VARIABLES
    conf,       \* does not change
    ctx

udpVars == <<slot, conf, ctx>>

\* age is ngx_current_msec - last_seen; a mapping is on its entry's list while
\* linked.  The 64 buckets are one set: how hashes and age order the mappings is
\* left open.
Mapping == [target : Targets, outbound : OutboundIds, entry : Slots \cup {None},
            linked : BOOLEAN, stale : BOOLEAN, age : 0 .. UdpTimeout + 1]

\* restore: udp_route_restore_outbound, where NULL means "not set".
\* pending: udp_route_addr, udp_payload, udp_route_saved_outbound, while
\*     udp_route_pending is set; intact: udp_payload, which replies are read
\*     into as well, still holds its payload.
\* request: resolver_ctx and what its handler is to do.
\* server: the outbound whose server ctx->upstream leads to; ready: its answer
\*     to the UDP request has been read; timer: the connect timer on it.
\* direct: a socket for direct datagrams, udp4 or udp6, has been opened.
\* sock, assoc: socks5_udp and socks5_udp_outbound.
\* leaked: connections that ctx->upstream no longer points to, timers running.
\* unwind: what the outermost caller of a nested process_udp_client puts back.
\* sent, closedBy: history, the datagram the last step sent and the outbound
\*     whose association it used; what ended the session.
Context == [state : {"service", "resolving", "handshake", "closed"},
            in : Seq(Targets), outbound : MaybeOutbound,
            restore : MaybeOutbound, pending : Datagram \cup {None},
            request : [kind : {"route", "udp"}, target : Targets,
                       route : MaybeOutbound] \cup {None},
            server : MaybeOutbound, ready : BOOLEAN, timer : BOOLEAN,
            direct : BOOLEAN, sock : BOOLEAN, assoc : MaybeOutbound,
            leaked : 0 .. MaxLeaked, maps : SUBSET Mapping,
            unwind : MaybeOutbound \cup {None},
            sent : [target : Targets, route : MaybeOutbound,
                    intact : BOOLEAN, via : MaybeOutbound] \cup {None},
            closedBy : {"none", "connect", "end"}]

NewContext ==
    [state |-> "service", in |-> <<>>, outbound |-> conf.own,
     restore |-> NoOutbound, pending |-> None, request |-> None, server |-> NoOutbound, ready |-> FALSE,
     timer |-> FALSE, direct |-> FALSE, sock |-> FALSE, assoc |-> NoOutbound,
     leaked |-> 0, maps |-> {}, unwind |-> None, sent |-> None,
     closedBy |-> "none"]

-----------------------------------------------------------------------------
(* Mappings. *)

\* An entry is alive to a lookup that walks past it.
Alive(m) == ~(m.stale /\ m.age > Drain) /\ m.age <= UdpTimeout

\* The mapping a lookup of t finds.
Hits(maps, t) == {m \in maps : m.target = t /\ Alive(m)}

\* The mapping that is found has just been seen.
Seen(m) == [m EXCEPT !.age = 0]

\* ngx_stream_mtrojan_udp_route_mapping_lookup: what is dead on the way is taken
\* out.  A lookup that finds none has passed every mapping of its target.
LookedUp(maps, t) ==
    LET dead == {m \in maps : ~Alive(m)}
        all == {m \in dead : m.target = t}
    IN  {(maps \ (gone \cup {hit})) \cup {Seen(hit)} :
            gone \in SUBSET dead, hit \in Hits(maps, t)}
        \cup (IF Hits(maps, t) = {}
              THEN {maps \ (gone \cup all) : gone \in SUBSET dead} ELSE {})

NewMapping(t, o, k, ttl) ==
    [target |-> t, outbound |-> o, entry |-> IF ttl THEN k ELSE None,
     linked |-> ttl, stale |-> FALSE, age |-> 0]

\* ngx_stream_mtrojan_udp_route_mapping_insert and route_track_udp: a mapping that
\* is found becomes the new one.
Mapped(x, t, o, k, ttl) ==
    {[x EXCEPT !.maps = (maps \ Hits(maps, t)) \cup {NewMapping(t, o, k, ttl)}] :
        maps \in LookedUp(x.maps, t)}

\* Fault: the mappings of an entry that changes hands stay listed on it.
StillListed(maps, k) == maps

\* ngx_stream_mtrojan_route_cache_unlink_active: stale is left as it is.
Unlinked(maps, k) ==
    {IF m.linked /\ m.entry = k
     THEN [m EXCEPT !.linked = FALSE, !.entry = None] ELSE m : m \in maps}

\* ngx_stream_mtrojan_route_mark_stale
Marked(maps, k, old) ==
    {IF m.linked /\ m.entry = k /\ m.outbound = old
     THEN [m EXCEPT !.stale = TRUE, !.age = 0] ELSE m : m \in maps}

\* Slot k comes to hold outbound o for target t, by an insert or an update.
CacheWrites(x, k, t, o, ttl) ==
    LET old == slot[k] IN
    [x EXCEPT !.maps =
        IF old.target # t THEN Unlinked(@, k)
        ELSE IF old.outbound # o THEN Marked(@, k, old.outbound) ELSE @]

-----------------------------------------------------------------------------
(* Sending. *)

\* ngx_stream_mtrojan_finalize: the context and its mappings go with the pool.
Finalize(x, why) == [NewContext EXCEPT !.state = "closed", !.closedBy = why]

\* An error from send_udp_frame: process_udp_client ends the session,
\* socks5_in_udp_read_handler takes no notice.
SendFails(x) == IF conf.local THEN {x} ELSE {Finalize(x, "end")}

\* sendto: gone out by the association with server `via` or directly, or lost
\* for want of room.
SendtoOf(x, dgram, via) ==
    LET y == [x EXCEPT !.direct = @ \/ via = NoOutbound] IN
    {[y EXCEPT !.sent = [target |-> dgram.target, route |-> dgram.route,
                         intact |-> dgram.intact, via |-> via]], y}

\* The same for a datagram that has not waited.
Sendto(x, t, o, via) ==
    SendtoOf(x, [target |-> t, route |-> o, intact |-> TRUE], via)

\* Fault: no timer limits the handshake.
StartUntimed(x, o) ==
    LET kept == x.server # NoOutbound /\ x.assoc = NoOutbound IN
    {Finalize(x, "end"),
     [x EXCEPT !.state = "handshake", !.server = o, !.ready = FALSE,
               !.sock = FALSE, !.assoc = NoOutbound,
               !.leaked = IF kept THEN @ + 1 ELSE @]}

\* Fault: the former connection is never closed.
StartLeaking(x, o) ==
    {Finalize(x, "end"),
     [x EXCEPT !.state = "handshake", !.server = o, !.ready = FALSE,
               !.timer = TRUE, !.sock = FALSE, !.assoc = NoOutbound,
               !.leaked = IF x.server # NoOutbound THEN @ + 1 ELSE @]}

\* close_socks5_udp, start_socks5_udp, socks5_connect.  The former connection
\* is closed only when it had been given a socket and a name.
StartSocks5Udp(x, o) ==
    LET kept == x.server # NoOutbound /\ x.assoc = NoOutbound IN
    {Finalize(x, "end"),
     [x EXCEPT !.state = "handshake", !.server = o, !.ready = FALSE,
               !.timer = TRUE, !.sock = FALSE, !.assoc = NoOutbound,
               !.leaked = IF kept THEN @ + 1 ELSE @]}

\* The caller does not put the outbound back when a datagram is left waiting.
Swapped(x, o) == [x EXCEPT !.outbound = o, !.restore = x.outbound]
Restored(x) == [x EXCEPT !.restore = NoOutbound]
AfterAgain(x, o) == IF x.pending = None THEN Restored(x) ELSE Swapped(x, o)

Waiting(x, kind, t, o) ==
    [x EXCEPT !.state = "resolving",
              !.request = [kind |-> kind, target |-> t, route |-> o]]

\* The answer comes within the call: the datagram goes out and, for a Trojan
\* client, a nested process_udp_client reads on with the outbound swapped.
SentAtOnce(x, t, o) ==
    IF conf.local
    THEN Sendto([AfterAgain(x, o) EXCEPT !.state = "service"], t, o, NoOutbound)
    ELSE Sendto([Swapped(x, o) EXCEPT
                    !.state = "service",
                    !.unwind = IF x.unwind = None THEN x.outbound ELSE @],
                t, o, NoOutbound)

\* send_udp_frame_routed with resolve_udp; start_resolver may fail midway.
ResolveAndSend(x, t, o) ==
    {Waiting(AfterAgain(x, o), "udp", t, o)}
    \cup SendFails([Restored(x) EXCEPT !.state = "resolving"])
    \cup (IF conf.atOnce THEN SentAtOnce(x, t, o) \cup {Finalize(x, "end")}
          ELSE {})

\* Fault: any association will do.
NeedsAnyAssociation(x, o) == ~x.sock

\* The test at the head of send_udp_frame_routed.
NeedsAssociation(x, o) == ~x.sock \/ x.assoc # o

\* ngx_stream_mtrojan_udp_frame_blocked
UdpFrameBlocked(o) == o \in conf.blocked

\* The rest of send_udp_frame, once outbound o is chosen: udp_frame_blocked,
\* send_udp_frame_routed, and putting the outbound back.
Route(x, t, o) ==
    IF UdpFrameBlocked(o) THEN {Restored(x)}
    ELSE IF o \in conf.socks5 THEN
        IF NeedsAssociation(x, o)
        THEN StartSocks5Udp([Swapped(x, o) EXCEPT
                                !.pending = [target |-> t, route |-> o,
                                              intact |-> TRUE]], o)
        ELSE Sendto(Restored(x), t, o, x.server) \cup SendFails(Restored(x))
    ELSE IF conf.nginx /\ t \in Domains THEN ResolveAndSend(x, t, o)
    ELSE Sendto(Restored(x), t, o, NoOutbound) \cup SendFails(Restored(x))

\* The same in resolve_handler for resolve_udp_route.  When the name is resolved
\* once more for the sending, nobody puts the outbound back.
RouteAnswered(x, t, o) ==
    LET y == [x EXCEPT !.state = "service"] IN
    IF UdpFrameBlocked(o) THEN {Restored(y)}
    ELSE IF o \in conf.socks5 THEN
        IF NeedsAssociation(x, o)
        THEN StartSocks5Udp([Swapped(x, o) EXCEPT
                                !.pending = [target |-> t, route |-> o,
                                              intact |-> TRUE]], o)
        ELSE Sendto(Restored(y), t, o, x.server) \cup {Finalize(x, "end")}
    ELSE {Waiting(Swapped(x, o), "udp", t, o), Finalize(x, "end")}
         \cup (IF conf.atOnce THEN Sendto(Swapped(y, o), t, o, NoOutbound)
               ELSE {})

\* Nested calls return once nothing more can be read: the outermost has the
\* last word, unless a datagram waits.
Settled(x) ==
    IF x.unwind = None \/ (x.state = "service" /\ x.in # <<>>) THEN x
    ELSE IF x.pending # None THEN [x EXCEPT !.unwind = None]
    ELSE [x EXCEPT !.outbound = x.unwind, !.restore = NoOutbound,
                   !.unwind = None]

\* Fault: the connect timer goes on after the handshake.
AssociatedTimed(x) ==
    LET y == [x EXCEPT !.state = "service", !.ready = TRUE,
                       !.sock = TRUE, !.assoc = x.outbound]
        z == [y EXCEPT !.pending = None, !.restore = NoOutbound,
                       !.outbound = IF x.restore # NoOutbound
                                    THEN x.restore ELSE @]
    IN  {Finalize(x, "end")}
        \cup (IF x.pending = None THEN {y}
              ELSE SendtoOf(z, x.pending, x.server))

\* Fault: the datagram sent, the outbound in place before it is forgotten.
AssociatedAlone(x) ==
    LET y == [x EXCEPT !.state = "service", !.ready = TRUE, !.timer = FALSE,
                       !.sock = TRUE, !.assoc = x.outbound]
        z == [y EXCEPT !.pending = None, !.restore = NoOutbound]
    IN  {Finalize(x, "end")}
        \cup (IF x.pending = None THEN {y}
              ELSE SendtoOf(z, x.pending, x.server))

\* process_socks5 once the answer to the UDP request is in hand.
Associated(x) ==
    LET y == [x EXCEPT !.state = "service", !.ready = TRUE, !.timer = FALSE,
                       !.sock = TRUE, !.assoc = x.outbound]
        z == [y EXCEPT !.pending = None, !.restore = NoOutbound,
                       !.outbound = IF x.restore # NoOutbound
                                    THEN x.restore ELSE @]
    IN  {Finalize(x, "end")}
        \cup (IF x.pending = None THEN {y}
              ELSE SendtoOf(z, x.pending, x.server))

-----------------------------------------------------------------------------
(* Steps. *)

Become(xs) == ctx' \in {Settled(x) : x \in xs} /\ UNCHANGED conf

Now == [ctx EXCEPT !.sent = None]

\* start_udp, or the last reply of a local SOCKS5 client's handshake; an
\* association that the session's own outbound needs is set up first.
Init ==
    /\ SlotsInit
    /\ conf \in Configs
    /\ ctx \in IF conf.own \in conf.socks5
               THEN StartSocks5Udp(NewContext, conf.own) ELSE {NewContext}

\* A datagram is read: by process_udp_client, or by socks5_in_udp_read_handler.
Reading ==
    /\ ctx.in # <<>>
    /\ IF conf.local THEN ctx.state # "closed" /\ ctx.request = None
                ELSE ctx.state = "service"
    /\ ctx.leaked < MaxLeaked

Target == Head(ctx.in)

\* The contexts the lookup of a mapping may leave.
Taken == {[Now EXCEPT !.in = Tail(@), !.maps = maps] :
             maps \in LookedUp(ctx.maps, Target)}

Unmapped == Reading /\ Hits(ctx.maps, Target) = {}

FrameMapped ==
    /\ Reading
    /\ \E hit \in Hits(ctx.maps, Target), x \in Taken :
         Become(Route(x, Target, hit.outbound))
    /\ UNCHANGED slot

\* A hit of the cache.  An expired one counts with the nginx resolver.
FrameCached(k) ==
    /\ Unmapped
    /\ slot[k].target = Target
    /\ \E x \in Taken : \E y \in Mapped(x, Target, slot[k].outbound, k, slot[k].ttl) :
         Become(Route(y, Target, slot[k].outbound))
    /\ UNCHANGED slot

\* The refresh of an expired entry is answered before the mapping is made.
FrameRefreshed(k, o, ttl) ==
    /\ Unmapped /\ conf.nginx /\ conf.atOnce
    /\ slot[k].target = Target /\ slot[k].ttl
    /\ Redecide(k, o, ttl)
    /\ \E x \in Taken :
         \E y \in Mapped(CacheWrites(x, k, Target, o, ttl),
                        Target, slot[k].outbound, k, ttl) :
             Become(Route(y, Target, slot[k].outbound))

\* route_cache_insert
Put(k, t, o, ttl) ==
    \/ Reassign(k, t, o, ttl)
    \/ slot[k].target = t /\ Redecide(k, o, ttl)

Static == SelectOutboundNow(Target, {}, FALSE)

Resolved(t) ==
    {SelectOutboundNow(t, addrs, TRUE) : addrs \in SUBSET Addrs \ {{}}}

\* The cache has no decision for the target, or with getaddrinfo an expired one.
Uncached ==
    /\ Unmapped
    /\ \A k \in Slots : slot[k].target = Target => slot[k].ttl /\ ~conf.nginx

\* A decision by the rules alone, or with the addresses getaddrinfo gives.
FrameDecided(k, d) ==
    /\ Uncached
    /\ d \in {Static} \cup
             (IF Static.needs /\ ~conf.nginx THEN Resolved(Target) ELSE {})
    /\ d.outbound # NoOutbound
    /\ Put(k, Target, d.outbound, d.ttl)
    /\ \E x \in Taken :
         \E y \in Mapped(CacheWrites(x, k, Target, d.outbound, d.ttl),
                        Target, d.outbound, k, d.ttl) :
             Become(Route(y, Target, d.outbound))

\* No rule applies: the session's outbound is used.
FrameUnrouted ==
    /\ Uncached
    /\ Static.outbound = NoOutbound /\ ~Static.needs
    /\ \E x \in Taken : Become(Route(x, Target, ctx.outbound))
    /\ UNCHANGED slot

\* getaddrinfo fails, or no rule applies to what it gives.
FrameLost ==
    /\ Uncached
    /\ Static.needs /\ ~conf.nginx
    /\ Become(Taken)
    /\ UNCHANGED slot

\* start_udp_route_resolver
FrameAsks ==
    /\ Uncached
    /\ Static.needs /\ conf.nginx
    /\ \E x \in Taken :
         Become({Waiting(x, "route", Target, NoOutbound)}
                \cup SendFails([x EXCEPT !.state = "resolving"]))
    /\ UNCHANGED slot

\* The same, answered within the call.
FrameAnswered(k, d) ==
    /\ Uncached
    /\ Static.needs /\ conf.nginx /\ conf.atOnce
    /\ d \in Resolved(Target) /\ d.outbound # NoOutbound
    /\ Put(k, Target, d.outbound, d.ttl)
    /\ \E x \in Taken :
         \E y \in Mapped(CacheWrites(x, k, Target, d.outbound, d.ttl),
                        Target, d.outbound, k, d.ttl) :
             Become(RouteAnswered(y, Target, d.outbound))

\* socks5_in_udp_read_handler drops what comes while a name is being resolved.
DropWhileResolving ==
    /\ conf.local /\ ctx.in # <<>> /\ ctx.request # None
    /\ ctx' = [Now EXCEPT !.in = Tail(@)]
    /\ UNCHANGED <<slot, conf>>

\* No handler of the session is running.
Between == ctx.unwind = None /\ ctx.state # "closed"

\* resolve_handler, resolve_udp_route.
RouteAnswer(k, d) ==
    /\ Between /\ ctx.request # None /\ ctx.leaked < MaxLeaked
    /\ ctx.request.kind = "route"
    /\ d \in Resolved(ctx.request.target) /\ d.outbound # NoOutbound
    /\ LET t == ctx.request.target
           x == CacheWrites([Now EXCEPT !.request = None], k, t, d.outbound, d.ttl)
       IN  /\ Put(k, t, d.outbound, d.ttl)
           /\ \E y \in Mapped(x, t, d.outbound, k, d.ttl) :
                Become(RouteAnswered(y, t, d.outbound))

\* resolve_handler, resolve_udp.
UdpAnswer ==
    /\ Between /\ ctx.request # None
    /\ ctx.request.kind = "udp"
    /\ Become({Finalize(Now, "end")}
              \cup Sendto([Now EXCEPT !.request = None, !.state = "service"],
                          ctx.request.target, ctx.request.route, NoOutbound))
    /\ UNCHANGED slot

\* resolve_handler with an error, or with addresses no rule applies to.
AnswerFails ==
    /\ Between /\ ctx.request # None
    /\ Become({Finalize(Now, "end")})
    /\ UNCHANGED slot

\* socks5_handler: the server's answers arrive, or the connection fails.
HandshakeEnds ==
    /\ Between /\ ctx.server # NoOutbound /\ ~ctx.ready
    /\ Become(Associated(Now))
    /\ UNCHANGED slot

\* socks5_handler with ev->timedout.
ConnectTimeout ==
    /\ Between /\ ctx.timer
    /\ Become({Finalize(Now, "connect")})
    /\ UNCHANGED slot

\* socks5_handler for a connection that ctx->upstream no longer points to: it
\* takes what process_socks5 does for the present one.
LeakedEvent ==
    /\ Between /\ ctx.leaked > 0
    /\ Become(Associated(Now))
    /\ UNCHANGED slot

LeakedTimeout ==
    /\ Between /\ ctx.leaked > 0
    /\ Become({Finalize(Now, "connect")})
    /\ UNCHANGED slot

\* udp_read_handler: a reply on a direct socket is read into udp_payload.  What
\* becomes of the reply is in UdpReply.
ReplyRead ==
    /\ Between /\ ctx.direct /\ ctx.pending # None
    /\ ctx' = [Now EXCEPT !.pending.intact = FALSE]
    /\ UNCHANGED <<slot, conf>>

\* The client or the server ends its connection, or a session timer fires.
End ==
    /\ Between
    /\ Become({Finalize(Now, "end")})
    /\ UNCHANGED slot

Arrive(t) ==
    /\ ctx.state # "closed" /\ Len(ctx.in) < MaxQueue
    /\ ctx' = [Now EXCEPT !.in = Append(@, t)]
    /\ UNCHANGED <<slot, conf>>

Tick ==
    /\ Between
    /\ ctx' = [Now EXCEPT !.maps =
                  {[m EXCEPT !.age = IF @ <= UdpTimeout THEN @ + 1 ELSE @] : m \in @}]
    /\ UNCHANGED <<slot, conf>>

\* Other sessions and refreshes write to the cache.
Evict(k, t, o, ttl) ==
    /\ Between
    /\ Reassign(k, t, o, ttl)
    /\ ctx' = CacheWrites(Now, k, t, o, ttl)
    /\ UNCHANGED conf

Revise(k, o, ttl) ==
    /\ Between
    /\ Redecide(k, o, ttl)
    /\ ctx' = CacheWrites(Now, k, slot[k].target, o, ttl)
    /\ UNCHANGED conf

CacheStep ==
    \E k \in Slots, o \in OutboundIds, ttl \in BOOLEAN :
        \/ \E t \in Targets : Evict(k, t, o, ttl)
        \/ Revise(k, o, ttl)

Decisions == [outbound : OutboundIds, ttl : BOOLEAN, needs : {FALSE}]

Frame ==
    \/ FrameMapped \/ FrameUnrouted \/ FrameLost \/ FrameAsks
    \/ \E k \in Slots :
         \/ FrameCached(k)
         \/ \E o \in OutboundIds, ttl \in BOOLEAN : FrameRefreshed(k, o, ttl)
         \/ \E d \in Decisions : FrameDecided(k, d) \/ FrameAnswered(k, d)

Answer ==
    \/ UdpAnswer \/ AnswerFails
    \/ \E k \in Slots, d \in Decisions : RouteAnswer(k, d)

Next ==
    \/ Frame \/ DropWhileResolving \/ Answer
    \/ HandshakeEnds \/ ConnectTimeout \/ LeakedEvent \/ LeakedTimeout
    \/ ReplyRead \/ End \/ Tick \/ CacheStep
    \/ \E t \in Sends : Arrive(t)

Spec == Init /\ [][Next]_udpVars

\* The resolver answers every request, at the latest with a timeout, and the
\* event loop runs connect timers.  A handshake that takes the place of another
\* does not put the timeout off: the former connection keeps its timer.
FairSpec == Spec /\ WF_udpVars(Answer) /\ WF_udpVars(ConnectTimeout)

-----------------------------------------------------------------------------
(* Properties. *)

\* The slots and the context are well typed, and a session that reads datagrams
\* one at a time abandons no connection.
TypeOK ==
    /\ SlotsTypeOK /\ conf \in Configs /\ ctx \in Context
    /\ Len(ctx.in) <= MaxQueue
    /\ ~conf.local => ctx.leaked = 0

\* A datagram leaves by the outbound its route names: never a blocked one, by
\* the association with that outbound's server if it has one, directly if not,
\* however the association was set up and replaced in the meantime; as long as
\* the session has abandoned no connection.
SentByRoute ==
    ctx.sent # None /\ ctx.leaked = 0 =>
        /\ ctx.sent.route \notin conf.blocked
        /\ ctx.sent.via = IF ctx.sent.route \in conf.socks5 THEN ctx.sent.route
                          ELSE NoOutbound

\* A datagram is sent as the client sent it, whatever is received while it waits
\* for an association.
SentIntact == ctx.sent # None => ctx.sent.intact

\* A mapping on an entry's list that is not stale routes as the entry does, and
\* no target has two mappings: a revised decision reaches every flow it made.  A
\* resolver that answers at once is excepted: see the README.
MappingsAgree ==
    ctx.state # "closed" /\ ~conf.atOnce =>
        \A m \in ctx.maps :
            /\ m.linked => slot[m.entry].target = m.target
            /\ m.linked /\ ~m.stale => slot[m.entry].outbound = m.outbound
            /\ \A n \in ctx.maps : n.target = m.target => n = m

\* Once nothing is under way, the session's own outbound is back in the context.
\* This is so for a Trojan session with an outbound and getaddrinfo.
OutboundRestored ==
    (/\ ~conf.local /\ ~conf.nginx /\ conf.own # NoOutbound
     /\ ctx.state # "closed" /\ ctx.pending = None /\ ctx.request = None
     /\ ctx.unwind = None)
    => ctx.outbound = conf.own

\* trojan_connect_timeout ends a Trojan session only while the connection to
\* its SOCKS5 server is being set up.
ConnectTimeoutWhileConnecting ==
    [][~conf.local /\ ctx'.closedBy = "connect" /\ ctx.closedBy = "none"
          => ctx.server # NoOutbound /\ ~ctx.ready]_udpVars

\* A datagram, or a name, or the server of an association is waited for; or a
\* Trojan session's client is not read.  A local session is read whatever its
\* state: after a failed start of the resolver it is "resolving" with no request.
Unserved ==
    \/ ctx.pending # None \/ ctx.request # None
    \/ ctx.server # NoOutbound /\ ~ctx.ready
    \/ ~conf.local /\ ctx.state \in {"resolving", "handshake"}

\* A session does not stay so for ever, with the handshake for an outbound of its
\* own, in which it begins, as with those that datagrams call for.
WaitingEnds == Unserved ~> ~Unserved
=============================================================================
