------------------------------ MODULE Session ------------------------------
(***************************************************************************)
(* One client session from accept to the start of its relay: the Trojan    *)
(* handshake, the local SOCKS5 and HTTP CONNECT proxies, the fallback,     *)
(* routing, resolving, connecting, and the handshake with an upstream      *)
(* SOCKS5 server.  Relay and the UDP service take over from there.         *)
(*                                                                         *)
(* The client's bytes are units with a meaning: a line of text, half of a  *)
(* prefix, a request.  A handler of the event loop runs until a read or a  *)
(* write would block; what it may leave behind depends on how far it gets, *)
(* so each function of the code is an operator from a session context to   *)
(* the set of contexts it can end with, and an action picks one.           *)
(***************************************************************************)
EXTENDS Integers, Sequences

CONSTANTS
    Streams,    \* what a client may send: sequences of units
    Configs,    \* server blocks
    Outbounds   \* outbounds routing may select

\* ctx->outbound NULL acts as this one (outbound_type, current_block).
Direct == [type |-> "direct", block |-> "none"]

\* block h3 acts as udp for port 443 and as none for any other.
Outbound == [type : {"direct", "socks5"}, block : {"none", "all", "udp"}]

Config == [trojan : BOOLEAN, socks5 : BOOLEAN, http : BOOLEAN, udp : BOOLEAN,
           fallback : BOOLEAN, effective : BOOLEAN, nginx : BOOLEAN]

Commands == {"connect", "associate"}
Unit == Commands \cup
    {"key", "crlf", "line", "junk", "version", "noauth", "otherauth",
     "http", "head", "otherhead", "data"}

ASSUME SessionAssumption ==
    /\ Streams \subseteq Seq(Unit) \ {<<>>}
    /\ Configs \subseteq Config
    /\ Outbounds \subseteq Outbound

VARIABLES
    conf,       \* the server block (never changes)
    stream,     \* what the client sends (never changes)
    s           \* the session context

vars == <<conf, stream, s>>

Failures == {"blocked", "unsupported", "failure", "bad", "notallowed"}
Replies == Failures \cup {"method", "nomethod", "ok", "unavailable"}
Served == {"proxy", "udp", "socks5_in_udp_control"}
Handshaking == {"socks5_tcp", "socks5_udp"}
States == Served \cup Handshaking \cup
    {"new", "prefix", "request", "inbound_classify", "socks5_in_greeting",
     "socks5_in_request", "socks5_in_response", "http_in_request",
     "http_in_response", "default_fallback", "resolving", "connecting", "closed"}
Steps == {"greeting_write", "method_read", "auth_write", "auth_read",
          "request_write", "response_read"}

\* arrived, taken: units in and units read; fin: the client has closed.
\* told, dialled: history of the replies sent and the connections opened.
Context == [state : States, arrived : Nat, taken : Nat, fin : BOOLEAN,
            command : Commands, outbound : Outbound, pending : Seq(Unit),
            resolver : {"none", "route", "tcp"},
            resume : {"none", "request", "socks5_in", "http_in"},
            peer : {"none", "fallback", "tcp"}, upstream : BOOLEAN,
            connected : BOOLEAN, step : Steps, timer : BOOLEAN,
            reply : Replies \cup {"none"},
            told : Seq(Replies), dialled : Seq({"fallback", "target", "server"})]

NewContext ==
    [state |-> "new", arrived |-> 0, taken |-> 0, fin |-> FALSE,
     command |-> "connect", outbound |-> Direct, pending |-> <<>>,
     resolver |-> "none", resume |-> "none", peer |-> "none", upstream |-> FALSE,
     connected |-> FALSE, step |-> "greeting_write", timer |-> FALSE,
     reply |-> "none", told |-> <<>>, dialled |-> <<>>]

Init ==
    /\ conf \in Configs
    /\ stream \in Streams
    /\ s = NewContext

-----------------------------------------------------------------------------
(* Ending, reading and replying. *)

\* ngx_stream_mtrojan_finalize
Finalize(x) ==
    [x EXCEPT !.state = "closed", !.resolver = "none", !.upstream = FALSE,
              !.timer = FALSE]

\* Fault: a short read is taken for a full one.
ReadBlindly(x, n) == [x EXCEPT !.taken = n]

\* Reading until n units are in hand, or as many as have come.
ReadUpTo(x, n) == [x EXCEPT !.taken = IF n < x.arrived THEN n ELSE x.arrived]

\* recv has nothing more: NGX_AGAIN, or the end (a reset is one, too).
Starved(x) == {IF x.fin THEN Finalize(x) ELSE x}

\* A reply that is not sent, for now or for good.
Unsent(x) == {x, Finalize(x)}

Sent(x) == [x EXCEPT !.told = Append(@, x.reply), !.reply = "none"]

-----------------------------------------------------------------------------
(* Upstream. *)

\* ngx_stream_mtrojan_init_proxy; the first pass of the relay may end it.
InitProxy(x) == {[x EXCEPT !.state = "proxy"], Finalize(x)}

\* Fault: no timer while the connection is established.
ConnectUntimed(x) ==
    LET y == [x EXCEPT !.state = "connecting", !.upstream = TRUE,
                       !.dialled = Append(@, IF x.peer = "fallback"
                                             THEN "fallback" ELSE "target")]
    IN  {Finalize(x), y} \cup InitProxy(y)

\* ngx_stream_mtrojan_connect
Connect(x) ==
    LET y == [x EXCEPT !.state = "connecting", !.upstream = TRUE,
                       !.dialled = Append(@, IF x.peer = "fallback"
                                             THEN "fallback" ELSE "target")]
    IN  {Finalize(x), [y EXCEPT !.timer = TRUE]} \cup InitProxy(y)

\* The UDP service is ready (end of process_socks5, start_udp); what the client
\* has already sent is served at once and may end it.
ServeUdp(x) ==
    {[x EXCEPT !.state = IF conf.trojan THEN "udp" ELSE "socks5_in_udp_control"],
     Finalize(x)}

\* Where one call of ngx_stream_mtrojan_process_socks5 can get to from a step;
\* the server asks for authentication or does not.
StepsFrom(step) ==
    CASE step = "greeting_write" -> Steps
      [] step = "method_read"    -> Steps \ {"greeting_write"}
      [] step = "auth_write"     -> Steps \ {"greeting_write", "method_read"}
      [] step = "auth_read"      -> {"auth_read", "request_write", "response_read"}
      [] step = "request_write"  -> {"request_write", "response_read"}
      [] step = "response_read"  -> {"response_read"}

\* ngx_stream_mtrojan_process_socks5
ProcessSocks5(x) ==
    LET done == [x EXCEPT !.timer = FALSE] IN
    {Finalize(x)}
        \cup {[x EXCEPT !.step = step] : step \in StepsFrom(x.step)}
        \cup (IF x.state = "socks5_tcp" THEN InitProxy(done) ELSE ServeUdp(done))

\* ngx_stream_mtrojan_socks5_connect
Socks5Connect(x, state) ==
    LET y == [x EXCEPT !.state = state, !.step = "greeting_write",
                       !.upstream = TRUE, !.timer = TRUE,
                       !.dialled = Append(@, "server")]
    IN  {Finalize(x), y} \cup ProcessSocks5([y EXCEPT !.connected = TRUE])

\* ngx_stream_mtrojan_resolve_handler, resolve_tcp
TcpAnswer(x) ==
    LET y == [x EXCEPT !.resolver = "none"] IN {Finalize(y)} \cup Connect(y)

\* ngx_stream_mtrojan_start_resolver: refused, answered later, or at once.
Resolving(x, type) == [x EXCEPT !.resolver = type, !.state = "resolving"]

ResolveTcp(x) == {Finalize(x), Resolving(x, "tcp")} \cup TcpAnswer(Resolving(x, "tcp"))

\* ngx_stream_mtrojan_start_tcp.  The target is an address, or getaddrinfo
\* resolves it, or the nginx resolver does.
StartTcp(x) ==
    LET y == [x EXCEPT !.peer = "tcp"] IN
    IF x.outbound.type = "socks5" THEN Socks5Connect(y, "socks5_tcp")
    ELSE {Finalize(x)} \cup Connect(y) \cup (IF conf.nginx THEN ResolveTcp(y) ELSE {})

\* ngx_stream_mtrojan_start_udp
StartUdp(x) ==
    IF x.outbound.type = "socks5" THEN Socks5Connect(x, "socks5_udp")
    ELSE ServeUdp(x)

-----------------------------------------------------------------------------
(* Routing. *)

\* ngx_stream_mtrojan_request_blocked
RequestBlocked(x) ==
    \/ x.outbound.block = "all"
    \/ x.outbound.block = "udp" /\ x.command = "associate"

\* Fault: the block of the outbound is not asked for.
RequestUnchecked(x) == IF x.command = "connect" THEN StartTcp(x) ELSE StartUdp(x)

\* ngx_stream_mtrojan_request_after_route
RequestAfterRoute(x) ==
    IF RequestBlocked(x) THEN {Finalize(x)}
    ELSE IF x.command = "connect" THEN StartTcp(x) ELSE StartUdp(x)

\* process_socks5_in with the final reply in the buffer.
Socks5FinalReply(x) ==
    Unsent(x) \cup
    (IF x.reply # "ok" THEN {Finalize(Sent(x))}
     ELSE IF x.command = "connect" THEN StartTcp(Sent(x))
     ELSE StartUdp(Sent(x)))

\* Fault: the status of the reply is not looked at once it is sent.
HttpReplyAnyStatus(x) == Unsent(x) \cup StartTcp(Sent(x))

\* process_http_in with the reply in the buffer.
HttpReply(x) ==
    Unsent(x) \cup
    (IF x.reply # "ok" THEN {Finalize(Sent(x))} ELSE StartTcp(Sent(x)))

\* ngx_stream_mtrojan_socks5_in_after_route, and the flush that follows it.
Socks5AfterRoute(x) ==
    LET y == [x EXCEPT !.state = "socks5_in_response"] IN
    IF x.command = "associate" /\ ~conf.udp
    THEN Socks5FinalReply([y EXCEPT !.reply = "unsupported"])
    ELSE IF RequestBlocked(x) THEN Socks5FinalReply([y EXCEPT !.reply = "blocked"])
    ELSE {Finalize(x)} \cup Socks5FinalReply([y EXCEPT !.reply = "ok"])

\* ngx_stream_mtrojan_http_in_after_route, and the flush that follows it.
HttpAfterRoute(x) ==
    HttpReply([x EXCEPT !.state = "http_in_response",
                        !.reply = IF RequestBlocked(x) THEN "blocked" ELSE "ok"])

\* ngx_stream_mtrojan_route_resume, and the same calls without a detour.
AfterRoute(x, resume) ==
    CASE resume = "request"   -> RequestAfterRoute(x)
      [] resume = "socks5_in" -> Socks5AfterRoute(x)
      [] resume = "http_in"   -> HttpAfterRoute(x)

Decided(x, resume) ==
    UNION {AfterRoute([x EXCEPT !.outbound = o], resume) :
              o \in Outbounds \cup {Direct}}

\* Fault: the request stays noted after its answer.
RouteAnswerNoted(x) ==
    {Finalize(x)} \cup Decided([x EXCEPT !.resume = "none"], x.resume)

\* ngx_stream_mtrojan_resolve_handler, resolve_route
RouteAnswer(x) ==
    LET y == [x EXCEPT !.resolver = "none"] IN
    {Finalize(y)} \cup Decided([y EXCEPT !.resume = "none"], x.resume)

\* ngx_stream_mtrojan_select_outbound
SelectOutbound(x, resume) ==
    LET y == Resolving([x EXCEPT !.resume = resume], "route") IN
    Decided(x, resume) \cup
    (IF conf.nginx THEN {Finalize(x), y} \cup RouteAnswer(y) ELSE {})

-----------------------------------------------------------------------------
(* The Trojan handshake and the fallback. *)

\* ngx_stream_mtrojan_flush_default_fallback
DefaultFallback(x) == Unsent(x) \cup {Finalize(Sent(x))}

\* Fault: the fallback server is not given what was read of the stream.
StartFallbackEmpty(x) ==
    IF conf.fallback THEN Connect([x EXCEPT !.peer = "fallback"])
    ELSE DefaultFallback([x EXCEPT !.state = "default_fallback",
                                   !.reply = "unavailable"])

\* ngx_stream_mtrojan_start_fallback: what was read goes to the fallback server.
StartFallback(x) ==
    IF conf.fallback
    THEN Connect([x EXCEPT !.peer = "fallback",
                           !.pending = SubSeq(stream, 1, x.taken)])
    ELSE DefaultFallback([x EXCEPT !.state = "default_fallback",
                                   !.reply = "unavailable"])

\* ngx_stream_mtrojan_process_request
ProcessRequest(x) ==
    LET y == ReadUpTo(x, 3) IN
    IF y.taken < 3 THEN Starved(y)
    ELSE IF stream[3] \notin Commands THEN {Finalize(y)}
    ELSE SelectOutbound([y EXCEPT !.command = stream[3]], "request")

\* ngx_stream_mtrojan_process_prefix: a line feed within the key, or a prefix
\* that is not a key and CRLF, is other traffic.
ProcessPrefix(x) ==
    LET y == ReadUpTo(x, 2) IN
    IF \E i \in 1 .. y.taken : stream[i] = "line" THEN StartFallback(y)
    ELSE IF y.taken < 2 THEN Starved(y)
    ELSE IF stream[1] = "key" /\ stream[2] = "crlf"
    THEN ProcessRequest([y EXCEPT !.state = "request"])
    ELSE StartFallback(y)

-----------------------------------------------------------------------------
(* The local proxies. *)

\* ngx_stream_mtrojan_process_socks5_in, one operator per state.
Socks5Request(x) ==
    LET y == ReadUpTo(x, 3) IN
    IF y.taken < 3 THEN Starved(y)
    ELSE IF stream[3] \notin Commands THEN {Finalize(y)}
    ELSE IF ~conf.effective
    THEN Socks5FinalReply([y EXCEPT !.state = "socks5_in_response",
                                    !.reply = "failure"])
    ELSE SelectOutbound([y EXCEPT !.command = stream[3]], "socks5_in")

Socks5MethodReply(x) ==
    Unsent(x) \cup
    (IF x.reply = "nomethod" THEN {Finalize(Sent(x))}
     ELSE Socks5Request([Sent(x) EXCEPT !.state = "socks5_in_request"]))

Socks5Greeting(x) ==
    LET y == ReadUpTo(x, 2) IN
    IF y.taken < 2 THEN Starved(y)
    ELSE IF stream[2] \notin {"noauth", "otherauth"} THEN {Finalize(y)}
    ELSE Socks5MethodReply([y EXCEPT !.state = "socks5_in_response",
             !.reply = IF stream[2] = "noauth" THEN "method" ELSE "nomethod"])

Socks5Response(x) ==
    IF x.reply \in {"method", "nomethod"} THEN Socks5MethodReply(x)
    ELSE Socks5FinalReply(x)

\* ngx_stream_mtrojan_process_http_in with the head complete; what came with it
\* is saved for the upstream.
HttpParsed(x) ==
    LET y == [x EXCEPT !.state = "http_in_response"] IN
    CASE stream[2] = "otherhead" -> HttpReply([y EXCEPT !.reply = "notallowed"])
      [] stream[2] = "head" /\ ~conf.effective ->
            HttpReply([y EXCEPT !.reply = "failure"])
      [] stream[2] = "head" /\ conf.effective ->
            SelectOutbound([x EXCEPT !.command = "connect",
                                     !.pending = SubSeq(stream, 3, x.taken)],
                           "http_in")
      [] OTHER -> HttpReply([y EXCEPT !.reply = "bad"])

\* http_in_read takes what there is, as far as the buffer goes.
HttpRequest(x) ==
    LET y == ReadUpTo(x, 2) IN
    IF y.taken < 2 THEN Starved(y)
    ELSE UNION {HttpParsed([x EXCEPT !.taken = n]) : n \in 2 .. x.arrived}

\* ngx_stream_mtrojan_process_inbound_classify
Classify(x) ==
    LET y == ReadUpTo(x, 1) IN
    IF y.taken < 1 THEN Starved(y)
    ELSE IF stream[1] = "version" /\ conf.socks5
    THEN Socks5Greeting([y EXCEPT !.state = "socks5_in_greeting"])
    ELSE IF stream[1] = "http" /\ conf.http
    THEN HttpRequest([y EXCEPT !.state = "http_in_request"])
    ELSE {Finalize(y)}

-----------------------------------------------------------------------------
(* Actions. *)

Step(contexts) == s' \in contexts /\ UNCHANGED <<conf, stream>>

\* ngx_stream_mtrojan_handler
Accept ==
    /\ s.state = "new"
    /\ Step(IF conf.trojan THEN ProcessPrefix([s EXCEPT !.state = "prefix"])
            ELSE Classify([s EXCEPT !.state = "inbound_classify"]))

\* ngx_stream_mtrojan_read_client on a read or write event of the client, in
\* the states it serves; in the others it leaves the event alone.
ClientEvent ==
    CASE s.state = "prefix"             -> Step(ProcessPrefix(s))
      [] s.state = "request"            -> Step(ProcessRequest(s))
      [] s.state = "default_fallback"   -> Step(DefaultFallback(s))
      [] s.state = "inbound_classify"   -> Step(Classify(s))
      [] s.state = "socks5_in_greeting" -> Step(Socks5Greeting(s))
      [] s.state = "socks5_in_request"  -> Step(Socks5Request(s))
      [] s.state = "socks5_in_response" -> Step(Socks5Response(s))
      [] s.state = "http_in_request"    -> Step(HttpRequest(s))
      [] s.state = "http_in_response"   -> Step(HttpReply(s))
      [] OTHER -> FALSE

\* Fault: the connect timer goes on into the relay.
PeerConnectedTimed ==
    /\ s.state = "connecting"
    /\ Step({Finalize(s)} \cup InitProxy(s))

\* ngx_stream_mtrojan_peer_handler while connecting
PeerConnected ==
    /\ s.state = "connecting"
    /\ LET y == [s EXCEPT !.timer = FALSE] IN Step({Finalize(y)} \cup InitProxy(y))

\* ngx_stream_mtrojan_socks5_handler
Socks5Event ==
    /\ s.state \in Handshaking
    /\ Step({Finalize(s)} \cup ProcessSocks5([s EXCEPT !.connected = TRUE]))

\* Either of them with ev->timedout, after trojan_connect_timeout.
PeerTimeout ==
    /\ s.timer
    /\ Step({Finalize(s)})

\* ngx_stream_mtrojan_resolve_handler, which is told of a timeout as well.
ResolverAnswer ==
    \/ s.resolver = "route" /\ Step(RouteAnswer(s))
    \/ s.resolver = "tcp" /\ Step(TcpAnswer(s))

\* The relay or the UDP service ends, by a timer, an error or both ends closing.
ServiceEnds ==
    /\ s.state \in Served
    /\ Step({Finalize(s)})

\* The client (external).
Arrive ==
    /\ s.arrived < Len(stream)
    /\ Step({[s EXCEPT !.arrived = @ + 1]})

CloseClient ==
    /\ s.arrived = Len(stream) /\ ~s.fin
    /\ Step({[s EXCEPT !.fin = TRUE]})

Next ==
    \/ Accept \/ ClientEvent
    \/ PeerConnected \/ Socks5Event \/ PeerTimeout
    \/ ResolverAnswer \/ ServiceEnds
    \/ Arrive \/ CloseClient

Spec == Init /\ [][Next]_vars

\* nginx runs the timers that are due, and its resolver answers every request,
\* if only with a timeout after resolver_timeout.
FairSpec == Spec /\ WF_vars(PeerTimeout) /\ WF_vars(ResolverAnswer)

-----------------------------------------------------------------------------
(* Properties. *)

\* The context is well typed, and no more is read than has arrived.
TypeOK ==
    /\ conf \in Configs
    /\ stream \in Streams
    /\ s \in Context
    /\ s.taken <= s.arrived /\ s.arrived <= Len(stream)

\* Where the client's payload starts: a fallback gets all of the stream.
PayloadStart ==
    IF s.peer = "fallback" THEN 0 ELSE IF stream[1] = "http" THEN 2 ELSE 3

\* A relay starts with exactly what was read beyond the handshake in
\* pending_to_upstream: nothing of the client's payload is dropped or doubled,
\* whichever way the session came, and a fallback server sees all of it.
NoPayloadLost ==
    s.state = "proxy" => s.pending = SubSeq(stream, PayloadStart + 1, s.taken)

\* What a session may dial for: a request under a valid key, or one a local proxy
\* has said yes to.
Admitted ==
    IF conf.trojan
    THEN s.taken = 3 /\ SubSeq(stream, 1, 2) = <<"key", "crlf">> /\ stream[3] \in Commands
    ELSE s.told # <<>> /\ s.told[Len(s.told)] = "ok"

\* One connection is opened per session: to the fallback server for traffic
\* without a valid key, or to the target or its SOCKS5 server for a request that
\* is admitted, that routing does not block, and that a local proxy has confirmed.
DialsOnlyAdmitted ==
    /\ Len(s.dialled) <= 1
    /\ s.dialled # <<>> =>
         IF s.dialled[1] = "fallback" THEN conf.trojan /\ ~Admitted
         ELSE /\ Admitted
              /\ ~RequestBlocked(s)
              /\ (s.dialled[1] = "server") <=> (s.outbound.type = "socks5")

\* A client is given one final answer, after which a refusal is the end: the
\* session is closed and nothing was opened on its behalf.
OneFinalAnswer ==
    LET Final(i) == s.told[i] \notin {"method"} IN
    /\ \A i \in 1 .. Len(s.told) : Final(i) => i = Len(s.told)
    /\ \A i \in 1 .. Len(s.told) :
          Final(i) /\ s.told[i] # "ok" => s.state = "closed" /\ s.dialled = <<>>

\* A resolver request is outstanding exactly while the session is in the
\* resolving state, also when the resolver answered before it returned: the
\* request is never forgotten, and never answered into another state.
RequestWhileResolving == (s.resolver # "none") <=> (s.state = "resolving")

\* The connect timer runs exactly while an upstream connection or SOCKS5
\* handshake is being waited for: none goes without, and no relay inherits it.
TimerWhileConnecting ==
    s.timer <=> s.state \in {"connecting"} \cup Handshaking

\* No session waits for the resolver or for an upstream connection for good.
NoEndlessWait ==
    \A w \in {"resolving", "connecting"} \cup Handshaking :
        s.state = w ~> s.state # w

\* Fallback forwarding for non-Trojan traffic: a client that sent something
\* which is not the start of a Trojan request is served by a fallback, never
\* just closed.
OtherTrafficFallsBack ==
    s.state = "closed" /\ conf.trojan /\ s.taken > 0 /\ stream[1] # "key"
        => \/ s.peer = "fallback"
           \/ s.reply = "unavailable" \/ s.told = <<"unavailable">>
=============================================================================
