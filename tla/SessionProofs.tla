--------------------------- MODULE SessionProofs ----------------------------
(***************************************************************************)
(* Proofs about Session, for every server block, every set of outbounds    *)
(* and everything a client may send.  The invariant says of each phase of  *)
(* a session what has been read, answered and opened by then; there is one *)
(* lemma per operator of Session, in the order in which they call one      *)
(* another, and the actions follow from them.                              *)
(***************************************************************************)
EXTENDS Session, SequenceTheorems, TLAPS

-----------------------------------------------------------------------------
(* What is known of a context x in each phase. *)

Typed(x) == x \in Context /\ x.taken <= x.arrived /\ x.arrived <= Len(stream)

\* Nothing is waited for.
Still(x) == x.resolver = "none" /\ x.timer = FALSE

\* Neither is anything opened.
Fresh(x) == Typed(x) /\ Still(x) /\ x.peer = "none" /\ x.dialled = <<>>

\* The client's stream as far as a handshake decides about it.
TrojanKey == Len(stream) >= 2 /\ stream[1] = "key" /\ stream[2] = "crlf"
Local(start) == ~conf.trojan /\ stream[1] = start

\* What has been read beyond the handshake is in pending.
Payload(x) ==
    x.pending = SubSeq(stream, (IF stream[1] = "http" THEN 2 ELSE 3) + 1, x.taken)

\* A request that waits for its route.
Asked(x, resume) ==
    /\ Payload(x)
    /\ \/ /\ resume = "request" /\ conf.trojan /\ x.told = <<>>
          /\ TrojanKey /\ x.taken = 3 /\ stream[3] \in Commands
       \/ resume = "socks5_in" /\ Local("version") /\ x.told = <<"method">>
       \/ resume = "http_in" /\ Local("http") /\ x.told = <<>>

\* A request that may have a connection.
Granted(x) ==
    /\ Payload(x) /\ ~RequestBlocked(x)
    /\ \/ /\ conf.trojan /\ x.told = <<>>
          /\ TrojanKey /\ x.taken = 3 /\ stream[3] \in Commands
       \/ ~conf.trojan /\ x.told \in {<<"ok">>, Append(<<"method">>, "ok")}

\* Other traffic, on its way to the fallback server.
Foreign(x) ==
    /\ conf.trojan /\ x.told = <<>>
    /\ x.taken <= 2 /\ x.pending = SubSeq(stream, 1, x.taken)

\* One connection has been opened, to the right server.
Dialled(x) ==
    \/ x.peer = "fallback" /\ x.dialled = <<"fallback">> /\ Foreign(x)
    \/ /\ x.peer # "fallback" /\ Granted(x)
       /\ x.dialled = <<IF x.outbound.type = "socks5" THEN "server" ELSE "target">>

\* What a client may have been told by the end.
Told(x) ==
    \/ x.told \in {<<>>, <<"method">>}
    \/ \E reply \in Replies \ {"method"} : x.told \in {<<reply>>, Append(<<"method">>, reply)}

Outcome(x) == Dialled(x) \/ (x.dialled = <<>> /\ Told(x))

-----------------------------------------------------------------------------
(* The phases. *)

Opening(x) ==
    /\ Fresh(x) /\ x.pending = <<>>
    /\ \/ x.state = "new" /\ x.told = <<>>
       \/ x.state = "prefix" /\ conf.trojan /\ x.told = <<>>
       \/ x.state = "request" /\ conf.trojan /\ x.told = <<>> /\ TrojanKey
       \/ x.state = "inbound_classify" /\ ~conf.trojan /\ x.told = <<>>
       \/ x.state = "socks5_in_greeting" /\ Local("version") /\ x.told = <<>>
       \/ x.state = "socks5_in_request" /\ Local("version") /\ x.told = <<"method">>
       \/ x.state = "http_in_request" /\ Local("http") /\ x.told = <<>>

Falling(x) ==
    Fresh(x) /\ x.state = "default_fallback" /\ x.reply = "unavailable" /\ x.told = <<>>

MethodReply(x) ==
    /\ Local("version") /\ x.told = <<>> /\ x.pending = <<>>
    /\ x.reply \in {"method", "nomethod"}

\* The last reply: a connection follows only what routing does not block.
FinalReply(x) ==
    /\ ~conf.trojan /\ x.reply \in Replies \ {"method", "nomethod"}
    /\ x.reply = "ok" => Payload(x) /\ ~RequestBlocked(x)

Answering(x) ==
    /\ Fresh(x)
    /\ \/ x.state = "socks5_in_response" /\ MethodReply(x)
       \/ x.state = "socks5_in_response" /\ FinalReply(x) /\ x.told = <<"method">>
       \/ x.state = "http_in_response" /\ FinalReply(x) /\ x.told = <<>>

Routing(x) ==
    /\ Typed(x) /\ x.timer = FALSE /\ x.peer = "none" /\ x.dialled = <<>>
    /\ x.state = "resolving" /\ x.resolver = "route" /\ Asked(x, x.resume)

Locating(x) ==
    /\ Typed(x) /\ x.timer = FALSE /\ x.peer = "tcp" /\ x.dialled = <<>>
    /\ x.state = "resolving" /\ x.resolver = "tcp"
    /\ Granted(x) /\ x.outbound.type = "direct"

Linking(x) ==
    /\ Typed(x) /\ x.timer = TRUE /\ x.resolver = "none" /\ Dialled(x)
    /\ \/ x.state = "connecting"
       \/ x.state \in Handshaking /\ x.peer # "fallback"

Serving(x) ==
    /\ Typed(x) /\ Still(x)
    /\ \/ x.state = "proxy" /\ Dialled(x)
       \/ /\ x.state \in Served \ {"proxy"} /\ x.peer # "fallback"
          /\ Dialled(x) \/ (Granted(x) /\ x.dialled = <<>>)

Ended(x) == Typed(x) /\ Still(x) /\ x.state = "closed" /\ Outcome(x)

Phased(x) ==
    \/ Opening(x) \/ Falling(x) \/ Answering(x)
    \/ Routing(x) \/ Locating(x) \/ Linking(x)
    \/ Serving(x) \/ Ended(x)

SessionInv == conf \in Configs /\ stream \in Streams /\ Phased(s)

-----------------------------------------------------------------------------
(* The changes that the operators of Session make to a context, field by field. *)

\* y is a context with these fields.
Fields(y, state, arrived, taken, command, outbound, pending, resolver, resume,
       peer, timer, reply, told, dialled) ==
    /\ y \in Context
    /\ y.state = state /\ y.arrived = arrived /\ y.taken = taken
    /\ y.command = command /\ y.outbound = outbound /\ y.pending = pending
    /\ y.resolver = resolver /\ y.resume = resume /\ y.peer = peer
    /\ y.timer = timer /\ y.reply = reply /\ y.told = told /\ y.dialled = dialled

LEMMA FinalizeFields ==
    ASSUME NEW x \in Context
    PROVE  Fields(Finalize(x), "closed", x.arrived, x.taken, x.command, x.outbound,
                               x.pending, "none", x.resume, x.peer, FALSE, x.reply,
                               x.told, x.dialled)
<1>1. "closed" \in States /\ "none" \in {"none", "route", "tcp"}
  BY DEF States
<1>2. QED
  BY <1>1, Zenon DEF Finalize, Fields, Context

LEMMA ResolvingFields ==
    ASSUME NEW x \in Context,
           NEW type \in {"none", "route", "tcp"}
    PROVE  Fields(Resolving(x, type), "resolving", x.arrived, x.taken, x.command,
                                      x.outbound, x.pending, type, x.resume,
                                      x.peer, x.timer, x.reply, x.told, x.dialled)
<1>1. "resolving" \in States
  BY DEF States
<1>2. QED
  BY <1>1, Zenon DEF Resolving, Fields, Context

\* The session goes on to another state.
Into(x, state) ==
    [x EXCEPT !.state = state]

LEMMA IntoFields ==
    ASSUME NEW x \in Context,
           NEW state \in States
    PROVE  Fields(Into(x, state), state, x.arrived, x.taken, x.command, x.outbound,
                                  x.pending, x.resolver, x.resume, x.peer, x.timer,
                                  x.reply, x.told, x.dialled)
  BY Zenon DEF Into, Fields, Context

\* A state with a reply to send.
Replying(x, state, reply) ==
    [x EXCEPT !.state = state,
              !.reply = reply]

LEMMA ReplyingFields ==
    ASSUME NEW x \in Context,
           NEW state \in States,
           NEW reply \in Replies \cup {"none"}
    PROVE  Fields(Replying(x, state, reply), state, x.arrived, x.taken, x.command,
                                             x.outbound, x.pending, x.resolver,
                                             x.resume, x.peer, x.timer, reply,
                                             x.told, x.dialled)
  BY Zenon DEF Replying, Fields, Context

\* One field of the route, the connection or the handshake.
WithOutbound(x, outbound) ==
    [x EXCEPT !.outbound = outbound]

LEMMA WithOutboundFields ==
    ASSUME NEW x \in Context,
           NEW outbound \in Outbound
    PROVE  Fields(WithOutbound(x, outbound), x.state, x.arrived, x.taken,
                                             x.command, outbound, x.pending,
                                             x.resolver, x.resume, x.peer, x.timer,
                                             x.reply, x.told, x.dialled)
  BY Zenon DEF WithOutbound, Fields, Context

WithResume(x, resume) ==
    [x EXCEPT !.resume = resume]

LEMMA WithResumeFields ==
    ASSUME NEW x \in Context,
           NEW resume \in {"none", "request", "socks5_in", "http_in"}
    PROVE  Fields(WithResume(x, resume), x.state, x.arrived, x.taken, x.command,
                                         x.outbound, x.pending, x.resolver, resume,
                                         x.peer, x.timer, x.reply, x.told,
                                         x.dialled)
  BY Zenon DEF WithResume, Fields, Context

WithCommand(x, command) ==
    [x EXCEPT !.command = command]

LEMMA WithCommandFields ==
    ASSUME NEW x \in Context,
           NEW command \in Commands
    PROVE  Fields(WithCommand(x, command), x.state, x.arrived, x.taken, command,
                                           x.outbound, x.pending, x.resolver,
                                           x.resume, x.peer, x.timer, x.reply,
                                           x.told, x.dialled)
  BY Zenon DEF WithCommand, Fields, Context

WithPeer(x, peer) ==
    [x EXCEPT !.peer = peer]

LEMMA WithPeerFields ==
    ASSUME NEW x \in Context,
           NEW peer \in {"none", "fallback", "tcp"}
    PROVE  Fields(WithPeer(x, peer), x.state, x.arrived, x.taken, x.command,
                                     x.outbound, x.pending, x.resolver, x.resume,
                                     peer, x.timer, x.reply, x.told, x.dialled)
  BY Zenon DEF WithPeer, Fields, Context

WithTimer(x, timer) ==
    [x EXCEPT !.timer = timer]

LEMMA WithTimerFields ==
    ASSUME NEW x \in Context,
           NEW timer \in BOOLEAN
    PROVE  Fields(WithTimer(x, timer), x.state, x.arrived, x.taken, x.command,
                                       x.outbound, x.pending, x.resolver, x.resume,
                                       x.peer, timer, x.reply, x.told, x.dialled)
  BY Zenon DEF WithTimer, Fields, Context

WithTaken(x, taken) ==
    [x EXCEPT !.taken = taken]

LEMMA WithTakenFields ==
    ASSUME NEW x \in Context,
           NEW taken \in Nat
    PROVE  Fields(WithTaken(x, taken), x.state, x.arrived, taken, x.command,
                                       x.outbound, x.pending, x.resolver, x.resume,
                                       x.peer, x.timer, x.reply, x.told, x.dialled)
  BY Zenon DEF WithTaken, Fields, Context

WithStep(x, step) ==
    [x EXCEPT !.step = step]

LEMMA WithStepFields ==
    ASSUME NEW x \in Context,
           NEW step \in Steps
    PROVE  Fields(WithStep(x, step), x.state, x.arrived, x.taken, x.command,
                                     x.outbound, x.pending, x.resolver, x.resume,
                                     x.peer, x.timer, x.reply, x.told, x.dialled)
  BY Zenon DEF WithStep, Fields, Context

\* The resolver has called back.
Answered(x) ==
    [x EXCEPT !.resolver = "none"]

LEMMA AnsweredFields ==
    ASSUME NEW x \in Context
    PROVE  Fields(Answered(x), x.state, x.arrived, x.taken, x.command, x.outbound,
                               x.pending, "none", x.resume, x.peer, x.timer,
                               x.reply, x.told, x.dialled)
<1>1. "none" \in {"none", "route", "tcp"}
  OBVIOUS
<1>2. QED
  BY <1>1, Zenon DEF Answered, Fields, Context

\* The connection is there.
Established(x) ==
    [x EXCEPT !.connected = TRUE]

LEMMA EstablishedFields ==
    ASSUME NEW x \in Context
    PROVE  Fields(Established(x), x.state, x.arrived, x.taken, x.command,
                                  x.outbound, x.pending, x.resolver, x.resume,
                                  x.peer, x.timer, x.reply, x.told, x.dialled)
  BY Zenon DEF Established, Fields, Context

\* What was read is kept for the server.
ForFallback(x, pending) ==
    [x EXCEPT !.peer = "fallback",
              !.pending = pending]

LEMMA ForFallbackFields ==
    ASSUME NEW x \in Context,
           NEW pending \in Seq(Unit)
    PROVE  Fields(ForFallback(x, pending), x.state, x.arrived, x.taken, x.command,
                                           x.outbound, pending, x.resolver,
                                           x.resume, "fallback", x.timer, x.reply,
                                           x.told, x.dialled)
<1>1. "fallback" \in {"none", "fallback", "tcp"}
  OBVIOUS
<1>2. QED
  BY <1>1, Zenon DEF ForFallback, Fields, Context

\* A CONNECT request, with what came after its head.
ForTunnel(x, pending) ==
    [x EXCEPT !.command = "connect",
              !.pending = pending]

LEMMA ForTunnelFields ==
    ASSUME NEW x \in Context,
           NEW pending \in Seq(Unit)
    PROVE  Fields(ForTunnel(x, pending), x.state, x.arrived, x.taken, "connect",
                                         x.outbound, pending, x.resolver, x.resume,
                                         x.peer, x.timer, x.reply, x.told,
                                         x.dialled)
<1>1. "connect" \in Commands
  BY DEF Commands
<1>2. QED
  BY <1>1, Zenon DEF ForTunnel, Fields, Context

\* The client's side.
WithArrived(x, arrived) ==
    [x EXCEPT !.arrived = arrived]

LEMMA WithArrivedFields ==
    ASSUME NEW x \in Context,
           NEW arrived \in Nat
    PROVE  Fields(WithArrived(x, arrived), x.state, arrived, x.taken, x.command,
                                           x.outbound, x.pending, x.resolver,
                                           x.resume, x.peer, x.timer, x.reply,
                                           x.told, x.dialled)
  BY Zenon DEF WithArrived, Fields, Context

WithFin(x) ==
    [x EXCEPT !.fin = TRUE]

LEMMA WithFinFields ==
    ASSUME NEW x \in Context
    PROVE  Fields(WithFin(x), x.state, x.arrived, x.taken, x.command, x.outbound,
                              x.pending, x.resolver, x.resume, x.peer, x.timer,
                              x.reply, x.told, x.dialled)
  BY Zenon DEF WithFin, Fields, Context

\* What decides about the payload, the grant and the outcome of a context.
Alike(x, y) ==
    /\ y.taken = x.taken /\ y.command = x.command /\ y.outbound = x.outbound
    /\ y.pending = x.pending /\ y.told = x.told

LEMMA ContextTypes ==
    ASSUME NEW x \in Context
    PROVE  /\ x.taken \in Nat /\ x.arrived \in Nat
           /\ x.reply \in Replies \cup {"none"} /\ x.told \in Seq(Replies)
           /\ x.outbound \in Outbound /\ x.command \in Commands
           /\ x.pending \in Seq(Unit)
  BY Zenon DEF Context

LEMMA OutboundType ==
    ASSUME NEW o \in Outbound
    PROVE  /\ o.type \in {"direct", "socks5"}
           /\ o.block \in {"none", "all", "udp"}
  BY Zenon DEF Outbound

LEMMA StreamType ==
    ASSUME stream \in Streams
    PROVE  stream \in Seq(Unit) /\ Len(stream) \in Nat
  BY SessionAssumption, LenProperties

\* Reading takes what there is, up to n units.
LEMMA ReadUpToFields ==
    ASSUME NEW x \in Context, NEW n \in Nat
    PROVE  \E taken \in Nat :
               /\ taken <= n /\ taken <= x.arrived
               /\ Fields(ReadUpTo(x, n), x.state, x.arrived, taken, x.command, x.outbound,
                                         x.pending, x.resolver, x.resume, x.peer,
                                         x.timer, x.reply, x.told, x.dialled)
<1>1. x.arrived \in Nat
  BY ContextTypes
<1>2. PICK taken \in Nat : taken = IF n < x.arrived THEN n ELSE x.arrived
  BY <1>1
<1>3. taken <= n /\ taken <= x.arrived
  BY <1>1, <1>2
<1>4. ReadUpTo(x, n) = WithTaken(x, taken)
  BY <1>2 DEF ReadUpTo, WithTaken
<1>5. QED
  BY <1>3, <1>4, WithTakenFields, Zenon

\* A reply is sent, and remembered.
LEMMA SentFields ==
    ASSUME NEW x \in Context, NEW reply \in Replies, x.reply = reply,
           NEW told, told = Append(x.told, reply)
    PROVE  Fields(Sent(x), x.state, x.arrived, x.taken, x.command, x.outbound,
                           x.pending, x.resolver, x.resume, x.peer, x.timer,
                           "none", told, x.dialled)
<1>1. told \in Seq(Replies)
  BY ContextTypes, AppendProperties
<1>2. Sent(x) = [x EXCEPT !.told = told, !.reply = "none"]
  BY DEF Sent
<1>3. QED
  BY <1>1, <1>2, Zenon DEF Fields, Context

\* connect: to the fallback server or to the target.
Connecting(x) ==
    [x EXCEPT !.state = "connecting", !.upstream = TRUE,
              !.dialled = Append(@, IF x.peer = "fallback" THEN "fallback" ELSE "target")]

LEMMA ConnectingFields ==
    ASSUME NEW x \in Context, x.dialled = <<>>,
           NEW server, server = IF x.peer = "fallback" THEN "fallback" ELSE "target"
    PROVE  Fields(Connecting(x), "connecting", x.arrived, x.taken, x.command,
                                 x.outbound, x.pending, x.resolver, x.resume, x.peer,
                                 x.timer, x.reply, x.told, <<server>>)
<1>1. <<server>> \in Seq({"fallback", "target", "server"}) /\ "connecting" \in States
  BY DEF States
<1>2. Append(<<>>, server) = <<server>>
  OBVIOUS
<1>3. Connecting(x) = [x EXCEPT !.state = "connecting", !.upstream = TRUE,
                                !.dialled = <<server>>]
  BY <1>2 DEF Connecting
<1>4. QED
  BY <1>1, <1>3, Zenon DEF Fields, Context

\* socks5_connect: to an upstream server.
Dialling(x, state) ==
    [x EXCEPT !.state = state, !.step = "greeting_write",
              !.upstream = TRUE, !.timer = TRUE, !.dialled = Append(@, "server")]

LEMMA DiallingFields ==
    ASSUME NEW x \in Context, x.dialled = <<>>, NEW state \in Handshaking
    PROVE  Fields(Dialling(x, state), state, x.arrived, x.taken, x.command, x.outbound,
                                      x.pending, x.resolver, x.resume, x.peer, TRUE,
                                      x.reply, x.told, <<"server">>)
<1>1. /\ <<"server">> \in Seq({"fallback", "target", "server"})
      /\ state \in States /\ "greeting_write" \in Steps
  BY DEF States, Steps
<1>2. Append(<<>>, "server") = <<"server">>
  OBVIOUS
<1>3. Dialling(x, state) = [x EXCEPT !.state = state, !.step = "greeting_write",
              !.upstream = TRUE, !.timer = TRUE, !.dialled = <<"server">>]
  BY <1>2 DEF Dialling
<1>4. QED
  BY <1>1, <1>3, ZenonT(40) DEF Fields, Context

LEMMA FieldsAlike ==
    ASSUME NEW x, NEW y, NEW st, NEW a, NEW rv, NEW rs, NEW p, NEW t, NEW rp, NEW d,
           Fields(y, st, a, x.taken, x.command, x.outbound, x.pending, rv, rs, p, t, rp,
                  x.told, d)
    PROVE  Alike(x, y)
  BY DEF Fields, Alike

LEMMA AlikeKeeps ==
    ASSUME NEW x, NEW y, Alike(x, y)
    PROVE  /\ Payload(x) => Payload(y)
           /\ RequestBlocked(x) <=> RequestBlocked(y)
           /\ Granted(x) => Granted(y)
           /\ Foreign(x) => Foreign(y)
           /\ Told(x) => Told(y)
           /\ \A resume : Asked(x, resume) => Asked(y, resume)
<1>1. /\ y.taken = x.taken /\ y.command = x.command /\ y.outbound = x.outbound
      /\ y.pending = x.pending /\ y.told = x.told
  BY DEF Alike
<1>2. Payload(x) => Payload(y)
  BY <1>1 DEF Payload
<1>3. RequestBlocked(x) <=> RequestBlocked(y)
  BY <1>1 DEF RequestBlocked
<1>4. Granted(x) => Granted(y)
  BY <1>1, <1>2, <1>3 DEF Granted
<1>5. Foreign(x) => Foreign(y)
  BY <1>1 DEF Foreign
<1>6. Told(x) => Told(y)
  BY <1>1, Zenon DEF Told
<1>7. \A resume : Asked(x, resume) => Asked(y, resume)
  BY <1>1, <1>2, Zenon DEF Asked
<1>8. QED
  BY <1>2, <1>3, <1>4, <1>5, <1>6, <1>7

\* A grant is a fair account of what the client was told.
LEMMA GrantedTold ==
    ASSUME NEW x, Granted(x)
    PROVE  Told(x)
<1>1. x.told \in {<<>>, <<"ok">>, Append(<<"method">>, "ok")}
  BY DEF Granted
<1>2. "ok" \in Replies \ {"method"}
  BY DEF Replies
<1>3. QED
  BY <1>1, <1>2, Zenon DEF Told

LEMMA DialledKept ==
    ASSUME NEW x, NEW y, Alike(x, y), y.peer = x.peer, y.dialled = x.dialled
    PROVE  /\ Dialled(x) => Dialled(y)
           /\ Outcome(x) => Outcome(y)
<1>1. y.outbound = x.outbound
  BY DEF Alike
<1>2. Dialled(x) => Dialled(y)
  BY <1>1, AlikeKeeps DEF Dialled
<1>3. QED
  BY <1>2, AlikeKeeps DEF Outcome

-----------------------------------------------------------------------------
(* Ending and connecting. *)

\* finalize ends a session whose outcome is fair.
LEMMA FinalizePhase ==
    ASSUME NEW x, Typed(x), Outcome(x)
    PROVE  Phased(Finalize(x))
<1>1. PICK y : y = Finalize(x)
  OBVIOUS
<1>2. Fields(y, "closed", x.arrived, x.taken, x.command, x.outbound, x.pending, "none",
             x.resume, x.peer, FALSE, x.reply, x.told, x.dialled)
  BY <1>1, FinalizeFields DEF Typed
<1>3. Typed(y) /\ Still(y) /\ y.state = "closed"
  BY <1>2 DEF Fields, Typed, Still
<1>4. Outcome(y)
  BY <1>2, FieldsAlike, DialledKept DEF Fields
<1>5. QED
  BY <1>1, <1>3, <1>4 DEF Phased, Ended

\* init_proxy
LEMMA InitProxyPhase ==
    ASSUME NEW x, Typed(x), Still(x), Dialled(x), NEW y \in InitProxy(x)
    PROVE  Phased(y)
<1>1. CASE y = Finalize(x)
  BY <1>1, FinalizePhase DEF Outcome
<1>2. CASE y = [x EXCEPT !.state = "proxy"]
  <2>1. Fields(y, "proxy", x.arrived, x.taken, x.command, x.outbound, x.pending,
               x.resolver, x.resume, x.peer, x.timer, x.reply, x.told, x.dialled)
    <3>1. y = Into(x, "proxy") /\ "proxy" \in States
      BY <1>2 DEF Into, States, Served
    <3>2. QED
      BY <3>1, IntoFields DEF Typed
  <2>2. Typed(y) /\ Still(y) /\ y.state = "proxy"
    BY <2>1 DEF Fields, Typed, Still
  <2>3. Dialled(y)
    BY <2>1, FieldsAlike, DialledKept DEF Fields
  <2>4. QED
    BY <2>2, <2>3 DEF Phased, Serving
<1>3. QED
  BY <1>1, <1>2 DEF InitProxy
\* connect, for the fallback server or for a request with a grant.
LEMMA ConnectPhase ==
    ASSUME NEW x, Typed(x), Still(x), x.dialled = <<>>,
           \/ x.peer = "fallback" /\ Foreign(x)
           \/ x.peer = "tcp" /\ Granted(x) /\ x.outbound.type = "direct",
           NEW y \in Connect(x)
    PROVE  Phased(y)
<1>1. PICK z : z = Connecting(x)
  OBVIOUS
<1>2. PICK server : server = IF x.peer = "fallback" THEN "fallback" ELSE "target"
  OBVIOUS
<1>3. Fields(z, "connecting", x.arrived, x.taken, x.command, x.outbound, x.pending,
             x.resolver, x.resume, x.peer, x.timer, x.reply, x.told, <<server>>)
  BY <1>1, <1>2, ConnectingFields DEF Typed
<1>4. Typed(z) /\ Still(z)
  BY <1>3 DEF Fields, Typed, Still
<1>5. Dialled(z)
  <2>1. Alike(x, z)
    BY <1>3, FieldsAlike
  <2>2. z.peer = x.peer /\ z.outbound = x.outbound /\ z.dialled = <<server>>
    BY <1>3 DEF Fields
  <2>3. CASE x.peer = "fallback" /\ Foreign(x)
    BY <1>2, <2>1, <2>2, <2>3, AlikeKeeps DEF Dialled
  <2>4. CASE x.peer = "tcp" /\ Granted(x) /\ x.outbound.type = "direct"
    <3>1. server = "target" /\ x.outbound.type # "socks5"
      BY <1>2, <2>4
    <3>2. Granted(z) /\ z.peer # "fallback"
      BY <2>1, <2>2, <2>4, AlikeKeeps
    <3>3. QED
      BY <2>2, <3>1, <3>2 DEF Dialled
  <2>5. QED
    BY <2>3, <2>4
<1>6. CASE y = Finalize(x)
  <2>1. Told(x)
    BY GrantedTold DEF Foreign, Told
  <2>2. QED
    BY <1>6, <2>1, FinalizePhase DEF Outcome
<1>7. CASE y = WithTimer(z, TRUE)
  <2>1. Fields(y, z.state, z.arrived, z.taken, z.command, z.outbound, z.pending,
               z.resolver, z.resume, z.peer, TRUE, z.reply, z.told, z.dialled)
    BY <1>4, <1>7, WithTimerFields DEF Typed
  <2>2. Typed(y) /\ y.timer = TRUE /\ y.resolver = "none" /\ y.state = "connecting"
    BY <1>3, <1>4, <2>1 DEF Fields, Typed, Still
  <2>3. Dialled(y)
    BY <1>5, <2>1, FieldsAlike, DialledKept DEF Fields
  <2>4. QED
    BY <2>2, <2>3 DEF Phased, Linking
<1>8. CASE y \in InitProxy(z)
  BY <1>4, <1>5, <1>8, InitProxyPhase
<1>9. QED
  <2>1. Connect(x) = {Finalize(x), WithTimer(z, TRUE)} \cup InitProxy(z)
    BY <1>1 DEF Connect, Connecting, WithTimer
  <2>2. QED
    BY <1>6, <1>7, <1>8, <2>1

\* The UDP service starts, after a SOCKS5 handshake or without a connection.
LEMMA ServeUdpPhase ==
    ASSUME NEW x, Typed(x), Still(x), x.peer # "fallback", Granted(x),
           Dialled(x) \/ x.dialled = <<>>,
           NEW y \in ServeUdp(x)
    PROVE  Phased(y)
<1>1. CASE y = Finalize(x)
  BY <1>1, GrantedTold, FinalizePhase DEF Outcome
<1>2. ASSUME NEW state \in Served \ {"proxy"}, y = Into(x, state) PROVE Phased(y)
  <2>1. Fields(y, state, x.arrived, x.taken, x.command, x.outbound, x.pending,
               x.resolver, x.resume, x.peer, x.timer, x.reply, x.told, x.dialled)
    BY <1>2, IntoFields DEF Typed, States
  <2>2. /\ Typed(y) /\ Still(y) /\ y.state = state
        /\ y.peer = x.peer /\ y.dialled = x.dialled
    BY <2>1 DEF Fields, Typed, Still
  <2>3. Granted(y) /\ (Dialled(x) => Dialled(y))
    BY <2>1, <2>2, FieldsAlike, AlikeKeeps, DialledKept
  <2>4. Serving(y)
    BY <1>2, <2>2, <2>3 DEF Serving
  <2>5. QED
    BY <2>4 DEF Phased
<1>3. QED
  <2>1. PICK state : state = IF conf.trojan THEN "udp" ELSE "socks5_in_udp_control"
    OBVIOUS
  <2>2. state \in Served \ {"proxy"}
    BY <2>1 DEF Served
  <2>3. ServeUdp(x) = {Into(x, state), Finalize(x)}
    BY <2>1 DEF ServeUdp, Into
  <2>4. QED
    BY <1>1, <1>2, <2>2, <2>3

\* One call of process_socks5.
LEMMA ProcessSocks5Phase ==
    ASSUME NEW x, Typed(x), x.timer = TRUE, x.resolver = "none",
           x.state \in Handshaking, x.peer # "fallback", Dialled(x),
           NEW y \in ProcessSocks5(x)
    PROVE  Phased(y)
<1>1. CASE y = Finalize(x)
  BY <1>1, FinalizePhase DEF Outcome
<1>2. ASSUME NEW step \in Steps, y = WithStep(x, step) PROVE Phased(y)
  <2>1. Fields(y, x.state, x.arrived, x.taken, x.command, x.outbound, x.pending,
               x.resolver, x.resume, x.peer, x.timer, x.reply, x.told, x.dialled)
    BY <1>2, WithStepFields DEF Typed
  <2>2. /\ Typed(y) /\ y.timer = TRUE /\ y.resolver = "none"
        /\ y.state = x.state /\ y.peer = x.peer /\ y.dialled = x.dialled
    BY <2>1 DEF Fields, Typed
  <2>3. Dialled(y)
    BY <2>1, <2>2, FieldsAlike, DialledKept
  <2>4. Linking(y)
    BY <2>2, <2>3 DEF Linking
  <2>5. QED
    BY <2>4 DEF Phased
<1>3. PICK z : z = WithTimer(x, FALSE)
  OBVIOUS
<1>4. Fields(z, x.state, x.arrived, x.taken, x.command, x.outbound, x.pending,
             x.resolver, x.resume, x.peer, FALSE, x.reply, x.told, x.dialled)
  BY <1>3, WithTimerFields DEF Typed
<1>5. Typed(z) /\ Still(z) /\ z.peer = x.peer /\ z.dialled = x.dialled
  BY <1>4 DEF Fields, Typed, Still
<1>6. Dialled(z)
  BY <1>4, <1>5, FieldsAlike, DialledKept
<1>7. Granted(z)
  BY <1>5, <1>6 DEF Dialled
<1>8. CASE y \in InitProxy(z)
  BY <1>5, <1>6, <1>8, InitProxyPhase
<1>9. CASE y \in ServeUdp(z)
  BY <1>5, <1>6, <1>7, <1>9, ServeUdpPhase
<1>10. QED
  <2>1. ProcessSocks5(x) =
            {Finalize(x)} \cup {WithStep(x, step) : step \in StepsFrom(x.step)}
                \cup (IF x.state = "socks5_tcp" THEN InitProxy(z) ELSE ServeUdp(z))
    BY <1>3 DEF ProcessSocks5, WithStep, WithTimer
  <2>2. StepsFrom(x.step) \subseteq Steps
    <3>1. x.step \in Steps
      BY Zenon DEF Typed, Context
    <3>2. QED
      BY <3>1 DEF StepsFrom, Steps
  <2>3. QED
    BY <1>1, <1>2, <1>8, <1>9, <2>1, <2>2
\* socks5_connect, for a request with a grant.
LEMMA Socks5ConnectPhase ==
    ASSUME NEW x, Typed(x), Still(x), x.dialled = <<>>, x.peer # "fallback",
           Granted(x), x.outbound.type = "socks5", NEW state \in Handshaking,
           NEW y \in Socks5Connect(x, state)
    PROVE  Phased(y)
<1>1. PICK z : z = Dialling(x, state)
  OBVIOUS
<1>2. Fields(z, state, x.arrived, x.taken, x.command, x.outbound, x.pending,
             x.resolver, x.resume, x.peer, TRUE, x.reply, x.told, <<"server">>)
  BY <1>1, DiallingFields DEF Typed
<1>3. /\ Typed(z) /\ z.timer = TRUE /\ z.resolver = "none" /\ z.state = state
      /\ z.peer = x.peer /\ z.outbound = x.outbound /\ z.dialled = <<"server">>
  BY <1>2 DEF Fields, Typed, Still
<1>4. Granted(z)
  BY <1>2, FieldsAlike, AlikeKeeps
<1>5. Dialled(z)
  BY <1>3, <1>4 DEF Dialled
<1>6. CASE y = Finalize(x)
  BY <1>6, GrantedTold, FinalizePhase DEF Outcome
<1>7. CASE y = z
  BY <1>3, <1>5, <1>7 DEF Phased, Linking
<1>8. CASE y \in ProcessSocks5(Established(z))
  <2>1. PICK w : w = Established(z)
    OBVIOUS
  <2>2. Fields(w, z.state, z.arrived, z.taken, z.command, z.outbound, z.pending,
               z.resolver, z.resume, z.peer, z.timer, z.reply, z.told, z.dialled)
    BY <1>3, <2>1, EstablishedFields DEF Typed
  <2>3. /\ Typed(w) /\ w.timer = TRUE /\ w.resolver = "none" /\ w.state = state
        /\ w.peer = z.peer /\ w.dialled = z.dialled
    BY <1>3, <2>2 DEF Fields, Typed
  <2>4. Dialled(w)
    BY <1>5, <2>2, <2>3, FieldsAlike, DialledKept
  <2>5. QED
    BY <1>3, <1>8, <2>1, <2>3, <2>4, ProcessSocks5Phase
<1>9. QED
  <2>1. Socks5Connect(x, state) = {Finalize(x), z} \cup ProcessSocks5(Established(z))
    BY <1>1 DEF Socks5Connect, Dialling, Established
  <2>2. QED
    BY <1>6, <1>7, <1>8, <2>1

\* The address of a target is there.
LEMMA TcpAnswerPhase ==
    ASSUME NEW x, Typed(x), x.timer = FALSE, x.peer = "tcp", x.dialled = <<>>,
           Granted(x), x.outbound.type = "direct", NEW y \in TcpAnswer(x)
    PROVE  Phased(y)
<1>1. PICK z : z = Answered(x)
  OBVIOUS
<1>2. Fields(z, x.state, x.arrived, x.taken, x.command, x.outbound, x.pending, "none",
             x.resume, x.peer, x.timer, x.reply, x.told, x.dialled)
  BY <1>1, AnsweredFields DEF Typed
<1>3. /\ Typed(z) /\ Still(z) /\ z.peer = "tcp" /\ z.dialled = <<>>
      /\ z.outbound.type = "direct"
  BY <1>2 DEF Fields, Typed, Still
<1>4. Granted(z)
  BY <1>2, FieldsAlike, AlikeKeeps
<1>5. CASE y = Finalize(z)
  BY <1>3, <1>4, <1>5, GrantedTold, FinalizePhase DEF Outcome
<1>6. CASE y \in Connect(z)
  BY <1>3, <1>4, <1>6, ConnectPhase
<1>7. QED
  <2>1. TcpAnswer(x) = {Finalize(z)} \cup Connect(z)
    BY <1>1 DEF TcpAnswer, Answered
  <2>2. QED
    BY <1>5, <1>6, <2>1

LEMMA ResolveTcpPhase ==
    ASSUME NEW x, Typed(x), Still(x), x.peer = "tcp", x.dialled = <<>>,
           Granted(x), x.outbound.type = "direct", NEW y \in ResolveTcp(x)
    PROVE  Phased(y)
<1>1. PICK z : z = Resolving(x, "tcp")
  OBVIOUS
<1>2. Fields(z, "resolving", x.arrived, x.taken, x.command, x.outbound, x.pending, "tcp",
             x.resume, x.peer, x.timer, x.reply, x.told, x.dialled)
  BY <1>1, ResolvingFields DEF Typed
<1>3. /\ Typed(z) /\ z.timer = FALSE /\ z.peer = "tcp" /\ z.dialled = <<>>
      /\ z.state = "resolving" /\ z.resolver = "tcp" /\ z.outbound.type = "direct"
  BY <1>2 DEF Fields, Typed, Still
<1>4. Granted(z)
  BY <1>2, FieldsAlike, AlikeKeeps
<1>5. CASE y = Finalize(x)
  BY <1>5, GrantedTold, FinalizePhase DEF Outcome
<1>6. CASE y = z
  BY <1>3, <1>4, <1>6 DEF Phased, Locating
<1>7. CASE y \in TcpAnswer(z)
  BY <1>3, <1>4, <1>7, TcpAnswerPhase
<1>8. QED
  BY <1>1, <1>5, <1>6, <1>7 DEF ResolveTcp

\* start_tcp, for a request with a grant.
LEMMA StartTcpPhase ==
    ASSUME NEW x, Fresh(x), Granted(x), NEW y \in StartTcp(x)
    PROVE  Phased(y)
<1>1. PICK z : z = WithPeer(x, "tcp")
  OBVIOUS
<1>2. Fields(z, x.state, x.arrived, x.taken, x.command, x.outbound, x.pending,
             x.resolver, x.resume, "tcp", x.timer, x.reply, x.told, x.dialled)
  BY <1>1, WithPeerFields DEF Fresh, Typed
<1>3. /\ Typed(z) /\ Still(z) /\ z.peer = "tcp" /\ z.dialled = <<>>
      /\ z.outbound = x.outbound
  BY <1>2 DEF Fields, Fresh, Typed, Still
<1>4. Granted(z)
  BY <1>2, FieldsAlike, AlikeKeeps
<1>5. x.outbound.type \in {"direct", "socks5"}
  BY ContextTypes, OutboundType DEF Fresh, Typed
<1>6. CASE x.outbound.type = "socks5" /\ y \in Socks5Connect(z, "socks5_tcp")
  <2>1. "socks5_tcp" \in Handshaking
    BY DEF Handshaking
  <2>2. QED
    BY <1>3, <1>4, <1>6, <2>1, Socks5ConnectPhase
<1>7. CASE y = Finalize(x)
  BY <1>7, GrantedTold, FinalizePhase DEF Outcome, Fresh
<1>8. CASE x.outbound.type = "direct" /\ y \in Connect(z)
  BY <1>3, <1>4, <1>8, ConnectPhase
<1>9. CASE x.outbound.type = "direct" /\ y \in ResolveTcp(z)
  BY <1>3, <1>4, <1>9, ResolveTcpPhase
<1>10. QED
  <2>1. StartTcp(x) =
            IF x.outbound.type = "socks5" THEN Socks5Connect(z, "socks5_tcp")
            ELSE {Finalize(x)} \cup Connect(z) \cup (IF conf.nginx THEN ResolveTcp(z) ELSE {})
    BY <1>1 DEF StartTcp, WithPeer
  <2>2. QED
    BY <1>5, <1>6, <1>7, <1>8, <1>9, <2>1

\* start_udp, likewise.
LEMMA StartUdpPhase ==
    ASSUME NEW x, Fresh(x), Granted(x), NEW y \in StartUdp(x)
    PROVE  Phased(y)
<1>1. /\ Typed(x) /\ Still(x) /\ x.dialled = <<>> /\ x.peer # "fallback"
      /\ "socks5_udp" \in Handshaking
  BY DEF Fresh, Handshaking
<1>2. CASE x.outbound.type = "socks5"
  BY <1>1, <1>2, Socks5ConnectPhase DEF StartUdp
<1>3. CASE x.outbound.type # "socks5"
  BY <1>1, <1>3, ServeUdpPhase DEF StartUdp
<1>4. QED
  BY <1>2, <1>3

-----------------------------------------------------------------------------
(* Routing and answering. *)

\* request_after_route: a block ends the session.
LEMMA RequestAfterRoutePhase ==
    ASSUME NEW x, Fresh(x), Asked(x, "request"), NEW y \in RequestAfterRoute(x)
    PROVE  Phased(y)
<1>1. CASE RequestBlocked(x)
  <2>1. Told(x) /\ x.dialled = <<>>
    BY DEF Asked, Told, Fresh
  <2>2. QED
    BY <1>1, <2>1, FinalizePhase DEF RequestAfterRoute, Outcome, Fresh
<1>2. CASE ~RequestBlocked(x)
  <2>1. Granted(x)
    BY <1>2 DEF Asked, Granted
  <2>2. QED
    BY <1>2, <2>1, StartTcpPhase, StartUdpPhase DEF RequestAfterRoute
<1>3. QED
  BY <1>1, <1>2

\* A final reply is sent to a local client.
LEMMA Replied ==
    ASSUME NEW x, Fresh(x), FinalReply(x), x.told \in {<<>>, <<"method">>},
           NEW z, z = Sent(x)
    PROVE  /\ Fresh(z) /\ Told(z) /\ z.command = x.command
           /\ x.reply = "ok" => Granted(z)
<1>1. PICK reply \in Replies \ {"method", "nomethod"} : reply = x.reply
  BY DEF FinalReply
<1>2. PICK told : told = Append(x.told, reply)
  OBVIOUS
<1>3. told \in {<<reply>>, Append(<<"method">>, reply)}
  <2>1. CASE x.told = <<>>
    BY <1>2, <2>1
  <2>2. CASE x.told = <<"method">>
    BY <1>2, <2>2
  <2>3. QED
    BY <2>1, <2>2
<1>4. Fields(z, x.state, x.arrived, x.taken, x.command, x.outbound, x.pending,
             x.resolver, x.resume, x.peer, x.timer, "none", told, x.dialled)
  BY <1>1, <1>2, SentFields DEF Fresh, Typed
<1>5. Fresh(z) /\ z.told = told /\ z.command = x.command
  BY <1>4 DEF Fields, Fresh, Typed, Still
<1>6. Told(z)
  BY <1>3, <1>5, Zenon DEF Told
<1>7. ASSUME x.reply = "ok" PROVE Granted(z)
  <2>1. Payload(z) /\ ~RequestBlocked(z)
    BY <1>4, <1>7 DEF FinalReply, Fields, Payload, RequestBlocked
  <2>2. ~conf.trojan /\ z.told \in {<<"ok">>, Append(<<"method">>, "ok")}
    BY <1>1, <1>3, <1>5, <1>7 DEF FinalReply
  <2>3. QED
    BY <2>1, <2>2 DEF Granted
<1>8. QED
  BY <1>5, <1>6, <1>7

LEMMA Socks5FinalReplyPhase ==
    ASSUME NEW x, Fresh(x), x.state = "socks5_in_response", FinalReply(x),
           x.told = <<"method">>, NEW y \in Socks5FinalReply(x)
    PROVE  Phased(y)
<1>1. PICK z : z = Sent(x)
  OBVIOUS
<1>2. Fresh(z) /\ Told(z) /\ (x.reply = "ok" => Granted(z))
  BY <1>1, Replied
<1>3. CASE y = x
  BY <1>3 DEF Phased, Answering
<1>4. CASE y = Finalize(x)
  BY <1>4, FinalizePhase DEF Fresh, Outcome, Told
<1>5. CASE y = Finalize(z)
  BY <1>2, <1>5, FinalizePhase DEF Fresh, Outcome
<1>6. CASE x.reply = "ok" /\ (y \in StartTcp(z) \/ y \in StartUdp(z))
  BY <1>2, <1>6, StartTcpPhase, StartUdpPhase
<1>7. QED
  BY <1>1, <1>3, <1>4, <1>5, <1>6 DEF Socks5FinalReply, Unsent

LEMMA HttpReplyPhase ==
    ASSUME NEW x, Fresh(x), x.state = "http_in_response", FinalReply(x),
           x.told = <<>>, NEW y \in HttpReply(x)
    PROVE  Phased(y)
<1>1. PICK z : z = Sent(x)
  OBVIOUS
<1>2. Fresh(z) /\ Told(z) /\ (x.reply = "ok" => Granted(z))
  BY <1>1, Replied
<1>3. CASE y = x
  BY <1>3 DEF Phased, Answering
<1>4. CASE y = Finalize(x)
  BY <1>4, FinalizePhase DEF Fresh, Outcome, Told
<1>5. CASE y = Finalize(z)
  BY <1>2, <1>5, FinalizePhase DEF Fresh, Outcome
<1>6. CASE x.reply = "ok" /\ y \in StartTcp(z)
  BY <1>2, <1>6, StartTcpPhase
<1>7. QED
  BY <1>1, <1>3, <1>4, <1>5, <1>6 DEF HttpReply, Unsent

\* A reply is put into the buffer of a local client.
LEMMA ReplyingFresh ==
    ASSUME NEW x, Fresh(x), NEW state \in {"socks5_in_response", "http_in_response"},
           NEW reply \in Replies, NEW y, y = Replying(x, state, reply)
    PROVE  /\ Fresh(y) /\ y.state = state /\ y.reply = reply /\ y.told = x.told
           /\ Alike(x, y)
<1>1. state \in States /\ reply \in Replies \cup {"none"}
  BY DEF States
<1>2. Fields(y, state, x.arrived, x.taken, x.command, x.outbound, x.pending,
             x.resolver, x.resume, x.peer, x.timer, reply, x.told, x.dialled)
  BY <1>1, ReplyingFields DEF Fresh, Typed
<1>3. Fresh(y) /\ y.state = state /\ y.reply = reply /\ y.told = x.told
  BY <1>2 DEF Fields, Fresh, Typed, Still
<1>4. QED
  BY <1>2, <1>3, FieldsAlike

\* socks5_in_after_route
LEMMA Socks5AfterRoutePhase ==
    ASSUME NEW x, Fresh(x), Asked(x, "socks5_in"), NEW y \in Socks5AfterRoute(x)
    PROVE  Phased(y)
<1>1. /\ ~conf.trojan /\ x.told = <<"method">> /\ Payload(x)
  BY DEF Asked, Local
<1>2. ASSUME NEW reply \in Replies \ {"method", "nomethod"},
             reply = "ok" => ~RequestBlocked(x),
             y \in Socks5FinalReply(Replying(x, "socks5_in_response", reply))
      PROVE  Phased(y)
  <2>1. PICK z : z = Replying(x, "socks5_in_response", reply)
    OBVIOUS
  <2>2. /\ Fresh(z) /\ z.state = "socks5_in_response" /\ z.reply = reply
        /\ z.told = <<"method">> /\ Alike(x, z)
    BY <1>1, <2>1, ReplyingFresh
  <2>3. FinalReply(z)
    BY <1>1, <1>2, <2>2, AlikeKeeps DEF FinalReply
  <2>4. QED
    BY <1>2, <2>1, <2>2, <2>3, Socks5FinalReplyPhase
<1>3. CASE y = Finalize(x)
  <2>1. Told(x) /\ x.dialled = <<>>
    BY <1>1 DEF Told, Fresh
  <2>2. QED
    BY <1>3, <2>1, FinalizePhase DEF Fresh, Outcome
<1>4. QED
  <2>1. {"unsupported", "blocked", "ok"} \subseteq Replies \ {"method", "nomethod"}
    BY DEF Replies, Failures
  <2>2. \A reply : [[x EXCEPT !.state = "socks5_in_response"] EXCEPT !.reply = reply]
                      = Replying(x, "socks5_in_response", reply)
    BY DEF Replying
  <2>3. RequestBlocked([x EXCEPT !.state = "socks5_in_response"]) <=> RequestBlocked(x)
    <3>1. PICK z : z = Into(x, "socks5_in_response")
      OBVIOUS
    <3>2. Alike(x, z)
      BY <3>1, IntoFields, FieldsAlike DEF Fresh, Typed, States
    <3>3. RequestBlocked(z) <=> RequestBlocked(x)
      BY <3>2, AlikeKeeps
    <3>4. QED
      BY <3>1, <3>3 DEF Into
  <2>4. QED
    BY <1>2, <1>3, <2>1, <2>2, <2>3 DEF Socks5AfterRoute

\* http_in_after_route
LEMMA HttpAfterRoutePhase ==
    ASSUME NEW x, Fresh(x), Asked(x, "http_in"), NEW y \in HttpAfterRoute(x)
    PROVE  Phased(y)
<1>1. /\ ~conf.trojan /\ x.told = <<>> /\ Payload(x)
  BY DEF Asked, Local
<1>2. PICK reply : reply = IF RequestBlocked(x) THEN "blocked" ELSE "ok"
  OBVIOUS
<1>3. /\ reply \in Replies \ {"method", "nomethod"}
      /\ reply = "ok" => ~RequestBlocked(x)
  BY <1>2 DEF Replies, Failures
<1>4. PICK z : z = Replying(x, "http_in_response", reply)
  OBVIOUS
<1>5. /\ Fresh(z) /\ z.state = "http_in_response" /\ z.reply = reply
      /\ z.told = <<>> /\ Alike(x, z)
  BY <1>1, <1>3, <1>4, ReplyingFresh
<1>6. FinalReply(z)
  BY <1>1, <1>3, <1>5, AlikeKeeps DEF FinalReply
<1>7. y \in HttpReply(z)
  BY <1>2, <1>4 DEF HttpAfterRoute, Replying
<1>8. QED
  BY <1>1, <1>5, <1>6, <1>7, HttpReplyPhase

\* The outbound is decided, and what waited for it goes on.
LEMMA DecidedPhase ==
    ASSUME NEW x, Fresh(x), NEW resume, Asked(x, resume), NEW y \in Decided(x, resume)
    PROVE  Phased(y)
<1>1. PICK outbound \in Outbounds \cup {Direct} :
          y \in AfterRoute(WithOutbound(x, outbound), resume)
  BY DEF Decided, WithOutbound
<1>2. outbound \in Outbound
  BY SessionAssumption DEF Direct, Outbound
<1>3. PICK z : z = WithOutbound(x, outbound)
  OBVIOUS
<1>4. Fields(z, x.state, x.arrived, x.taken, x.command, outbound, x.pending,
             x.resolver, x.resume, x.peer, x.timer, x.reply, x.told, x.dialled)
  BY <1>2, <1>3, WithOutboundFields DEF Fresh, Typed
<1>5. Fresh(z)
  BY <1>4 DEF Fields, Fresh, Typed, Still
<1>6. Asked(z, resume)
  <2>1. z.pending = x.pending /\ z.taken = x.taken /\ z.told = x.told
    BY <1>4 DEF Fields
  <2>2. Payload(z)
    BY <2>1 DEF Asked, Payload
  <2>3. QED
    BY <2>1, <2>2 DEF Asked
<1>7. resume \in {"request", "socks5_in", "http_in"}
  BY DEF Asked
<1>8. QED
  BY <1>1, <1>3, <1>5, <1>6, <1>7, RequestAfterRoutePhase, Socks5AfterRoutePhase,
     HttpAfterRoutePhase DEF AfterRoute

\* The names that routing asked for are resolved.
LEMMA RouteAnswerPhase ==
    ASSUME NEW x, Routing(x), NEW y \in RouteAnswer(x)
    PROVE  Phased(y)
<1>1. PICK z : z = Answered(x)
  OBVIOUS
<1>2. Fields(z, x.state, x.arrived, x.taken, x.command, x.outbound, x.pending, "none",
             x.resume, x.peer, x.timer, x.reply, x.told, x.dialled)
  BY <1>1, AnsweredFields DEF Routing, Typed
<1>3. Fresh(z)
  BY <1>2 DEF Fields, Routing, Fresh, Typed, Still
<1>4. Asked(z, x.resume)
  BY <1>2, FieldsAlike, AlikeKeeps DEF Routing
<1>5. CASE y = Finalize(z)
  <2>1. Told(z) /\ z.dialled = <<>>
    BY <1>3, <1>4 DEF Asked, Told, Fresh
  <2>2. QED
    BY <1>3, <1>5, <2>1, FinalizePhase DEF Fresh, Outcome
<1>6. CASE y \in Decided(WithResume(z, "none"), x.resume)
  <2>1. PICK w : w = WithResume(z, "none")
    OBVIOUS
  <2>2. Fields(w, z.state, z.arrived, z.taken, z.command, z.outbound, z.pending,
               z.resolver, "none", z.peer, z.timer, z.reply, z.told, z.dialled)
    BY <1>3, <2>1, WithResumeFields DEF Fresh, Typed
  <2>3. Fresh(w)
    BY <1>3, <2>2 DEF Fields, Fresh, Typed, Still
  <2>4. Asked(w, x.resume)
    BY <1>4, <2>2, FieldsAlike, AlikeKeeps
  <2>5. QED
    BY <1>6, <2>1, <2>3, <2>4, DecidedPhase
<1>7. QED
  BY <1>1, <1>5, <1>6 DEF RouteAnswer, Answered, WithResume

\* select_outbound
LEMMA SelectOutboundPhase ==
    ASSUME NEW x, Fresh(x), NEW resume, Asked(x, resume), NEW y \in SelectOutbound(x, resume)
    PROVE  Phased(y)
<1>1. PICK z : z = WithResume(x, resume)
  OBVIOUS
<1>2. PICK w : w = Resolving(z, "route")
  OBVIOUS
<1>3. resume \in {"none", "request", "socks5_in", "http_in"}
  BY DEF Asked
<1>4. Fields(z, x.state, x.arrived, x.taken, x.command, x.outbound, x.pending,
             x.resolver, resume, x.peer, x.timer, x.reply, x.told, x.dialled)
  BY <1>1, <1>3, WithResumeFields DEF Fresh, Typed
<1>5. Fresh(z) /\ z.resume = resume
  BY <1>4 DEF Fields, Fresh, Typed, Still
<1>6. Asked(z, resume)
  BY <1>4, FieldsAlike, AlikeKeeps
<1>7. Fields(w, "resolving", z.arrived, z.taken, z.command, z.outbound, z.pending, "route",
             z.resume, z.peer, z.timer, z.reply, z.told, z.dialled)
  BY <1>2, <1>5, ResolvingFields DEF Fresh, Typed
<1>8. Asked(w, resume)
  BY <1>6, <1>7, FieldsAlike, AlikeKeeps
<1>9. Routing(w)
  BY <1>5, <1>7, <1>8 DEF Fields, Fresh, Typed, Still, Routing
<1>10. CASE y = Finalize(x)
  <2>1. Told(x) /\ x.dialled = <<>>
    BY DEF Asked, Told, Fresh
  <2>2. QED
    BY <1>10, <2>1, FinalizePhase DEF Fresh, Outcome
<1>11. CASE y \in RouteAnswer(w)
  BY <1>9, <1>11, RouteAnswerPhase
<1>12. CASE y \in Decided(x, resume)
  BY <1>12, DecidedPhase
<1>13. CASE y = w
  BY <1>9, <1>13 DEF Phased
<1>14. QED
  BY <1>1, <1>2, <1>10, <1>11, <1>12, <1>13 DEF SelectOutbound, WithResume

-----------------------------------------------------------------------------
(* The Trojan handshake and the fallback. *)

\* flush_default_fallback
LEMMA DefaultFallbackPhase ==
    ASSUME NEW x, Falling(x), NEW y \in DefaultFallback(x)
    PROVE  Phased(y)
<1>1. Fresh(x) /\ x.reply = "unavailable" /\ x.told = <<>>
  BY DEF Falling
<1>2. CASE y = x
  BY <1>2 DEF Phased
<1>3. CASE y = Finalize(x)
  BY <1>1, <1>3, FinalizePhase DEF Fresh, Outcome, Told
<1>4. CASE y = Finalize(Sent(x))
  <2>1. PICK z : z = Sent(x)
    OBVIOUS
  <2>2. "unavailable" \in Replies \ {"method"}
    BY DEF Replies
  <2>3. Append(<<>>, "unavailable") = <<"unavailable">>
    OBVIOUS
  <2>4. Fields(z, x.state, x.arrived, x.taken, x.command, x.outbound, x.pending,
               x.resolver, x.resume, x.peer, x.timer, "none", <<"unavailable">>, x.dialled)
    BY <1>1, <2>1, <2>2, <2>3, SentFields DEF Fresh, Typed
  <2>5. Typed(z) /\ z.dialled = <<>> /\ z.told = <<"unavailable">>
    BY <1>1, <2>4 DEF Fields, Fresh, Typed
  <2>6. Told(z)
    BY <2>2, <2>5, Zenon DEF Told
  <2>7. QED
    BY <1>4, <2>1, <2>5, <2>6, FinalizePhase DEF Outcome
<1>5. QED
  BY <1>2, <1>3, <1>4 DEF DefaultFallback, Unsent

\* start_fallback
LEMMA StartFallbackPhase ==
    ASSUME stream \in Streams, NEW x, Fresh(x),
           conf.trojan, x.taken <= 2, x.told = <<>>, NEW y \in StartFallback(x)
    PROVE  Phased(y)
<1>1. PICK pending : pending = SubSeq(stream, 1, x.taken)
  OBVIOUS
<1>2. PICK z : z = ForFallback(x, pending)
  OBVIOUS
<1>3. CASE conf.fallback
  <2>1. pending \in Seq(Unit)
    BY <1>1, StreamType, ContextTypes, SubSeqProperties DEF Fresh, Typed
  <2>2. Fields(z, x.state, x.arrived, x.taken, x.command, x.outbound, pending,
               x.resolver, x.resume, "fallback", x.timer, x.reply, x.told, x.dialled)
    BY <1>2, <2>1, ForFallbackFields DEF Fresh, Typed
  <2>3. Typed(z) /\ Still(z) /\ z.dialled = <<>> /\ z.peer = "fallback" /\ Foreign(z)
    BY <1>1, <2>2 DEF Fields, Fresh, Typed, Still, Foreign
  <2>4. y \in Connect(z)
    BY <1>1, <1>2, <1>3 DEF StartFallback, ForFallback
  <2>5. QED
    BY <2>3, <2>4, ConnectPhase
<1>4. CASE ~conf.fallback
  <2>1. PICK w : w = Replying(x, "default_fallback", "unavailable")
    OBVIOUS
  <2>2. "default_fallback" \in States /\ "unavailable" \in Replies
    BY DEF States, Replies
  <2>3. Fields(w, "default_fallback", x.arrived, x.taken, x.command, x.outbound, x.pending,
               x.resolver, x.resume, x.peer, x.timer, "unavailable", x.told, x.dialled)
    BY <2>1, <2>2, ReplyingFields DEF Fresh, Typed
  <2>4. Falling(w)
    BY <2>3 DEF Fields, Falling, Fresh, Typed, Still
  <2>5. y \in DefaultFallback(w)
    BY <1>4, <2>1 DEF StartFallback, Replying
  <2>6. QED
    BY <2>4, <2>5, DefaultFallbackPhase
<1>5. QED
  BY <1>3, <1>4

\* Until a session is answered or opened it may end, and it may read.
LEMMA OpeningEnds ==
    ASSUME NEW x, Opening(x)
    PROVE  Phased(Finalize(x))
<1>1. Typed(x) /\ x.dialled = <<>> /\ x.told \in {<<>>, <<"method">>}
  BY DEF Opening, Fresh
<1>2. QED
  BY <1>1, FinalizePhase DEF Outcome, Told

LEMMA StarvedPhase ==
    ASSUME NEW x, Opening(x), NEW y \in Starved(x)
    PROVE  Phased(y)
  BY OpeningEnds DEF Starved, Phased

LEMMA ReadOpening ==
    ASSUME NEW x, Opening(x), NEW n \in Nat, NEW y, y = ReadUpTo(x, n)
    PROVE  /\ Opening(y) /\ y.state = x.state /\ y.told = x.told
           /\ y.taken \in Nat /\ y.taken <= n
<1>1. Typed(x)
  BY DEF Opening, Fresh
<1>2. PICK taken \in Nat :
          /\ taken <= n /\ taken <= x.arrived
          /\ Fields(y, x.state, x.arrived, taken, x.command, x.outbound, x.pending,
                    x.resolver, x.resume, x.peer, x.timer, x.reply, x.told, x.dialled)
  BY <1>1, ReadUpToFields DEF Typed
<1>3. /\ y.state = x.state /\ y.told = x.told /\ y.pending = x.pending
      /\ y.taken = taken /\ y.arrived = x.arrived
  BY <1>2 DEF Fields
<1>4. Fresh(y)
  BY <1>1, <1>2 DEF Fields, Opening, Fresh, Typed, Still
<1>5. Opening(y)
  BY <1>3, <1>4 DEF Opening
<1>6. QED
  BY <1>2, <1>3, <1>5

\* The command of a request is noted.
LEMMA CommandFresh ==
    ASSUME NEW x, Fresh(x), NEW command \in Commands, NEW y, y = WithCommand(x, command)
    PROVE  Fresh(y) /\ y.pending = x.pending /\ y.taken = x.taken /\ y.told = x.told
<1>1. Fields(y, x.state, x.arrived, x.taken, command, x.outbound, x.pending,
             x.resolver, x.resume, x.peer, x.timer, x.reply, x.told, x.dialled)
  BY WithCommandFields DEF Fresh, Typed
<1>2. QED
  BY <1>1 DEF Fields, Fresh, Typed, Still

\* Nothing is read beyond a request of three units.
LEMMA NoPayload ==
    ASSUME stream[1] # "http", NEW x, x.taken = 3, x.pending = <<>>
    PROVE  Payload(x)
<1>1. SubSeq(stream, 4, 3) = <<>>
  BY SubSeqEmpty
<1>2. QED
  BY <1>1 DEF Payload

\* process_request
LEMMA ProcessRequestPhase ==
    ASSUME NEW x, Opening(x), x.state = "request", NEW y \in ProcessRequest(x)
    PROVE  Phased(y)
<1>1. PICK z : z = ReadUpTo(x, 3)
  OBVIOUS
<1>2. Opening(z) /\ z.state = "request" /\ z.taken \in Nat /\ z.taken <= 3
  BY <1>1, ReadOpening
<1>3. /\ Fresh(z) /\ z.pending = <<>> /\ conf.trojan /\ z.told = <<>> /\ TrojanKey
  BY <1>2 DEF Opening
<1>4. CASE z.taken < 3 /\ y \in Starved(z)
  BY <1>2, <1>4, StarvedPhase
<1>5. CASE y = Finalize(z)
  BY <1>2, <1>5, OpeningEnds
<1>6. CASE /\ ~(z.taken < 3) /\ stream[3] \in Commands
           /\ y \in SelectOutbound(WithCommand(z, stream[3]), "request")
  <2>1. PICK w : w = WithCommand(z, stream[3])
    OBVIOUS
  <2>2. Fresh(w) /\ w.pending = <<>> /\ w.taken = 3 /\ w.told = <<>>
    BY <1>2, <1>3, <1>6, <2>1, CommandFresh
  <2>3. Payload(w)
    BY <1>3, <2>2, NoPayload DEF TrojanKey
  <2>4. Asked(w, "request")
    BY <1>3, <1>6, <2>2, <2>3 DEF Asked
  <2>5. QED
    BY <1>6, <2>1, <2>2, <2>4, SelectOutboundPhase
<1>7. QED
  BY <1>1, <1>4, <1>5, <1>6 DEF ProcessRequest, WithCommand

\* process_prefix
LEMMA ProcessPrefixPhase ==
    ASSUME stream \in Streams, NEW x, Opening(x), x.state = "prefix",
           NEW y \in ProcessPrefix(x)
    PROVE  Phased(y)
<1>1. PICK z : z = ReadUpTo(x, 2)
  OBVIOUS
<1>2. Opening(z) /\ z.state = "prefix" /\ z.taken \in Nat /\ z.taken <= 2
  BY <1>1, ReadOpening
<1>3. Fresh(z) /\ z.pending = <<>> /\ conf.trojan /\ z.told = <<>>
  BY <1>2 DEF Opening
<1>4. CASE y \in StartFallback(z)
  BY <1>2, <1>3, <1>4, StartFallbackPhase
<1>5. CASE y \in Starved(z)
  BY <1>2, <1>5, StarvedPhase
<1>6. CASE /\ ~(z.taken < 2) /\ stream[1] = "key" /\ stream[2] = "crlf"
           /\ y \in ProcessRequest(Into(z, "request"))
  <2>1. PICK w : w = Into(z, "request")
    OBVIOUS
  <2>2. "request" \in States
    BY DEF States
  <2>3. Fields(w, "request", z.arrived, z.taken, z.command, z.outbound, z.pending,
               z.resolver, z.resume, z.peer, z.timer, z.reply, z.told, z.dialled)
    BY <1>3, <2>1, <2>2, IntoFields DEF Fresh, Typed
  <2>4. Fresh(w) /\ w.pending = <<>> /\ w.state = "request" /\ w.told = <<>>
    BY <1>3, <2>3 DEF Fields, Fresh, Typed, Still
  <2>5. TrojanKey
    BY <1>2, <1>3, <1>6, StreamType, ContextTypes DEF TrojanKey, Fresh, Typed
  <2>6. Opening(w)
    BY <1>3, <2>4, <2>5 DEF Opening
  <2>7. QED
    BY <1>6, <2>1, <2>4, <2>6, ProcessRequestPhase
<1>7. QED
  BY <1>1, <1>4, <1>5, <1>6 DEF ProcessPrefix, Into

-----------------------------------------------------------------------------
(* The local proxies. *)

\* process_socks5_in, reading the request.
LEMMA Socks5RequestPhase ==
    ASSUME NEW x, Opening(x), x.state = "socks5_in_request", NEW y \in Socks5Request(x)
    PROVE  Phased(y)
<1>1. PICK z : z = ReadUpTo(x, 3)
  OBVIOUS
<1>2. Opening(z) /\ z.state = "socks5_in_request" /\ z.taken \in Nat /\ z.taken <= 3
  BY <1>1, ReadOpening
<1>3. Fresh(z) /\ z.pending = <<>> /\ Local("version") /\ z.told = <<"method">>
  BY <1>2 DEF Opening
<1>4. CASE y \in Starved(z)
  BY <1>2, <1>4, StarvedPhase
<1>5. CASE y = Finalize(z)
  BY <1>2, <1>5, OpeningEnds
<1>6. CASE y \in Socks5FinalReply(Replying(z, "socks5_in_response", "failure"))
  <2>1. PICK w : w = Replying(z, "socks5_in_response", "failure")
    OBVIOUS
  <2>2. "failure" \in Replies
    BY DEF Replies, Failures
  <2>3. /\ Fresh(w) /\ w.state = "socks5_in_response" /\ w.reply = "failure"
        /\ w.told = <<"method">>
    BY <1>3, <2>1, <2>2, ReplyingFresh
  <2>4. FinalReply(w)
    BY <1>3, <2>2, <2>3 DEF FinalReply, Local
  <2>5. QED
    BY <1>6, <2>1, <2>3, <2>4, Socks5FinalReplyPhase
<1>7. CASE /\ ~(z.taken < 3) /\ stream[3] \in Commands
           /\ y \in SelectOutbound(WithCommand(z, stream[3]), "socks5_in")
  <2>1. PICK w : w = WithCommand(z, stream[3])
    OBVIOUS
  <2>2. Fresh(w) /\ w.pending = <<>> /\ w.taken = 3 /\ w.told = <<"method">>
    BY <1>2, <1>3, <1>7, <2>1, CommandFresh
  <2>3. Payload(w)
    BY <1>3, <2>2, NoPayload DEF Local
  <2>4. Asked(w, "socks5_in")
    BY <1>3, <2>2, <2>3 DEF Asked
  <2>5. QED
    BY <1>7, <2>1, <2>2, <2>4, SelectOutboundPhase
<1>8. QED
  BY <1>1, <1>4, <1>5, <1>6, <1>7 DEF Socks5Request, Replying, WithCommand

\* The method is answered, and the request read if there is one.
LEMMA Socks5MethodReplyPhase ==
    ASSUME NEW x, Fresh(x), x.state = "socks5_in_response", MethodReply(x),
           NEW y \in Socks5MethodReply(x)
    PROVE  Phased(y)
<1>1. PICK z : z = Sent(x)
  OBVIOUS
<1>2. PICK reply \in {"method", "nomethod"} : reply = x.reply
  BY DEF MethodReply
<1>3. reply \in Replies /\ Append(<<>>, reply) = <<reply>>
  BY DEF Replies
<1>4. Fields(z, x.state, x.arrived, x.taken, x.command, x.outbound, x.pending,
             x.resolver, x.resume, x.peer, x.timer, "none", <<reply>>, x.dialled)
  BY <1>1, <1>2, <1>3, SentFields DEF Fresh, Typed, MethodReply
<1>5. Fresh(z) /\ z.told = <<reply>> /\ z.pending = <<>>
  BY <1>4 DEF Fields, Fresh, Typed, Still, MethodReply
<1>6. CASE y = x
  BY <1>6 DEF Phased, Answering
<1>7. CASE y = Finalize(x)
  <2>1. Told(x) /\ x.dialled = <<>>
    BY DEF Told, MethodReply, Fresh
  <2>2. QED
    BY <1>7, <2>1, FinalizePhase DEF Fresh, Outcome
<1>8. CASE x.reply = "nomethod" /\ y = Finalize(z)
  <2>1. "nomethod" \in Replies \ {"method"}
    BY DEF Replies
  <2>2. Told(z) /\ z.dialled = <<>>
    <3>1. z.told = <<"nomethod">>
      BY <1>2, <1>5, <1>8
    <3>2. Told(z)
      BY <2>1, <3>1, Zenon DEF Told
    <3>3. QED
      BY <1>5, <3>2 DEF Fresh
  <2>3. QED
    BY <1>5, <1>8, <2>2, FinalizePhase DEF Fresh, Outcome
<1>9. CASE x.reply # "nomethod" /\ y \in Socks5Request(Into(z, "socks5_in_request"))
  <2>1. PICK w : w = Into(z, "socks5_in_request")
    OBVIOUS
  <2>2. "socks5_in_request" \in States
    BY DEF States
  <2>3. Fields(w, "socks5_in_request", z.arrived, z.taken, z.command, z.outbound, z.pending,
               z.resolver, z.resume, z.peer, z.timer, z.reply, z.told, z.dialled)
    BY <1>5, <2>1, <2>2, IntoFields DEF Fresh, Typed
  <2>4. /\ Fresh(w) /\ w.pending = <<>> /\ w.state = "socks5_in_request"
        /\ w.told = <<reply>>
    BY <1>5, <2>3 DEF Fields, Fresh, Typed, Still
  <2>5. Opening(w)
    BY <1>2, <1>9, <2>4 DEF Opening, MethodReply
  <2>6. QED
    BY <1>9, <2>1, <2>4, <2>5, Socks5RequestPhase
<1>10. QED
  BY <1>1, <1>6, <1>7, <1>8, <1>9 DEF Socks5MethodReply, Unsent, Into

\* process_socks5_in, reading the methods.
LEMMA Socks5GreetingPhase ==
    ASSUME NEW x, Opening(x), x.state = "socks5_in_greeting", NEW y \in Socks5Greeting(x)
    PROVE  Phased(y)
<1>1. PICK z : z = ReadUpTo(x, 2)
  OBVIOUS
<1>2. Opening(z) /\ z.state = "socks5_in_greeting"
  BY <1>1, ReadOpening
<1>3. Fresh(z) /\ z.pending = <<>> /\ Local("version") /\ z.told = <<>>
  BY <1>2 DEF Opening
<1>4. CASE y \in Starved(z)
  BY <1>2, <1>4, StarvedPhase
<1>5. CASE y = Finalize(z)
  BY <1>2, <1>5, OpeningEnds
<1>6. PICK reply : reply = IF stream[2] = "noauth" THEN "method" ELSE "nomethod"
  OBVIOUS
<1>7. CASE y \in Socks5MethodReply(Replying(z, "socks5_in_response", reply))
  <2>1. PICK w : w = Replying(z, "socks5_in_response", reply)
    OBVIOUS
  <2>2. reply \in {"method", "nomethod"} /\ reply \in Replies
    BY <1>6 DEF Replies
  <2>3. /\ Fresh(w) /\ w.state = "socks5_in_response" /\ w.reply = reply
        /\ w.told = <<>> /\ w.pending = <<>>
    BY <1>3, <2>1, <2>2, ReplyingFresh DEF Alike
  <2>4. MethodReply(w)
    BY <1>3, <2>2, <2>3 DEF MethodReply
  <2>5. QED
    BY <1>7, <2>1, <2>3, <2>4, Socks5MethodReplyPhase
<1>8. QED
  BY <1>1, <1>4, <1>5, <1>6, <1>7 DEF Socks5Greeting, Replying

LEMMA Socks5ResponsePhase ==
    ASSUME NEW x, Answering(x), x.state = "socks5_in_response", NEW y \in Socks5Response(x)
    PROVE  Phased(y)
<1>1. Fresh(x)
  BY DEF Answering
<1>2. CASE MethodReply(x)
  BY <1>1, <1>2, Socks5MethodReplyPhase DEF Socks5Response, MethodReply
<1>3. CASE FinalReply(x) /\ x.told = <<"method">>
  BY <1>1, <1>3, Socks5FinalReplyPhase DEF Socks5Response, FinalReply
<1>4. QED
  BY <1>2, <1>3 DEF Answering

\* process_http_in with the head complete.
LEMMA HttpParsedPhase ==
    ASSUME stream \in Streams, NEW x, Fresh(x), x.pending = <<>>,
           Local("http"), x.told = <<>>, x.taken >= 2, NEW y \in HttpParsed(x)
    PROVE  Phased(y)
<1>1. ASSUME NEW reply \in {"notallowed", "failure", "bad"},
             y \in HttpReply(Replying(x, "http_in_response", reply))
      PROVE  Phased(y)
  <2>1. PICK w : w = Replying(x, "http_in_response", reply)
    OBVIOUS
  <2>2. reply \in Replies \ {"method", "nomethod"} /\ reply # "ok"
    BY DEF Replies, Failures
  <2>3. Fresh(w) /\ w.state = "http_in_response" /\ w.reply = reply /\ w.told = <<>>
    BY <2>1, <2>2, ReplyingFresh
  <2>4. FinalReply(w)
    BY <2>2, <2>3 DEF FinalReply, Local
  <2>5. QED
    BY <1>1, <2>1, <2>3, <2>4, HttpReplyPhase
<1>2. PICK rest : rest = SubSeq(stream, 3, x.taken)
  OBVIOUS
<1>3. CASE y \in SelectOutbound(ForTunnel(x, rest), "http_in")
  <2>1. PICK w : w = ForTunnel(x, rest)
    OBVIOUS
  <2>2. rest \in Seq(Unit)
    BY <1>2, StreamType, ContextTypes, SubSeqProperties DEF Fresh, Typed
  <2>3. Fields(w, x.state, x.arrived, x.taken, "connect", x.outbound, rest,
               x.resolver, x.resume, x.peer, x.timer, x.reply, x.told, x.dialled)
    BY <2>1, <2>2, ForTunnelFields DEF Fresh, Typed
  <2>4. Fresh(w)
    BY <2>3 DEF Fields, Fresh, Typed, Still
  <2>5. Asked(w, "http_in")
    <3>1. w.pending = SubSeq(stream, 3, w.taken) /\ w.told = <<>>
      BY <1>2, <2>3 DEF Fields
    <3>2. Payload(w)
      BY <3>1 DEF Payload, Local
    <3>3. QED
      BY <3>1, <3>2 DEF Asked
  <2>6. QED
    BY <1>3, <2>1, <2>4, <2>5, SelectOutboundPhase
<1>4. QED
  <2>1. \A reply : [[x EXCEPT !.state = "http_in_response"] EXCEPT !.reply = reply]
                      = Replying(x, "http_in_response", reply)
    BY DEF Replying
  <2>2. [x EXCEPT !.command = "connect", !.pending = SubSeq(stream, 3, x.taken)]
            = ForTunnel(x, rest)
    BY <1>2 DEF ForTunnel
  <2>3. QED
    BY <1>1, <1>3, <2>1, <2>2 DEF HttpParsed

LEMMA HttpRequestPhase ==
    ASSUME stream \in Streams, NEW x, Opening(x), x.state = "http_in_request",
           NEW y \in HttpRequest(x)
    PROVE  Phased(y)
<1>1. PICK z : z = ReadUpTo(x, 2)
  OBVIOUS
<1>2. Opening(z)
  BY <1>1, ReadOpening
<1>3. CASE y \in Starved(z)
  BY <1>2, <1>3, StarvedPhase
<1>4. Typed(x) /\ x.arrived \in Nat
  BY ContextTypes DEF Opening, Fresh, Typed
<1>5. ASSUME NEW n \in 2 .. x.arrived, y \in HttpParsed(WithTaken(x, n)) PROVE Phased(y)
  <2>1. PICK w : w = WithTaken(x, n)
    OBVIOUS
  <2>2. n \in Nat /\ n <= x.arrived /\ n >= 2
    BY <1>4
  <2>3. Fields(w, x.state, x.arrived, n, x.command, x.outbound, x.pending,
               x.resolver, x.resume, x.peer, x.timer, x.reply, x.told, x.dialled)
    BY <1>4, <2>1, <2>2, WithTakenFields DEF Typed
  <2>4. Fresh(w)
    BY <1>4, <2>2, <2>3 DEF Fields, Opening, Fresh, Typed, Still
  <2>5. w.pending = <<>> /\ Local("http") /\ w.told = <<>> /\ w.taken >= 2
    BY <2>2, <2>3 DEF Fields, Opening
  <2>6. QED
    BY <1>5, <2>1, <2>4, <2>5, HttpParsedPhase
<1>6. QED
  BY <1>1, <1>3, <1>5 DEF HttpRequest, WithTaken

\* process_inbound_classify
LEMMA ClassifyPhase ==
    ASSUME stream \in Streams, NEW x, Opening(x), x.state = "inbound_classify",
           NEW y \in Classify(x)
    PROVE  Phased(y)
<1>1. PICK z : z = ReadUpTo(x, 1)
  OBVIOUS
<1>2. Opening(z) /\ z.state = "inbound_classify"
  BY <1>1, ReadOpening
<1>3. Fresh(z) /\ z.pending = <<>> /\ ~conf.trojan /\ z.told = <<>>
  BY <1>2 DEF Opening
<1>4. CASE y \in Starved(z)
  BY <1>2, <1>4, StarvedPhase
<1>5. CASE y = Finalize(z)
  BY <1>2, <1>5, OpeningEnds
<1>6. ASSUME NEW state \in {"socks5_in_greeting", "http_in_request"},
             stream[1] = IF state = "http_in_request" THEN "http" ELSE "version"
      PROVE  Opening(Into(z, state)) /\ Into(z, state).state = state
  <2>1. PICK w : w = Into(z, state)
    OBVIOUS
  <2>2. Fields(w, state, z.arrived, z.taken, z.command, z.outbound, z.pending,
               z.resolver, z.resume, z.peer, z.timer, z.reply, z.told, z.dialled)
    BY <1>3, <2>1, IntoFields DEF Fresh, Typed, States
  <2>3. Fresh(w) /\ w.pending = <<>> /\ w.state = state /\ w.told = <<>>
    BY <1>3, <2>2 DEF Fields, Fresh, Typed, Still
  <2>4. Opening(w)
    BY <1>3, <1>6, <2>3 DEF Opening, Local
  <2>5. QED
    BY <2>1, <2>3, <2>4
<1>7. CASE stream[1] = "version" /\ y \in Socks5Greeting(Into(z, "socks5_in_greeting"))
  BY <1>6, <1>7, Socks5GreetingPhase
<1>8. CASE stream[1] = "http" /\ y \in HttpRequest(Into(z, "http_in_request"))
  BY <1>6, <1>8, HttpRequestPhase
<1>9. QED
  BY <1>1, <1>4, <1>5, <1>7, <1>8 DEF Classify, Into

-----------------------------------------------------------------------------
(* The actions. *)

\* The state says which phase a context is in.
LEMMA PhaseOfState ==
    ASSUME NEW x, Phased(x)
    PROVE  /\ x.state \in {"new", "prefix", "request", "inbound_classify",
                           "socks5_in_greeting", "socks5_in_request", "http_in_request"}
                  => Opening(x)
           /\ x.state = "default_fallback" => Falling(x)
           /\ x.state \in {"socks5_in_response", "http_in_response"} => Answering(x)
           /\ x.state \in {"connecting"} \cup Handshaking => Linking(x)
           /\ x.state \in Served => Serving(x)
           /\ x.resolver = "route" => Routing(x)
           /\ x.resolver = "tcp" => Locating(x)
  BY Zenon DEF Phased, Opening, Falling, Answering, Routing, Locating, Linking, Serving,
         Ended, Fresh, Still, Served, Handshaking

\* Whatever the phase, the outcome so far is a fair one.
LEMMA PhasedOutcome ==
    ASSUME NEW x, Phased(x)
    PROVE  Typed(x) /\ Outcome(x)
<1>1. CASE Opening(x)
  BY <1>1 DEF Opening, Fresh, Outcome, Told
<1>2. CASE Falling(x)
  BY <1>2 DEF Falling, Fresh, Outcome, Told
<1>3. CASE Answering(x)
  BY <1>3 DEF Answering, Fresh, Outcome, Told, MethodReply
<1>4. CASE Routing(x)
  BY <1>4 DEF Routing, Asked, Outcome, Told
<1>5. CASE Locating(x)
  BY <1>5, GrantedTold DEF Locating, Outcome
<1>6. CASE Linking(x)
  BY <1>6 DEF Linking, Outcome
<1>7. CASE Serving(x)
  BY <1>7, GrantedTold DEF Serving, Outcome
<1>8. CASE Ended(x)
  BY <1>8 DEF Ended
<1>9. QED
  BY <1>1, <1>2, <1>3, <1>4, <1>5, <1>6, <1>7, <1>8 DEF Phased

\* No phase depends on what the client has sent beyond what is read.
LEMMA ClientPhase ==
    ASSUME NEW x, Phased(x), NEW y, Typed(y), NEW arrived,
           Fields(y, x.state, arrived, x.taken, x.command, x.outbound, x.pending,
                  x.resolver, x.resume, x.peer, x.timer, x.reply, x.told, x.dialled)
    PROVE  Phased(y)
<1>1. /\ y.state = x.state /\ y.taken = x.taken /\ y.command = x.command
      /\ y.outbound = x.outbound /\ y.pending = x.pending /\ y.resolver = x.resolver
      /\ y.resume = x.resume /\ y.peer = x.peer /\ y.timer = x.timer
      /\ y.reply = x.reply /\ y.told = x.told /\ y.dialled = x.dialled
  BY DEF Fields
<1>2. Alike(x, y)
  BY <1>1 DEF Alike
<1>3. /\ Fresh(x) => Fresh(y)
      /\ Still(x) => Still(y)
      /\ MethodReply(x) => MethodReply(y)
  BY <1>1 DEF Fresh, Still, MethodReply
<1>4. FinalReply(x) => FinalReply(y)
  BY <1>1, <1>2, AlikeKeeps DEF FinalReply
<1>5. /\ Granted(x) => Granted(y)
      /\ Asked(x, x.resume) => Asked(y, y.resume)
      /\ Dialled(x) => Dialled(y)
      /\ Outcome(x) => Outcome(y)
  BY <1>1, <1>2, AlikeKeeps, DialledKept
<1>6. CASE Opening(x)
  BY <1>1, <1>3, <1>6 DEF Opening, Phased
<1>7. CASE Falling(x)
  BY <1>1, <1>3, <1>7 DEF Falling, Phased
<1>8. CASE Answering(x)
  BY <1>1, <1>3, <1>4, <1>8 DEF Answering, Phased
<1>9. CASE Routing(x)
  BY <1>1, <1>5, <1>9 DEF Routing, Phased
<1>10. CASE Locating(x)
  BY <1>1, <1>5, <1>10 DEF Locating, Phased
<1>11. CASE Linking(x)
  BY <1>1, <1>5, <1>11 DEF Linking, Phased
<1>12. CASE Serving(x)
  BY <1>1, <1>3, <1>5, <1>12 DEF Serving, Phased
<1>13. CASE Ended(x)
  BY <1>1, <1>3, <1>5, <1>13 DEF Ended, Phased
<1>14. QED
  BY <1>6, <1>7, <1>8, <1>9, <1>10, <1>11, <1>12, <1>13 DEF Phased

LEMMA InitInv == Init => SessionInv
<1> SUFFICES ASSUME Init PROVE SessionInv
  OBVIOUS
<1>1. conf \in Configs /\ stream \in Streams /\ s = NewContext
  BY DEF Init
<1>2. s \in Context
  <2>1. <<>> \in Seq(Unit) /\ <<>> \in Seq(Replies)
        /\ <<>> \in Seq({"fallback", "target", "server"})
    BY EmptySeq
  <2>2. Direct \in Outbound /\ "connect" \in Commands /\ 0 \in Nat
    BY DEF Direct, Outbound, Commands
  <2>3. "new" \in States /\ "greeting_write" \in Steps
    BY DEF States, Steps
  <2>4. QED
    BY <1>1, <2>1, <2>2, <2>3, Zenon DEF NewContext, Context
<1>3. /\ s.state = "new" /\ s.arrived = 0 /\ s.taken = 0 /\ s.resolver = "none"
      /\ s.timer = FALSE /\ s.peer = "none" /\ s.dialled = <<>> /\ s.pending = <<>>
      /\ s.told = <<>>
  BY <1>1 DEF NewContext
<1>4. Typed(s)
  BY <1>1, <1>2, <1>3, StreamType DEF Typed
<1>5. Opening(s)
  BY <1>3, <1>4 DEF Opening, Fresh, Still
<1>6. QED
  BY <1>1, <1>5 DEF SessionInv, Phased

\* A step to a context in phase.
LEMMA Carried ==
    ASSUME conf \in Configs, stream \in Streams, UNCHANGED <<conf, stream>>,
           NEW y, Phased(y), s' = y
    PROVE  SessionInv'
<1>1. conf' = conf /\ stream' = stream
  OBVIOUS
<1>2. (Still(y) => Still(s)') /\ (Typed(y) => Typed(s)') /\ (Fresh(y) => Fresh(s)')
  BY <1>1 DEF Still, Typed, Fresh
<1>3. (Payload(y) => Payload(s)') /\ (RequestBlocked(s)' => RequestBlocked(y))
  BY <1>1 DEF Payload, RequestBlocked
<1>4. Granted(y) => Granted(s)'
  BY <1>1, <1>3 DEF Granted, TrojanKey
<1>5. Foreign(y) => Foreign(s)'
  BY <1>1 DEF Foreign
<1>6. Dialled(y) => Dialled(s)'
  BY <1>1, <1>4, <1>5 DEF Dialled
<1>7. Told(y) => Told(s)'
  BY Zenon DEF Told
<1>8. Outcome(y) => Outcome(s)'
  BY <1>6, <1>7 DEF Outcome
<1>9. Asked(y, y.resume) => Asked(s, s.resume)'
  BY <1>1, <1>3 DEF Asked, Local, TrojanKey
<1>10. (MethodReply(y) => MethodReply(s)') /\ (FinalReply(y) => FinalReply(s)')
  BY <1>1, <1>3 DEF MethodReply, FinalReply, Local
<1>11. ASSUME Opening(y) PROVE Phased(s)'
  BY <1>1, <1>2, <1>11 DEF Opening, Phased, Local, TrojanKey
<1>12. ASSUME Falling(y) PROVE Phased(s)'
  BY <1>2, <1>12 DEF Falling, Phased
<1>13. ASSUME Answering(y) PROVE Phased(s)'
  BY <1>2, <1>10, <1>13 DEF Answering, Phased
<1>14. ASSUME Routing(y) PROVE Phased(s)'
  BY <1>2, <1>9, <1>14 DEF Routing, Phased
<1>15. ASSUME Locating(y) PROVE Phased(s)'
  BY <1>2, <1>4, <1>15 DEF Locating, Phased
<1>16. ASSUME Linking(y) PROVE Phased(s)'
  BY <1>2, <1>6, <1>16 DEF Linking, Phased
<1>17. ASSUME Serving(y) PROVE Phased(s)'
  BY <1>2, <1>4, <1>6, <1>17 DEF Serving, Phased
<1>18. ASSUME Ended(y) PROVE Phased(s)'
  BY <1>2, <1>8, <1>18 DEF Ended, Phased
<1>19. Phased(s)'
  BY <1>11, <1>12, <1>13, <1>14, <1>15, <1>16, <1>17, <1>18 DEF Phased
<1>20. QED
  BY <1>1, <1>19 DEF SessionInv

LEMMA NextInv == SessionInv /\ [Next]_vars => SessionInv'
<1> SUFFICES ASSUME SessionInv, [Next]_vars PROVE SessionInv'
  OBVIOUS
<1>1. conf \in Configs /\ stream \in Streams /\ Phased(s)
  BY DEF SessionInv
<1>2. Typed(s) /\ Outcome(s) /\ Phased(Finalize(s))
  BY <1>1, PhasedOutcome, FinalizePhase
<1>3. ASSUME NEW y, Phased(y), s' = y, UNCHANGED <<conf, stream>> PROVE SessionInv'
  BY <1>1, <1>3, Carried
<1>4. CASE Accept
  <2>1. Opening(s) /\ s.told = <<>>
    BY <1>1, <1>4, PhaseOfState DEF Accept, Opening
  <2>2. ASSUME NEW state \in {"prefix", "inbound_classify"},
               conf.trojan <=> state = "prefix"
        PROVE  Opening(Into(s, state)) /\ Into(s, state).state = state
    <3>1. PICK w : w = Into(s, state)
      OBVIOUS
    <3>2. Fields(w, state, s.arrived, s.taken, s.command, s.outbound, s.pending,
                 s.resolver, s.resume, s.peer, s.timer, s.reply, s.told, s.dialled)
      BY <1>2, <3>1, IntoFields DEF Typed, States
    <3>3. Fresh(w) /\ w.pending = <<>> /\ w.state = state /\ w.told = <<>>
      BY <2>1, <3>2 DEF Fields, Opening, Fresh, Typed, Still
    <3>4. Opening(w)
      BY <2>2, <3>3 DEF Opening
    <3>5. QED
      BY <3>1, <3>3, <3>4
  <2>3. CASE conf.trojan
    <3>1. PICK y \in ProcessPrefix(Into(s, "prefix")) :
              s' = y /\ UNCHANGED <<conf, stream>>
      BY <1>4, <2>3 DEF Accept, Step, Into
    <3>2. Phased(y)
      BY <1>1, <2>2, <2>3, <3>1, ProcessPrefixPhase
    <3>3. QED
      BY <1>3, <3>1, <3>2
  <2>4. CASE ~conf.trojan
    <3>1. PICK y \in Classify(Into(s, "inbound_classify")) :
              s' = y /\ UNCHANGED <<conf, stream>>
      BY <1>4, <2>4 DEF Accept, Step, Into
    <3>2. Phased(y)
      BY <1>1, <2>2, <2>4, <3>1, ClassifyPhase
    <3>3. QED
      BY <1>3, <3>1, <3>2
  <2>5. QED
    BY <2>3, <2>4
<1>5. CASE ClientEvent
  <2>1. /\ s.state \in {"prefix", "request", "inbound_classify", "socks5_in_greeting",
                        "socks5_in_request", "http_in_request"} => Opening(s)
        /\ s.state = "default_fallback" => Falling(s)
        /\ s.state \in {"socks5_in_response", "http_in_response"} => Answering(s)
    BY <1>1, PhaseOfState
  <2>2. CASE s.state = "prefix"
    <3>1. PICK y \in ProcessPrefix(s) : s' = y /\ UNCHANGED <<conf, stream>>
      BY <1>5, <2>2 DEF ClientEvent, Step
    <3>2. QED
      BY <1>1, <1>3, <2>1, <2>2, <3>1, ProcessPrefixPhase
  <2>3. CASE s.state = "request"
    <3>1. PICK y \in ProcessRequest(s) : s' = y /\ UNCHANGED <<conf, stream>>
      BY <1>5, <2>3 DEF ClientEvent, Step
    <3>2. QED
      BY <1>3, <2>1, <2>3, <3>1, ProcessRequestPhase
  <2>4. CASE s.state = "default_fallback"
    <3>1. PICK y \in DefaultFallback(s) : s' = y /\ UNCHANGED <<conf, stream>>
      BY <1>5, <2>4 DEF ClientEvent, Step
    <3>2. QED
      BY <1>3, <2>1, <2>4, <3>1, DefaultFallbackPhase
  <2>5. CASE s.state = "inbound_classify"
    <3>1. PICK y \in Classify(s) : s' = y /\ UNCHANGED <<conf, stream>>
      BY <1>5, <2>5 DEF ClientEvent, Step
    <3>2. QED
      BY <1>1, <1>3, <2>1, <2>5, <3>1, ClassifyPhase
  <2>6. CASE s.state = "socks5_in_greeting"
    <3>1. PICK y \in Socks5Greeting(s) : s' = y /\ UNCHANGED <<conf, stream>>
      BY <1>5, <2>6 DEF ClientEvent, Step
    <3>2. QED
      BY <1>3, <2>1, <2>6, <3>1, Socks5GreetingPhase
  <2>7. CASE s.state = "socks5_in_request"
    <3>1. PICK y \in Socks5Request(s) : s' = y /\ UNCHANGED <<conf, stream>>
      BY <1>5, <2>7 DEF ClientEvent, Step
    <3>2. QED
      BY <1>3, <2>1, <2>7, <3>1, Socks5RequestPhase
  <2>8. CASE s.state = "socks5_in_response"
    <3>1. PICK y \in Socks5Response(s) : s' = y /\ UNCHANGED <<conf, stream>>
      BY <1>5, <2>8 DEF ClientEvent, Step
    <3>2. QED
      BY <1>3, <2>1, <2>8, <3>1, Socks5ResponsePhase
  <2>9. CASE s.state = "http_in_request"
    <3>1. PICK y \in HttpRequest(s) : s' = y /\ UNCHANGED <<conf, stream>>
      BY <1>5, <2>9 DEF ClientEvent, Step
    <3>2. QED
      BY <1>1, <1>3, <2>1, <2>9, <3>1, HttpRequestPhase
  <2>10. CASE s.state = "http_in_response"
    <3>1. PICK y \in HttpReply(s) : s' = y /\ UNCHANGED <<conf, stream>>
      BY <1>5, <2>10 DEF ClientEvent, Step
    <3>2. Fresh(s) /\ FinalReply(s) /\ s.told = <<>>
      BY <2>1, <2>10 DEF Answering
    <3>3. QED
      BY <1>3, <2>10, <3>1, <3>2, HttpReplyPhase
  <2>11. QED
    BY <1>5, <2>2, <2>3, <2>4, <2>5, <2>6, <2>7, <2>8, <2>9, <2>10 DEF ClientEvent
<1>6. CASE PeerConnected
  <2>1. PICK z : z = WithTimer(s, FALSE)
    OBVIOUS
  <2>2. PICK y \in {Finalize(z)} \cup InitProxy(z) : s' = y /\ UNCHANGED <<conf, stream>>
    BY <1>6, <2>1 DEF PeerConnected, Step, WithTimer
  <2>3. Linking(s)
    BY <1>1, <1>6, PhaseOfState DEF PeerConnected
  <2>4. Fields(z, s.state, s.arrived, s.taken, s.command, s.outbound, s.pending,
               s.resolver, s.resume, s.peer, FALSE, s.reply, s.told, s.dialled)
    BY <1>2, <2>1, WithTimerFields DEF Typed
  <2>5. Typed(z) /\ Still(z) /\ z.peer = s.peer /\ z.dialled = s.dialled
    BY <2>3, <2>4 DEF Fields, Linking, Typed, Still
  <2>6. Dialled(z)
    BY <2>3, <2>4, <2>5, FieldsAlike, DialledKept DEF Linking
  <2>7. Phased(y)
    BY <2>2, <2>5, <2>6, FinalizePhase, InitProxyPhase DEF Outcome
  <2>8. QED
    BY <1>3, <2>2, <2>7
<1>7. CASE Socks5Event
  <2>1. PICK z : z = Established(s)
    OBVIOUS
  <2>2. PICK y \in {Finalize(s)} \cup ProcessSocks5(z) : s' = y /\ UNCHANGED <<conf, stream>>
    BY <1>7, <2>1 DEF Socks5Event, Step, Established
  <2>3. Linking(s) /\ s.state \in Handshaking
    BY <1>1, <1>7, PhaseOfState DEF Socks5Event
  <2>4. Fields(z, s.state, s.arrived, s.taken, s.command, s.outbound, s.pending,
               s.resolver, s.resume, s.peer, s.timer, s.reply, s.told, s.dialled)
    BY <1>2, <2>1, EstablishedFields DEF Typed
  <2>5. /\ Typed(z) /\ z.timer = TRUE /\ z.resolver = "none" /\ z.state = s.state
        /\ z.peer = s.peer /\ z.dialled = s.dialled
    BY <2>3, <2>4 DEF Fields, Linking, Typed
  <2>6. Dialled(z) /\ z.peer # "fallback"
    BY <2>3, <2>4, <2>5, FieldsAlike, DialledKept DEF Linking, Handshaking
  <2>7. Phased(y)
    BY <1>2, <2>2, <2>3, <2>5, <2>6, ProcessSocks5Phase
  <2>8. QED
    BY <1>3, <2>2, <2>7
<1>8. CASE PeerTimeout \/ ServiceEnds
  <2>1. PICK y \in {Finalize(s)} : s' = y /\ UNCHANGED <<conf, stream>>
    BY <1>8 DEF PeerTimeout, ServiceEnds, Step
  <2>2. QED
    BY <1>2, <1>3, <2>1
<1>9. CASE ResolverAnswer
  <2>1. CASE s.resolver = "route" /\ Step(RouteAnswer(s))
    <3>1. PICK y \in RouteAnswer(s) : s' = y /\ UNCHANGED <<conf, stream>>
      BY <2>1 DEF Step
    <3>2. Routing(s)
      BY <1>1, <2>1, PhaseOfState
    <3>3. QED
      BY <1>3, <3>1, <3>2, RouteAnswerPhase
  <2>2. CASE s.resolver = "tcp" /\ Step(TcpAnswer(s))
    <3>1. PICK y \in TcpAnswer(s) : s' = y /\ UNCHANGED <<conf, stream>>
      BY <2>2 DEF Step
    <3>2. Locating(s)
      BY <1>1, <2>2, PhaseOfState
    <3>3. QED
      BY <1>3, <3>1, <3>2, TcpAnswerPhase DEF Locating
  <2>3. QED
    BY <1>9, <2>1, <2>2 DEF ResolverAnswer
<1>10. CASE Arrive
  <2>1. PICK arrived : arrived = s.arrived + 1
    OBVIOUS
  <2>2. PICK y : y = WithArrived(s, arrived)
    OBVIOUS
  <2>3. s' = y /\ UNCHANGED <<conf, stream>> /\ s.arrived < Len(stream)
    BY <1>10, <2>1, <2>2 DEF Arrive, Step, WithArrived
  <2>4. s.arrived \in Nat /\ s.taken \in Nat /\ s.taken <= s.arrived /\ Len(stream) \in Nat
    BY <1>1, <1>2, ContextTypes, StreamType DEF Typed
  <2>5. arrived \in Nat /\ s.taken <= arrived /\ arrived <= Len(stream)
    BY <2>1, <2>3, <2>4
  <2>6. Fields(y, s.state, arrived, s.taken, s.command, s.outbound, s.pending,
               s.resolver, s.resume, s.peer, s.timer, s.reply, s.told, s.dialled)
    BY <1>2, <2>2, <2>5, WithArrivedFields DEF Typed
  <2>7. Typed(y)
    BY <2>5, <2>6 DEF Fields, Typed
  <2>8. QED
    BY <1>1, <1>3, <2>3, <2>6, <2>7, ClientPhase
<1>11. CASE CloseClient
  <2>1. PICK y : y = WithFin(s)
    OBVIOUS
  <2>2. s' = y /\ UNCHANGED <<conf, stream>>
    BY <1>11, <2>1 DEF CloseClient, Step, WithFin
  <2>3. Fields(y, s.state, s.arrived, s.taken, s.command, s.outbound, s.pending,
               s.resolver, s.resume, s.peer, s.timer, s.reply, s.told, s.dialled)
    BY <1>2, <2>1, WithFinFields DEF Typed
  <2>4. Typed(y)
    BY <1>2, <2>3 DEF Fields, Typed
  <2>5. QED
    BY <1>1, <1>3, <2>2, <2>3, <2>4, ClientPhase
<1>12. CASE UNCHANGED vars
  <2>1. PICK y : y = s
    OBVIOUS
  <2>2. s' = y /\ UNCHANGED <<conf, stream>> /\ Phased(y)
    BY <1>1, <1>12, <2>1 DEF vars
  <2>3. QED
    BY <1>3, <2>2
<1>13. QED
  BY <1>4, <1>5, <1>6, <1>7, <1>8, <1>9, <1>10, <1>11, <1>12 DEF Next

\* Every session is in one of the phases, with what that phase says of it.
THEOREM SessionInvHolds == Spec => []SessionInv
  BY InitInv, NextInv, PTL DEF Spec

-----------------------------------------------------------------------------
(* What follows. *)

\* The context of a session stays well typed, and no more is read than has arrived.
THEOREM TypeCorrect == Spec => []TypeOK
<1>1. SessionInv => TypeOK
  BY PhasedOutcome DEF SessionInv, TypeOK, Typed
<1>2. QED
  BY <1>1, SessionInvHolds, PTL

\* A resolver request is outstanding exactly in the resolving state.
THEOREM ResolvingCorrect == Spec => []RequestWhileResolving
<1>1. SessionInv => RequestWhileResolving
  <2> SUFFICES ASSUME Phased(s) PROVE RequestWhileResolving
    BY DEF SessionInv
  <2>1. CASE Routing(s) \/ Locating(s)
    BY <2>1 DEF Routing, Locating, RequestWhileResolving
  <2>2. CASE ~(Routing(s) \/ Locating(s))
    BY <2>2 DEF Phased, Opening, Falling, Answering, Linking, Serving, Ended, Fresh, Still,
           Served, Handshaking, RequestWhileResolving
  <2>3. QED
    BY <2>1, <2>2
<1>2. QED
  BY <1>1, SessionInvHolds, PTL

\* The connect timer runs exactly while a connection or handshake is waited for.
THEOREM TimerCorrect == Spec => []TimerWhileConnecting
<1>1. SessionInv => TimerWhileConnecting
  <2> SUFFICES ASSUME Phased(s) PROVE TimerWhileConnecting
    BY DEF SessionInv
  <2>1. CASE Linking(s)
    BY <2>1 DEF Linking, TimerWhileConnecting
  <2>2. CASE ~Linking(s)
    <3>1. s.timer = FALSE
      BY <2>2 DEF Phased, Opening, Falling, Answering, Routing, Locating, Serving, Ended,
             Fresh, Still
    <3>2. s.state \notin {"connecting"} \cup Handshaking
      BY <2>2, PhaseOfState
    <3>3. QED
      BY <3>1, <3>2 DEF TimerWhileConnecting
  <2>3. QED
    BY <2>1, <2>2
<1>2. QED
  BY <1>1, SessionInvHolds, PTL

\* A relay starts with what was read beyond the handshake, no more and no less.
THEOREM PayloadKept == Spec => []NoPayloadLost
<1>1. SessionInv => NoPayloadLost
  <2> SUFFICES ASSUME Phased(s), s.state = "proxy" PROVE NoPayloadLost
    BY DEF SessionInv, NoPayloadLost
  <2>1. Dialled(s)
    BY PhaseOfState DEF Serving, Served
  <2>2. QED
    BY <2>1 DEF Dialled, Foreign, Granted, Payload, NoPayloadLost, PayloadStart
<1>2. QED
  BY <1>1, SessionInvHolds, PTL

\* What is told to a client ends with one final answer; a refusal ends the session.
THEOREM AnswersCorrect == Spec => []OneFinalAnswer
<1>1. ASSUME Phased(s), s.dialled = <<>>, s.state = "closed", NEW reply \in Replies \ {"method"},
             s.told \in {<<reply>>, Append(<<"method">>, reply)}
      PROVE  OneFinalAnswer
  <2>1. CASE s.told = <<reply>>
    BY <1>1, <2>1 DEF OneFinalAnswer
  <2>2. CASE s.told = Append(<<"method">>, reply)
    <3>1. <<"method">> \in Seq(Replies) /\ Len(<<"method">>) = 1 /\ <<"method">>[1] = "method"
      BY DEF Replies
    <3>2. Len(s.told) = 2 /\ s.told[1] = "method" /\ s.told[2] = reply
      BY <2>2, <3>1, AppendProperties
    <3>3. QED
      BY <1>1, <3>2 DEF OneFinalAnswer
  <2>3. QED
    BY <1>1, <2>1, <2>2
<1>2. ASSUME Phased(s), s.told \in {<<>>, <<"method">>} PROVE OneFinalAnswer
  BY <1>2 DEF OneFinalAnswer
<1>3. ASSUME Phased(s), Granted(s) PROVE OneFinalAnswer
  <2>1. CASE s.told = <<>>
    BY <1>2, <1>3, <2>1
  <2>2. CASE s.told = <<"ok">>
    BY <2>2 DEF OneFinalAnswer
  <2>3. CASE s.told = Append(<<"method">>, "ok")
    <3>1. /\ <<"method">> \in Seq(Replies) /\ "ok" \in Replies
          /\ Len(<<"method">>) = 1 /\ <<"method">>[1] = "method"
      BY DEF Replies
    <3>2. Len(s.told) = 2 /\ s.told[1] = "method" /\ s.told[2] = "ok"
      BY <2>3, <3>1, AppendProperties
    <3>3. QED
      BY <3>2 DEF OneFinalAnswer
  <2>4. QED
    BY <1>3, <2>1, <2>2, <2>3 DEF Granted
<1>4. SessionInv => OneFinalAnswer
  <2> SUFFICES ASSUME Phased(s) PROVE OneFinalAnswer
    BY DEF SessionInv
  <2>1. CASE Opening(s) \/ Falling(s) \/ Answering(s) \/ Routing(s)
    <3>1. s.told \in {<<>>, <<"method">>}
      BY <2>1 DEF Opening, Falling, Answering, MethodReply, Routing, Asked
    <3>2. QED
      BY <1>2, <3>1
  <2>2. ASSUME Dialled(s) PROVE OneFinalAnswer
    BY <1>2, <1>3, <2>2 DEF Dialled, Foreign
  <2>3. CASE Locating(s) \/ Linking(s) \/ Serving(s)
    BY <1>3, <2>2, <2>3 DEF Locating, Linking, Serving
  <2>4. CASE Ended(s)
    <3>1. CASE s.dialled = <<>> /\ Told(s)
      <4>1. CASE s.told \in {<<>>, <<"method">>}
        BY <1>2, <4>1
      <4>2. CASE \E reply \in Replies \ {"method"} :
                     s.told \in {<<reply>>, Append(<<"method">>, reply)}
        BY <1>1, <2>4, <3>1, <4>2 DEF Ended
      <4>3. QED
        BY <3>1, <4>1, <4>2 DEF Told
    <3>2. QED
      BY <2>2, <2>4, <3>1 DEF Ended, Outcome
  <2>5. QED
    BY <2>1, <2>3, <2>4 DEF Phased
<1>5. QED
  BY <1>4, SessionInvHolds, PTL

\* At most one connection is opened, and only for a request that may have it.
THEOREM DialsCorrect == Spec => []DialsOnlyAdmitted
<1>1. ASSUME stream \in Streams, Typed(s), Granted(s) PROVE Admitted
  <2>1. CASE conf.trojan
    <3>1. stream \in Seq(Unit) /\ Len(stream) >= 2 /\ stream[1] = "key" /\ stream[2] = "crlf"
      BY <1>1, <2>1, StreamType DEF Granted, TrojanKey
    <3>2. PICK opening : opening = SubSeq(stream, 1, 2)
      OBVIOUS
    <3>3. \A i \in 1 .. 2 : stream[i] \in Unit
      BY <3>1, StreamType, ElementOfSeq, <1>1
    <3>4. /\ opening \in Seq(Unit) /\ Len(opening) = 2
          /\ opening[1] = "key" /\ opening[2] = "crlf"
      BY <3>1, <3>2, <3>3, SubSeqProperties
    <3>5. PICK expected : expected = <<"key", "crlf">>
      OBVIOUS
    <3>6. /\ expected \in Seq(Unit) /\ Len(expected) = 2
          /\ expected[1] = "key" /\ expected[2] = "crlf"
      BY <3>5 DEF Unit
    <3>7. opening = expected
      BY <3>4, <3>6, SeqEqual
    <3>8. QED
      BY <1>1, <2>1, <3>2, <3>5, <3>7 DEF Granted, Admitted
  <2>2. CASE ~conf.trojan
    <3>1. CASE s.told = <<"ok">>
      BY <2>2, <3>1 DEF Admitted
    <3>2. CASE s.told = Append(<<"method">>, "ok")
      <4>1. /\ <<"method">> \in Seq(Replies) /\ "ok" \in Replies
            /\ Len(<<"method">>) = 1
        BY DEF Replies
      <4>2. Len(s.told) = 2 /\ s.told[2] = "ok"
        BY <3>2, <4>1, AppendProperties
      <4>3. QED
        BY <2>2, <4>2 DEF Admitted
    <3>3. QED
      BY <1>1, <2>2, <3>1, <3>2 DEF Granted
  <2>3. QED
    BY <2>1, <2>2
<1>2. SessionInv => DialsOnlyAdmitted
  <2> SUFFICES ASSUME stream \in Streams, Phased(s) PROVE DialsOnlyAdmitted
    BY DEF SessionInv
  <2>1. Typed(s) /\ Outcome(s)
    BY PhasedOutcome
  <2>2. CASE s.dialled = <<>>
    BY <2>2 DEF DialsOnlyAdmitted
  <2>3. CASE s.peer = "fallback" /\ s.dialled = <<"fallback">> /\ Foreign(s)
    <3>1. conf.trojan /\ s.taken # 3
      BY <2>1, <2>3, ContextTypes DEF Foreign, Typed
    <3>2. ~Admitted
      BY <3>1 DEF Admitted
    <3>3. QED
      BY <2>3, <3>1, <3>2 DEF DialsOnlyAdmitted
  <2>4. CASE /\ Granted(s)
             /\ s.dialled = <<IF s.outbound.type = "socks5" THEN "server" ELSE "target">>
    <3>1. Admitted /\ ~RequestBlocked(s)
      BY <1>1, <2>1, <2>4 DEF Granted
    <3>2. QED
      BY <2>4, <3>1 DEF DialsOnlyAdmitted
  <2>5. QED
    BY <2>1, <2>2, <2>3, <2>4 DEF Outcome, Dialled
<1>3. QED
  BY <1>2, SessionInvHolds, PTL
=============================================================================
