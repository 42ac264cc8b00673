------------------------------ MODULE Framing -------------------------------
(***************************************************************************)
(* Reading a byte stream that arrives in pieces.  The module never knows   *)
(* where a message ends before it has read its beginning, keeps what it    *)
(* has read in buffers it uses again, and hands the connection on when the *)
(* handshake is over: nothing of what follows may have been read, or it is *)
(* handed on as well.                                                      *)
(*                                                                         *)
(* Three streams: a Trojan client's, a local client's (SOCKS5 or HTTP) and *)
(* that of an upstream SOCKS5 server.  An action is one recv and all that  *)
(* is done before the next one.  What is sent in between, resolving and    *)
(* connecting are in Session; what becomes of frames is in UdpRoute.       *)
(***************************************************************************)
EXTENDS Wire

CONSTANTS
    Scripts,    \* what a peer may send: records of mode, stream, what is meant, ...
    Sizes,      \* how many bytes a recv may bring (bounds the ways to cut)
    Keys,       \* of the block: sequences of KeyLen bytes
    KeyLen,     \* 56
    Socks5Room, \* NGX_STREAM_MTROJAN_SOCKS5_BUFFER_SIZE
    UdpRoom     \* NGX_STREAM_MTROJAN_UDP_BUFFER_SIZE

Byte == 0 .. 255
Bytes == Seq(Byte)

ASSUME FramingAssumption ==
    /\ \A s \in Scripts : s.mode \in {"trojan", "local", "server"} /\ s.stream \in Bytes
    /\ Sizes \subseteq Nat \ {0}
    /\ KeyLen \in Nat \ {0} /\ Socks5Room \in Nat /\ Socks5Room >= 3 /\ UdpRoom \in Nat

PrefixLen == KeyLen + 2
RequestRoom == 1 + (1 + 1 + 255 + 2) + 2

VARIABLES
    script,     \* does not change
    taken,      \* bytes read of the stream
    r           \* the reader

framingVars == <<script, taken, r>>

\* phase: what is read now, or how it ended.  got: what was read, each with its
\* bytes.  handed: bytes for the relay or the fallback.
Reader(phase) == [phase |-> phase, buf |-> <<>>, got |-> <<>>, handed |-> <<>>]

Start(s) ==
    Reader(CASE s.mode = "trojan" -> "prefix"
             [] s.mode = "local" -> "classify"
             [] s.mode = "server" -> "method_read")

\* A message of n bytes at the front of the buffer; the rest stays.
Item(x, kind, n, addr, command) ==
    [kind |-> kind, wire |-> SubSeq(x.buf, 1, n), addr |-> addr, command |-> command]

-----------------------------------------------------------------------------
(* What one recv asks for, 0 when there is none. *)

Missing(x, verdict, room) ==
    IF verdict.rc = "more" /\ verdict.needed <= room THEN verdict.needed - Len(x.buf) ELSE 0

\* Fault: the greeting is read as far as there is room.
GreetingWantedAll(x) == Socks5Room - Len(x.buf)

GreetingWanted(x) == Missing(x, GreetingLen(x.buf), Socks5Room)

\* Fault: what is in the buffer is forgotten.
UdpWantedAnew(x) == UdpRoom

UdpWanted(x) == UdpRoom - Len(x.buf)

Wanted(x) ==
    CASE x.phase = "classify" -> IF x.buf = <<>> THEN 1 ELSE 3 - Len(x.buf)
      [] x.phase = "greeting" -> GreetingWanted(x)
      [] x.phase = "request" -> Missing(x, RequestLen(x.buf), Socks5Room)
      [] x.phase = "http" -> Socks5Room - Len(x.buf)
      [] x.phase = "prefix" -> PrefixLen - Len(x.buf)
      [] x.phase = "command" -> Missing(x, RequestNeeded(x.buf), RequestRoom)
      [] x.phase = "udp" -> UdpWanted(x)
      [] x.phase \in {"method_read", "auth_read"} -> 2 - Len(x.buf)
      [] x.phase = "response_read" -> Missing(x, ResponseLen(x.buf), Socks5Room)
      [] OTHER -> 0

-----------------------------------------------------------------------------
(* What is done with it. *)

Refuse(x, how) == [x EXCEPT !.phase = how, !.buf = <<>>]

\* The buffer holds the next thing that is sent, and then is empty.
Accept(x, item, phase) ==
    [x EXCEPT !.phase = phase, !.buf = <<>>, !.got = Append(@, item)]

\* More is needed, or the verdict is out; what is too long for the buffer is bad.
Judge(x, verdict, room, done) ==
    CASE verdict.rc = "more" /\ verdict.needed <= room -> x
      [] verdict.rc = "ok" -> done
      [] OTHER -> Refuse(x, "bad")

\* ngx_stream_mtrojan_process_socks5_in
Greeting(x) ==
    LET verdict == GreetingLen(x.buf)
        Done(n) ==
            IF SelectMethod(x.buf) = "noauth"
            THEN Accept(x, Item(x, "greeting", n, Failed.addr, 0), "request")
            ELSE Refuse(x, "nomethod")
    IN  Judge(x, verdict, Socks5Room, Done(verdict.needed))

Request(x) ==
    LET verdict == RequestLen(x.buf)
        address == ParseAddr(From(x.buf, 4))
        Done(n) ==
            IF address.wire_len = 0 THEN Refuse(x, "bad")
            ELSE Accept(x, Item(x, "request", n, address.addr, x.buf[2]), "served")
    IN  Judge(x, verdict, Socks5Room, Done(verdict.needed))

\* ngx_stream_mtrojan_process_http_in, the reading; what follows the head is
\* pending for the relay.
Http(x) ==
    LET head == ParseConnect(x.buf) IN
    CASE head.rc = "more" -> IF Len(x.buf) = Socks5Room THEN Refuse(x, "bad") ELSE x
      [] head.rc = "ok" ->
            [Accept(x, Item(x, "http", head.needed, head.addr, Connect), "served")
                EXCEPT !.handed = From(x.buf, head.needed + 1)]
      [] OTHER -> Refuse(x, head.rc)

\* ngx_stream_mtrojan_process_inbound_classify; TLS is told by three bytes.
ClassifyInbound(x) ==
    LET kind == Classify(x.buf, script.socks5, script.http) IN
    IF x.buf[1] = 22 /\ Len(x.buf) < 3 THEN x
    ELSE CASE kind = "socks5" -> Greeting([x EXCEPT !.phase = "greeting"])
           [] kind = "http" -> Http([x EXCEPT !.phase = "http"])
           [] OTHER -> Refuse(x, "closed")

\* Fault: the place in the piece is taken for the place in the prefix.
LineOfPiece(x, n) ==
    \E i \in 1 .. n : x.buf[Len(x.buf) - n + i] = LF /\ i < KeyLen + 2

\* A line feed among the n new bytes, before the place where it belongs.
LineEnds(x, n) ==
    \E i \in Len(x.buf) - n + 1 .. Len(x.buf) : x.buf[i] = LF /\ i < KeyLen + 2

\* ngx_stream_mtrojan_process_prefix; the fallback is sent what was read.
Prefix(x, n) ==
    LET fallback == [x EXCEPT !.phase = "fallback", !.buf = <<>>, !.handed = x.buf] IN
    CASE LineEnds(x, n) -> fallback
      [] ~LineEnds(x, n) /\ Len(x.buf) < PrefixLen -> x
      [] OTHER ->
            IF From(x.buf, KeyLen + 1) = <<CR, LF>> /\ SubSeq(x.buf, 1, KeyLen) \in Keys
            THEN Accept(x, Item(x, "prefix", PrefixLen, Failed.addr, 0), "command")
            ELSE fallback

\* ngx_stream_mtrojan_process_request
Command(x) ==
    LET verdict == RequestNeeded(x.buf)
        Done(n) ==
            LET address == ParseAddr(SubSeq(x.buf, 2, n - 2))
                item == Item(x, "command", n, address.addr, x.buf[1])
            IN  IF SubSeq(x.buf, n - 1, n) # <<CR, LF>> \/ address.wire_len = 0
                THEN Refuse(x, "bad")
                ELSE Accept(x, item, IF x.buf[1] = Connect THEN "served" ELSE "udp")
    IN  Judge(x, verdict, RequestRoom, Done(verdict.needed))

FrameItem(b, frame) ==
    [kind |-> "frame", wire |-> SubSeq(b, 1, frame.wire_len), addr |-> frame.addr,
     payload |-> frame.payload]

\* All the frames there are, and what is left.
Frames(b) ==
    LET FramesAt[i \in 1 .. Len(b) + 1] ==
            LET rest == From(b, i)
                frame == ParseUdpFrame(rest)
                later == FramesAt[i + frame.wire_len]
            IN  IF frame.wire_len = 0 THEN [items |-> <<>>, left |-> rest]
                ELSE [items |-> <<FrameItem(rest, frame)>> \o later.items, left |-> later.left]
    IN  FramesAt[1]

\* ngx_stream_mtrojan_process_udp_client
Udp(x) ==
    LET frames == Frames(x.buf)
        y == [x EXCEPT !.got = @ \o frames.items, !.buf = frames.left]
    IN  IF Len(y.buf) = UdpRoom THEN Refuse(y, "bad") ELSE y

\* ngx_stream_mtrojan_process_socks5, the reading.
Method(x) ==
    LET method == ParseMethodResponse(x.buf, script.userpass)
        item == Item(x, "method", 2, Failed.addr, 0)
    IN  CASE Len(x.buf) < 2 -> x
          [] Len(x.buf) = 2 /\ method = "noauth" -> Accept(x, item, "response_read")
          [] Len(x.buf) = 2 /\ method = "userpass" -> Accept(x, item, "auth_read")
          [] OTHER -> Refuse(x, "bad")

Auth(x) ==
    CASE Len(x.buf) < 2 -> x
      [] Len(x.buf) = 2 /\ ParseAuthResponse(x.buf) = "ok" ->
            Accept(x, Item(x, "auth", 2, Failed.addr, 0), "response_read")
      [] OTHER -> Refuse(x, "bad")

Response(x) ==
    LET verdict == ResponseLen(x.buf)
        Done(n) ==
            LET address == ParseResponse(x.buf) IN
            IF address.wire_len = 0 THEN Refuse(x, "bad")
            ELSE Accept(x, Item(x, "response", n, address.addr, 0), "served")
    IN  Judge(x, verdict, Socks5Room, Done(verdict.needed))

\* The reader after a recv of some bytes.
Fed(x, bytes) ==
    LET y == [x EXCEPT !.buf = @ \o bytes] IN
    CASE x.phase = "classify" -> ClassifyInbound(y)
      [] x.phase = "greeting" -> Greeting(y)
      [] x.phase = "request" -> Request(y)
      [] x.phase = "http" -> Http(y)
      [] x.phase = "prefix" -> Prefix(y, Len(bytes))
      [] x.phase = "command" -> Command(y)
      [] x.phase = "udp" -> Udp(y)
      [] x.phase = "method_read" -> Method(y)
      [] x.phase = "auth_read" -> Auth(y)
      [] x.phase = "response_read" -> Response(y)

-----------------------------------------------------------------------------
Init ==
    /\ script \in Scripts
    /\ taken = 0
    /\ r = Start(script)

\* How many bytes a recv brings to a reader that has taken some: n or what there is.
Brings(x, from, n) == Min({n, Wanted(x), Len(script.stream) - from})

Recv(n) ==
    LET m == Brings(r, taken, n)
    IN  /\ m > 0
        /\ r' = Fed(r, SubSeq(script.stream, taken + 1, taken + m))
        /\ taken' = taken + m
        /\ UNCHANGED script

\* The peer has sent all it has and closes.
PeerCloses ==
    /\ Wanted(r) > 0 /\ taken = Len(script.stream)
    /\ r' = Refuse(r, "gone")
    /\ UNCHANGED <<script, taken>>

Next == PeerCloses \/ \E n \in Sizes : Recv(n)

Spec == Init /\ [][Next]_framingVars

-----------------------------------------------------------------------------
(* Properties. *)

Phases == {"classify", "greeting", "request", "http", "prefix", "command", "udp",
           "method_read", "auth_read", "response_read"}

Room == [p \in Phases |-> CASE p = "prefix" -> PrefixLen
                            [] p = "command" -> RequestRoom
                            [] p = "udp" -> UdpRoom
                            [] OTHER -> Socks5Room]

Ends == {"served", "fallback", "nomethod", "notallowed", "bad", "closed", "gone"}

\* The reader is well formed, and no buffer is ever overrun.
TypeOK ==
    /\ taken \in 0 .. Len(script.stream)
    /\ r.phase \in Phases \cup Ends
    /\ r.phase \in Phases => Len(r.buf) <= Room[r.phase]
    /\ r.phase \in Ends => r.buf = <<>>

Reading == r.phase \in Phases

\* The bytes of a message whose form leaves no choice.
Written(item) ==
    CASE item.kind = "command" -> <<item.command>> \o PutAddr(item.addr) \o <<CR, LF>>
      [] item.kind = "frame" -> PackUdpFrame(item.addr, item.payload)
      [] item.kind = "request" -> BuildRequest(item.command, item.addr)
      [] item.kind = "response" -> BuildResponse(0, item.addr)
      [] OTHER -> item.wire

\* No byte is lost between two messages, read twice or taken from what comes after
\* the handshake, and each message is read as what would be written for it; a frame
\* also when it goes on as a packet to a SOCKS5 server and comes back as one.
ReadsBackAsWritten ==
    LET Again(item) == ParseUdpPacket(BuildUdpPacket(item.addr, item.payload)) IN
    /\ Reading \/ r.phase \in {"served", "fallback"} =>
           FlattenSeq([i \in DOMAIN r.got |-> r.got[i].wire]) \o r.buf \o r.handed
               = SubSeq(script.stream, 1, taken)
    /\ \A i \in DOMAIN r.got :
        /\ r.got[i].wire = Written(r.got[i])
        /\ r.got[i].kind = "frame" =>
               /\ Again(r.got[i]).addr = r.got[i].addr
               /\ Again(r.got[i]).payload = r.got[i].payload

\* No recv can bring anything any more.
HasAll(x, from) == (Wanted(x) = 0 \/ from = Len(script.stream)) /\ x.phase # "gone"

AllRead == HasAll(r, taken)

-----------------------------------------------------------------------------
(* Peers that keep to the protocol. *)

\* The length of a host of a type.
HostFits(type, n) ==
    \/ type = Ipv4 /\ n = V4Len
    \/ type = Ipv6 /\ n = V6Len
    \/ type = Domain /\ n \in Nat \ {0} /\ n < 256

IsAddress(a) ==
    /\ a = Addr(a.type, a.host, a.port)
    /\ a.host \in Bytes /\ HostFits(a.type, Len(a.host)) /\ a.port \in Nat /\ a.port < 65536

\* What a message means, and what a peer means by one: its bytes are gone.
Msg(kind, addr, command) == [kind |-> kind, addr |-> addr, command |-> command]
Frame(addr, payload) == [kind |-> "frame", addr |-> addr, payload |-> payload]
Plain(kind) == Msg(kind, Failed.addr, 0)

MeaningOf(item) ==
    IF item.kind = "frame" THEN Frame(item.addr, item.payload)
    ELSE Msg(item.kind, item.addr, item.command)

Meanings == [i \in DOMAIN r.got |-> MeaningOf(r.got[i])]

\* What SHA-224 keys, the words of HTTP and the sizes in the code are like, and of
\* what kind scripts are.
ASSUME PeerAssumption ==
    /\ \A key \in Keys : key \in Bytes /\ Len(key) = KeyLen /\ \A i \in 1 .. KeyLen : key[i] # LF
    /\ ConnectWord \in Bytes /\ VersionWord \in Bytes /\ ConnectWord[1] \notin {Version, 22}
    /\ \A i \in 1 .. Len(ConnectWord) : ConnectWord[i] # CR
    /\ \A i \in 1 .. Len(VersionWord) : VersionWord[i] # CR
    /\ V4Len < 256 /\ V6Len < 256 /\ Socks5Room >= 3 + (1 + 1 + 255 + 2) /\ UdpRoom > 0
    /\ \A s \in Scripts : s.tail \in Bytes /\ Len(s.meant) \in Nat

\* The frames that are meant, and how all is sent.
FramesOf(s) == [i \in 1 .. Len(s.meant) - 2 |-> s.meant[i + 2]]
Packed(frames) == [i \in DOMAIN frames |-> PackUdpFrame(frames[i].addr, frames[i].payload)]
TrojanStream(key, asked, frames, tail) ==
    key \o <<CR, LF>> \o Written(asked) \o FlattenSeq(Packed(frames)) \o tail

\* A key, one command, and the frames.
SpeaksTrojan(s) ==
    LET asked == s.meant[2]
        frames == FramesOf(s)
    IN  /\ Len(s.meant) >= 2 /\ s.meant = <<Plain("prefix"), asked>> \o frames
        /\ asked = Msg("command", asked.addr, asked.command) /\ IsAddress(asked.addr)
        /\ \/ asked.command = Connect /\ frames = <<>>
           \/ asked.command = Associate /\ s.tail = <<>>
        /\ \A i \in DOMAIN frames :
            /\ frames[i] = Frame(frames[i].addr, frames[i].payload) /\ IsAddress(frames[i].addr)
            /\ frames[i].payload \in Bytes /\ Len(frames[i].payload) < 65536
            /\ Len(Packed(frames)[i]) <= UdpRoom
        /\ \E key \in Keys : s.stream = TrojanStream(key, asked, frames, s.tail)

\* No authentication among the methods, then one request.
SpeaksSocks5(s) ==
    LET asked == s.meant[2] IN
    /\ s.socks5 /\ Len(s.meant) = 2 /\ s.meant = <<Plain("greeting"), asked>>
    /\ asked = Msg("request", asked.addr, asked.command) /\ IsAddress(asked.addr)
    /\ asked.command \in {Connect, Associate}
    /\ \E n \in 1 .. Len(s.stream) - 2 :
        LET methods == SubSeq(s.stream, 3, 2 + n) IN
        /\ \E i \in 1 .. n : methods[i] = NoAuth
        /\ s.stream = <<Version, n>> \o methods \o Written(asked) \o s.tail

\* Up to five digits.
Powers == <<1, 10, 100, 1000, 10000, 100000>>

Decimal(n) ==
    LET width == CHOOSE w \in 1 .. 5 : Powers[w] <= n /\ n < Powers[w + 1]
    IN  [i \in 1 .. width |-> 48 + ((n \div Powers[width + 1 - i]) % 10)]

ConnectTo(host, port, minor) ==
    ConnectWord \o host \o <<Colon>> \o Decimal(port) \o <<SP>> \o VersionWord \o <<minor, CR, LF>>

\* A head up to its first empty line, whose own first line names a host, maybe in
\* brackets.
SpeaksHttp(s) ==
    LET addr == s.meant[1].addr
        head == SubSeq(s.stream, 1, Len(s.stream) - Len(s.tail))
        Begins(host, minor) == IsPrefix(ConnectTo(host, addr.port, minor), head)
    IN  /\ s.http /\ Len(s.meant) = 1 /\ s.meant = <<Msg("http", addr, Connect)>>
        /\ s.stream = head \o s.tail /\ Len(head) <= Socks5Room
        /\ \A i \in 4 .. Len(head) :
            SubSeq(head, i - 3, i) = <<CR, LF, CR, LF>> <=> i = Len(head)
        /\ addr.port \in 1 .. MaxPort
        /\ \E i \in 1 .. Len(head), n \in 1 .. 255, minor \in 48 .. 57 :
            LET host == SubSeq(head, i, i + n - 1) IN
            /\ i + n <= Len(head) /\ addr = FillHost(host, addr.port)
            /\ \A j \in 1 .. n : host[j] \notin {SP, CR}
            /\ \/ host[1] # 91 /\ Begins(host, minor)
               \/ (\A j \in 1 .. n : host[j] # 93) /\ Begins(<<91>> \o host \o <<93>>, minor)

\* The method, maybe the answer to a password, and that it has connected.
SpeaksServer(s) ==
    LET last == s.meant[Len(s.meant)] IN
    /\ Len(s.meant) > 0 /\ last = Msg("response", last.addr, 0) /\ IsAddress(last.addr)
    /\ \/ /\ s.meant = <<Plain("method"), last>>
          /\ s.stream = <<Version, NoAuth>> \o Written(last) \o s.tail
       \/ /\ s.userpass /\ s.meant = <<Plain("method"), Plain("auth"), last>>
          /\ s.stream = <<Version, Userpass>> \o <<AuthVersion, 0>> \o Written(last) \o s.tail

KeepsToProtocol(s) ==
    \/ s.mode = "trojan" /\ SpeaksTrojan(s)
    \/ s.mode = "local" /\ (SpeaksSocks5(s) \/ SpeaksHttp(s))
    \/ s.mode = "server" /\ SpeaksServer(s)

\* A peer that keeps to the protocol is understood to its last message as soon as
\* that has come, however it came and with nothing after it, and all that it sends
\* beyond is still there for the relay.
PeersAreUnderstood ==
    KeepsToProtocol(script) /\ AllRead =>
        /\ Meanings = script.meant
        /\ r.handed \o From(script.stream, taken + 1) = script.tail
=============================================================================
