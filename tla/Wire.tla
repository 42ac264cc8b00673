-------------------------------- MODULE Wire --------------------------------
(***************************************************************************)
(* What the wire formats say: how the functions of the module read and     *)
(* write Trojan requests and UDP frames, the messages of SOCKS5 in both    *)
(* directions, and the head of an HTTP CONNECT request.                    *)
(*                                                                         *)
(* Bytes are numbers.  A reader of a stream gets what has come so far and  *)
(* answers "ok", "more" or "bad", with the number of bytes it needs.  The  *)
(* sizes of addresses and the words of HTTP are parameters.                *)
(***************************************************************************)
EXTENDS Integers, SequencesExt

CONSTANTS
    V4Len,          \* bytes of an IPv4 address: 4
    V6Len,          \* bytes of an IPv6 address: 16
    ConnectWord,    \* "CONNECT ", as bytes
    OtherWords,     \* "GET " and the others
    VersionWord,    \* "HTTP/1."
    InetPton        \* inet_pton: from texts to [type |-> _, host |-> _] (external)

\* "CONNECT  HTTP/1.1": what the shortest request line holds at least.
MinLine == Len(ConnectWord) + 1 + Len(VersionWord) + 1

ASSUME WireAssumption ==
    /\ V4Len \in Nat \ {0} /\ V6Len \in Nat \ {0}
    /\ ConnectWord # <<>> /\ <<>> \notin OtherWords
    /\ {ConnectWord, VersionWord} \cup OtherWords \subseteq Seq(Nat)
    /\ \A w \in OtherWords : Len(w) <= MinLine

CR == 13
LF == 10
SP == 32
Colon == 58

Ipv4 == 1
Domain == 3
Ipv6 == 4

Connect == 1
Associate == 3

From(b, i) == SubSeq(b, i, Len(b))

-----------------------------------------------------------------------------
(* Addresses: type, host and port. *)

Be16(n) == <<n \div 256, n % 256>>
U16(b, i) == 256 * b[i] + b[i + 1]

Addr(type, host, port) == [type |-> type, host |-> host, port |-> port]

\* What build_request, build_response, build_udp_packet and pack_udp_frame do
\* with an address.
PutAddr(a) ==
    <<a.type>> \o (IF a.type = Domain THEN <<Len(a.host)>> ELSE <<>>)
               \o a.host \o Be16(a.port)

Failed == [addr |-> Addr(0, <<>>, 0), payload |-> <<>>, wire_len |-> 0]

\* ngx_stream_trojan_parse_addr: too short and wrong are the same.
ParseAddr(b) ==
    LET named == b # <<>> /\ b[1] = Domain
        before == IF named THEN 2 ELSE 1
        n == CASE b = <<>> -> 0
               [] b # <<>> /\ b[1] = Ipv4 -> V4Len
               [] b # <<>> /\ b[1] = Ipv6 -> V6Len
               [] named /\ Len(b) >= 2 -> b[2]
               [] OTHER -> 0
        end == before + n + 2
    IN  IF n = 0 \/ Len(b) < end THEN Failed
        ELSE [addr |-> Addr(b[1], SubSeq(b, before + 1, before + n), U16(b, end - 1)),
              payload |-> <<>>, wire_len |-> end]

Bad == [rc |-> "bad", needed |-> 0]
More(n) == [rc |-> "more", needed |-> n]
Reach(b, n) == [rc |-> IF Len(b) >= n THEN "ok" ELSE "more", needed |-> n]

\* The bytes of an address, after those already counted.
AddrLen(b, counted) ==
    LET at == counted + 1 IN
    CASE Len(b) < at -> More(counted)
      [] Len(b) >= at /\ b[at] = Ipv4 -> Reach(b, counted + 1 + V4Len + 2)
      [] Len(b) >= at /\ b[at] = Ipv6 -> Reach(b, counted + 1 + V6Len + 2)
      [] Len(b) = at /\ b[at] = Domain -> More(counted + 2)
      [] Len(b) > at /\ b[at] = Domain -> Reach(b, counted + 2 + b[at + 1] + 2)
      [] OTHER -> Bad

-----------------------------------------------------------------------------
(* Trojan. *)

\* ngx_stream_mtrojan_request_needed
RequestNeeded(b) ==
    IF Len(b) < 2 THEN More(2)
    ELSE IF b[1] \notin {Connect, Associate} THEN Bad
    ELSE LET address == AddrLen(b, 1) IN
         CASE address.rc = "bad" -> Bad
           [] address.rc # "bad" /\ Len(b) = 2 /\ b[2] = Domain -> More(3)
           [] OTHER -> Reach(b, address.needed + 2)

\* Fault: a frame must be followed by something.
Followed(b, end) == Len(b) > end

Reached(b, end) == Len(b) >= end

\* ngx_stream_trojan_parse_udp_frame: too short and wrong are the same.
ParseUdpFrame(b) ==
    LET a == ParseAddr(b)
        head == a.wire_len + 4
        n == U16(b, a.wire_len + 1)
    IN  IF \/ a.wire_len = 0 \/ Len(b) < head
           \/ b[head - 1] # CR \/ b[head] # LF \/ ~Reached(b, head + n)
        THEN Failed
        ELSE [addr |-> a.addr, payload |-> SubSeq(b, head + 1, head + n),
              wire_len |-> head + n]

PackUdpFrame(addr, payload) ==
    PutAddr(addr) \o Be16(Len(payload)) \o <<CR, LF>> \o payload

-----------------------------------------------------------------------------
(* SOCKS5. *)

Version == 5
AuthVersion == 1
NoAuth == 0
Userpass == 2

BuildGreeting(userpass) ==
    IF userpass THEN <<Version, 2, NoAuth, Userpass>> ELSE <<Version, 1, NoAuth>>

GreetingLen(b) ==
    CASE Len(b) < 2 -> More(2)
      [] Len(b) >= 2 /\ b[1] # Version -> Bad
      [] OTHER -> Reach(b, 2 + b[2])

SelectMethod(b) ==
    IF \E i \in 1 .. b[2] : b[2 + i] = NoAuth THEN "noauth" ELSE "none"

ParseMethodResponse(b, userpass) ==
    CASE b[1] # Version -> "bad"
      [] b[1] = Version /\ b[2] = NoAuth -> "noauth"
      [] b[1] = Version /\ b[2] = Userpass /\ userpass -> "userpass"
      [] OTHER -> "bad"

ParseAuthResponse(b) == IF b[1] = AuthVersion /\ b[2] = 0 THEN "ok" ELSE "bad"

BuildRequest(command, addr) == <<Version, command, 0>> \o PutAddr(addr)

RequestLen(b) ==
    CASE Len(b) < 4 -> More(4)
      [] Len(b) >= 4 /\ (b[1] # Version \/ b[3] # 0) -> Bad
      [] Len(b) >= 4 /\ b[2] \notin {Connect, Associate} -> Bad
      [] OTHER -> AddrLen(b, 3)

BuildResponse(status, addr) == <<Version, status, 0>> \o PutAddr(addr)

ResponseLen(b) ==
    CASE Len(b) < 4 -> More(4)
      [] Len(b) >= 4 /\ (b[1] # Version \/ b[3] # 0) -> Bad
      [] OTHER -> AddrLen(b, 3)

\* ngx_stream_mtrojan_socks5_parse_response, of a response as long as it says.
ParseResponse(b) == IF b[2] # 0 THEN Failed ELSE ParseAddr(From(b, 4))

BuildUdpPacket(addr, payload) == <<0, 0, 0>> \o PutAddr(addr) \o payload

ParseUdpPacket(b) ==
    LET a == ParseAddr(From(b, 4)) IN
    IF Len(b) < 4 \/ SubSeq(b, 1, 3) # <<0, 0, 0>> \/ a.wire_len = 0 THEN Failed
    ELSE [addr |-> a.addr, payload |-> From(b, 4 + a.wire_len), wire_len |-> Len(b)]

-----------------------------------------------------------------------------
(* HTTP CONNECT. *)

\* ngx_stream_mtrojan_http_has_prefix: a part of the word will do.
HasPrefix(b, word) == IsPrefix(word, b) \/ IsPrefix(b, word)

LooksLikeHttp(b) == b # <<>> /\ \E w \in {ConnectWord} \cup OtherWords : HasPrefix(b, w)

MaxPort == 65535

\* Digits, without a zero in front; 0 is none.
ParsePort(t) ==
    LET Value[i \in 0 .. Len(t)] ==
            IF i = 0 THEN 0
            ELSE LET v == 10 * Value[i - 1] + t[i] - 48 IN
                 IF t[i] \in 48 .. 57 /\ v \in 1 .. MaxPort /\ (i > 1 => Value[i - 1] > 0)
                 THEN v ELSE 0
    IN  Value[Len(t)]

\* The end of the head, or 0.
HeaderEnd(b) ==
    LET ends == {i \in 4 .. Len(b) : SubSeq(b, i - 3, i) = <<CR, LF, CR, LF>>}
    IN  IF ends = {} THEN 0 ELSE CHOOSE i \in ends : \A j \in ends : i <= j

\* ngx_stream_mtrojan_http_fill_host
FillHost(host, port) ==
    IF host \in DOMAIN InetPton
    THEN Addr(InetPton[host].type, InetPton[host].host, port)
    ELSE Addr(Domain, host, port)

\* Host and port of a target; either is empty when there is none.
Target(t) ==
    LET closing == SelectInSeq(t, LAMBDA c : c = 93)
        colon == SelectLastInSeq(t, LAMBDA c : c = Colon)
    IN  IF t[1] = 91
        THEN IF closing = 0 \/ closing + 1 > Len(t) \/ t[closing + 1] # Colon
             THEN [host |-> <<>>, port |-> <<>>]
             ELSE [host |-> SubSeq(t, 2, closing - 1), port |-> From(t, closing + 2)]
        ELSE [host |-> SubSeq(t, 1, colon - 1), port |-> IF colon = 0 THEN <<>> ELSE From(t, colon + 1)]

\* The first line of a head of that length.
RequestLine(b, end) ==
    LET cut == CHOOSE i \in 1 .. end - 1 : SubSeq(b, i, i + 1) = <<CR, LF>>
                 /\ \A j \in 1 .. i - 1 : SubSeq(b, j, j + 1) # <<CR, LF>>
    IN  SubSeq(b, 1, cut - 1)

\* What stands behind CONNECT.
ConnectLine(line) ==
    LET rest == From(line, Len(ConnectWord) + 1)
        space == SelectInSeq(rest, LAMBDA c : c = SP)
        version == From(rest, space + 1)
        target == Target(SubSeq(rest, 1, space - 1))
        No == [rc |-> "bad", addr |-> Failed.addr]
    IN  IF space < 2 \/ Len(version) < Len(VersionWord) + 1 \/ ~IsPrefix(VersionWord, version)
        THEN No
        ELSE IF ParsePort(target.port) = 0 \/ Len(target.host) \notin 1 .. 255 THEN No
        ELSE [rc |-> "ok", addr |-> FillHost(target.host, ParsePort(target.port))]

\* ngx_stream_mtrojan_http_proxy_parse_connect
ParseConnect(b) ==
    LET end == HeaderEnd(b)
        line == RequestLine(b, end)
        answer == ConnectLine(line)
        No(rc) == [rc |-> rc, needed |-> end, addr |-> Failed.addr]
    IN  IF end = 0 THEN [rc |-> "more", needed |-> Len(b) + 1, addr |-> Failed.addr]
        ELSE IF Len(line) < MinLine THEN No("bad")
        ELSE IF ~IsPrefix(ConnectWord, b)
        THEN No(IF LooksLikeHttp(b) THEN "notallowed" ELSE "bad")
        ELSE [rc |-> answer.rc, needed |-> end, addr |-> answer.addr]

-----------------------------------------------------------------------------
(* The first bytes for a local proxy. *)

\* ngx_stream_mtrojan_classify_inbound; what looks like TLS is closed as well.
Classify(b, socks5, http) ==
    CASE b[1] = Version -> IF socks5 THEN "socks5" ELSE "close"
      [] b[1] # Version /\ http /\ LooksLikeHttp(b) -> "http"
      [] OTHER -> "close"
=============================================================================
