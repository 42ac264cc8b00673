----------------------------- MODULE MCFraming ------------------------------
(* Instances of Framing for TLC.  Sizes of addresses are the real ones;    *)
(* keys are short, and the buffers are as large as the longest message.    *)
EXTENDS Cuts

\* Texts as bytes.
Blank == <<SP>>
LineEnd == <<CR, LF>>
MCConnectWord == <<67, 79, 78, 78, 69, 67, 84, 32>>
MCOtherWords == {<<71, 69, 84, 32>>, <<72, 69, 65, 68, 32>>}
MCVersionWord == <<72, 84, 84, 80, 47, 49, 46>>

Times(n, byte) == [i \in 1 .. n |-> byte]

\* Two of the texts are addresses.
Text4 == <<49, 46, 50>>
Text6 == <<58, 58, 49>>
MCInetPton == (Text4 :> [type |-> Ipv4, host |-> <<1, 0, 0, 2>>])
              @@ (Text6 :> [type |-> Ipv6, host |-> Append(Times(15, 0), 1)])

MCKeys == {<<97, 98, 99>>, <<97, 97, 97>>}

A4 == Addr(Ipv4, <<10, 0, 13, 10>>, 80)
A6 == Addr(Ipv6, Append(Times(15, 0), 3), 65535)
Name == Addr(Domain, <<97, 46>>, 443)
LongName == Addr(Domain, Times(255, 97), 256)

MaxPayload == 5
MCUdpRoom == (1 + 1 + 255 + 2) + 4 + MaxPayload
MCSocks5Room == 3 + (1 + 1 + 255 + 2)

Beyond == <<5, 1, 0, 13, 10>>

-----------------------------------------------------------------------------
(* What peers that keep to the protocol send. *)

Legal(mode, stream, meant, tail) ==
    [mode |-> mode, stream |-> stream \o tail, meant |-> meant, tail |-> tail,
     socks5 |-> TRUE, http |-> TRUE, userpass |-> FALSE]

Prefixed(key, command, addr) == key \o LineEnd \o <<command>> \o PutAddr(addr) \o LineEnd

TrojanTcp(key, addr, tail) ==
    Legal("trojan", Prefixed(key, Connect, addr),
          <<Plain("prefix"), Msg("command", addr, Connect)>>, tail)

TrojanUdp(addr, frames) ==
    Legal("trojan",
          Prefixed(<<97, 98, 99>>, Associate, addr)
              \o FlattenSeq([i \in DOMAIN frames |-> PackUdpFrame(frames[i].addr, frames[i].payload)]),
          <<Plain("prefix"), Msg("command", addr, Associate)>> \o frames, <<>>)

Socks5(greeting, command, addr, tail) ==
    Legal("local", greeting \o BuildRequest(command, addr),
          <<Plain("greeting"), Msg("request", addr, command)>>, tail)

HttpHead(target, more) ==
    MCConnectWord \o target \o Blank \o MCVersionWord \o <<49>> \o LineEnd \o more \o LineEnd

HttpConnect(target, more, addr, tail) ==
    Legal("local", HttpHead(target, more), <<Msg("http", addr, Connect)>>, tail)

Server(userpass, auth, addr, tail) ==
    [Legal("server",
           (IF auth THEN <<5, 2, 1, 0>> ELSE <<5, 0>>) \o BuildResponse(0, addr),
           (IF auth THEN <<Plain("method"), Plain("auth")>>
                    ELSE <<Plain("method")>>)
               \o <<Msg("response", addr, 0)>>, tail)
        EXCEPT !.userpass = userpass]

\* Ports in digits.
P80 == <<Colon, 56, 48>>
P65535 == <<Colon, 54, 53, 53, 51, 53>>

ShortScripts ==
    {TrojanTcp(<<97, 98, 99>>, A4, Beyond),
     TrojanUdp(Name, <<Frame(A4, <<1, 2>>), Frame(Name, <<>>), Frame(A6, <<13, 10>>)>>),
     Socks5(BuildGreeting(TRUE), Connect, A6, Beyond), Socks5(BuildGreeting(FALSE), Associate, A4, <<>>),
     Socks5(<<5, 3, 1, 2, 0>>, Connect, Name, Beyond),
     HttpConnect(<<97, 46>> \o P80, <<97, 58, 32, 98>> \o LineEnd, Addr(Domain, <<97, 46>>, 80), Beyond),
     HttpConnect(Text4 \o P65535, <<>>, Addr(Ipv4, MCInetPton[Text4].host, 65535), <<>>),
     HttpConnect(<<91>> \o Text6 \o <<93>> \o P80, <<>>, Addr(Ipv6, MCInetPton[Text6].host, 80), Beyond),
     Server(FALSE, FALSE, A4, Beyond), Server(TRUE, FALSE, A6, Beyond), Server(TRUE, TRUE, Name, <<>>)}

\* The longest there are, at the limits of the buffers.
LongScripts ==
    {TrojanTcp(<<97, 97, 97>>, LongName, Beyond),
     TrojanUdp(A4, <<Frame(LongName, Times(MaxPayload, 13)), Frame(A4, <<7>>),
                     Frame(LongName, Times(MaxPayload, 0))>>),
     Socks5(<<5, 255>> \o Times(255, 0), Connect, LongName, Beyond),
     Server(FALSE, FALSE, LongName, Beyond)}

ASSUME Legality == \A s \in ShortScripts \cup LongScripts : KeepsToProtocol(s)

-----------------------------------------------------------------------------
(* What others send: a byte changed, streams cut off, and some more. *)

Odd(s) == [s EXCEPT !.meant = <<>>, !.tail = <<>>]

\* Each byte, by one that means something elsewhere.
Damaged(s) ==
    {[Odd(s) EXCEPT !.stream[i] = b] : i \in 1 .. Len(s.stream), b \in {0, 3, 10, 13, 58}}

CutOff(s) == {[Odd(s) EXCEPT !.stream = SubSeq(@, 1, i)] : i \in 1 .. Len(s.stream)}

Get == <<71, 69, 84, 32, 47, 32>> \o MCVersionWord \o <<49>> \o LineEnd

OtherScripts ==
    {[Odd(s) EXCEPT !.socks5 = FALSE] : s \in ShortScripts}
    \cup {[Odd(s) EXCEPT !.http = FALSE] : s \in ShortScripts}
    \cup {Legal("local", stream, <<>>, <<>>) : stream \in
            {<<22, 3, 1, 0, 0>>, <<22, 3>>, <<5, 1, 2, 0>>,
             HttpHead(Times(300, 97) \o P80, <<>>), HttpHead(<<97>>, <<>>),
             Get \o LineEnd, Get \o <<97, 58, 98>> \o LineEnd \o LineEnd,
             <<71, 69, 84, 32>> \o Times(14, 97) \o LineEnd \o LineEnd}}
    \cup {Odd(TrojanUdp(A4, <<Frame(Addr(Domain, <<>>, 1), <<>>), Frame(LongName, <<1>>)>>)),
          Odd(TrojanUdp(A4, <<Frame(LongName, Times(MaxPayload + 1, 13)), Frame(A4, <<>>)>>))}

MCScripts == ShortScripts \cup LongScripts \cup OtherScripts
             \cup UNION {Damaged(s) \cup CutOff(s) : s \in ShortScripts}
=============================================================================
