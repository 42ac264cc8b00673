------------------------------ MODULE MCConfig ------------------------------
(* Instances of Config and of DomainMph for TLC: the configuration as a     *)
(* whole, and the construction of one of its tables on its own.             *)
EXTENDS Config, DomainMph

CONSTANTS k1, k2, k3, k4, k5

VARIABLE tables     \* does not change: a table is built, no configuration read

mcVars == <<configVars, tables, mphVars>>

-----------------------------------------------------------------------------
(* Rules.  Names are made of a, A and dots. *)

MCChars == {"a", "A", "."}
MCLower == [c \in {"A"} |-> "a"]
MCReserved == <<"i", "n">>

\* A pattern stands for itself anywhere in the name, letter case included.
MCRegexMatches(pattern, name) ==
    \E i \in DOMAIN name : i + Len(pattern) - 1 <= Len(name)
        /\ SubSeq(name, i, i + Len(pattern) - 1) = pattern

a == "a"
up == "A"
Dotted(s) == <<".">> \o s
Starred(s) == <<"*", ".">> \o s

Values == {<<a>>, <<up, ".", a>>, Dotted(<<a>>), Dotted(<<up, ".", a>>), Starred(<<a>>),
           Starred(<<a, ".", up>>), <<"~", up>>, <<"~", a, ".">>, <<"*", ".">>, <<a, a>>}
Refused == {<<>>, <<".">>, <<"~">>, MCReserved, <<a, a, a, a, a>>, Dotted(<<a, a, a, a, a>>)}

DomainLists ==
    {<<v>> : v \in Values \cup Refused} \cup {<<v, w>> : v, w \in Values}
        \cup {<<Starred(<<a>>), Dotted(<<up>>), Starred(<<up>>), <<a>>, <<"~", up>> >>}

\* IPv4 addresses of three bits, IPv6 addresses of two bytes of two bits.
Net4(b1, b2, b3, prefix) == Cidr("v4", << <<b1, b2, b3>> >>, prefix)
Net6(b1, b2, b3, b4, prefix) == Cidr("v6", << <<b1, b2>>, <<b3, b4>> >>, prefix)

SomeCidrs == {Net4(1,0,1, 3), Net4(1,0,0, 3), Net4(1,1,0, 2), Net4(0,0,0, 1), Net4(1,1,1, 0),
              Net6(0,1,1,0, 4), Net6(0,1,1,1, 3), Net6(1,0,0,1, 2), Net6(1,1,1,1, 1), Net6(0,0,0,0, 0)}

IpLists ==
    {<<c, d>> : c, d \in SomeCidrs} \cup {<<None>>}
        \cup {<<Net4(1,1,1, 3), Net4(0,0,1, 3), Net4(1,0,0, 3), Net4(0,0,1, 3), Net4(0,1,0, 3)>>,
              <<Net6(1,0,0,0, 4), Net6(0,0,1,1, 4), Net6(1,0,1,1, 4), Net4(0,1,0, 2),
                Net6(0,1,0,1, 3), Net6(1,1,1,0, 3), Net6(1,1,0,0, 3)>>}

-----------------------------------------------------------------------------
(* Configurations. *)

Direct(tag) == Outbound("direct", tag)
Socks5(tag) == Outbound("socks5", tag)

Trojan(listens, outbounds) ==
    [Block(listens) EXCEPT !.on = TRUE, !.passwords = TRUE, !.outbounds = outbounds]

Written1(gs, s) == [groups |-> gs, servers |-> <<s>>]

Https == {Listen(443, "any")}

\* One list of rules for the first outbound, a fixed one for the second.
RuleConfs ==
    {Written1(<<Group("x", ds, <<>>), Group("y", <<Starred(<<a>>)>>, <<>>)>>,
              Trojan(Https, <<Socks5("x"), Direct("y")>>)) : ds \in DomainLists}
    \cup
    {Written1(<<Group("x", <<>>, cs), Group("y", <<>>, <<Net4(1,0,0, 1)>>)>>,
              Trojan(Https, <<Socks5("x"), Direct("y"), Socks5(None)>>)) : cs \in IpLists}

\* Groups inside and outside the block, with the same and with other tags; an
\* outbound for everything in any place; a tag nobody has.
Outside == <<Group("x", <<Dotted(<<a>>)>>, <<Net4(1,0,0, 1)>>), Group("y", <<<<a>>>>, <<Net4(0,0,0, 1)>>)>>
Inside == <<Group("y", <<Starred(<<up>>)>>, <<Net6(0,1,1,0, 3)>>)>>

BindingConfs ==
    {Written1(Outside, [Trojan(Https, outbounds) EXCEPT !.rules = rules, !.lazy = lazy]) :
        outbounds \in {<<>>, <<Direct("y"), Socks5("x")>>, <<Socks5("z"), Direct("y")>>,
                       <<Direct("x"), Socks5(None), Direct("y")>>, <<Socks5("y"), Socks5(None)>>},
        rules \in {<<>>, Inside, Inside \o <<Group("x", <<>>, <<>>)>>},
        lazy \in BOOLEAN}
    \cup
    {Written1(gs, [Trojan(Https, <<Socks5("x")>>) EXCEPT !.rules = rules, !.resolver = TRUE]) :
        gs \in {<<Group("x", <<<<a>>>>, <<>>), Group("x", <<>>, <<>>)>>, <<>>},
        rules \in {<<Group("x", <<<<a, a, a, a, a>>>>, <<>>)>>, <<Group("x", <<<<a>>>>, <<>>)>>}}

SomeConf == Written1(<<>>, Trojan(Https, <<>>))

\* Directives that do not go together.
OddOutbounds ==
    {[Socks5("x") EXCEPT !.server = FALSE], [Socks5("x") EXCEPT !.username = TRUE],
     [Socks5("x") EXCEPT !.password = "some"], [Socks5("x") EXCEPT !.password = "empty"],
     [Socks5("x") EXCEPT !.block = "all"], [Socks5("x") EXCEPT !.ipPrefer = TRUE],
     [Direct("x") EXCEPT !.server = TRUE], [Direct("include") EXCEPT !.block = "all"]}

DirectiveConfs ==
    {Written1(Outside, Trojan(Https, <<o>>)) : o \in OddOutbounds}
    \cup {SomeConf, Written1(<<>>, [Trojan(Https, <<>>) EXCEPT !.passwords = FALSE]),
          Written1(<<>>, [Trojan(Https, <<>>) EXCEPT !.udp = TRUE])}

\* Trojan blocks, and one local proxy that means one of them.
Ref(host) == [host |-> host, port |-> 443]

TrojanSets ==
    LET Other == [Trojan({Listen(443, "10.0.0.1")}, <<>>) EXCEPT !.names = {"n"}]
        Plain == Trojan(Https, <<>>)
    IN  {<<>>, <<Plain>>, <<Other, Plain>>, <<[Other EXCEPT !.names = {"m", "n"}], Other>>,
         <<[Plain EXCEPT !.listens = Https \cup {Listen(443, "::")}], Other>>,
         <<[Plain EXCEPT !.listens = {Listen(1080, "127.0.0.1")}], Other>>,
         <<[Other EXCEPT !.listens = {[Listen(443, "any") EXCEPT !.tcp = FALSE]}]>>}

ProxyListens ==
    {{Listen(1080, "127.0.0.1")}, {Listen(1080, "127.0.0.1"), Listen(8080, "::1")},
     {Listen(1080, "any")}, {[Listen(1080, "127.0.0.1") EXCEPT !.ssl = TRUE]},
     {[Listen(1080, "127.0.0.1") EXCEPT !.tcp = FALSE]}}

ProxyConfs ==
    {[groups |-> <<>>, servers |-> ts \o <<[Block(ls) EXCEPT !.socks5 = TRUE, !.ref = ref]>>] :
        ts \in TrojanSets, ls \in ProxyListens,
        ref \in {None, Ref("localhost"), Ref("n"), Ref("ip")}}
    \cup {Written1(<<>>, [Trojan({Listen(1080, "::1")}, <<>>) EXCEPT !.http = TRUE])}

MCConfs == RuleConfs \cup BindingConfs \cup DirectiveConfs \cup ProxyConfs

-----------------------------------------------------------------------------
(* One table: up to five keys, two buckets from four keys on, two seeds. *)

TableKeys == {k1, k2, k3, k4, k5}

\* The first seed sends the keys anywhere, the second either apart or together.
TableHashes ==
    {[k \in TableKeys |-> [s \in 0 .. 2 |->
        CASE s = 0 -> IF k \in {k1, k2} THEN 0 ELSE 1
          [] s = 1 -> first[k]
          [] s = 2 -> second[k]]] :
        first \in [TableKeys -> 0 .. 3],
        second \in {[k \in TableKeys |-> 0],
                    [k \in TableKeys |-> CASE k = k1 -> 7 [] k = k2 -> 6 [] k = k3 -> 4
                                           [] k = k4 -> 5 [] k = k5 -> 3]}}

KeyTables ==
    {[k \in S |-> IF k \in {k1, k3} THEN "root" ELSE "below"] :
        S \in {{}, {k1, k2}, {k1, k2, k3, k4}, TableKeys}}

SomeHash == CHOOSE h \in TableHashes : TRUE

MCInit ==
    \/ tables = TRUE /\ conf = SomeConf /\ Init /\ MphInit
    \/ tables = FALSE /\ unique = NoKeys /\ hash = SomeHash /\ Init /\ MphInit

OnlyConfig == ~tables /\ UNCHANGED <<tables, mphVars>>
OnlyTables == tables /\ UNCHANGED <<tables, configVars>>

MCNext ==
    \/ OnlyConfig /\ Next
    \/ OnlyTables /\ MphNext

MCSpec == MCInit /\ [][MCNext]_mcVars
=============================================================================
