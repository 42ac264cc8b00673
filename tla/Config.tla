------------------------------- MODULE Config -------------------------------
(***************************************************************************)
(* From the configuration file to the server blocks a worker runs with:    *)
(* directives and merged values are checked, rule groups compiled, the     *)
(* outbounds of each Trojan block bound to their groups, and each local    *)
(* proxy block to the Trojan block that serves it.  The first error        *)
(* refuses the configuration.                                              *)
(***************************************************************************)
EXTENDS Rules

CONSTANTS
    Confs,      \* configurations: groups and servers, see Group and Block
    Chars,      \* what names are made of
    Loopback,   \* the addresses 127.0.0.1 and ::1
    None

VARIABLES
    conf,       \* does not change: what is written
    phase,      \* "read", "groups", "servers", "proxies", "ready", "refused"
    next,       \* the next group or block of this phase
    groups,     \* main->rules
    servers     \* per block: rules, outbound[].matcher, route_enabled, ...

configVars == <<conf, phase, next, groups, servers>>

\* tag None: no argument, or "*", which is match_all.  type is "direct" or
\* "socks5"; the other fields say which directives its block holds, password
\* whether it is "none", "empty" or "some".
Outbound(type, tag) ==
    [type |-> type, tag |-> tag, server |-> type = "socks5", username |-> FALSE,
     password |-> "none", ipPrefer |-> FALSE, block |-> "none"]

\* A block that says nothing but where it listens.
Block(listens) ==
    [on |-> FALSE, socks5 |-> FALSE, http |-> FALSE, udp |-> FALSE,
     passwords |-> FALSE, ref |-> None, names |-> {}, rules |-> <<>>,
     outbounds |-> <<>>, cache |-> TRUE, lazy |-> FALSE, resolver |-> FALSE,
     listens |-> listens]

Listen(port, address) ==
    [port |-> port, address |-> address, tcp |-> TRUE, ssl |-> FALSE]

Group(tag, domains, ips) == [tag |-> tag, domains |-> domains, ips |-> ips]

IsSequence(s) == s \in Seq({s[i] : i \in DOMAIN s})

\* What ngx_ptocidr can make of a value.
Cidrs == UNION {{Cidr(f, a, n) : a \in Address(f), n \in 0 .. Size(f)} : f \in Families}

\* Groups that can be written: lists of texts and of what was made of addresses.
AreGroups(gs) ==
    /\ IsSequence(gs)
    /\ \A i \in DOMAIN gs :
        /\ IsSequence(gs[i].domains) /\ gs[i].ips \in Seq(Cidrs \cup {None})
        /\ \A j \in DOMAIN gs[i].domains : IsSequence(gs[i].domains[j])

ASSUME ConfigAssumption ==
    /\ None \notin Nat /\ None \notin [own : BOOLEAN, at : Nat] /\ None \notin Cidrs
    /\ \A c \in Confs :
        /\ AreGroups(c.groups) /\ IsSequence(c.servers)
        /\ \A s \in DOMAIN c.servers :
            /\ AreGroups(c.servers[s].rules) /\ IsSequence(c.servers[s].outbounds)
            /\ IsFiniteSet(c.servers[s].listens)

-----------------------------------------------------------------------------
(* Reading. *)

\* The directives of an outbound's block, and the checks after a socks5 block.
OutboundAccepted(o) ==
    /\ o.tag # "include"
    /\ IF o.type = "socks5"
       THEN /\ o.server /\ ~o.ipPrefer /\ o.block # "all"
            /\ o.password = "some" => o.username
            /\ o.username => o.password # "none"
       ELSE ~o.server /\ ~o.username /\ o.password = "none"

\* route_rules blocks at one level: no tag twice, no value that is no rule; None
\* is an address ngx_ptocidr refuses.
GroupsAccepted(gs) ==
    /\ \A i, j \in DOMAIN gs : gs[i].tag = gs[j].tag => i = j
    /\ \A i \in DOMAIN gs :
        /\ \A j \in DOMAIN gs[i].domains : DomainType(gs[i].domains[j]) # "invalid"
        /\ \A j \in DOMAIN gs[i].ips : gs[i].ips[j] # None

\* The directives of a block, and ngx_stream_mtrojan_merge_srv_conf.
BlockAccepted(s) ==
    /\ GroupsAccepted(s.rules)
    /\ \A i \in DOMAIN s.outbounds : OutboundAccepted(s.outbounds[i])
    /\ s.ref = None \/ s.ref.host # "ip"
    /\ s.on => s.passwords
    /\ s.udp => s.socks5

\* The effective configuration of a Trojan block is its own.
Fresh(s) ==
    LET block == conf.servers[s] IN
    [rules |-> [i \in DOMAIN block.rules |-> Uncompiled(block.rules[i])],
     matchers |-> [i \in DOMAIN block.outbounds |-> None],
     routed |-> FALSE, cached |-> FALSE, resolver |-> "none",
     effective |-> IF block.on THEN s ELSE None]

Enter(p) == phase' = p /\ next' = 1

Refuse == phase' = "refused" /\ UNCHANGED <<next, groups, servers>>

Init ==
    /\ conf \in Confs
    /\ phase = "read" /\ next = 1
    /\ groups = [i \in DOMAIN conf.groups |-> Uncompiled(conf.groups[i])]
    /\ servers = [s \in DOMAIN conf.servers |-> Fresh(s)]

\* Each directive as it is read, each block as it ends.
Read ==
    /\ phase = "read"
    /\ IF GroupsAccepted(conf.groups)
            /\ \A s \in DOMAIN conf.servers : BlockAccepted(conf.servers[s])
       THEN Enter("groups") /\ UNCHANGED <<groups, servers>>
       ELSE Refuse
    /\ UNCHANGED conf

-----------------------------------------------------------------------------
(* Compiling and binding. *)

HasKeys(gs) == \E i \in DOMAIN gs : OfType(gs[i].domains, {"exact", "suffix", "wildcard"}) # {}

AllKeysFit(gs) == \A i \in DOMAIN gs : KeysFit(gs[i].domains)

CompileGroup ==
    /\ phase = "groups" /\ next <= Len(groups)
    /\ IF KeysFit(groups[next].domains)
       THEN /\ groups' = [groups EXCEPT ![next] = Compiled(@)]
            /\ next' = next + 1
            /\ UNCHANGED <<phase, servers>>
       ELSE Refuse
    /\ UNCHANGED conf

GroupsCompiled ==
    /\ phase = "groups" /\ next > Len(groups)
    /\ Enter("servers") /\ UNCHANGED <<conf, groups, servers>>

\* ngx_stream_mtrojan_rules_find, a position or None.
RulesFind(gs, tag) ==
    LET at == {i \in DOMAIN gs : gs[i].tag = tag} IN
    IF at = {} THEN None ELSE CHOOSE i \in at : \A j \in at : i <= j

\* The group of a tag: the block's own before those outside.  The positions do not
\* change when groups are compiled.
Bound(s, tag) ==
    LET near == RulesFind(conf.servers[s].rules, tag)
        far == RulesFind(conf.groups, tag)
    IN  CASE near # None -> [own |-> TRUE, at |-> near]
          [] near = None /\ far # None -> [own |-> FALSE, at |-> far]
          [] OTHER -> None

\* The outbounds before the first that takes everything are bound.
Reached(s) ==
    {i \in DOMAIN conf.servers[s].outbounds :
        \A j \in 1 .. i : conf.servers[s].outbounds[j].tag # None}

\* ngx_stream_mtrojan_needs_internal_resolver
NeedsInternalResolver(s, routed) ==
    \/ routed /\ conf.servers[s].lazy
    \/ conf.servers[s].outbounds = <<>>
    \/ \E i \in DOMAIN conf.servers[s].outbounds : conf.servers[s].outbounds[i].type = "direct"

\* The resolver directive of the block; one made from the nameservers of
\* resolv.conf, which may be refused; getaddrinfo when there are none.
Resolvers(s, routed) ==
    CASE conf.servers[s].resolver -> {"nginx"}
      [] ~conf.servers[s].resolver /\ NeedsInternalResolver(s, routed) ->
            {"internal", "refused", "system"}
      [] OTHER -> {"system"}

\* Fault: the first group ends the loop.
CompileFirstRules(s) ==
    [servers[s] EXCEPT !.rules = [i \in DOMAIN @ |-> IF i = 1 THEN Compiled(@[i]) ELSE @[i]]]

\* ngx_stream_mtrojan_route_rules_compile, for the groups of a block.
CompileRules(s) == [servers[s] EXCEPT !.rules = [i \in DOMAIN @ |-> Compiled(@[i])]]

\* ngx_stream_mtrojan_bind_outbound_matchers
BindOutboundMatchers(s, resolver) ==
    LET routed == Reached(s) # {} IN
    [CompileRules(s) EXCEPT
        !.matchers = [i \in DOMAIN @ |-> IF i \in Reached(s)
                         THEN Bound(s, conf.servers[s].outbounds[i].tag) ELSE None],
        !.routed = routed, !.cached = routed /\ conf.servers[s].cache,
        !.resolver = resolver]

\* A block's own groups are compiled before its outbounds are bound to them.
CompileServer ==
    /\ phase = "servers" /\ next <= Len(servers)
    /\ \E r \in Resolvers(next, Reached(next) # {}) :
        IF AllKeysFit(conf.servers[next].rules) /\ (conf.servers[next].on => r # "refused")
        THEN /\ servers' = [servers EXCEPT ![next] =
                    IF conf.servers[next].on THEN BindOutboundMatchers(next, r)
                                             ELSE CompileRules(next)]
             /\ next' = next + 1
             /\ UNCHANGED <<phase, groups>>
        ELSE Refuse
    /\ UNCHANGED conf

ServersCompiled ==
    /\ phase = "servers" /\ next > Len(servers)
    /\ Enter("proxies") /\ UNCHANGED <<conf, groups, servers>>

\* No table without collisions was found: see DomainMph.
TableRefused ==
    /\ next <= (IF phase = "groups" THEN Len(groups) ELSE Len(servers))
    /\ \/ phase = "groups" /\ HasKeys(<<groups[next]>>)
       \/ phase = "servers" /\ HasKeys(conf.servers[next].rules)
    /\ Refuse /\ UNCHANGED conf

-----------------------------------------------------------------------------
(* Local proxies. *)

SameAddress(l, m) == l.port = m.port /\ l.tcp = m.tcp /\ l.address = m.address

\* ngx_stream_mtrojan_local_proxy_check_listens; an address has ssl when one of
\* its servers says so.
CheckListens(s) ==
    /\ conf.servers[s].listens # {}
    /\ \A l \in conf.servers[s].listens :
        /\ l.tcp /\ ~l.ssl /\ l.address \in Loopback
        /\ \A t \in DOMAIN conf.servers \ {s} :
             \A m \in conf.servers[t].listens : ~SameAddress(l, m)

Named(s, host) ==
    IF host = "localhost" THEN conf.servers[s].names \subseteq {""}
                          ELSE host \in conf.servers[s].names

Trojans == {s \in DOMAIN conf.servers : conf.servers[s].on}

\* The addresses at which a reference finds a Trojan block; a block that listens
\* at two addresses of the port is found twice.
Matches(ref) ==
    UNION {{<<t, l>> : l \in {m \in conf.servers[t].listens : m.port = ref.port /\ m.tcp}} :
               t \in {u \in Trojans : Named(u, ref.host)}}

\* Fault: of several blocks one is taken.
FindAnyTrojanServer(ref) ==
    IF Matches(ref) # {} THEN (CHOOSE m \in Matches(ref) : TRUE)[1] ELSE None

\* ngx_stream_mtrojan_find_trojan_server; more than one match is a warning.
FindTrojanServer(ref) ==
    IF Cardinality(Matches(ref)) = 1 THEN (CHOOSE m \in Matches(ref) : TRUE)[1] ELSE None

IsProxy(s) == conf.servers[s].socks5 \/ conf.servers[s].http

\* The block whose configuration a local proxy works with.
Served(s) ==
    CASE conf.servers[s].on -> s
      [] ~conf.servers[s].on /\ conf.servers[s].ref # None -> FindTrojanServer(conf.servers[s].ref)
      [] OTHER -> CHOOSE t \in Trojans : TRUE

\* The loop over the blocks at the end of postconfiguration.
ServeProxy ==
    /\ phase = "proxies" /\ next <= Len(servers) /\ IsProxy(next)
    /\ IF /\ CheckListens(next)
          /\ conf.servers[next].on \/ conf.servers[next].ref # None \/ Cardinality(Trojans) = 1
       THEN /\ servers' = [servers EXCEPT ![next].effective = Served(next)]
            /\ next' = next + 1
            /\ UNCHANGED <<phase, groups>>
       ELSE Refuse
    /\ UNCHANGED conf

NoProxy ==
    /\ phase = "proxies" /\ next <= Len(servers) /\ ~IsProxy(next)
    /\ next' = next + 1 /\ UNCHANGED <<conf, phase, groups, servers>>

Ready ==
    /\ phase = "proxies" /\ next > Len(servers)
    /\ phase' = "ready" /\ UNCHANGED <<conf, next, groups, servers>>

Next ==
    \/ Read \/ CompileGroup \/ GroupsCompiled \/ CompileServer \/ ServersCompiled
    \/ TableRefused \/ ServeProxy \/ NoProxy \/ Ready

Spec == Init /\ [][Next]_configVars

-----------------------------------------------------------------------------
(* Properties. *)

\* Nothing is compiled or bound before its turn, and then all of it is.
TypeOK ==
    /\ conf \in Confs
    /\ phase \in {"read", "groups", "servers", "proxies", "ready", "refused"}
    /\ next \in 1 .. 1 + Len(groups) + Len(servers)
    /\ phase # "refused" =>
           \A i \in DOMAIN groups : groups[i].compiled <=>
               phase \in {"servers", "proxies", "ready"} \/ (phase = "groups" /\ i < next)
    /\ \A s \in DOMAIN servers :
        /\ servers[s].effective \in DOMAIN servers \cup {None}
        /\ servers[s].routed => conf.servers[s].on
        /\ phase = "ready" /\ conf.servers[s].on =>
               \A i \in DOMAIN servers[s].rules : servers[s].rules[i].compiled

Names == {h \in UNION {[1 .. n -> Chars] : n \in 1 .. MaxKey} : h[1] # "."}
Domains == {[domain |-> h] : h \in Names}
Addresses == UNION {{[family |-> f, addr |-> a] : a \in Address(f)} : f \in Families}

\* The group an outbound's matcher points to.
Pointed(s, m) == IF m.own THEN servers[s].rules[m.at] ELSE groups[m.at]

\* What RouteSelect takes for the outbounds of block s.
Compacted(s) ==
    [i \in DOMAIN conf.servers[s].outbounds |->
        LET m == servers[s].matchers[i] IN
        [all |-> conf.servers[s].outbounds[i].tag = None,
         domains |-> {t \in Domains : m # None /\ MatchTarget(Pointed(s, m), t)},
         ips |-> {a \in Addresses : m # None /\ MatchTarget(Pointed(s, m), a)}]]

\* The same, read off the configuration: the group of the tag that is nearest, and
\* its rules one by one.
Written(s) ==
    LET Nearest(tag) ==
            LET Tagged(gs) == {gs[i] : i \in {j \in DOMAIN gs : gs[j].tag = tag}}
            IN  IF Tagged(conf.servers[s].rules) # {} THEN Tagged(conf.servers[s].rules)
                                                      ELSE Tagged(conf.groups)
    IN  [i \in DOMAIN conf.servers[s].outbounds |->
            LET tag == conf.servers[s].outbounds[i].tag IN
            [all |-> tag = None,
             domains |-> {t \in Domains : \E g \in Nearest(tag) : AnyDomainMatch(g.domains, t.domain)},
             ips |-> {a \in Addresses : \E g \in Nearest(tag) : AnyIpMatch(g.ips, a)}]]

Walk(Outbounds, Lazy) == INSTANCE RouteSelect WITH Addrs <- Addresses

Selected(outbounds, lazy, t, addrs) == Walk(outbounds, lazy)!SelectOutboundNow(t, addrs, FALSE)

\* Every target goes where the configuration says, rule by rule and outbound by
\* outbound: whatever groups were compiled into, merged with and bound to, and with
\* whatever address a name is resolved to on the way.  Names that begin with a dot
\* are left out: see the README.
RoutesAsWritten ==
    phase = "ready" =>
        \A s \in Trojans :
            LET lazy == conf.servers[s].lazy
                compacted == Compacted(s)
                written == Written(s)
                Same(t, addrs) ==
                    Selected(compacted, lazy, t, addrs) = Selected(written, lazy, t, addrs)
            IN  /\ \A t \in Domains \cup Addresses : Same(t, {})
                /\ lazy => \A t \in Domains, a \in Addresses : Same(t, {a})

\* A local proxy is reached from this machine only, at addresses of its own, and is
\* served by the one Trojan block it can mean: never by one of several, and not by
\* none when the block it names listens at one address.
LocalProxiesServed ==
    phase = "ready" =>
        \A s \in {t \in DOMAIN servers : IsProxy(t) /\ ~conf.servers[t].on} :
            LET ref == conf.servers[s].ref
                meant == IF ref = None THEN Trojans
                         ELSE {t \in Trojans : Named(t, ref.host)
                                 /\ \E l \in conf.servers[t].listens : l.port = ref.port /\ l.tcp}
                once == \A t \in meant :
                            Cardinality({l \in conf.servers[t].listens : l.port = ref.port}) = 1
            IN  /\ servers[s].effective # None => meant = {servers[s].effective}
                /\ Cardinality(meant) = 1 /\ (ref = None \/ once) => servers[s].effective # None
                /\ \A l \in conf.servers[s].listens, t \in DOMAIN servers \ {s} :
                     /\ l.address \in Loopback
                     /\ \A m \in conf.servers[t].listens : ~SameAddress(l, m)
=============================================================================
