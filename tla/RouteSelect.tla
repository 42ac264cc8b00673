---------------------------- MODULE RouteSelect ----------------------------
(***************************************************************************)
(* Which outbound a target is sent to: the ordered rule walk of            *)
(* ngx_stream_mtrojan_select_outbound_now.                                 *)
(*                                                                         *)
(* An outbound is its position in the configuration; its rule group is     *)
(* abstracted to the set of domain targets its domain rules match and the  *)
(* set of addresses its CIDRs contain.  An IP-literal target is an element *)
(* of Addrs, a domain target an element of Domains.                        *)
(***************************************************************************)
EXTENDS Integers, Sequences

CONSTANTS
    Domains,    \* targets of type ADDR_DOMAIN
    Addrs,      \* IP addresses: literal targets and resolver answers
    Outbounds,  \* the outbounds block, in configuration order
    Lazy        \* route_resolve lazy

Targets == Domains \cup Addrs
OutboundIds == 1 .. Len(Outbounds)
NoOutbound == 0

ASSUME OutboundsAssumption ==
    /\ Domains \cap Addrs = {}
    /\ Lazy \in BOOLEAN
    /\ Outbounds \in Seq([all : BOOLEAN, domains : SUBSET Domains,
                          ips : SUBSET Addrs])

-----------------------------------------------------------------------------
\* ngx_stream_mtrojan_outbound_matches_domain; `all` is match_all or no rules.
MatchesDomain(i, t) ==
    Outbounds[i].all \/ t \in Outbounds[i].domains

\* ngx_stream_mtrojan_outbound_matches, the test for an IP-literal target.
MatchesLiteral(i, t) ==
    Outbounds[i].all \/ (t \in Addrs /\ t \in Outbounds[i].ips)

\* ngx_stream_mtrojan_outbound_matches_resolved_ip: any answered address.
MatchesResolvedIp(i, addrs) == Outbounds[i].ips \cap addrs # {}

\* The walk cannot pass an outbound with IP rules without knowing addresses.
AsksForAddress(i, t) ==
    t \in Domains /\ Lazy /\ Outbounds[i].ips # {}

\* The outbounds at which the walk returns, one way or another.
StopsAt(i, t, addrs) ==
    \/ MatchesDomain(i, t)
    \/ AsksForAddress(i, t) /\ (addrs = {} \/ MatchesResolvedIp(i, addrs))
    \/ t \notin Domains /\ MatchesLiteral(i, t)

\* What the walk returns: the outbound (or none), whether the decision gets a
\* time to live, and whether addresses are needed to go on.
SelectOutboundNow(t, addrs, lazyUsed) ==
    LET stops == {i \in OutboundIds : StopsAt(i, t, addrs)}
        first == CHOOSE i \in stops : \A j \in stops : i <= j
        Answer(o, ttl, needs) == [outbound |-> o, ttl |-> ttl, needs |-> needs]
    IN  CASE stops = {} -> Answer(NoOutbound, FALSE, FALSE)
          [] stops # {} /\ MatchesDomain(first, t) ->
                Answer(first,
                       lazyUsed /\ t \in Domains /\ Outbounds[first].all, FALSE)
          [] stops # {} /\ ~MatchesDomain(first, t) /\ t \in Domains ->
                IF addrs = {} THEN Answer(NoOutbound, FALSE, TRUE)
                              ELSE Answer(first, TRUE, FALSE)
          [] OTHER -> Answer(first, FALSE, FALSE)

\* The outbounds some resolver answer can select for a target.
Selectable ==
    [t \in Targets |->
        {SelectOutboundNow(t, addrs, addrs # {}).outbound : addrs \in SUBSET Addrs}
            \ {NoOutbound}]
=============================================================================
