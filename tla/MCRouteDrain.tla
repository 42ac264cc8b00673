---------------------------- MODULE MCRouteDrain ----------------------------
(* Instances of RouteDrain for TLC.                                        *)
EXTENDS RouteDrain

CONSTANTS d1, a1, a2, c1, c2

\* Two outbounds a resolver answer can tell apart.
MCOutbounds ==
    << [all |-> FALSE, domains |-> {}, ips |-> {a1}],
       [all |-> TRUE, domains |-> {}, ips |-> {}] >>

MCDomains == {d1}
MCAddrs == {a1, a2}
MCSlots == {1}
=============================================================================
