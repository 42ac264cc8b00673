---------------------------- MODULE MCRouteCache ----------------------------
(* Instances of RouteCache for TLC: one worker with the nginx resolver, one *)
(* with getaddrinfo.  Which of the two it is was settled when the           *)
(* configuration was read.                                                  *)
EXTENDS RouteCache

CONSTANTS d1, d2, a1, a2, b1, b2, s1, s2, r1, r2

VARIABLE system  \* getaddrinfo is used

\* A first outbound with address rules, a second that takes one domain by name
\* after it, and the one that takes the rest.
MCOutbounds ==
    << [all |-> FALSE, domains |-> {}, ips |-> {a1}],
       [all |-> FALSE, domains |-> {d2}, ips |-> {}],
       [all |-> TRUE, domains |-> {}, ips |-> {}] >>

\* The last has rules for names that do not occur here instead: a domain may end
\* up without a route.
MCOutboundsPartial == [MCOutbounds EXCEPT ![3].all = FALSE]

MCDomains == {d1, d2}
MCAddrs == {a1, a2}
MCHash == [t \in MCDomains \cup MCAddrs |-> IF t \in {d1, d2, a1} THEN b1 ELSE b2]

Nginx == INSTANCE RouteCache WITH
    NginxResolver <- TRUE, MaxTime <- 2, MaxGeneration <- 3

System == INSTANCE RouteCache WITH
    NginxResolver <- FALSE, Outbounds <- MCOutboundsPartial

MCInit == Init /\ system \in BOOLEAN

MCNext ==
    /\ UNCHANGED system
    /\ \/ ~system /\ Nginx!Next
       \/ system /\ System!Next

MCSpec ==
    /\ MCInit /\ [][MCNext]_<<vars, system>>
    /\ \A r \in RefreshIds :
         WF_vars(~system /\ \E addrs \in SUBSET Addrs : Nginx!RefreshAnswer(r, addrs))
=============================================================================
