----------------------------- MODULE MCUdpRoute -----------------------------
(* Instances of UdpRoute and of UdpReply for TLC: the two ways of the UDP   *)
(* service, each on its own.  They share the udp_payload buffer, which      *)
(* UdpRoute models as Datagram.intact, and nothing else.  Replies come to a  *)
(* session that is serving its client.                                      *)
EXTENDS UdpRoute, UdpReply

CONSTANTS udp4, socks5_udp

VARIABLE replies    \* does not change: replies are modelled, not requests

mcVars == <<udpVars, replies, replyVars>>

CONSTANTS d1, a1, a2, a3

Domains1 == {d1}
Addrs3 == {a1, a2, a3}

\* 1 and 2 are chosen by address, 3 has rules for names that do not occur here:
\* d1 can be routed to 1, to 2 or not at all, a3 only not at all.
ByAddress ==
    << [all |-> FALSE, domains |-> {}, ips |-> {a1}],
       [all |-> FALSE, domains |-> {}, ips |-> {a2}],
       [all |-> FALSE, domains |-> {}, ips |-> {}] >>

OneSlot == {1}

Conf(local, nginx, atOnce, own, socks5, blocking) ==
    [local |-> local, nginx |-> nginx, atOnce |-> atOnce, own |-> own,
     socks5 |-> socks5, blocked |-> blocking]

\* Two SOCKS5 servers that replace each other, under a session with an outbound of
\* its own or with none; a SOCKS5 server as a session's own outbound, for a Trojan
\* and a local client; the nginx resolver, late or at once; a blocked outbound.
MCConfigs ==
    {Conf(FALSE, FALSE, FALSE, 3, {1, 2}, {}),
     Conf(FALSE, FALSE, FALSE, NoOutbound, {1}, {2}),
     Conf(FALSE, FALSE, FALSE, 1, {1}, {2}),
     Conf(FALSE, TRUE, FALSE, 3, {1}, {}),
     Conf(FALSE, TRUE, TRUE, 3, {1}, {2}),
     Conf(TRUE, TRUE, FALSE, 1, {1}, {2})}

MCInit ==
    /\ Init /\ ReplyInit
    /\ replies \in BOOLEAN
    /\ replies => conf = Conf(FALSE, FALSE, FALSE, 3, {1, 2}, {})

\* One way is modelled, the other stands still.
OnlyRequests == ~replies /\ UNCHANGED <<replies, replyVars>>
OnlyReplies == replies /\ UNCHANGED <<replies, udpVars>>

MCNext ==
    \/ OnlyRequests /\ Next
    \/ OnlyReplies /\ ReplyNext

\* FairSpec of UdpRoute and FairReplySpec of UdpReply, each for its way.
MCSpec ==
    /\ MCInit /\ [][MCNext]_mcVars
    /\ WF_mcVars(OnlyRequests /\ Answer)
    /\ WF_mcVars(OnlyRequests /\ ConnectTimeout)
    /\ \A s \in Sockets : WF_mcVars(OnlyReplies /\ ReadSocket(s))
    /\ WF_mcVars(OnlyReplies /\ WriteEvent)
    /\ WF_mcVars(OnlyReplies /\ Consume)
=============================================================================
