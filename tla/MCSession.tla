----------------------------- MODULE MCSession -----------------------------
(* Instances of Session for TLC.                                           *)
EXTENDS Session

MCTrojanStreams ==
    {<<"key", "crlf", "connect", "data", "data">>, <<"key", "crlf", "associate", "data">>,
     <<"key", "crlf", "junk">>, <<"key", "junk", "data">>, <<"junk", "crlf", "connect">>,
     <<"line">>, <<"line", "data", "data">>, <<"junk">>, <<"key">>}

MCSocks5Streams ==
    {<<"version", "noauth", c, "data">> : c \in {"connect", "associate", "junk"}}
        \cup {<<"version", "otherauth", "connect">>, <<"version", "junk">>}

MCHttpStreams ==
    {<<"http", h, "data", "data">> : h \in {"head", "otherhead", "junk"}}
        \cup {<<"http">>, <<"junk">>}

MCStreams == MCTrojanStreams \cup MCSocks5Streams \cup MCHttpStreams

MCConfigs ==
    {c \in Config :
        /\ c.trojan \/ c.socks5 \/ c.http
        /\ c.trojan => c.effective /\ ~c.socks5 /\ ~c.http /\ ~c.udp
        /\ ~c.trojan => ~c.fallback
        /\ ~c.socks5 => ~c.udp}

MCOutbounds ==
    {[type |-> "socks5", block |-> "none"], [type |-> "direct", block |-> "all"],
     [type |-> "socks5", block |-> "udp"]}
=============================================================================
