----------------------------- MODULE RouteDrain -----------------------------
(***************************************************************************)
(* TCP sessions and the route entry they were routed by, under             *)
(* `route_resolve lazy` with `route_drain fast`: a relay is listed on its  *)
(* entry; when the entry's outbound changes the relay becomes stale, its   *)
(* client read timer is cut to the drain time, and it is closed once idle. *)
(*                                                                         *)
(* Time is counted in drain times of one second: quiet and timer values    *)
(* are distances from the present, capped where the code no longer tells   *)
(* them apart.  A timer at zero fires before time passes again.            *)
(***************************************************************************)
EXTENDS RouteSlots

CONSTANTS
    Conns,          \* TCP sessions
    ClientTimeout   \* trojan_timeout, in drain times

Drain == 1          \* NGX_STREAM_MTROJAN_ROUTE_DRAIN_TIMEOUT
NoTimer == ClientTimeout + 1

ASSUME DrainAssumption ==
    /\ ClientTimeout \in Nat /\ ClientTimeout > Drain
    /\ None \notin Slots

VARIABLE conn       \* the session contexts

drainVars == <<slot, conn>>

\* What route_track_tcp and its companions keep in the session context.
\* quiet is the age of route_last_active; silence, relayFor and closedBy record
\* the history of the relay (true time since a byte moved, time since it
\* started, what ended it) for the properties.
Conn == [stage : {"idle", "connecting", "relaying", "closed"},
         outbound : OutboundIds \cup {NoOutbound},
         entry : Slots \cup {None},
         tracked : OutboundIds \cup {NoOutbound},
         linked : BOOLEAN, stale : BOOLEAN, busy : BOOLEAN,
         quiet : 0 .. Drain, timer : 0 .. NoTimer,
         silence : 0 .. Drain, relayFor : 0 .. ClientTimeout,
         closedBy : {"none", "drain", "timeout", "end"}]

NewConn == [stage |-> "idle", outbound |-> NoOutbound, entry |-> None,
            tracked |-> NoOutbound, linked |-> FALSE, stale |-> FALSE,
            busy |-> FALSE, quiet |-> 0, timer |-> NoTimer, silence |-> 0,
            relayFor |-> 0, closedBy |-> "none"]

Init == SlotsInit /\ conn = [c \in Conns |-> NewConn]

-----------------------------------------------------------------------------
(* Operators on one session. *)

\* ngx_stream_mtrojan_route_untrack_tcp, and what route_cache_unlink_active
\* does to each session on the entry's list.
Untracked(x) ==
    IF x.linked
    THEN [x EXCEPT !.linked = FALSE, !.stale = FALSE, !.entry = None,
                   !.tracked = NoOutbound]
    ELSE x

\* Fault: a session is closed without leaving its entry's list.
ClosedListed(x, why) ==
    [x EXCEPT !.stage = "closed", !.timer = NoTimer, !.closedBy = why]

\* ngx_stream_mtrojan_finalize
Closed(x, why) ==
    [Untracked(x) EXCEPT !.stage = "closed", !.timer = NoTimer, !.closedBy = why]

\* ngx_stream_mtrojan_route_track_tcp
Tracked(x) ==
    IF x.entry = None \/ x.outbound = NoOutbound THEN x
    ELSE IF ~slot[x.entry].ttl THEN x
    ELSE [x EXCEPT !.tracked = x.outbound, !.linked = TRUE, !.stale = FALSE,
                   !.quiet = 0]

\* Fault: the drain time is counted from the last activity, and underflows.
MarkedFromActivity(x, old) ==
    IF x.tracked = old
    THEN [x EXCEPT !.stale = TRUE, !.timer = Drain - 1 - x.quiet] ELSE x

\* ngx_stream_mtrojan_route_mark_stale, for a session on the entry's list.
Marked(x, old) ==
    IF x.tracked = old
    THEN [x EXCEPT !.stale = TRUE, !.quiet = 0, !.timer = Drain]
    ELSE x

\* Fault: bytes waiting in a buffer do not count as activity.
CheckedUnbuffered(x) ==
    IF x.linked /\ x.stale /\ x.quiet >= Drain THEN Closed(x, "drain") ELSE x

\* ngx_stream_mtrojan_route_check_tcp_stale
Checked(x) ==
    IF ~x.linked \/ ~x.stale THEN x
    ELSE IF x.busy THEN [x EXCEPT !.quiet = 0]
    ELSE IF x.quiet >= Drain THEN Closed(x, "drain")
    ELSE x

\* ngx_stream_mtrojan_route_touch_tcp, as bytes move.
Touched(x) == [x EXCEPT !.quiet = IF x.linked THEN 0 ELSE @, !.silence = 0]

ListedOn(k) == {c \in Conns : conn[c].linked /\ conn[c].entry = k}

-----------------------------------------------------------------------------
(* Steps of the cache. *)

Evict(k, t, o, ttl) ==
    /\ Reassign(k, t, o, ttl)
    /\ conn' = [c \in Conns |->
                  IF c \in ListedOn(k) THEN Untracked(conn[c]) ELSE conn[c]]

Revise(k, o, ttl) ==
    /\ Redecide(k, o, ttl)
    /\ conn' = [c \in Conns |->
                  IF c \in ListedOn(k) /\ o # slot[k].outbound
                  THEN Marked(conn[c], slot[k].outbound) ELSE conn[c]]

(* Steps of a session. *)

Step(c, x) == conn' = [conn EXCEPT ![c] = x] /\ UNCHANGED slot

\* ngx_stream_mtrojan_select_outbound leaves the decision and the entry it came
\* from in the context, and the session connects.  Without a cache hit or
\* insert (no rule applies, getaddrinfo failed) there is no entry.
Decide(c, k) ==
    /\ conn[c].stage = "idle"
    /\ slot[k].target # None
    /\ Step(c, [conn[c] EXCEPT !.stage = "connecting", !.entry = k,
                               !.outbound = slot[k].outbound])

DecideUncached(c) ==
    /\ conn[c].stage = "idle"
    /\ Step(c, [conn[c] EXCEPT !.stage = "connecting"])

\* ngx_stream_mtrojan_init_proxy, after connect or the SOCKS5 handshake.
StartRelay(c) ==
    /\ conn[c].stage = "connecting"
    /\ Step(c, [Tracked(conn[c]) EXCEPT !.stage = "relaying",
                  !.timer = ClientTimeout, !.silence = 0, !.relayFor = 0])

\* ngx_stream_mtrojan_process_proxy: bytes move, and may be left in a buffer.
Relay(c, busy) ==
    /\ conn[c].stage = "relaying"
    /\ Step(c, Checked([Touched(conn[c]) EXCEPT !.busy = busy]))

\* The same handler woken by an event that moves no byte.
Wakeup(c) ==
    /\ conn[c].stage = "relaying"
    /\ Step(c, Checked(conn[c]))

\* Fault: the drain timer is not armed again for a relay that is still in use.
ClientTimerOnce(c) ==
    /\ conn[c].stage = "relaying"
    /\ conn[c].timer = 0
    /\ LET x == Checked(conn[c]) IN
       Step(c, IF ~conn[c].stale THEN Closed(conn[c], "timeout")
               ELSE IF x.stage = "closed" THEN x
               ELSE [x EXCEPT !.timer = NoTimer])

\* ngx_stream_mtrojan_read_client with ev->timedout.
ClientTimer(c) ==
    /\ conn[c].stage = "relaying"
    /\ conn[c].timer = 0
    /\ LET x == Checked(conn[c]) IN
       Step(c, IF ~conn[c].stale THEN Closed(conn[c], "timeout")
               ELSE IF x.stage = "closed" THEN x
               ELSE [x EXCEPT !.timer = Drain])

\* Both ends are done, an error, or the upstream timer.
End(c) ==
    /\ conn[c].stage \in {"connecting", "relaying"}
    /\ Step(c, Closed(conn[c], "end"))

Cap(n, top) == IF n < top THEN n + 1 ELSE n

Tick ==
    /\ \A c \in Conns : conn[c].timer # 0
    /\ conn' = [c \in Conns |->
         IF conn[c].stage # "relaying" THEN conn[c]
         ELSE [conn[c] EXCEPT !.quiet = Cap(@, Drain),
                              !.silence = Cap(@, Drain),
                              !.relayFor = Cap(@, ClientTimeout),
                              !.timer = IF @ = NoTimer THEN @ ELSE @ - 1]]
    /\ UNCHANGED slot

CacheStep ==
    \E k \in Slots, o \in OutboundIds, ttl \in BOOLEAN :
        \/ \E t \in Targets : Evict(k, t, o, ttl)
        \/ Revise(k, o, ttl)

Next ==
    \/ CacheStep
    \/ \E c \in Conns :
         \/ \E k \in Slots : Decide(c, k)
         \/ DecideUncached(c) \/ StartRelay(c)
         \/ \E busy \in BOOLEAN : Relay(c, busy)
         \/ Wakeup(c) \/ ClientTimer(c) \/ End(c)
    \/ Tick

Spec == Init /\ [][Next]_drainVars

\* Time passes, and the event loop runs the timers that are due each time
\* round.  A cache step in the same round can arm the timer anew before it is
\* run, so the timer need not stay due; being due again and again is enough.
FairSpec ==
    /\ Spec
    /\ WF_drainVars(Tick)
    /\ \A c \in Conns : SF_drainVars(ClientTimer(c))

-----------------------------------------------------------------------------
(* Properties. *)

\* The slots and the session contexts are well typed, timers within bounds.
TypeOK == SlotsTypeOK /\ conn \in [Conns -> Conn]

\* The list of an entry and the session contexts agree: a listed session is a
\* relay that goes out through the outbound it is tracked for, only listed
\* sessions are stale, and a stale one is looked at within the drain time.
Consistent(x) ==
    /\ x.linked => /\ x.stage = "relaying"
                   /\ x.entry \in Slots
                   /\ x.tracked = x.outbound
    /\ x.stale => x.linked /\ x.timer <= Drain

TrackingConsistent == \A c \in Conns : Consistent(conn[c])

\* Draining never cuts a relay in use: it closes a session only when nothing is
\* buffered and no byte has moved for the drain time.
DrainSparesActive ==
    [][\A c \in Conns :
         conn'[c].closedBy = "drain" /\ conn[c].closedBy # "drain"
            => ~conn[c].busy /\ conn[c].silence >= Drain]_drainVars

\* A relay that left its route behind does not outlive it for good: once stale
\* it keeps moving bytes, or is closed, or its entry is evicted.
StaleRelayEnds ==
    \A c \in Conns :
        conn[c].stale /\ ~conn[c].busy
            ~> (~conn[c].stale \/ conn[c].busy \/ conn[c].silence = 0)

\* trojan_timeout: the client timer ends a relay no earlier than the configured
\* time after it started.
TimeoutAsConfigured ==
    [][\A c \in Conns :
         conn'[c].closedBy = "timeout" /\ conn[c].closedBy # "timeout"
            => conn[c].relayFor >= ClientTimeout]_drainVars
=============================================================================
