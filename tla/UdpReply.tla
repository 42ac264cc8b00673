------------------------------ MODULE UdpReply ------------------------------
(***************************************************************************)
(* The UDP service of a Trojan session, from the targets to the client:    *)
(* replies are read from the session's sockets and written to the client's *)
(* connection as frames, with one frame set aside when it is full.         *)
(*                                                                         *)
(* The sockets are registered without NGX_CLEAR_EVENT, so that a socket is *)
(* reported as long as something is left in it; the client's connection is *)
(* reported when there is room again after a write that found none.        *)
(* A reply that cannot be parsed or packed is skipped and not counted.     *)
(***************************************************************************)
EXTENDS Naturals, Sequences

CONSTANTS
    Sockets,    \* udp4, udp6, socks5_udp
    Replaced,   \* those closed when an association is replaced: socks5_udp
    Room,       \* frames the client's connection holds
    MaxReplies  \* bound: replies that come

ASSUME ReplyAssumption ==
    Replaced \subseteq Sockets /\ Room \in Nat \ {0} /\ MaxReplies \in Nat

VARIABLES
    arrived,    \* replies that have come (external)
    queue,      \* per socket, the replies in it (external)
    frames,     \* in the client's connection (external)
    pending,    \* udp_pending_to_client: none or one
    blocked,    \* the write event of the client is awaited
    read,       \* history: the replies taken from sockets
    got,        \* history: the frames the client has read
    open        \* the session is not finalized

replyVars == <<arrived, queue, frames, pending, blocked, read, got, open>>

Replies == 1 .. MaxReplies

ReplyInit ==
    /\ arrived = 0
    /\ queue = [s \in Sockets |-> <<>>]
    /\ frames = <<>> /\ pending = <<>> /\ blocked = FALSE
    /\ read = <<>> /\ got = <<>> /\ open = TRUE

Space == Room - Len(frames)

Least(a, b) == IF a < b THEN a ELSE b

\* Fault: the frame set aside is not flushed before the next reply is read.
TakenAnyway(s) == Least(Len(queue[s]), Space + 1)

\* How many replies one run of the handler takes from socket s: it goes on until
\* the socket is empty or flush_udp_client finds no room, and by then one more
\* than fits is set aside.
TakenReplies(s) ==
    IF Space < Len(pending) THEN 0
    ELSE Least(Len(queue[s]), Space - Len(pending) + 1)

\* Fault: a frame is taken for written when the connection is full.
WriteUnchecked(hand) ==
    /\ frames' = frames \o hand
    /\ pending' = <<>>
    /\ blocked' = FALSE

\* What flush_udp_client makes of the frames in hand: those that fit are written.
Write(hand) ==
    LET n == Least(Space, Len(hand)) IN
    /\ frames' = frames \o SubSeq(hand, 1, n)
    /\ pending' = SubSeq(hand, n + 1, Least(n + 1, Len(hand)))
    /\ blocked' = (n < Len(hand))

\* udp_read_handler, socks5_udp_read_handler
ReadSocket(s) ==
    /\ open /\ queue[s] # <<>>
    /\ LET n == TakenReplies(s)
           taken == SubSeq(queue[s], 1, n)
       IN  /\ Write(pending \o taken)
           /\ read' = read \o taken
           /\ queue' = [queue EXCEPT ![s] = SubSeq(@, n + 1, Len(@))]
    /\ UNCHANGED <<arrived, got, open>>

\* Fault: the handler that waits for room does not flush.
WriteEventIdle ==
    /\ open /\ blocked /\ Space > 0
    /\ blocked' = FALSE
    /\ UNCHANGED <<arrived, queue, frames, pending, read, got, open>>

\* udp_client_write_handler
WriteEvent ==
    /\ open /\ blocked /\ Space > 0
    /\ Write(pending)
    /\ UNCHANGED <<arrived, queue, read, got, open>>

\* close_socks5_udp closes the socket with what is in it.
CloseSocket(s) ==
    /\ open /\ s \in Replaced
    /\ queue' = [queue EXCEPT ![s] = <<>>]
    /\ UNCHANGED <<arrived, frames, pending, blocked, read, got, open>>

\* finalize
EndReplies ==
    /\ open /\ open' = FALSE
    /\ queue' = [s \in Sockets |-> <<>>]
    /\ pending' = <<>> /\ blocked' = FALSE
    /\ UNCHANGED <<arrived, frames, read, got>>

\* A target replies; replies are numbered as they come.
ReplyArrives(s) ==
    /\ open /\ arrived < MaxReplies
    /\ arrived' = arrived + 1
    /\ queue' = [queue EXCEPT ![s] = Append(@, arrived')]
    /\ UNCHANGED <<frames, pending, blocked, read, got, open>>

\* The client reads.
Consume ==
    /\ frames # <<>>
    /\ got' = Append(got, Head(frames)) /\ frames' = Tail(frames)
    /\ UNCHANGED <<arrived, queue, pending, blocked, read, open>>

ReplyNext ==
    \/ \E s \in Sockets : ReadSocket(s) \/ CloseSocket(s) \/ ReplyArrives(s)
    \/ WriteEvent \/ EndReplies \/ Consume

ReplySpec == ReplyInit /\ [][ReplyNext]_replyVars

\* The event loop delivers what is ready, and the client reads what it is sent.
FairReplySpec ==
    /\ ReplySpec
    /\ \A s \in Sockets : WF_replyVars(ReadSocket(s))
    /\ WF_replyVars(WriteEvent) /\ WF_replyVars(Consume)

-----------------------------------------------------------------------------
(* Properties. *)

TakenOf(seq) == {seq[i] : i \in DOMAIN seq}

\* The queues, the connection and the frame set aside hold replies within their
\* limits: at most one frame is set aside.
ReplyTypeOK ==
    /\ arrived \in 0 .. MaxReplies
    /\ queue \in [Sockets -> Seq(Replies)]
    /\ frames \in Seq(Replies) /\ Len(frames) <= Room
    /\ pending \in Seq(Replies) /\ Len(pending) <= 1
    /\ read \in Seq(Replies) /\ got \in Seq(Replies)
    /\ blocked \in BOOLEAN /\ open \in BOOLEAN

\* Whichever sockets take turns, what was read from them reaches the client's
\* connection in that order with nothing lost or overwritten on the way.
RepliesInOrder ==
    /\ open => got \o frames \o pending = read
    /\ got \o frames = SubSeq(read, 1, Len(got) + Len(frames))

Waits(r) ==
    r \in TakenOf(read) \ TakenOf(got) \/ \E s \in Sockets : r \in TakenOf(queue[s])

\* A reply in a socket, on the way or set aside does not stay there while the
\* client goes on reading.
RepliesArrive == \A r \in Replies : Waits(r) ~> (~Waits(r) \/ ~open)
=============================================================================
