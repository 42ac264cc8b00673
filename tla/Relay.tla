------------------------------- MODULE Relay -------------------------------
(***************************************************************************)
(* A TCP relay between the client and the upstream:                        *)
(* ngx_stream_mtrojan_process_proxy and process_direction, driven by the   *)
(* events of the two sockets.                                              *)
(*                                                                         *)
(* A byte is a unit and a relay buffer holds one, so the two bounds of     *)
(* relay_should_continue (loops and bytes per wakeup) are the one bound    *)
(* Limit.  Each direction has a source with its kernel receive queue and a *)
(* destination with some room in its kernel send queue.  The event method  *)
(* is edge triggered as nginx uses it: the arrival of data sets an edge,   *)
(* an edge is delivered once, and recv clears `ready` when it runs dry.    *)
(* nginx and the kernel are outside this repository.                       *)
(***************************************************************************)
EXTENDS Integers

CONSTANTS
    Supply,     \* units each source has to send
    Room,       \* units a kernel send queue holds
    Limit,      \* units one wakeup may read from a source
    Initial     \* units of payload saved before the relay (pending_to_upstream)

Directions == {"up", "down"}

ASSUME RelayAssumption ==
    /\ Supply \in Nat /\ Room \in Nat \ {0}
    /\ Limit \in Nat \ {0} /\ Initial \in Nat

VARIABLES
    stage,      \* of the session
    pending,    \* units left in pending_to_upstream
    dir,        \* the two directions
    overtaken   \* history: a client unit was sent before the initial payload

vars == <<stage, pending, dir, overtaken>>

\* supply, queue, fin: what the source has still to send, what waits in its
\* receive queue, whether it has closed its side.  edge, ready, eof: its read
\* event.  buf: the relay buffer.  room, blocked: the destination's send queue
\* and whether the last send ran into EAGAIN, so that room makes a write event.
Direction == [supply : 0 .. Supply, queue : 0 .. Supply, fin : BOOLEAN,
              edge : BOOLEAN, ready : BOOLEAN, eof : BOOLEAN, buf : 0 .. 1,
              room : 0 .. Room, blocked : BOOLEAN]

\* The relay is well typed: buffers and queues within their bounds.
TypeOK ==
    /\ stage \in {"connecting", "relaying", "closed"}
    /\ pending \in 0 .. Initial
    /\ dir \in [Directions -> Direction]
    /\ overtaken \in BOOLEAN

Init ==
    /\ stage = "connecting"
    /\ pending = Initial
    /\ dir = [d \in Directions |->
                [supply |-> Supply, queue |-> 0, fin |-> FALSE, edge |-> FALSE,
                 ready |-> FALSE, eof |-> FALSE, buf |-> 0, room |-> Room,
                 blocked |-> FALSE]]
    /\ overtaken = FALSE

Least(a, b) == IF a < b THEN a ELSE b

-----------------------------------------------------------------------------
(* ngx_stream_mtrojan_process_direction *)

\* The while loop of send: what is buffered goes out, or send says EAGAIN.
Flushed(x) ==
    LET sent == Least(x.buf, x.room) IN
    [x EXCEPT !.buf = @ - sent, !.room = @ - sent, !.blocked = sent < x.buf]

\* Faults: a destination that blocks while reading is not noted; the source's
\* event is taken as used up when the destination blocks.
PumpedUnblocked(x) ==
    LET read == Least(x.queue, Least(Limit, x.room + 1))
        sent == Least(read, x.room)
    IN  [x EXCEPT !.queue = @ - read, !.room = @ - sent, !.buf = read - sent]

PumpedUnready(x) ==
    LET read == Least(x.queue, Least(Limit, x.room + 1))
        sent == Least(read, x.room)
    IN  [x EXCEPT !.queue = @ - read, !.room = @ - sent, !.buf = read - sent,
                  !.blocked = sent < read, !.ready = FALSE,
                  !.eof = x.fin /\ sent = read]

\* Faults: reading goes on though the destination has blocked; the end is taken
\* from the event and not from recv, which still has units to give.
PumpedPastBlock(x) ==
    LET read == Least(x.queue, Limit)
        sent == Least(read, x.room)
    IN  [x EXCEPT !.queue = @ - read, !.room = @ - sent, !.buf = read - sent,
                  !.blocked = sent < read]

PumpedEarlyEnd(x) ==
    LET read == Least(x.queue, Least(Limit, x.room + 1))
        sent == Least(read, x.room)
    IN  [x EXCEPT !.queue = @ - read, !.room = @ - sent, !.buf = read - sent,
                  !.blocked = sent < read, !.eof = x.fin]

\* The reading loop on an empty buffer: units are read one by one and sent on,
\* until the destination blocks, the limit is reached or recv finds nothing,
\* and then either EAGAIN or the end of the stream.
Pumped(x) ==
    LET read == Least(x.queue, Least(Limit, x.room + 1))
        sent == Least(read, x.room)
        y == [x EXCEPT !.queue = @ - read, !.room = @ - sent,
                       !.buf = read - sent, !.blocked = sent < read]
    IN  IF y.blocked \/ read = Limit THEN y
        ELSE [y EXCEPT !.ready = FALSE, !.eof = x.fin]

\* Fault: a wakeup that flushes the buffer does not go on reading.
FlushOnly(x) ==
    LET y == Flushed(x) IN
    IF x.buf > 0 \/ y.blocked \/ y.eof \/ ~y.ready THEN y ELSE Pumped(y)

ProcessDirection(x) ==
    LET y == Flushed(x) IN
    IF y.blocked \/ y.eof \/ ~y.ready THEN y ELSE Pumped(y)

\* The same with no source, for the initial payload.
PendingSent(x) == Least(pending, x.room)

Drained(x) == x.eof /\ x.buf = 0

-----------------------------------------------------------------------------
(* ngx_stream_mtrojan_process_proxy, woken with the events in x.  The kernel *)
(* may have made `freed` units of room between the send of the initial       *)
(* payload and the next one.                                                 *)

ProcessProxy(x, freed) ==
    LET sent == PendingSent(x["up"])
        left == pending - sent
        up0 == [x["up"] EXCEPT !.room = @ - sent + freed,
                               !.blocked = IF pending > 0 THEN left > 0 ELSE @]
        up1 == ProcessDirection(up0)
        down1 == ProcessDirection(x["down"])
        moved == up1.queue + up1.buf # up0.queue + up0.buf
    IN  /\ pending' = left
        /\ dir' = [d \in Directions |->
                     IF d = "up"
                     THEN [up1 EXCEPT !.blocked = @ \/ left > 0] ELSE down1]
        /\ overtaken' = (overtaken \/ (left > 0 /\ moved))
        /\ stage' = IF Drained(up1) /\ Drained(down1) THEN "closed" ELSE "relaying"

\* Room can appear only where the kernel holds data the peer has not read.
CanFree(freed) ==
    freed + dir["up"].room <= Room /\ (freed = 0 \/ pending > dir["up"].room)

Woken(x) == \E freed \in 0 .. Room : CanFree(freed) /\ ProcessProxy(x, freed)

\* ngx_stream_mtrojan_init_proxy: the relay starts with a pass of its own.
Connected ==
    /\ stage = "connecting"
    /\ Woken(dir)

\* A read event of the client before that is noted by nginx and goes unhandled
\* (read_client has no case for the connecting state).
EarlyReadable ==
    /\ stage = "connecting" /\ dir["up"].edge
    /\ dir' = [dir EXCEPT !["up"].edge = FALSE, !["up"].ready = TRUE]
    /\ UNCHANGED <<stage, pending, overtaken>>

\* A read event: ngx_stream_mtrojan_read_client or _peer_handler.
Readable(d) ==
    /\ stage = "relaying" /\ dir[d].edge
    /\ Woken([dir EXCEPT ![d].edge = FALSE, ![d].ready = TRUE])

\* A write event of the destination, which was blocked and has room again.
Writable(d) ==
    /\ stage = "relaying" /\ dir[d].blocked /\ dir[d].room > 0
    /\ Woken(dir)

-----------------------------------------------------------------------------
(* The two peers and the kernel (external). *)

Arrive(d) ==
    /\ dir[d].supply > 0
    /\ dir' = [dir EXCEPT ![d].supply = @ - 1, ![d].queue = @ + 1, ![d].edge = TRUE]
    /\ UNCHANGED <<stage, pending, overtaken>>

ShutDown(d) ==
    /\ dir[d].supply = 0 /\ ~dir[d].fin
    /\ dir' = [dir EXCEPT ![d].fin = TRUE, ![d].edge = TRUE]
    /\ UNCHANGED <<stage, pending, overtaken>>

Consume(d) ==
    /\ dir[d].room < Room
    /\ dir' = [dir EXCEPT ![d].room = @ + 1]
    /\ UNCHANGED <<stage, pending, overtaken>>

\* Nothing is left to happen.
Quiescent ==
    /\ \A d \in Directions :
         /\ dir[d].supply = 0 /\ dir[d].fin /\ dir[d].room = Room
         /\ stage = "closed" \/ (stage = "relaying" /\ ~dir[d].edge /\ ~dir[d].blocked)
    /\ UNCHANGED vars

Next ==
    \/ Connected \/ EarlyReadable
    \/ \E d \in Directions :
        Readable(d) \/ Writable(d) \/ Arrive(d) \/ ShutDown(d) \/ Consume(d)

\* Spec allows the system to rest where nothing is left to happen.
Spec == Init /\ [][Next \/ Quiescent]_vars

\* Both peers send what they have, close, and read what they are sent; the event
\* loop delivers the events it has.
FairSpec ==
    /\ Spec
    /\ WF_vars(Connected)
    /\ \A d \in Directions :
         /\ WF_vars(Arrive(d)) /\ WF_vars(ShutDown(d)) /\ WF_vars(Consume(d))
         /\ WF_vars(Readable(d)) /\ WF_vars(Writable(d))

-----------------------------------------------------------------------------
(* Properties. *)

\* A blocked relay can be woken: where units are stuck in a buffer the write
\* event of the destination is pending on room, and an unread queue leaves an
\* edge to come or an event already taken as ready.
StuckUnitsWaitForRoom ==
    stage = "relaying" =>
        /\ \A d \in Directions : (dir[d].buf > 0) => dir[d].blocked
        /\ (pending > 0) => dir["up"].blocked

UnreadIsSignalled ==
    stage # "closed" =>
        \A d \in Directions : (dir[d].queue > 0) => dir[d].edge \/ dir[d].ready

\* An orderly end loses nothing: the relay closes a session only when all that
\* its peers sent was sent on.
CloseLosesNothing ==
    stage = "closed" =>
        /\ pending = 0
        /\ \A d \in Directions :
             dir[d].supply = 0 /\ dir[d].queue = 0 /\ dir[d].buf = 0

\* The initial payload reaches the upstream before anything that follows it.
InitialPayloadFirst == ~overtaken

\* TCP relay: all that two live peers send to each other arrives, and the
\* session ends.
RelayCompletes == <>(stage = "closed")
=============================================================================
