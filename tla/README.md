# A TLA+ model of ngx_stream_mtrojan_module

These modules model the parts of `ngx_stream_mtrojan_module` whose correctness
depends on the order of events (sessions, routing and its cache, background
refreshes, draining of relays whose route changed, the relays themselves, the
reading of messages that arrive in pieces) and the algorithms they rest on (the
configuration, the compiled routing rules, the parsers). TLC checks them on small
instances; TLAPS proves the invariants of the cache, of draining, of relays, of
sessions, of UDP routing and replies, of the domain tables and of the configuration for
every size, and that the cache implements its two abstractions.

Line numbers below are of `ngx_stream_mtrojan_module.c` unless a file is named.

## The system

An nginx worker runs the module in one event loop. A handler runs to its end;
everything that interleaves does so between handlers, except that the nginx
resolver may call its handler back *inside* `ngx_resolve_name`. Per server block
there is one route cache per worker, shared by all sessions; a session context
(`ctx`) belongs to one client connection and dies with its pool in
`ngx_stream_mtrojan_finalize`.

| Component | State | Operations | Hard because |
|---|---|---|---|
| Route selection (3188-3332) | none; outbounds and compiled rules | ordered walk over the outbounds, with or without resolved addresses | the walk stops early to ask for an address, and its decision then has a time to live or not |
| Route cache (5825-6072) | slots, hash chains, LRU queue, generation counter | lookup, insert, update, evict | three linked structures over one array; entries are reused in place while sessions and refreshes hold pointers to them |
| Background refresh (3663-3813) | a context per refresh in flight, the entry's `refreshing` flag | start, answer, failure | the answer arrives any time later, when the slot may hold another target; the resolver may answer at once |
| Route drain, TCP (6109-6257, 878-893) | per entry a list of relays; per session `route_linked`, `route_stale`, `route_last_active`, the read timer | track, untrack, mark stale, touch, check | four pieces of code change the lists; one timer serves two purposes |
| UDP relay, UDP route mappings (4763-5181, 6260-6429) | per session a mapping table, one pending datagram, the swapped outbound | route, resolve, send, expire | the session's outbound is swapped for each datagram and restored across callbacks |
| TCP relay (4054-4319) | two buffers, `pending_to_upstream`, the events of two sockets | flush, read and send on, end | edge-triggered events, a bound on the work of a wakeup, three buffers that end in two sockets |
| Session (819-2150, 2245-2852) | `state`, buffers, command, outbound, resolver request, timer | read and parse each phase, reply, route, resolve, connect, upstream SOCKS5 handshake, finalize | one long chain of calls that can stop at any read, write, resolver call or connect and go on from another event |
| Local SOCKS5 and HTTP CONNECT proxies (963-1583, 1812-1886) | as the session | classify, greet, answer, request | confirms a request before it connects |
| Rules and matchers (`rules.c`) | compiled once | compile, match by perfect hash and by sorted prefixes | a fast matcher beside a plain one; a search that may fail |
| Wire formats (`trojan.c`, `socks5_protocol.c`, `http_proxy_protocol.c`) and their readers (963-1522, 1619-1792, 2605-2920, 4763-4819) | the buffers of a session | parse, build, read until complete | lengths and partial input, buffers used again, bytes of what follows |
| Configuration (5411-5822, 6862-7607) | server blocks | directives, merge, compile, bind, checks | which group an outbound means, which block a local proxy works for |

What makes each correct: a cache that never routes a target by another one's
decision and never loses or doubles an entry; refreshes that end and write only
where they belong; draining that ends idle relays on an old route and no relay in
use; a relay that delivers everything in order, always has a wakeup to come, and
ends; sessions that dial only what was admitted, answer once, keep every byte
read ahead, and never wait for an answer without a bound; compiled rules that mean
what was written; messages understood however the network cuts them.

## Modules

| Module | Models | Uses |
|---|---|---|
| `RouteSelect` | the rule walk, as operators | |
| `RouteTable` | abstract: the cache as an LRU table of allowed routes | `RouteSelect` |
| `RouteSlots` | abstract: the cache as holders of entry pointers see it | `RouteSelect` |
| `RouteCache` | the cache, resolver answers and refreshes; implements both abstractions | `RouteSelect` |
| `RouteCacheProofs` | proofs about `RouteCache`, and that it implements `RouteTable` and `RouteSlots` | |
| `RouteDrain` | relays on entries, draining, the client timer; built on `RouteSlots` | `RouteSlots` |
| `RouteDrainProofs` | proofs about `RouteDrain` | |
| `Relay` | the TCP relay, with its sockets | |
| `RelayProofs` | proofs about `Relay` | |
| `Session` | one session from accept to the relay | |
| `SessionProofs` | proofs about `Session` | |
| `UdpRoute` | the UDP service, client to targets: routing of datagrams, mappings on the cache's entries, SOCKS5 associations | `RouteSlots` |
| `UdpReply` | the UDP service, targets to client | |
| `UdpRouteProofs` | proofs about `UdpRoute` and `UdpReply` | |
| `Rules` | domain and address rules: what they mean, what groups are compiled into, how those answer | |
| `DomainMph` | the construction of a table of domain keys | |
| `Config` | from the configuration file to bound outbounds and local proxies | `Rules`, `RouteSelect` |
| `ConfigProofs` | proofs about `Rules`, `DomainMph` and `Config` | |
| `Wire` | parsers and builders of Trojan, SOCKS5 and HTTP messages, as operators | |
| `Framing` | reading the streams of a client and of a SOCKS5 server in pieces | `Wire` |
| `Cuts` | two readers of one stream, compared | `Framing` |
| `FramingProofs` | proofs about `Wire`, `Framing` and `Cuts` | |
| `PeersProofs` | proof that peers that keep to the protocol are understood | |
| `MC*` | instances for TLC; two components in one state space where they do not touch (`MCUdpRoute`, `MCConfig`) | |

A definition carries the name of the function it stands for where one function
has one definition, and a comment naming the function where it does not.
Definitions whose comment starts with **Fault:** are not part of a model. Each is
a plausible mistake in the definition below it (a dropped test, a missing reset,
the wrong end of a queue) with the same parameters; putting it in the place of
that definition makes TLC report the property it is meant for, which shows that
the property can fail. `PROJECT.json` pairs them.

### RouteSelect
An outbound is reduced to the domains and addresses its rules match and whether it
matches all. `SelectOutboundNow` is `select_outbound_now` including `ttl_cache`
and `needs_resolve`. `Selectable(t)` is the set of outbounds some answer of the
resolver can select for `t`; the abstract modules use it to say which routes are
allowed.

### RouteCache
`entries`, `chain`, `lru`, `nextFree`, `generation` are the fields of
`route_cache_t`; a chain or the queue is a sequence of slots where the code has
linked entries. `asking` holds the `resolve_route` requests of sessions (a UDP
frame asks the same way), `refreshes` the `route_refresh_t` contexts in flight.
An action is one call of `select_outbound` (`RequestFresh`, `RequestStale`,
`RequestStatic`, `RequestSystem`, `StartRefresh`, `Ask`, and `RefreshAtOnce` and
`AskAtOnce` where the resolver calls back at once), one call of a resolver handler
(`RouteAnswer`, `RefreshAnswer`), or a tick of `ngx_time()`. Sessions that share
the cache interleave between actions. `RequestStale` may also be taken where a
refresh could start: `start_refresh` gives up silently when an allocation or the
resolver fails.

### RouteDrain
Time is counted in drain times (one second, `ROUTE_DRAIN_TIMEOUT`); `quiet` is
`ngx_current_msec - route_last_active` up to one drain time, `timer` what is left
of the client's read timer. `Evict` is an insert that reuses a slot
(`route_cache_unlink_active`), `Revise` an update (`route_mark_stale`); both are
steps of `RouteSlots`, which `RouteCache` implements, so the composition holds
for the real cache. `silence`, `relayFor` and `closedBy` only record history.

### Relay
A unit is a byte and a buffer holds one. `edge`, `ready` and `eof` are the read
event of the source as nginx keeps it under epoll; `room` and `blocked` are the
destination's send queue and whether a write event is due. `ProcessProxy` is one
pass of `process_proxy`. The kernel and the peers are external: `Arrive`,
`ShutDown`, `Consume`.

### Session
Each function of the chain is an operator from a context to the *set* of contexts
it can leave behind: a reply may be sent or blocked, a resolver may answer now or
later, a connection may succeed, fail or be in progress. That mirrors the code,
where `process_prefix` calls `process_request`, which calls `select_outbound`, and
so on until something would block. An action picks one element for each event:
`Accept`, `ClientEvent`, `PeerConnected`, `Socks5Event`, `PeerTimeout`,
`ResolverAnswer`. A client's bytes are units with a meaning, and `taken` counts
those read, so any split of the input over reads is covered. `told` and `dialled`
record what the client was told and what was connected to. What a service does
after `proxy`, `udp` or `socks5_in_udp_control` is in `Relay` and `UdpRoute`.

### UdpRoute
One session in the states `udp` or `socks5_in_udp_control`, with routing on. `in`
holds datagrams that wait to be read: in the stream of a Trojan client, read one
after another by `process_udp_client`, or in the socket of a local SOCKS5 client,
which is read in any state. Each `Frame...` action is one call of
`send_udp_frame`, named for the way the route is found: a mapping, the cache, an
expired entry refreshed at once, the rules or `getaddrinfo`, no rule, the resolver.
What follows the decision is in `Route`: `udp_frame_blocked`,
`send_udp_frame_routed` and putting `ctx->outbound` back. `RouteAnswered` is the
same for `resolve_handler`, which differs. `Associated` is the end of
`process_socks5`. When the resolver answers inside the call, a Trojan client's
datagrams are read by a nested `process_udp_client`, and `unwind` is what the
outermost caller puts back at the end (`Settled`); nothing else runs meanwhile.

Mappings are the hash table as one set, with the hash and the order in a bucket left
open: a lookup finds the live mapping of its target if there is one, and removes any of
the dead ones, those it passes on its way being a choice. A mapping's `entry` and `linked` are its place on the list of an
entry of the shared cache. `Evict` and `Revise` are what other sessions do to the
cache; the session's own writes use the same steps of `RouteSlots`. Time is in drain
times. `leaked` counts connections that `close_socks5_udp` left open in their
handshake: the handlers of such a connection still act on the session
(`LeakedEvent`, `LeakedTimeout`). `sent` records the datagram a step sent.

Left out: the handshake's messages, one event standing for those that complete it;
refreshes that change nothing; `route_enabled` off.

### UdpReply
Replies are numbered as they arrive. `ReadSocket` is one run of a read handler,
which takes replies until its socket is empty or the client's connection is full:
then one frame is set aside in `udp_pending_to_client`. The sockets are registered
with `ngx_handle_read_event(rev, 0)`, so that they are level-triggered and no wakeup
is lost; the price is that a handler runs in vain while the client is full.

### Rules and DomainMph
`DomainMatch` and `IpMatch` are the meaning of one rule, the functions the code uses
before a group is compiled; `Compiled`, `MatchDomain` and `MatchIp` the compiled
group. A table of domain keys is a function from keys to flags in `Rules`;
`DomainMph` builds it as the code does, bucket after bucket, with the hash as any
function of keys and seeds. Sorting brings equal keys together, so that a table has
each key once with its flags merged. An address is a sequence of words of bits, one word
of 32 for IPv4 and 16 bytes for IPv6, so that one definition stands for the two of the
code wherever these differ only in the width of what they compare. An array of address
rules is the sorted sequence of the addresses of one prefix length, and `Search` the
binary search in it.

### Config
One action per step of `postconfiguration`, after `Read`, which stands for the
directives and the merge. A configuration is what is written after inheritance: groups
outside and inside the blocks, outbounds, listens, names. `Resolvers` says which
resolvers a block can end with: a nameserver in `resolv.conf` that
`ngx_resolver_create` refuses refuses the configuration, an unreadable file falls back to
`getaddrinfo`. `RoutesAsWritten` puts the compiled and bound groups into `RouteSelect`
and compares its walk with that over the rules as written. Three things a reader of a
configuration may not expect hold in the model as in the code: an outbound whose tag
no group has never matches and nothing is logged; a reference to a Trojan block
counts addresses (5612), so that a block listening at two addresses of the port is
"multiple", which is a warning only, and the proxy answers every request with a failure;
and a name that begins with a dot is matched by a suffix rule for the rest when the
group is compiled, and not by `rule_domain_match`, so that such names are left out of the
property.

### Wire and Framing
`Wire` has one operator per parser and builder; bytes are numbers, and a reader of a
stream answers "ok", "more" or "bad" with the bytes it needs. `Framing` is the loop
around them: an action is one `recv` and all that is done before the next one, for
a Trojan client (prefix, request, UDP frames), a local client (classify, then SOCKS5 or
HTTP) and the answers of an upstream SOCKS5 server. `Wanted` is what the `recv` asks for,
`Fed` what follows. `Session` has the same phases with units for bytes; there the
order of the phases, replies and connections matter, here the bytes. A script carries what
its peer means, and `KeepsToProtocol` says which streams are the ones that mean it: a key of
the block, a command and frames; a greeting and a request of SOCKS5; a CONNECT head up to its
first empty line; the answers of a SOCKS5 server. Some of what the model shows is easily
overlooked in the code: `looks_like_http` decides on one byte, since classify reads one; a
short request line of another method is answered 400 and not 405, its length being
tested first; a wrong UDP frame is refused only when the buffer is full.

## Runs

| Run | Shows | Bounds |
|---|---|---|
| `cache` | index and refresh invariants; refreshes end; `RouteCache` implements `RouteTable` and `RouteSlots` | 2 slots, 4 targets (2 domains, 2 addresses) on 2 chains, 3 outbounds, 2 sessions, 2 refreshes, clock to 2, generation to 3; the same with `getaddrinfo` |
| `drain` | lists and contexts agree, draining spares relays in use, stale relays end or are used | 2 sessions, 1 slot, 3 targets, 2 outbounds, timeout of 2 drain times |
| `relay` | wakeups, nothing lost, completion | 2 units each way, queue of 1, bursts below the limit, 1 unit of initial payload |
| `session` | the properties of `Session` | 18 client inputs, every server block that can be configured, direct, blocked, UDP-blocked and SOCKS5 outbounds |
| `udp` | datagrams leave by their own routes, mappings agree with entries, the outbound is put back, connect timers stop, waits end; replies in order and delivered | 6 configurations (`MCConfigs`): Trojan and local clients, both resolvers, late and at once, one and two SOCKS5 servers, also as the session's own outbound, a blocked outbound, no outbound; 1 slot, 2 targets sent to among 4, 2 datagrams waiting, 1 abandoned connection; for replies 2 sockets, 4 replies, room for 1 frame |
| `config` | targets go where the rules say, local proxies are served by the block they mean, tables find exactly their keys | about 400 configurations (`MCConfs`); names of up to 4 characters of `a`, `A` and the dot, addresses of 3 bits and of 2 bytes of 2 bits; tables of up to 5 keys, every hash of the first seed, two of the second |
| `framing` | messages read as written, cuts without effect, peers understood | `MCScripts`: openings of every kind with addresses of the real sizes, the longest included, each byte of the short ones changed and each cut off; pieces of 1, 2, 3, 7 or all bytes; each stream read twice, first by a reader that gets all it asks for, so that the two can be compared; keys of 3 bytes, a SOCKS5 buffer as long as the longest message, a UDP buffer of a longest address and 5 bytes |
| `drain_timeout`, `relay_burst`, `relay_initial`, `session_fallback`, `udp_payload` | disagreements, see below | as their passing counterparts |

Why these are enough: two slots and three targets per chain make every eviction,
reuse and collision case of an LRU cache of any size; two refreshes are one stale
and one current for the same slot; a generation of 3 lets an entry be filled,
evicted or updated, and filled again while a refresh waits. One slot suffices for
`drain` because sessions on different entries do not interact. A relay of one unit
per buffer with a queue of one reaches every combination of empty, stuck and
blocked. A session's datagrams meet in the set of its mappings and one entry of the
cache, so one slot and targets that share it reach every eviction; two SOCKS5
outbounds make every replacement of an association. The invariants of the cache, of
draining, of relays, of sessions, of UDP routing, of replies, of the configuration and of
reading streams, and the refinements, are proved for all sizes and inputs, so their bounds matter only to
liveness. In `config` a byte of an IPv6 mask has two bits, so that every
case of a partial byte is there, and a name of four characters holds two labels, an
empty one or a trailing dot; a table of four or five keys has two buckets and two
sizes. In `framing` no message is shorter than the room it may need, and the lengths of
addresses are the real ones, so that every off-by-one at a buffer's end is in reach.

`CHECK_DEADLOCK` is off where the system may stop: the cache at its bounds of
clock and generation, a closed session or UDP service, a configuration that is ready
or refused, and a stream that is read.

### Fairness
- `RouteCache`: the resolver calls every handler back, at the latest with a
  timeout (`rctx->timeout` is always set, 3734, 2220).
- `RouteDrain`: time passes, and due timers run. `Tick` waits for due timers, as
  nginx runs expired timers each time round. The client timer has strong fairness
  because a cache step of the same round may arm it anew before it runs.
- `Relay`: both peers send what they have, close and read; the loop delivers events.
- `UdpRoute`: the resolver answers, and connect timers run. That a handshake succeeds
  is not assumed. `WaitingEnds` then covers every way a session can be kept from its
  client: a datagram that waits, a name that is asked for, and the handshake with a
  SOCKS5 server, the one for the session's own outbound, in which it begins, included. A
  local session whose resolver could not be started keeps the state `resolving` without
  a request (2223, 2237); that is no wait, as `socks5_in_udp_read_handler` (6682) and the
  control handler do not look at the state.
- `UdpReply`: the loop delivers events and the client reads.
- `Config`, `DomainMph` and `Framing` state no liveness: they are sequential, and what
  must be reached is stated of their last states.
- `Session`: due timers run and the resolver answers. Nothing is assumed of the
  client or of upstream servers.

### Disagreements with the documentation
- `drain_timeout`: `unlink_active` (6092) clears `route_stale` and leaves the drain
  timer, which then ends a relay in use after a second in place of `trojan_timeout`.
- `relay_burst`: the bound on one wakeup (4285) leaves data unread that no edge
  announces any more. Level-triggered event methods are not affected.
- `relay_initial`: `pending_to_upstream` sent in part is overtaken (4194). In the same
  situation the end of a relay does not look at it (4223): `CloseLosesNothing`, which
  `relay` checks with an initial payload that fits, fails with `Initial = 2`.
- `session_fallback`: input shorter than a prefix and without a line feed is closed,
  not forwarded (1644).
- `udp_payload`: `udp_read_handler` (6459) reads replies into the buffer in which a
  datagram waits for its association (5030), which is then sent with other bytes.

Four properties of `UdpRoute` are stated for part of its configurations only; no
document promises them elsewhere. `ConnectTimeoutWhileConnecting` fails for a local
client: a datagram that arrives during the handshake makes `close_socks5_udp` (2486)
forget the connection without closing it, and its connect timer later ends the
session although the next handshake has succeeded. `OutboundRestored` fails with the nginx resolver:
`resolve_udp_route` leaves the swapped outbound in place when it must resolve once
more to send (2343), and the next datagram without a route takes it. It also
fails for a local client, whose second datagram saves the outbound the first one
swapped in, and when the session's own outbound is NULL, which stands for "not set" (2812).
`MappingsAgree` fails when a refresh is answered inside `start_refresh` (4871): the
old decision's mapping is listed after the entry was revised. `SentByRoute` excludes
sessions that have abandoned a connection: its late event repeats the last step of
`process_socks5` and can name the association after another outbound (2601).

## Proofs

`RouteCacheProofs` proves of `Spec`: `TypeOK`, `Indexed`, `RefreshOwnsEntry` and
`RefreshingMeansOneInFlight`, for every number of slots, targets, sessions and
refreshes, every rule set, and every bound on clock and generation. None of the
last three is inductive alone. The inductive invariant adds that no entry and no
refresh has a generation above the counter (`EntriesPast`, `RefreshesPast`), so
that a stamp is new, and that a current refresh and a raised flag imply each other
with at most one such refresh (`FlagMatchesFlight`). It is split in `CacheInv`
(the slots, chains and queue) and `RefreshInv` (what hangs on them). Facts about
`Detach` and `Prepend` on injective sequences carry the index; a step that writes
entry `k` is a `Revision`, whose effect on the refresh invariant is proved once.
Assumed are `OutboundsAssumption` and `CacheAssumption`, which TLC evaluates.

It also proves `ImplementsRouteSlots` and `ImplementsRouteTable` from
that invariant and one more, that a slot not yet given out has no target. A step that
writes slot `k` is seen in `RouteSlots` as `k` given to a target that no slot has, or
decided again; in the table it moves the row of `k` to the front, writes it, or both
(`RowsMoved`, `RowRevised`, `RowLearned`). That a refresh answer writes a decision for
the target the slot *now* has is `RefreshOwnsEntry`, without which neither holds.

`RouteDrainProofs` proves `TypeOK`, `TrackingConsistent` and `DrainSparesActive`
for any number of sessions and slots. The action property needs that the code's
age of a relay never exceeds the true time without a byte
(`quiet <= silence` for listed relays), which is the invariant its proof carries.

`RelayProofs` proves `TypeOK`, `StuckUnitsWaitForRoom`, `UnreadIsSignalled` and, where
the initial payload fits into the send queue, `CloseLosesNothing`, for any supply,
room, limit and initial payload. The invariant says of each direction what is bounded,
that an event is only used up when nothing is left to read, that a blocked destination
has a write event due whenever something is stuck, and what has reached its peer when
the direction has ended. The assumption of the last theorem is the one `relay_initial`
refutes without.

`SessionProofs` proves all six invariants of `Session` for every stream of a client,
server block and set of outbounds. None of them is inductive alone, since each looks
at one moment of a long chain of calls. The invariant is a disjunction of phases
(opening, falling back, answering, routing, locating, linking, serving, ended), and
each phase says what has been read, told, dialled and kept by then, whether a timer
runs and whether an answer is due. `Granted` is the thread through it: a request has
been admitted and its payload is whole from the moment routing ends until a service
takes over. Each operator of `Session` has one lemma, from the phases it is called in
to those it may leave behind, in the order in which they call one another, so that an
event handler follows from the lemma of the first function it calls.

`UdpRouteProofs` proves `TypeOK`, `SentByRoute`, `MappingsAgree`, `OutboundRestored` and
`ConnectTimeoutWhileConnecting` of `UdpRoute`, for any outbounds and rules, slots and
targets, every configuration of a session and any number of datagrams and mappings. The
invariant has two parts that do not meet.
- `Flow` relates the parts of a context to one another. `SentByRoute` is not inductive: a
  datagram that waits is sent by `Associated` through the association as it then is, so
  the invariant says that the waiting datagram's route is the server being set up and is
  allowed (`PendingFlow`), that an association has its server's name (`AssocFlow`), which
  the code takes from `ctx->outbound` and not from the server, and that in a Trojan session
  these are the same for as long as the handshake lasts (`TrojanFlow`: such a session reads
  nothing meanwhile). `OutboundRestored` needs that the outbound a waiting datagram will
  put back is the session's own (`OwnFlow`), and the timer that it runs only between a
  server's choice and its being ready (`TimerFlow`).
- `Agree` is `MappingsAgree` of the mappings and the slots. It is kept because each write
  to a slot comes with the marking or unlinking of its mappings, and because a new mapping
  is made of what the slot holds in the same step.

One lemma per operator of `UdpRoute` says that `Flow` is kept and how far the state has
moved, in the order in which the operators call one another; actions follow from these.

The module also proves `ReplyTypeOK` and `RepliesInOrder` of `UdpReply`: what has been read
from the sockets is what the client got, followed by the frames under way and, while the
session is open, the reply set aside.

`ConfigProofs` proves `MphTypeOK` and `FindsExactlyItsKeys` of `DomainMph` for any finite
set of keys, any hash function and any number of seeds. The invariant says that the
positions are those the seeds give, that no two keys share one, and that they belong
to the buckets done, so that when no bucket is left the slots are the inverse of
the positions. It does not depend on the order in which buckets are placed.

It also proves `TypeOK`, `RoutesAsWritten` and `LocalProxiesServed` of `Config` for
any configurations, alphabet, address sizes and regular expressions, and with them that
what `Rules` compiles a group into answers as its rules would one by one. It has four parts.
- Addresses: their order is total, so that any finite set of them can be sorted
  (`SortedExists`, by the number of elements before each); the binary search ends and finds
  exactly what is in a sorted array (`SearchDefined`, `SearchFinds`, by induction on the
  length of the half); an address matches a rule when, cut to the rule's prefix, it is in
  the array of that prefix (`CompiledMatchesIp`).
- Names: a key is found at one of the dots of a name exactly when an exact, suffix or
  wildcard rule that was merged into it matches (`CompiledMatchesDomain`). Here names must
  not begin with a dot, which is where the code's two matchers differ.
- The walk: two lists of outbounds that agree up to the first one for everything are walked
  alike (`WalkSame`). What stands after it is never bound, and need not be.
- The steps: the invariant `ConfigInv` says by phase what has been compiled, bound and
  served, as a function of the configuration alone; `LocalProxiesServed` is counting the
  addresses a reference is found at.
Assumed are `RulesAssumption` (a dot is no letter, and
sizes are numbers) and `ConfigAssumption` (lists are sequences, listens finite, addresses what
`ngx_ptocidr` makes), which TLC evaluates. Regular expressions are any relation; tables are
functions from keys, which `FindsExactlyItsKeys` shows the code's tables to be.

`FramingProofs` proves `TypeOK` and `ReadsBackAsWritten` of `Framing` for every stream and
every way to cut it, any lengths of addresses and keys and any rooms. It goes from the wire up.
- An address that is parsed is written back as the bytes it was parsed from, and the other
  way round (`PutAsParsed`, `ParsedAsPut`); so are frames and packets (`FrameAsPacked`,
  `PacketAgain`).
- The parsers that say how much is needed: while one asks for n bytes, a longer input of at
  most n has a verdict of "ok" only if it is all of it (`GreetingGrows`, `RequestGrows`,
  `ResponseGrows`, `CommandGrows`). This is why a recv of what is missing never takes a byte
  from behind the message.
- A buffer of frames is its frames and what is left (`FramesAreRight`, by induction on the
  place in the buffer), and joining the bytes of messages one by one is joining them all.
- The invariant `FramingInv`: each message read is right, and their bytes, the buffer and what
  is handed on are the stream up to `taken`. A byte kept while classifying is that of TLS, so
  that a greeting read there has one byte and is not complete. One lemma per handler says
  that it keeps this (`GreetingRight` to `UdpRight`), and `FedRight` puts them together.
Assumed are `WireAssumption` and `FramingAssumption` (streams are of bytes, and a buffer of a
local proxy holds at least the three bytes by which it is classified), which TLC evaluates.

`FramingProofs` also proves `CutsDoNotMatter` of `Cuts`, for every stream and every two ways to
cut it, and that the second reader of `Cuts` is a reader as in `Framing`
(`CutsAreReadings`), so that the theorems about those hold of it too. Comparing two readers
that take pieces of any sizes has no invariant of its own; both are compared with a third,
which reads byte by byte and is unique (`Walks`).
- What a parser says of a prefix, it says of all that follows: as long as it asks for n bytes
  it neither accepts nor refuses before they are there, so that a piece of at most what is
  missing may be cut anywhere. `PieceAndByte` says this of each phase: a piece and one more
  byte, read together or one after the other, leave the same reader. The prefix of a Trojan
  client is judged by where its line ends, and the frames in a buffer are those of its first
  bytes followed by those of the rest.
- `PieceByBytes` then follows by induction on the length of a piece, and the invariant
  `CutsInv` says that both readers are the third at the place each has got to.
- A reader that wants nothing more is left as it is by the rest of the stream but for what it
  hands on (`RestPasses`), so that wherever the two have stopped, they have come to the one
  end of the third (`AllComesToOne`).

`PeersProofs` proves `PeersAreUnderstood`: whoever keeps to the protocol is understood to the
last message as soon as that has come, however it came, and what follows is there for the
relay, for all addresses, ports, keys, payloads, numbers of frames and sizes. The invariant is
`CutsInv` again, so that only the reader that reads byte by byte need be followed.
- What the verdicts say of the fronts of a message: each asks for more, for at least one byte
  beyond the front and never for more than the message has (`Expects`; `GreetingExpects`,
  `RequestExpects`, `CommandExpects`). So the reader takes the whole message and nothing beyond
  (`MessageComes`, by induction on its bytes) and is left between two messages, with an empty
  buffer (`Stands`).
- What is read of a whole message is what was meant (`GreetingHeard` to `FrameHeard`): parsing
  what was written, the converse of `ReadsBackAsWritten`. For HTTP that goes down to the digits
  of the port (`PortRead`), host and port of a target with and without brackets (`TargetRead`)
  and the first line of the head (`LineRead`, `HeadRead`).
- Frames follow by induction on their number (`FramesGiven`), and the four kinds of peers by
  putting their messages behind one another (`Socks5Understood`, `HttpUnderstood`,
  `TrojanUnderstood`, `ServerUnderstood`).
Assumed is `PeerAssumption`, which TLC evaluates as well: no key holds a line feed (keys are
hexadecimal digits), the words of HTTP hold no carriage return and CONNECT does not begin with
the byte of SOCKS5 or TLS, addresses have fewer than 256 bytes, and the SOCKS5 buffer
(`NGX_STREAM_MTROJAN_SOCKS5_BUFFER_SIZE`) holds the longest request. `Legality` in `MCFraming`
has TLC confirm that the scripts of the instance meant to be legal satisfy `KeepsToProtocol`,
so that the property is not empty.

Only model-checked: everything under fairness (`RefreshEnds`, `StaleRelayEnds`,
`RelayCompletes`, `NoEndlessWait`, `WaitingEnds`, `RepliesArrive`), which the prover does
not reach. `MphTypeOK` is the one invariant that is proved and in no run: it is part of the
invariant `FindsExactlyItsKeys` rests on.

## Not modelled

- The hash of a password (`trojan.c` 1-236) and of a domain key: arithmetic over fixed
  constants. Keys are given, and the table hash is any function.
- The codec of the mtrojan protocol (`protocol.c`): no part of the module calls it but
  `normalize_ip_literal`, `addr_to_text` and the address type.
- Allocation failures beyond "the session ends", and memory after `finalize`: mappings and
  contexts that other objects still point to are named under `hazards` in `PROJECT.json`.
- TLS, QoS, logging, and the values of single directives (numbers, addresses, the
  words `on`, `lazy`, `idle`), each of which is one test.
- Reading `resolv.conf` and ordering addresses by `ip_prefer`: outcomes are choices.
- Of the UDP service: replies to a local client, which keep no state, and sessions with
  routing off. Each reply to a client allocates from the connection's pool (6522, 6618),
  which the model has no measure for.
- The generation counter is bounded; its wrap-around at 2^64 is not considered.

## Plan

Done: every module and proof above.
