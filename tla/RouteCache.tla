----------------------------- MODULE RouteCache -----------------------------
(***************************************************************************)
(* The route cache of one server block and everything that changes it:     *)
(* sessions (and UDP frames) asking for a route, their resolver answers,   *)
(* background refreshes, and time.                                         *)
(*                                                                         *)
(* A handler of the event loop runs to its end, so an action is a whole    *)
(* call of select_outbound or of a resolver callback.  The resolver calls  *)
(* back inside ngx_resolve_name when its own cache has the answer, and     *)
(* later otherwise; both are modelled.  Other sessions run in between.     *)
(***************************************************************************)
EXTENDS RouteSelect, FiniteSets

CONSTANTS
    Size,           \* route_cache size (the zero size has no cache at all)
    Buckets, Hash,  \* hash chains, and the chain of each target
    Sessions,       \* askers whose resolution can be in flight
    RefreshIds,     \* refresh contexts that can be in flight
    NginxResolver,  \* an nginx resolver is used, not getaddrinfo
    Ttls,           \* seconds a resolver answer can stay valid
    MaxTime,        \* bound on the clock
    MaxGeneration,  \* bound on the generation counter
    None            \* no target, no refresh

Slots == 1 .. Size
NoSlot == 0
Failed == {}        \* a resolver answer without addresses, or an error

ASSUME CacheAssumption ==
    /\ Size \in Nat \ {0}
    /\ Hash \in [Targets -> Buckets]
    /\ NginxResolver \in BOOLEAN
    /\ Ttls \subseteq Nat \ {0}
    /\ MaxTime \in Nat
    /\ MaxGeneration \in Nat
    /\ None \notin Targets
    /\ None \notin [slot : Slots, generation : Nat, target : Targets]

VARIABLES
    entries,     \* cache->entries: the slots
    chain,       \* cache->buckets: the slots of each hash chain
    lru,         \* cache->lru: slots, most recently used first
    nextFree,    \* cache->next_free
    generation,  \* cache->generation
    asking,      \* session -> target of its resolve_route request in flight
    refreshes,   \* refresh contexts in flight
    now          \* ngx_time()

cacheVars == <<entries, chain, lru, nextFree, generation>>
vars == <<entries, chain, lru, nextFree, generation, asking, refreshes, now>>

Entry == [valid : BOOLEAN, target : Targets \cup {None},
          outbound : OutboundIds \cup {NoOutbound}, ttl : BOOLEAN,
          expires : Nat, refreshing : BOOLEAN, generation : Nat]

Refresh == [slot : Slots, generation : Nat, target : Targets]

Init ==
    /\ entries = [k \in Slots |->
                    [valid |-> FALSE, target |-> None, outbound |-> NoOutbound,
                     ttl |-> FALSE, expires |-> 0, refreshing |-> FALSE,
                     generation |-> 0]]
    /\ chain = [b \in Buckets |-> <<>>]
    /\ lru = <<>>
    /\ nextFree = 0
    /\ generation = 0
    /\ asking = [s \in Sessions |-> None]
    /\ refreshes = [r \in RefreshIds |-> None]
    /\ now = 0

-----------------------------------------------------------------------------
(* Lookup and queues. *)

\* Fault: the entries of a chain are not compared with the target.
HitsAny(t) == DOMAIN chain[Hash[t]]

\* Where the walk of the target's chain finds a valid entry for it.
Hits(t) == {i \in DOMAIN chain[Hash[t]] :
              /\ entries[chain[Hash[t]][i]].valid
              /\ entries[chain[Hash[t]][i]].target = t}

SlotOf(t) ==
    IF Hits(t) = {} THEN NoSlot ELSE chain[Hash[t]][CHOOSE i \in Hits(t) : TRUE]

Expired(k) == entries[k].ttl /\ entries[k].expires <= now

Elements(q) == {q[i] : i \in DOMAIN q}

Injective(q) == \A i, j \in DOMAIN q : i # j => q[i] # q[j]

Position(q, k) == CHOOSE i \in DOMAIN q : q[i] = k

\* Fault: a slot is left where it hangs.
FaultyDetach(q, k) == q

\* Taking slot k out of a queue or a chain.
Detach(q, k) ==
    IF k \in Elements(q)
    THEN [i \in 1 .. Len(q) - 1 |-> IF i < Position(q, k) THEN q[i] ELSE q[i + 1]]
    ELSE q

Prepend(k, q) == [i \in 1 .. Len(q) + 1 |-> IF i = 1 THEN k ELSE q[i - 1]]

\* Fault: a used slot goes to the far end of the queue.
FaultyMoveToHead(k) == Append(Detach(lru, k), k)

\* A slot that was just used goes to the head of the queue.
MoveToHead(k) == Prepend(k, Detach(lru, k))

-----------------------------------------------------------------------------
(* Writing the cache. *)

\* Fault: the entry is not stamped with a new generation.
UnstampedEntry(e, o, ttl, expires) ==
    [valid |-> e.valid, target |-> e.target, outbound |-> o, ttl |-> ttl,
     expires |-> IF ttl THEN expires ELSE 0, refreshing |-> FALSE,
     generation |-> 0]

\* ngx_stream_mtrojan_route_cache_update_entry, on entry e; filling a slot
\* writes the same fields.
UpdatedEntry(e, o, ttl, expires) ==
    [valid |-> e.valid, target |-> e.target, outbound |-> o, ttl |-> ttl,
     expires |-> IF ttl THEN expires ELSE 0, refreshing |-> FALSE,
     generation |-> generation + 1]

\* Faults: slots counted from zero; the most recently used slot is evicted.
ZeroBasedVictim == IF nextFree < Size THEN nextFree ELSE lru[Len(lru)]

WrongEndVictim == IF nextFree < Size THEN nextFree + 1 ELSE lru[1]

\* The slot a target not in the cache is given: a fresh one, then the LRU tail.
VictimSlot == IF nextFree < Size THEN nextFree + 1 ELSE lru[Len(lru)]

\* ngx_stream_mtrojan_route_cache_insert: overwrite the target's entry, or fill
\* a slot, unhooking the one it evicts from the LRU queue and from its chain.
Insert(t, o, ttl, expires) ==
    LET k == SlotOf(t)
        v == VictimSlot
        unhooked == IF nextFree < Size THEN chain
                    ELSE [chain EXCEPT ![Hash[entries[v].target]] = Detach(@, v)]
    IN  /\ generation < MaxGeneration
        /\ generation' = generation + 1
        /\ \/ /\ k # NoSlot
              /\ entries' = [entries EXCEPT ![k] = UpdatedEntry(@, o, ttl, expires)]
              /\ lru' = MoveToHead(k)
              /\ UNCHANGED <<chain, nextFree>>
           \/ /\ k = NoSlot
              /\ entries' = [entries EXCEPT ![v] =
                   UpdatedEntry([valid |-> TRUE, target |-> t], o, ttl, expires)]
              /\ chain' = [unhooked EXCEPT ![Hash[t]] = Prepend(v, @)]
              /\ lru' = MoveToHead(v)
              /\ nextFree' = IF nextFree < Size THEN nextFree + 1 ELSE nextFree

\* A lookup that found slot k and writes nothing else.
Touch(k) ==
    /\ lru' = MoveToHead(k)
    /\ UNCHANGED <<entries, chain, nextFree, generation>>

\* What a resolver answer for t does: nothing unless an outbound is selected.
Answered(t, addrs) == SelectOutboundNow(t, addrs, TRUE)

InsertAnswer(t, addrs) ==
    IF addrs # Failed /\ Answered(t, addrs).outbound # NoOutbound
    THEN \E d \in Ttls :
           Insert(t, Answered(t, addrs).outbound, Answered(t, addrs).ttl, now + d)
    ELSE UNCHANGED cacheVars

-----------------------------------------------------------------------------
(* ngx_stream_mtrojan_select_outbound, and the cache half of                *)
(* ngx_stream_mtrojan_send_udp_frame, which goes the same way.              *)

Miss(t) == SlotOf(t) = NoSlot

\* A fresh entry answers.
RequestFresh(t) ==
    /\ ~Miss(t) /\ ~Expired(SlotOf(t))
    /\ Touch(SlotOf(t))
    /\ UNCHANGED <<asking, refreshes, now>>

\* Fault: a refresh that brings nothing does not lower its flag.
RevisedIfAnswered(k, t, addrs, d) ==
    IF addrs # Failed /\ Answered(t, addrs).outbound # NoOutbound
    THEN UpdatedEntry(entries[k], Answered(t, addrs).outbound,
                      Answered(t, addrs).ttl, now + d)
    ELSE entries[k]

\* The effect of a refresh answer on slot k, if its generation still matches.
Revised(k, t, addrs, d) ==
    IF addrs # Failed /\ Answered(t, addrs).outbound # NoOutbound
    THEN UpdatedEntry(entries[k], Answered(t, addrs).outbound,
                      Answered(t, addrs).ttl, now + d)
    ELSE [entries[k] EXCEPT !.refreshing = FALSE]

RevisedGeneration(t, addrs) ==
    IF addrs # Failed /\ Answered(t, addrs).outbound # NoOutbound
    THEN generation + 1 ELSE generation

\* An expired entry answers while a refresh of it is under way, or when none
\* can be started (allocation or resolver failure).
RequestStale(t) ==
    /\ NginxResolver
    /\ ~Miss(t) /\ Expired(SlotOf(t))
    /\ Touch(SlotOf(t))
    /\ UNCHANGED <<asking, refreshes, now>>

\* An expired entry answers and a refresh is started
\* (ngx_stream_mtrojan_route_cache_start_refresh).
StartRefresh(t, r) ==
    LET k == SlotOf(t) IN
    /\ NginxResolver /\ t \in Domains
    /\ ~Miss(t) /\ Expired(k)
    /\ ~entries[k].refreshing
    /\ refreshes[r] = None
    /\ refreshes' = [refreshes EXCEPT ![r] =
            [slot |-> k, generation |-> entries[k].generation, target |-> t]]
    /\ entries' = [entries EXCEPT ![k].refreshing = TRUE]
    /\ lru' = MoveToHead(k)
    /\ UNCHANGED <<chain, nextFree, generation, asking, now>>

\* The refresh is answered before ngx_resolve_name returns.
RefreshAtOnce(t, addrs) ==
    LET k == SlotOf(t) IN
    /\ NginxResolver /\ t \in Domains
    /\ ~Miss(t) /\ Expired(k)
    /\ ~entries[k].refreshing
    /\ generation < MaxGeneration
    /\ \E d \in Ttls : entries' = [entries EXCEPT ![k] = Revised(k, t, addrs, d)]
    /\ generation' = RevisedGeneration(t, addrs)
    /\ lru' = MoveToHead(k)
    /\ UNCHANGED <<chain, nextFree, asking, refreshes, now>>

\* On a miss the rules decide without an address.  An expired entry is a miss
\* when getaddrinfo is the resolver.
MissPath(t) == Miss(t) \/ (~Miss(t) /\ ~NginxResolver /\ Expired(SlotOf(t)))

RequestStatic(t) ==
    LET decision == SelectOutboundNow(t, {}, FALSE) IN
    /\ MissPath(t)
    /\ decision.outbound # NoOutbound
    /\ Insert(t, decision.outbound, decision.ttl, 0)
    /\ UNCHANGED <<asking, refreshes, now>>

\* Addresses are needed and getaddrinfo gives them at once, or fails: then the
\* session goes on with no outbound and the cache is left as the lookup left it.
RequestSystem(t, addrs) ==
    /\ ~NginxResolver
    /\ MissPath(t)
    /\ SelectOutboundNow(t, {}, FALSE).needs
    /\ IF addrs # Failed /\ Answered(t, addrs).outbound # NoOutbound
       THEN InsertAnswer(t, addrs)
       ELSE IF Miss(t) THEN UNCHANGED cacheVars ELSE Touch(SlotOf(t))
    /\ UNCHANGED <<asking, refreshes, now>>

\* Addresses are needed and the nginx resolver is asked
\* (ngx_stream_mtrojan_start_route_resolver).
Ask(s, t) ==
    /\ NginxResolver
    /\ Miss(t)
    /\ SelectOutboundNow(t, {}, FALSE).needs
    /\ asking[s] = None
    /\ asking' = [asking EXCEPT ![s] = t]
    /\ UNCHANGED <<cacheVars, refreshes, now>>

\* The nginx resolver answers before ngx_resolve_name returns.
AskAtOnce(t, addrs) ==
    /\ NginxResolver
    /\ Miss(t)
    /\ SelectOutboundNow(t, {}, FALSE).needs
    /\ InsertAnswer(t, addrs)
    /\ UNCHANGED <<asking, refreshes, now>>

-----------------------------------------------------------------------------
(* Callbacks. *)

\* ngx_stream_mtrojan_resolve_handler for resolve_route and resolve_udp_route.
\* An error finalizes the session; so does finalize itself, which cancels.
RouteAnswer(s, addrs) ==
    /\ asking[s] # None
    /\ InsertAnswer(asking[s], addrs)
    /\ asking' = [asking EXCEPT ![s] = None]
    /\ UNCHANGED <<refreshes, now>>

\* The slot is still the entry the refresh was started for.
StillCurrent(f) ==
    entries[f.slot].valid /\ entries[f.slot].generation = f.generation

\* ngx_stream_mtrojan_route_refresh_handler
RefreshAnswer(r, addrs) ==
    LET f == refreshes[r] IN
    /\ f # None
    /\ generation < MaxGeneration \/ addrs = Failed
    /\ refreshes' = [refreshes EXCEPT ![r] = None]
    /\ \/ /\ StillCurrent(f)
          /\ \E d \in Ttls : entries' = [entries EXCEPT ![f.slot] =
                                           Revised(f.slot, f.target, addrs, d)]
          /\ generation' = RevisedGeneration(f.target, addrs)
       \/ /\ ~StillCurrent(f)
          /\ UNCHANGED <<entries, generation>>
    /\ UNCHANGED <<chain, lru, nextFree, asking, now>>

Tick ==
    /\ now < MaxTime
    /\ now' = now + 1
    /\ UNCHANGED <<cacheVars, asking, refreshes>>

Next ==
    \/ \E t \in Targets :
         \/ RequestFresh(t) \/ RequestStale(t) \/ RequestStatic(t)
         \/ \E r \in RefreshIds : StartRefresh(t, r)
         \/ \E s \in Sessions : Ask(s, t)
         \/ \E addrs \in SUBSET Addrs :
              RefreshAtOnce(t, addrs) \/ RequestSystem(t, addrs) \/ AskAtOnce(t, addrs)
    \/ \E addrs \in SUBSET Addrs :
         \/ \E s \in Sessions : RouteAnswer(s, addrs)
         \/ \E r \in RefreshIds : RefreshAnswer(r, addrs)
    \/ Tick

Spec == Init /\ [][Next]_vars

\* The resolver calls its handler back for every request it accepted, if only
\* with a timeout after resolver_timeout.
FairSpec ==
    /\ Spec
    /\ \A r \in RefreshIds : WF_vars(\E addrs \in SUBSET Addrs : RefreshAnswer(r, addrs))

-----------------------------------------------------------------------------
(* Properties. *)

\* The cache, the requests and the refreshes are well typed.
TypeOK ==
    /\ entries \in [Slots -> Entry]
    /\ chain \in [Buckets -> Seq(Slots)]
    /\ lru \in Seq(Slots)
    /\ nextFree \in 0 .. Size
    /\ generation \in 0 .. MaxGeneration
    /\ asking \in [Sessions -> Targets \cup {None}]
    /\ refreshes \in [RefreshIds -> Refresh \cup {None}]
    /\ now \in 0 .. MaxTime

\* A refresh that may still write (its generation is the slot's) was started
\* for the very target the slot holds: an answer that arrives after eviction,
\* reuse or update of the slot never changes the route of another target.
RefreshOwnsEntry ==
    \A r \in RefreshIds :
        refreshes[r] # None /\ StillCurrent(refreshes[r])
            => entries[refreshes[r].slot].target = refreshes[r].target

\* The refreshing flag stands for exactly one refresh in flight for the entry
\* as it is: a flag nobody will clear would leave an expired route in use for
\* good, a second refresh would race the first.
InFlightFor(k) ==
    {r \in RefreshIds :
        refreshes[r] # None /\ refreshes[r].slot = k /\ StillCurrent(refreshes[r])}

RefreshingMeansOneInFlight ==
    \A k \in Slots :
        Cardinality(InFlightFor(k)) = IF entries[k].refreshing THEN 1 ELSE 0

\* Chains and LRU queue index the slots in use and agree with each other:
\* the queue holds each used slot once, a slot hangs in the chain of its
\* target's hash and in no other, and no target has two entries.
UsedSlots == 1 .. nextFree

LruHoldsUsedSlots ==
    /\ Len(lru) = nextFree
    /\ Injective(lru)
    /\ Elements(lru) = UsedSlots

ChainsHoldUsedSlots ==
    \A b \in Buckets :
        /\ Injective(chain[b])
        /\ Elements(chain[b]) = {k \in UsedSlots : Hash[entries[k].target] = b}

OneEntryPerTarget ==
    \A j, k \in UsedSlots :
        /\ entries[j].valid /\ entries[j].target \in Targets
        /\ j # k => entries[j].target # entries[k].target

Indexed == LruHoldsUsedSlots /\ ChainsHoldUsedSlots /\ OneEntryPerTarget

\* The cache is an LRU table of allowed routes, whatever refreshes and
\* resolutions are in flight (see RouteTable).
Table == INSTANCE RouteTable WITH
    table <- [i \in 1 .. Len(lru) |->
                [target |-> entries[lru[i]].target,
                 outbound |-> entries[lru[i]].outbound]]

ImplementsRouteTable == Table!Spec

\* A holder of a pointer to an entry sees its slot change only as RouteSlots
\* says: one slot at a time, to a target no other slot has.
SlotView == INSTANCE RouteSlots WITH
    slot <- [k \in Slots |-> [target |-> entries[k].target,
                              outbound |-> entries[k].outbound,
                              ttl |-> entries[k].ttl]]

ImplementsRouteSlots == SlotView!SlotsSpec

\* An expired entry that is being refreshed gets out of that state: it is
\* refreshed again or gone, so the next request can start over.
RefreshEnds ==
    \A k \in Slots : entries[k].refreshing ~> ~entries[k].refreshing
=============================================================================
