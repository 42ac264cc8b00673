-------------------------- MODULE RouteCacheProofs --------------------------
(***************************************************************************)
(* Theorems about RouteCache for every size, hash, rule list and number of *)
(* sessions and refreshes: the cache is well typed, its chains and its LRU *)
(* queue index it exactly, and a late refresh answer writes no entry but   *)
(* the one it was started for.  It implements its two abstractions.        *)
(* RouteSlots: whoever keeps a pointer to an entry, be it a relay or a UDP *)
(* mapping, sees the entry only given to a target that has none, or its    *)
(* own target decided again, which is what RouteDrain and UdpRoute build   *)
(* on.  RouteTable: whoever asks for routes finds a table in order of use  *)
(* that forgets only from its far end.  In both, a decision is one the     *)
(* rules can make.                                                         *)
(***************************************************************************)
EXTENDS RouteCache, TLAPS, WellFoundedInduction, SequenceTheorems, FiniteSetTheorems

-----------------------------------------------------------------------------
(* The rule walk. *)

\* A set of numbers that is not empty has a least one (used for the first
\* outbound that stops the walk).
LEMMA LeastNat ==
    ASSUME NEW S, S \subseteq Nat, S # {}
    PROVE  \E m \in S : \A n \in S : m <= n
<1> DEFINE R == OpToRel(<, Nat)
<1>1. IsWellFoundedOn(R, Nat)
  BY NatLessThanWellFounded
<1> HIDE DEF R
<1>2. PICK m \in S : \A n \in S : ~(<<n, m>> \in R)
  BY <1>1, WFMin
<1>3. \A a, b \in Nat : a < b => <<a, b>> \in R
  BY DEF R, OpToRel
<1>4. ASSUME NEW n \in S
      PROVE  m <= n
  <2>1. ~(n < m)
    BY <1>2, <1>3
  <2> QED
    BY <2>1
<1> QED
  BY <1>4

\* The rule walk returns an outbound of the configuration, or none.
LEMMA DecisionType ==
    ASSUME NEW t, NEW addrs, NEW lazyUsed \in BOOLEAN
    PROVE  SelectOutboundNow(t, addrs, lazyUsed) \in
             [outbound : OutboundIds \cup {NoOutbound}, ttl : BOOLEAN, needs : BOOLEAN]
<1> DEFINE stops == {i \in OutboundIds : StopsAt(i, t, addrs)}
<1>1. stops \subseteq Nat
  BY OutboundsAssumption, LenProperties DEF OutboundIds
<1>2. stops # {} => (CHOOSE i \in stops : \A j \in stops : i <= j) \in OutboundIds
  BY <1>1, LeastNat
<1> QED
  BY <1>2, OutboundsAssumption DEF SelectOutboundNow, NoOutbound, MatchesDomain

-----------------------------------------------------------------------------
(* Queues and chains as sequences without repetition. *)

\* An element of a queue has a position in it.
LEMMA PositionProperties ==
    ASSUME NEW q, NEW k, k \in Elements(q)
    PROVE  Position(q, k) \in DOMAIN q /\ q[Position(q, k)] = k
BY DEF Position, Elements

\* Prepending puts an element in front and keeps the others.
LEMMA PrependProperties ==
    ASSUME NEW S, NEW q \in Seq(S), NEW k \in S
    PROVE  /\ Prepend(k, q) \in Seq(S)
           /\ Len(Prepend(k, q)) = Len(q) + 1
           /\ Elements(Prepend(k, q)) = {k} \cup Elements(q)
<1>1. /\ Len(q) \in Nat /\ DOMAIN q = 1 .. Len(q)
      /\ \A i \in 1 .. Len(q) : q[i] \in S
  BY LenProperties
<1>2. \A i \in 1 .. Len(q) + 1 : Prepend(k, q)[i] \in S
  BY <1>1 DEF Prepend
<1>3. DOMAIN Prepend(k, q) = 1 .. Len(q) + 1
  BY DEF Prepend
<1>4. Prepend(k, q) \in Seq(S) /\ Len(Prepend(k, q)) = Len(q) + 1
  BY <1>1, <1>2, <1>3 DEF Prepend
<1>5. Elements(Prepend(k, q)) \subseteq {k} \cup Elements(q)
  BY <1>1, <1>3 DEF Prepend, Elements
<1>6. k \in Elements(Prepend(k, q))
  <2>1. 1 \in 1 .. Len(q) + 1 /\ Prepend(k, q)[1] = k
    BY <1>1 DEF Prepend
  <2> QED
    BY <2>1, <1>3 DEF Elements
<1>7. ASSUME NEW i \in 1 .. Len(q)
      PROVE  q[i] \in Elements(Prepend(k, q))
  <2>1. i + 1 \in 1 .. Len(q) + 1 /\ Prepend(k, q)[i + 1] = q[i]
    BY <1>1 DEF Prepend
  <2> QED
    BY <2>1, <1>3 DEF Elements
<1> QED
  BY <1>1, <1>4, <1>5, <1>6, <1>7 DEF Elements

\* Prepending a new element keeps a queue without repetition.
LEMMA PrependInjective ==
    ASSUME NEW S, NEW q \in Seq(S), NEW k \in S, Injective(q), k \notin Elements(q)
    PROVE  Injective(Prepend(k, q))
<1>1. Len(q) \in Nat /\ DOMAIN q = 1 .. Len(q)
  BY LenProperties
<1>2. DOMAIN Prepend(k, q) = 1 .. Len(q) + 1
  BY DEF Prepend
<1>3. SUFFICES ASSUME NEW i \in 1 .. Len(q) + 1, NEW j \in 1 .. Len(q) + 1, i # j
               PROVE  Prepend(k, q)[i] # Prepend(k, q)[j]
  BY <1>2 DEF Injective
<1>4. CASE i # 1 /\ j # 1
  <2>1. /\ i - 1 \in DOMAIN q /\ j - 1 \in DOMAIN q /\ i - 1 # j - 1
        /\ Prepend(k, q)[i] = q[i - 1] /\ Prepend(k, q)[j] = q[j - 1]
    BY <1>1, <1>3, <1>4 DEF Prepend
  <2> QED
    BY <2>1 DEF Injective
<1>5. CASE i = 1
  <2>1. /\ Prepend(k, q)[i] = k
        /\ j - 1 \in DOMAIN q /\ Prepend(k, q)[j] = q[j - 1]
    BY <1>1, <1>3, <1>5 DEF Prepend
  <2> QED
    BY <2>1 DEF Elements
<1>6. CASE j = 1
  <2>1. /\ Prepend(k, q)[j] = k
        /\ i - 1 \in DOMAIN q /\ Prepend(k, q)[i] = q[i - 1]
    BY <1>1, <1>3, <1>6 DEF Prepend
  <2> QED
    BY <2>1 DEF Elements
<1> QED
  BY <1>4, <1>5, <1>6

\* Detaching takes one slot out of a queue and nothing else.
LEMMA DetachProperties ==
    ASSUME NEW S, NEW q \in Seq(S), NEW k, Injective(q)
    PROVE  /\ Detach(q, k) \in Seq(S)
           /\ Len(Detach(q, k)) = IF k \in Elements(q) THEN Len(q) - 1 ELSE Len(q)
           /\ Elements(Detach(q, k)) = Elements(q) \ {k}
           /\ Injective(Detach(q, k))
<1>1. /\ Len(q) \in Nat /\ DOMAIN q = 1 .. Len(q)
      /\ \A i \in 1 .. Len(q) : q[i] \in S
  BY LenProperties
<1>2. CASE k \notin Elements(q)
  <2>1. ~ \E i \in DOMAIN q : q[i] = k
    BY <1>2 DEF Elements
  <2> QED
    BY <1>2, <2>1 DEF Detach
<1>3. CASE k \in Elements(q)
  <2> DEFINE p == Position(q, k)
             r == Detach(q, k)
  <2>1. p \in 1 .. Len(q) /\ q[p] = k
    BY <1>1, <1>3, PositionProperties DEF Elements
  <2>2. \A i \in 1 .. Len(q) : i # p => q[i] # k
    BY <1>1, <2>1 DEF Injective
  <2>3. r = [i \in 1 .. Len(q) - 1 |-> IF i < p THEN q[i] ELSE q[i + 1]]
    BY <1>3 DEF Detach, Elements
  <2> HIDE DEF p, r
  <2>4. Len(q) - 1 \in Nat /\ DOMAIN r = 1 .. Len(q) - 1
    BY <1>1, <2>1, <2>3
  <2>5. \A i \in 1 .. Len(q) - 1 : r[i] \in S
    BY <1>1, <2>1, <2>3
  <2>6. r \in Seq(S) /\ Len(r) = Len(q) - 1
    BY <2>3, <2>4, <2>5
  <2>7. ASSUME NEW i \in 1 .. Len(q) - 1
        PROVE  r[i] \in Elements(q) \ {k}
    <3>1. CASE i < p
      BY <1>1, <2>1, <2>2, <2>3, <3>1 DEF Elements
    <3>2. CASE ~(i < p)
      <4>1. i + 1 \in 1 .. Len(q) /\ i + 1 # p /\ r[i] = q[i + 1]
        BY <1>1, <2>1, <2>3, <3>2
      <4> QED
        BY <1>1, <2>2, <4>1 DEF Elements
    <3> QED
      BY <3>1, <3>2
  <2>8. ASSUME NEW i \in 1 .. Len(q), q[i] # k
        PROVE  q[i] \in Elements(r)
    <3>1. CASE i < p
      <4>1. i \in 1 .. Len(q) - 1 /\ r[i] = q[i]
        BY <1>1, <2>1, <2>3, <3>1
      <4> QED
        BY <2>4, <4>1 DEF Elements
    <3>2. CASE i > p
      <4>1. i - 1 \in 1 .. Len(q) - 1 /\ r[i - 1] = q[i]
        BY <1>1, <2>1, <2>3, <3>2
      <4> QED
        BY <2>4, <4>1 DEF Elements
    <3> QED
      BY <1>1, <2>1, <2>8, <3>1, <3>2
  <2>9. Elements(r) = Elements(q) \ {k}
    <3>1. Elements(r) \subseteq Elements(q) \ {k}
      BY <2>4, <2>7 DEF Elements
    <3>2. Elements(q) \ {k} \subseteq Elements(r)
      <4>1. \A e \in Elements(q) : \E i \in 1 .. Len(q) : e = q[i]
        BY <1>1 DEF Elements
      <4> QED
        BY <4>1, <2>8
    <3> QED
      BY <3>1, <3>2
  <2>10. Injective(r)
    <3>1. SUFFICES ASSUME NEW i \in 1 .. Len(q) - 1, NEW j \in 1 .. Len(q) - 1, i # j
                   PROVE  r[i] # r[j]
      BY <2>4 DEF Injective
    <3> DEFINE Old(n) == IF n < p THEN n ELSE n + 1
    <3>2. /\ Old(i) \in 1 .. Len(q) /\ Old(j) \in 1 .. Len(q) /\ Old(i) # Old(j)
          /\ r[i] = q[Old(i)] /\ r[j] = q[Old(j)]
      BY <1>1, <2>1, <2>3, <3>1
    <3> QED
      BY <1>1, <3>2 DEF Injective
  <2> QED
    BY <1>3, <2>6, <2>9, <2>10 DEF r
<1> QED
  BY <1>2, <1>3

-----------------------------------------------------------------------------
(* The cache by itself. *)

CacheTypeOK ==
    /\ entries \in [Slots -> Entry]
    /\ chain \in [Buckets -> Seq(Slots)]
    /\ lru \in Seq(Slots)
    /\ nextFree \in 0 .. Size
    /\ generation \in 0 .. MaxGeneration

\* No entry carries a generation that has not been handed out.
EntriesPast == \A k \in Slots : entries[k].generation <= generation

CacheInv == CacheTypeOK /\ Indexed /\ EntriesPast

\* The hash table finds the one entry of a target, if there is one.
LEMMA SlotOfProperties ==
    ASSUME CacheInv, NEW t \in Targets
    PROVE  /\ SlotOf(t) # NoSlot =>
                 /\ SlotOf(t) \in UsedSlots /\ SlotOf(t) \in Slots
                 /\ entries[SlotOf(t)].target = t
           /\ SlotOf(t) = NoSlot => \A k \in UsedSlots : entries[k].target # t
<1> DEFINE c == chain[Hash[t]]
<1>1. UsedSlots \subseteq Slots /\ NoSlot \notin Slots /\ Hash[t] \in Buckets
  BY CacheAssumption DEF CacheInv, CacheTypeOK, UsedSlots, Slots, NoSlot
<1>2. Elements(c) = {k \in UsedSlots : Hash[entries[k].target] = Hash[t]}
  BY <1>1 DEF CacheInv, Indexed, ChainsHoldUsedSlots
<1>3. CASE Hits(t) = {}
  <2>1. ASSUME NEW k \in UsedSlots, entries[k].target = t
        PROVE  FALSE
    <3>1. k \in Elements(c) /\ entries[k].valid
      BY <1>2, <2>1 DEF CacheInv, Indexed, OneEntryPerTarget
    <3> QED
      BY <1>3, <2>1, <3>1 DEF Hits, Elements
  <2> QED
    BY <1>3, <2>1 DEF SlotOf
<1>4. CASE Hits(t) # {}
  <2> DEFINE i == CHOOSE i \in Hits(t) : TRUE
  <2>1. i \in Hits(t) /\ SlotOf(t) = c[i]
    BY <1>4 DEF SlotOf
  <2>2. c[i] \in Elements(c) /\ entries[c[i]].target = t
    BY <2>1 DEF Hits, Elements
  <2> QED
    BY <1>1, <1>2, <2>1, <2>2
<1> QED
  BY <1>3, <1>4

\* Moving a slot to the head leaves a queue of the used slots and that one.
LEMMA MoveToHeadProperties ==
    ASSUME CacheInv, NEW k \in Slots
    PROVE  /\ MoveToHead(k) \in Seq(Slots)
           /\ Injective(MoveToHead(k))
           /\ Elements(MoveToHead(k)) = UsedSlots \cup {k}
           /\ Len(MoveToHead(k)) = IF k \in UsedSlots THEN nextFree ELSE nextFree + 1
<1>1. /\ lru \in Seq(Slots) /\ Injective(lru)
      /\ Len(lru) = nextFree /\ Elements(lru) = UsedSlots /\ nextFree \in Nat
  BY CacheAssumption DEF CacheInv, CacheTypeOK, Indexed, LruHoldsUsedSlots
<1> DEFINE q == Detach(lru, k)
<1>2. /\ q \in Seq(Slots) /\ Injective(q) /\ Elements(q) = UsedSlots \ {k}
      /\ Len(q) = IF k \in UsedSlots THEN nextFree - 1 ELSE nextFree
  BY <1>1, DetachProperties
<1> HIDE DEF q
<1>3. /\ Prepend(k, q) \in Seq(Slots) /\ Len(Prepend(k, q)) = Len(q) + 1
      /\ Elements(Prepend(k, q)) = {k} \cup Elements(q)
  BY <1>2, PrependProperties
<1>4. Injective(Prepend(k, q))
  BY <1>2, PrependInjective
<1> QED
  BY <1>1, <1>2, <1>3, <1>4 DEF MoveToHead, q

\* A step that keeps the slots in use, and what each is used for.
LEMMA IndexKept ==
    ASSUME CacheInv,
           UNCHANGED <<chain, nextFree>>,
           entries' \in [Slots -> Entry],
           \A k \in Slots :
                 /\ entries'[k].valid = entries[k].valid
                 /\ entries'[k].target = entries[k].target
                 /\ entries'[k].generation <= generation',
           generation' \in 0 .. MaxGeneration,
           lru' = lru \/ \E k \in UsedSlots : lru' = MoveToHead(k)
    PROVE  CacheInv'
<1>1. UsedSlots \subseteq Slots /\ UsedSlots' = UsedSlots
  BY CacheAssumption DEF CacheInv, CacheTypeOK, UsedSlots, Slots
<1>2. lru' \in Seq(Slots) /\ LruHoldsUsedSlots'
  <2>1. CASE lru' = lru
    BY <1>1, <2>1 DEF CacheInv, CacheTypeOK, Indexed, LruHoldsUsedSlots
  <2>2. ASSUME NEW k \in UsedSlots, lru' = MoveToHead(k)
        PROVE  lru' \in Seq(Slots) /\ LruHoldsUsedSlots'
    <3>1. k \in Slots /\ UsedSlots \cup {k} = UsedSlots
      BY <1>1, <2>2
    <3>2. /\ MoveToHead(k) \in Seq(Slots) /\ Injective(MoveToHead(k))
          /\ Elements(MoveToHead(k)) = UsedSlots \cup {k}
          /\ Len(MoveToHead(k)) = IF k \in UsedSlots THEN nextFree ELSE nextFree + 1
      BY <3>1, MoveToHeadProperties
    <3>3. /\ lru' \in Seq(Slots) /\ Injective(lru')
          /\ Elements(lru') = UsedSlots /\ Len(lru') = nextFree
      BY <2>2, <3>1, <3>2
    <3> QED
      BY <1>1, <3>3 DEF LruHoldsUsedSlots
  <2> QED
    BY <2>1, <2>2
<1>3. CacheTypeOK'
  BY <1>2 DEF CacheInv, CacheTypeOK
<1>4. ChainsHoldUsedSlots'
  BY <1>1 DEF CacheInv, Indexed, ChainsHoldUsedSlots
<1>5. OneEntryPerTarget'
  BY <1>1 DEF CacheInv, Indexed, OneEntryPerTarget
<1> QED
  BY <1>2, <1>3, <1>4, <1>5 DEF CacheInv, Indexed, EntriesPast

\* The slot a new target is given is a fresh one or the one in use longest ago.
LEMMA VictimProperties ==
    ASSUME CacheInv
    PROVE  /\ VictimSlot \in Slots
           /\ nextFree < Size => VictimSlot \notin UsedSlots
           /\ ~(nextFree < Size) => VictimSlot \in UsedSlots
           /\ UsedSlots \cup {VictimSlot} =
                 1 .. (IF nextFree < Size THEN nextFree + 1 ELSE nextFree)
<1>1. nextFree \in 0 .. Size /\ Size \in Nat \ {0}
  BY CacheAssumption DEF CacheInv, CacheTypeOK
<1>2. CASE nextFree < Size
  BY <1>1, <1>2 DEF VictimSlot, UsedSlots, Slots
<1>3. CASE ~(nextFree < Size)
  <2>1. lru \in Seq(Slots) /\ Len(lru) = nextFree /\ Elements(lru) = UsedSlots
    BY DEF CacheInv, CacheTypeOK, Indexed, LruHoldsUsedSlots
  <2>2. Len(lru) \in DOMAIN lru
    BY <1>1, <1>3, <2>1
  <2>3. lru[Len(lru)] \in UsedSlots
    BY <2>1, <2>2 DEF Elements
  <2> QED
    BY <1>1, <1>3, <2>3 DEF VictimSlot, UsedSlots, Slots
<1> QED
  BY <1>2, <1>3

\* The chains once the victim is unhooked from its own.
Unhooked ==
    IF nextFree < Size THEN chain
    ELSE [chain EXCEPT ![Hash[entries[VictimSlot].target]] = Detach(@, VictimSlot)]

\* The victim of an insert hangs in no chain once it is unhooked.
LEMMA UnhookedProperties ==
    ASSUME CacheInv
    PROVE  /\ Unhooked \in [Buckets -> Seq(Slots)]
           /\ \A b \in Buckets :
                /\ Injective(Unhooked[b])
                /\ Elements(Unhooked[b]) =
                      {k \in UsedSlots \ {VictimSlot} : Hash[entries[k].target] = b}
<1> DEFINE v == VictimSlot
<1>1. /\ chain \in [Buckets -> Seq(Slots)]
      /\ \A b \in Buckets :
           /\ Injective(chain[b])
           /\ Elements(chain[b]) = {k \in UsedSlots : Hash[entries[k].target] = b}
  BY DEF CacheInv, CacheTypeOK, Indexed, ChainsHoldUsedSlots
<1>2. CASE nextFree < Size
  BY <1>1, <1>2, VictimProperties DEF Unhooked
<1>3. CASE ~(nextFree < Size)
  <2> DEFINE h == Hash[entries[v].target]
  <2>1. v \in UsedSlots
    BY <1>3, VictimProperties
  <2>2. h \in Buckets
    BY <2>1, CacheAssumption DEF CacheInv, Indexed, OneEntryPerTarget
  <2>3. Unhooked = [chain EXCEPT ![h] = Detach(chain[h], v)]
    BY <1>3 DEF Unhooked
  <2>4. /\ Detach(chain[h], v) \in Seq(Slots)
        /\ Injective(Detach(chain[h], v))
        /\ Elements(Detach(chain[h], v)) = Elements(chain[h]) \ {v}
    BY <1>1, <2>2, DetachProperties
  <2> HIDE DEF v
  <2>5. Unhooked \in [Buckets -> Seq(Slots)]
    BY <1>1, <2>2, <2>3, <2>4
  <2>6. ASSUME NEW b \in Buckets
        PROVE  /\ Injective(Unhooked[b])
               /\ Elements(Unhooked[b]) =
                     {k \in UsedSlots \ {v} : Hash[entries[k].target] = b}
    <3>1. CASE b = h
      <4>1. Unhooked[b] = Detach(chain[h], v)
        BY <1>1, <2>2, <2>3, <3>1
      <4>2. Elements(chain[h]) = {k \in UsedSlots : Hash[entries[k].target] = h}
        BY <1>1, <2>2
      <4> QED
        BY <2>4, <3>1, <4>1, <4>2
    <3>2. CASE b # h
      <4>1. Unhooked[b] = chain[b]
        BY <1>1, <2>3, <3>2
      <4> QED
        BY <1>1, <3>2, <4>1
    <3> QED
      BY <3>1, <3>2
  <2> QED
    BY <2>5, <2>6 DEF v
<1> QED
  BY <1>2, <1>3

\* An entry that is written is a well-typed entry.
LEMMA UpdatedEntryType ==
    ASSUME NEW e, e.valid \in BOOLEAN, e.target \in Targets \cup {None},
           generation \in Nat,
           NEW o \in OutboundIds \cup {NoOutbound}, NEW ttl \in BOOLEAN,
           NEW expires \in Nat
    PROVE  UpdatedEntry(e, o, ttl, expires) \in Entry
<1>1. (IF ttl THEN expires ELSE 0) \in Nat
  OBVIOUS
<1> QED
  BY <1>1 DEF UpdatedEntry, Entry

\* ngx_stream_mtrojan_route_cache_insert keeps chains, queue and slots in step,
\* whether it overwrites an entry, takes a fresh slot or evicts the last one.
LEMMA InsertKeepsIndex ==
    ASSUME CacheInv, NEW t \in Targets, NEW o \in OutboundIds \cup {NoOutbound},
           NEW ttl \in BOOLEAN, NEW expires \in Nat, Insert(t, o, ttl, expires)
    PROVE  CacheInv'
<1> DEFINE v == VictimSlot
<1>1. generation' = generation + 1 /\ generation' \in 0 .. MaxGeneration
  BY CacheAssumption DEF Insert, CacheInv, CacheTypeOK
<1>2. ASSUME SlotOf(t) # NoSlot
      PROVE  CacheInv'
  <2> DEFINE k == SlotOf(t)
  <2>1. /\ entries' = [entries EXCEPT ![k] = UpdatedEntry(entries[k], o, ttl, expires)]
        /\ lru' = MoveToHead(k) /\ UNCHANGED <<chain, nextFree>>
    BY <1>2 DEF Insert
  <2>2. k \in UsedSlots /\ k \in Slots
    BY <1>2, SlotOfProperties
  <2> HIDE DEF k
  <2>3. /\ entries \in [Slots -> Entry] /\ generation \in Nat
        /\ \A j \in Slots : entries[j].generation <= generation
    BY CacheAssumption DEF CacheInv, CacheTypeOK, EntriesPast
  <2>4. /\ UpdatedEntry(entries[k], o, ttl, expires) \in Entry
        /\ UpdatedEntry(entries[k], o, ttl, expires).valid = entries[k].valid
        /\ UpdatedEntry(entries[k], o, ttl, expires).target = entries[k].target
        /\ UpdatedEntry(entries[k], o, ttl, expires).generation = generation + 1
    BY <2>2, <2>3, UpdatedEntryType DEF UpdatedEntry, Entry
  <2>5. /\ entries' \in [Slots -> Entry]
        /\ \A j \in Slots :
              /\ entries'[j].valid = entries[j].valid
              /\ entries'[j].target = entries[j].target
              /\ entries'[j].generation <= generation'
    BY <1>1, <2>1, <2>2, <2>3, <2>4 DEF Entry
  <2> QED
    BY <1>1, <2>1, <2>2, <2>5, IndexKept
<1>3. ASSUME SlotOf(t) = NoSlot
      PROVE  CacheInv'
  <2> DEFINE new == UpdatedEntry([valid |-> TRUE, target |-> t], o, ttl, expires)
  <2>1. /\ entries' = [entries EXCEPT ![v] = new]
        /\ chain' = [Unhooked EXCEPT ![Hash[t]] = Prepend(v, Unhooked[Hash[t]])]
        /\ lru' = MoveToHead(v)
        /\ nextFree' = IF nextFree < Size THEN nextFree + 1 ELSE nextFree
    BY <1>3 DEF Insert, Unhooked
  <2>2. /\ v \in Slots /\ UsedSlots' = UsedSlots \cup {v}
        /\ v \in UsedSlots <=> ~(nextFree < Size)
        /\ UsedSlots \subseteq Slots /\ nextFree' \in 0 .. Size
    BY <2>1, CacheAssumption, VictimProperties
    DEF UsedSlots, Slots, CacheInv, CacheTypeOK
  <2>3. Hash[t] \in Buckets
    BY CacheAssumption
  <2>4. \A k \in UsedSlots : entries[k].target # t
    BY <1>3, SlotOfProperties
  <2>5. /\ Unhooked \in [Buckets -> Seq(Slots)]
        /\ \A b \in Buckets :
             /\ Injective(Unhooked[b])
             /\ Elements(Unhooked[b]) =
                   {k \in UsedSlots \ {v} : Hash[entries[k].target] = b}
    BY UnhookedProperties
  <2>6. LruHoldsUsedSlots' /\ lru' \in Seq(Slots)
    <3>1. /\ lru' \in Seq(Slots) /\ Injective(lru')
          /\ Elements(lru') = UsedSlots \cup {v}
          /\ Len(lru') = IF v \in UsedSlots THEN nextFree ELSE nextFree + 1
      BY <2>1, <2>2, MoveToHeadProperties
    <3> QED
      BY <2>1, <2>2, <3>1 DEF LruHoldsUsedSlots
  <2> HIDE DEF v
  <2>7. /\ entries \in [Slots -> Entry] /\ generation \in Nat
        /\ \A k \in Slots : entries[k].generation <= generation
    BY CacheAssumption DEF CacheInv, CacheTypeOK, EntriesPast
  <2>8. new \in Entry
    <3> DEFINE e == [valid |-> TRUE, target |-> t]
    <3>1. e.valid \in BOOLEAN /\ e.target \in Targets \cup {None}
      OBVIOUS
    <3> HIDE DEF e
    <3>2. UpdatedEntry(e, o, ttl, expires) \in Entry
      BY <2>7, <3>1, UpdatedEntryType
    <3> QED
      BY <3>2 DEF e
  <2>9. /\ entries' \in [Slots -> Entry] /\ entries'[v] = new
        /\ \A k \in Slots : k # v => entries'[k] = entries[k]
    BY <2>1, <2>2, <2>7, <2>8
  <2> HIDE DEF new
  <2>10. new.valid /\ new.target = t /\ new.generation = generation + 1
    BY DEF new, UpdatedEntry
  <2>11. OneEntryPerTarget'
    <3>1. \A j, k \in UsedSlots :
            /\ entries[j].valid /\ entries[j].target \in Targets
            /\ j # k => entries[j].target # entries[k].target
      BY DEF CacheInv, Indexed, OneEntryPerTarget
    <3>2. \A j \in UsedSlots \cup {v} :
             entries'[j].valid /\ entries'[j].target \in Targets
      BY <2>2, <2>9, <2>10, <3>1
    <3>3. \A j, k \in UsedSlots \cup {v} :
             j # k => entries'[j].target # entries'[k].target
      BY <2>2, <2>4, <2>9, <2>10, <3>1
    <3> QED
      BY <2>2, <3>2, <3>3 DEF OneEntryPerTarget
  <2>12. /\ Prepend(v, Unhooked[Hash[t]]) \in Seq(Slots)
         /\ Injective(Prepend(v, Unhooked[Hash[t]]))
         /\ Elements(Prepend(v, Unhooked[Hash[t]])) =
                {v} \cup Elements(Unhooked[Hash[t]])
    <3>1. /\ Unhooked[Hash[t]] \in Seq(Slots) /\ Injective(Unhooked[Hash[t]])
          /\ v \notin Elements(Unhooked[Hash[t]])
      BY <2>3, <2>5
    <3> QED
      BY <2>2, <3>1, PrependProperties, PrependInjective
  <2>13. chain' \in [Buckets -> Seq(Slots)]
    BY <2>1, <2>3, <2>5, <2>12
  <2>14. ASSUME NEW b \in Buckets
         PROVE  /\ Injective(chain'[b])
                /\ Elements(chain'[b]) =
                      {k \in UsedSlots' : Hash[entries'[k].target] = b}
    <3>1. Elements(Unhooked[b]) =
             {k \in UsedSlots \ {v} : Hash[entries'[k].target] = b}
      BY <2>2, <2>5, <2>9
    <3>2. CASE b = Hash[t]
      <4>1. chain'[b] = Prepend(v, Unhooked[Hash[t]])
        BY <2>1, <2>3, <2>5, <3>2
      <4>2. Elements(chain'[b]) = {v} \cup Elements(Unhooked[b])
        BY <2>12, <3>2, <4>1
      <4>3. {v} \cup {k \in UsedSlots \ {v} : Hash[entries'[k].target] = b}
              = {k \in UsedSlots' : Hash[entries'[k].target] = b}
        BY <2>2, <2>9, <2>10, <3>2
      <4> QED
        BY <2>12, <3>1, <4>1, <4>2, <4>3
    <3>3. CASE b # Hash[t]
      <4>1. chain'[b] = Unhooked[b]
        BY <2>1, <2>5, <3>3
      <4>2. {k \in UsedSlots \ {v} : Hash[entries'[k].target] = b}
              = {k \in UsedSlots' : Hash[entries'[k].target] = b}
        BY <2>2, <2>9, <2>10, <3>3
      <4> QED
        BY <2>5, <3>1, <4>1, <4>2
    <3> QED
      BY <3>2, <3>3
  <2>15. EntriesPast'
    BY <1>1, <2>7, <2>9, <2>10 DEF EntriesPast, Entry
  <2> QED
    BY <1>1, <2>2, <2>6, <2>9, <2>11, <2>13, <2>14, <2>15
    DEF CacheInv, CacheTypeOK, Indexed, ChainsHoldUsedSlots
<1> QED
  BY <1>2, <1>3

-----------------------------------------------------------------------------
(* The refreshes in flight. *)

RefreshesTypeOK == refreshes \in [RefreshIds -> Refresh \cup {None}]

\* No refresh carries a generation that has not been handed out, so an entry
\* that is written anew is out of reach of every refresh under way.
RefreshesPast ==
    \A r \in RefreshIds : refreshes[r] # None => refreshes[r].generation <= generation

\* RefreshingMeansOneInFlight without counting.
FlagMatchesFlight ==
    \A k \in Slots :
        /\ entries[k].refreshing => \E r : InFlightFor(k) = {r}
        /\ ~entries[k].refreshing => InFlightFor(k) = {}

RefreshInv ==
    RefreshesTypeOK /\ RefreshesPast /\ RefreshOwnsEntry /\ FlagMatchesFlight

\* What a step that starts and ends no refresh does to slot k.
Kept(k) ==
    /\ entries'[k].valid = entries[k].valid
    /\ entries'[k].target = entries[k].target
    /\ entries'[k].refreshing = entries[k].refreshing
    /\ entries'[k].generation = entries[k].generation

Renewed(k) == entries'[k].generation > generation /\ ~entries'[k].refreshing

\* None is no refresh, so what is not None has the fields of one.
LEMMA RefreshFields ==
    ASSUME RefreshesTypeOK, NEW r \in RefreshIds, refreshes[r] # None
    PROVE  /\ refreshes[r] \in Refresh
           /\ refreshes[r].slot \in Slots
           /\ refreshes[r].generation \in Nat
           /\ refreshes[r].target \in Targets
BY DEF RefreshesTypeOK, Refresh

\* Refreshes in flight stay owned by their entries when those keep what
\* refreshes look at.
LEMMA RefreshesKept ==
    ASSUME CacheInv, RefreshInv, CacheInv', UNCHANGED refreshes,
           generation <= generation', \A k \in Slots : Kept(k) \/ Renewed(k)
    PROVE  RefreshInv'
<1>1. /\ generation \in Nat /\ generation' \in Nat
      /\ entries \in [Slots -> Entry] /\ entries' \in [Slots -> Entry]
  BY CacheAssumption DEF CacheInv, CacheTypeOK
<1>2. ASSUME NEW r \in RefreshIds, refreshes[r] # None
      PROVE  /\ refreshes[r].slot \in Slots
             /\ refreshes[r].generation \in Nat
             /\ refreshes[r].generation <= generation
  BY <1>2, RefreshFields DEF RefreshInv, RefreshesPast
<1>3. ASSUME NEW k \in Slots, Kept(k)
      PROVE  InFlightFor(k)' = InFlightFor(k)
  BY <1>2, <1>3 DEF InFlightFor, StillCurrent, Kept
<1>4. ASSUME NEW k \in Slots, Renewed(k)
      PROVE  InFlightFor(k)' = {}
  BY <1>1, <1>2, <1>4 DEF InFlightFor, StillCurrent, Renewed, Entry
<1>5. RefreshesTypeOK'
  BY DEF RefreshInv, RefreshesTypeOK
<1>6. RefreshesPast'
  BY <1>1, <1>2 DEF RefreshesPast
<1>7. ASSUME NEW r \in RefreshIds, refreshes[r] # None,
             StillCurrent(refreshes[r])'
      PROVE  (entries[refreshes[r].slot].target = refreshes[r].target)'
  <2> DEFINE k == refreshes[r].slot
  <2>1. k \in Slots
    BY <1>2, <1>7
  <2>2. r \in InFlightFor(k)'
    BY <1>7 DEF InFlightFor
  <2>3. Kept(k)
    BY <1>4, <2>1, <2>2
  <2>4. StillCurrent(refreshes[r])
    BY <1>7, <2>3 DEF StillCurrent, Kept
  <2> QED
    BY <1>7, <2>3, <2>4 DEF RefreshInv, RefreshOwnsEntry, Kept
<1>8. RefreshOwnsEntry'
  BY <1>7 DEF RefreshOwnsEntry
<1>9. FlagMatchesFlight'
  <2> SUFFICES ASSUME NEW k \in Slots
               PROVE  /\ entries'[k].refreshing => \E r : InFlightFor(k)' = {r}
                      /\ ~entries'[k].refreshing => InFlightFor(k)' = {}
    BY DEF FlagMatchesFlight
  <2>1. CASE Kept(k)
    <3>1. InFlightFor(k)' = InFlightFor(k)
      BY <1>3, <2>1
    <3>2. entries'[k].refreshing = entries[k].refreshing
      BY <2>1 DEF Kept
    <3>3. /\ entries[k].refreshing => \E r : InFlightFor(k) = {r}
          /\ ~entries[k].refreshing => InFlightFor(k) = {}
      BY Zenon DEF RefreshInv, FlagMatchesFlight
    <3> QED
      BY <3>1, <3>2, <3>3, Zenon
  <2>2. CASE Renewed(k)
    BY <1>4, <2>2 DEF Renewed
  <2> QED
    BY <2>1, <2>2
<1> QED
  BY <1>5, <1>6, <1>8, <1>9 DEF RefreshInv

\* An insert gives the slot it writes a generation nobody holds yet.
LEMMA InsertRenews ==
    ASSUME CacheInv, NEW t \in Targets, NEW o, NEW ttl, NEW expires,
           Insert(t, o, ttl, expires)
    PROVE  generation <= generation' /\ \A j \in Slots : Kept(j) \/ Renewed(j)
<1>1. generation \in Nat /\ entries \in [Slots -> Entry]
  BY CacheAssumption DEF CacheInv, CacheTypeOK
<1>2. ASSUME NEW k, NEW e,
             entries' = [entries EXCEPT ![k] = UpdatedEntry(e, o, ttl, expires)],
             NEW j \in Slots
      PROVE  Kept(j) \/ Renewed(j)
  <2>1. CASE j = k
    <3>1. entries'[j] = UpdatedEntry(e, o, ttl, expires)
      BY <1>1, <1>2, <2>1
    <3>2. /\ UpdatedEntry(e, o, ttl, expires).generation = generation + 1
          /\ UpdatedEntry(e, o, ttl, expires).refreshing = FALSE
      BY DEF UpdatedEntry
    <3> QED
      BY <1>1, <3>1, <3>2 DEF Renewed
  <2>2. CASE j # k
    BY <1>1, <1>2, <2>2 DEF Kept
  <2> QED
    BY <2>1, <2>2
<1>3. generation' = generation + 1
  BY DEF Insert
<1>4. \E k, e : entries' = [entries EXCEPT ![k] = UpdatedEntry(e, o, ttl, expires)]
  BY DEF Insert
<1>5. PICK k, e : entries' = [entries EXCEPT ![k] = UpdatedEntry(e, o, ttl, expires)]
  BY <1>4
<1>6. \A j \in Slots : Kept(j) \/ Renewed(j)
  BY <1>2, <1>5
<1> QED
  BY <1>1, <1>3, <1>6

-----------------------------------------------------------------------------
(* The steps. *)

\* A step that leaves cache, refreshes and clock types alone keeps the
\* invariant.
LEMMA IdleStep ==
    ASSUME CacheInv, RefreshInv, UNCHANGED <<cacheVars, refreshes>>
    PROVE  CacheInv' /\ RefreshInv'
<1>1. CacheInv'
  BY DEF cacheVars, CacheInv, CacheTypeOK, EntriesPast, Indexed, LruHoldsUsedSlots,
         ChainsHoldUsedSlots, OneEntryPerTarget, UsedSlots
<1>2. generation \in Nat
  BY CacheAssumption DEF CacheInv, CacheTypeOK
<1> QED
  BY <1>1, <1>2, RefreshesKept DEF cacheVars, Kept

\* A lookup that hits keeps the invariant.
LEMMA TouchStep ==
    ASSUME CacheInv, RefreshInv, UNCHANGED refreshes,
           NEW t \in Targets, ~Miss(t), Touch(SlotOf(t))
    PROVE  CacheInv' /\ RefreshInv'
<1>1. SlotOf(t) \in UsedSlots
  BY SlotOfProperties DEF Miss
<1>2. /\ UNCHANGED <<entries, chain, nextFree, generation>>
      /\ lru' = MoveToHead(SlotOf(t))
  BY DEF Touch
<1>3. /\ entries \in [Slots -> Entry] /\ generation \in 0 .. MaxGeneration
      /\ generation \in Nat
      /\ \A k \in Slots : entries[k].generation <= generation
  BY CacheAssumption DEF CacheInv, CacheTypeOK, EntriesPast
<1>4. CacheInv'
  BY <1>1, <1>2, <1>3, IndexKept
<1> QED
  BY <1>2, <1>3, <1>4, RefreshesKept DEF Kept

\* An insert keeps the invariant.
LEMMA InsertStep ==
    ASSUME CacheInv, RefreshInv, UNCHANGED refreshes,
           NEW t \in Targets, NEW o \in OutboundIds \cup {NoOutbound},
           NEW ttl \in BOOLEAN, NEW expires \in Nat, Insert(t, o, ttl, expires)
    PROVE  CacheInv' /\ RefreshInv'
<1>1. CacheInv'
  BY InsertKeepsIndex
<1>2. generation <= generation' /\ \A k \in Slots : Kept(k) \/ Renewed(k)
  BY InsertRenews
<1> QED
  BY <1>1, <1>2, RefreshesKept

\* A resolver answer for a session keeps the invariant.
LEMMA InsertAnswerStep ==
    ASSUME CacheInv, RefreshInv, UNCHANGED refreshes, now \in Nat,
           NEW t \in Targets, NEW addrs, InsertAnswer(t, addrs)
    PROVE  CacheInv' /\ RefreshInv'
<1>1. CASE addrs # Failed /\ Answered(t, addrs).outbound # NoOutbound
  <2>1. /\ Answered(t, addrs).outbound \in OutboundIds \cup {NoOutbound}
        /\ Answered(t, addrs).ttl \in BOOLEAN
    BY DecisionType DEF Answered
  <2>2. PICK d \in Ttls :
           Insert(t, Answered(t, addrs).outbound, Answered(t, addrs).ttl, now + d)
    BY <1>1 DEF InsertAnswer
  <2>3. now + d \in Nat
    BY CacheAssumption
  <2> QED
    BY <2>1, <2>2, <2>3, InsertStep
<1>2. CASE ~(addrs # Failed /\ Answered(t, addrs).outbound # NoOutbound)
  BY <1>2, IdleStep DEF InsertAnswer
<1> QED
  BY <1>1, <1>2

\* e is slot k's entry revised, and g the generation after that: the same target,
\* no refresh under way, and a new generation or the old one.
RevisionOf(k, e, g) ==
    /\ e \in Entry
    /\ e.valid = entries[k].valid
    /\ e.target = entries[k].target
    /\ e.refreshing = FALSE
    /\ \/ g = generation /\ e.generation = entries[k].generation
       \/ g = generation + 1 /\ e.generation = generation + 1

\* A revised entry keeps its target, and is no longer being refreshed.
LEMMA RevisedProperties ==
    ASSUME CacheInv, now \in Nat,
           NEW k \in Slots, NEW t, NEW addrs, NEW d \in Ttls
    PROVE  RevisionOf(k, Revised(k, t, addrs, d), RevisedGeneration(t, addrs))
<1>1. entries[k] \in Entry /\ generation \in Nat
  BY CacheAssumption DEF CacheInv, CacheTypeOK
<1>2. CASE addrs # Failed /\ Answered(t, addrs).outbound # NoOutbound
  <2> DEFINE o == Answered(t, addrs).outbound
             ttl == Answered(t, addrs).ttl
  <2>1. o \in OutboundIds \cup {NoOutbound} /\ ttl \in BOOLEAN
    BY DecisionType DEF Answered
  <2>2. now + d \in Nat
    BY CacheAssumption
  <2>3. entries[k].valid \in BOOLEAN /\ entries[k].target \in Targets \cup {None}
    BY <1>1 DEF Entry
  <2>4. /\ Revised(k, t, addrs, d) = UpdatedEntry(entries[k], o, ttl, now + d)
        /\ RevisedGeneration(t, addrs) = generation + 1
    BY <1>2 DEF Revised, RevisedGeneration
  <2> HIDE DEF o, ttl
  <2>5. UpdatedEntry(entries[k], o, ttl, now + d) \in Entry
    BY <1>1, <2>1, <2>2, <2>3, UpdatedEntryType
  <2> QED
    BY <2>4, <2>5 DEF UpdatedEntry, RevisionOf
<1>3. CASE ~(addrs # Failed /\ Answered(t, addrs).outbound # NoOutbound)
  <2>1. /\ Revised(k, t, addrs, d) = [entries[k] EXCEPT !.refreshing = FALSE]
        /\ RevisedGeneration(t, addrs) = generation
    BY <1>3 DEF Revised, RevisedGeneration
  <2> QED
    BY <1>1, <2>1 DEF Entry, RevisionOf
<1> QED
  BY <1>2, <1>3

\* Slot k is revised and nothing else in the cache changes but the LRU order.
LEMMA RevisedKeepsIndex ==
    ASSUME CacheInv,
           NEW k \in Slots, NEW e, RevisionOf(k, e, generation'),
           entries' = [entries EXCEPT ![k] = e],
           generation' <= MaxGeneration,
           UNCHANGED <<chain, nextFree>>,
           lru' = lru \/ \E j \in UsedSlots : lru' = MoveToHead(j)
    PROVE  CacheInv' /\ generation <= generation'
<1>1. /\ entries \in [Slots -> Entry] /\ generation \in Nat /\ MaxGeneration \in Nat
      /\ \A j \in Slots : /\ entries[j].generation <= generation
                          /\ entries[j].generation \in Nat
  BY CacheAssumption DEF CacheInv, CacheTypeOK, EntriesPast, Entry
<1>2. /\ e \in Entry
      /\ e.valid = entries[k].valid /\ e.target = entries[k].target
      /\ \/ generation' = generation /\ e.generation = entries[k].generation
         \/ generation' = generation + 1 /\ e.generation = generation + 1
  BY DEF RevisionOf
<1>3. generation' \in 0 .. MaxGeneration /\ generation <= generation'
  BY <1>1, <1>2
<1>5. /\ entries' \in [Slots -> Entry] /\ entries'[k] = e
      /\ \A j \in Slots : j # k => entries'[j] = entries[j]
  BY <1>1, <1>2
<1>6. ASSUME NEW j \in Slots
      PROVE  /\ entries'[j].valid = entries[j].valid
             /\ entries'[j].target = entries[j].target
             /\ entries'[j].generation <= generation'
  <2>1. CASE j = k
    BY <1>1, <1>2, <1>5, <2>1
  <2>2. CASE j # k
    BY <1>1, <1>3, <1>5, <2>2
  <2> QED
    BY <2>1, <2>2
<1> QED
  BY <1>3, <1>5, <1>6, IndexKept

\* A refresh that is answered before ngx_resolve_name returns keeps the
\* invariant.
LEMMA RefreshAtOnceStep ==
    ASSUME CacheInv, RefreshInv, now \in Nat,
           NEW t \in Targets, NEW addrs, RefreshAtOnce(t, addrs)
    PROVE  CacheInv' /\ RefreshInv'
<1> DEFINE k == SlotOf(t)
<1>1. PICK d \in Ttls : entries' = [entries EXCEPT ![k] = Revised(k, t, addrs, d)]
  BY DEF RefreshAtOnce
<1>2. /\ ~entries[k].refreshing /\ generation < MaxGeneration
      /\ generation' = RevisedGeneration(t, addrs) /\ lru' = MoveToHead(k)
      /\ UNCHANGED <<chain, nextFree, refreshes>>
  BY DEF RefreshAtOnce
<1>3. k \in UsedSlots /\ k \in Slots
  BY SlotOfProperties DEF RefreshAtOnce, Miss
<1> HIDE DEF k
<1>4. PICK e : e = Revised(k, t, addrs, d)
  OBVIOUS
<1>5. RevisionOf(k, e, generation')
  BY <1>2, <1>3, <1>4, RevisedProperties
<1>6. /\ entries \in [Slots -> Entry] /\ generation \in Nat /\ MaxGeneration \in Nat
  BY CacheAssumption DEF CacheInv, CacheTypeOK
<1>7. /\ generation' = generation \/ generation' = generation + 1
      /\ entries' = [entries EXCEPT ![k] = e]
  BY <1>1, <1>4, <1>5 DEF RevisionOf
<1>8. CacheInv' /\ generation <= generation'
  <2>1. generation' <= MaxGeneration
    BY <1>2, <1>6, <1>7
  <2>2. \E j \in UsedSlots : lru' = MoveToHead(j)
    BY <1>2, <1>3
  <2> QED
    BY <1>2, <1>3, <1>5, <1>7, <2>1, <2>2, RevisedKeepsIndex
<1>9. ASSUME NEW j \in Slots
      PROVE  Kept(j) \/ Renewed(j)
  <2>1. CASE j # k
    BY <1>6, <1>7, <2>1 DEF Kept
  <2>2. CASE j = k
    <3>1. entries'[j] = e
      BY <1>6, <1>7, <2>2
    <3>2. entries[k].refreshing = FALSE
      BY <1>2, <1>3, <1>6 DEF Entry
    <3>3. /\ e.valid = entries[k].valid /\ e.target = entries[k].target
          /\ e.refreshing = FALSE
          /\ e.generation = entries[k].generation \/ e.generation = generation + 1
      BY <1>5 DEF RevisionOf
    <3>4. CASE e.generation = entries[k].generation
      BY <2>2, <3>1, <3>2, <3>3, <3>4 DEF Kept
    <3>5. CASE e.generation = generation + 1
      BY <1>6, <3>1, <3>3, <3>5 DEF Renewed
    <3> QED
      BY <3>3, <3>4, <3>5
  <2> QED
    BY <2>1, <2>2
<1> QED
  BY <1>2, <1>8, <1>9, RefreshesKept

\* Starting a refresh keeps the invariant: the entry had none in flight.
LEMMA StartRefreshStep ==
    ASSUME CacheInv, RefreshInv,
           NEW t \in Targets, NEW r \in RefreshIds, StartRefresh(t, r)
    PROVE  CacheInv' /\ RefreshInv'
<1>0. PICK k, f :
        /\ k = SlotOf(t)
        /\ f = [slot |-> k, generation |-> entries[k].generation, target |-> t]
  OBVIOUS
<1>1. /\ ~entries[k].refreshing /\ refreshes[r] = None
      /\ refreshes' = [refreshes EXCEPT ![r] = f]
      /\ entries' = [entries EXCEPT ![k].refreshing = TRUE]
      /\ lru' = MoveToHead(k)
      /\ UNCHANGED <<chain, nextFree, generation>>
  BY <1>0 DEF StartRefresh
<1>2. k \in UsedSlots /\ k \in Slots /\ entries[k].target = t
  BY <1>0, SlotOfProperties DEF StartRefresh, Miss
<1>3. /\ entries \in [Slots -> Entry]
      /\ generation \in Nat /\ generation \in 0 .. MaxGeneration
      /\ \A j \in Slots : /\ entries[j].generation <= generation
                          /\ entries[j].generation \in Nat
  BY CacheAssumption DEF CacheInv, CacheTypeOK, EntriesPast, Entry
<1>4. entries[k].valid
  BY <1>2 DEF CacheInv, Indexed, OneEntryPerTarget
<1>5. /\ entries' \in [Slots -> Entry] /\ entries'[k].refreshing
      /\ \A j \in Slots : j # k => entries'[j] = entries[j]
  BY <1>1, <1>2, <1>3, ZenonT(40) DEF Entry
<1>6. \A j \in Slots :
        /\ entries'[j].valid = entries[j].valid
        /\ entries'[j].target = entries[j].target
        /\ entries'[j].generation = entries[j].generation
  BY <1>1, <1>2, <1>3 DEF Entry
<1>7. CacheInv'
  BY <1>1, <1>2, <1>3, <1>5, <1>6, IndexKept
<1>8. f \in Refresh /\ f # None /\ f.slot = k /\ f.generation = entries[k].generation
      /\ f.target = t
  BY <1>0, <1>2, <1>3, CacheAssumption DEF Refresh
<1>9. /\ refreshes \in [RefreshIds -> Refresh \cup {None}]
      /\ refreshes' \in [RefreshIds -> Refresh \cup {None}]
      /\ refreshes'[r] = f
      /\ \A s \in RefreshIds : s # r => refreshes'[s] = refreshes[s]
  BY <1>1, <1>8 DEF RefreshInv, RefreshesTypeOK
<1>10. ASSUME NEW s \in RefreshIds, refreshes[s] # None
       PROVE  /\ refreshes[s].slot \in Slots
              /\ StillCurrent(refreshes[s])' <=> StillCurrent(refreshes[s])
              /\ s # r
  <2>1. s # r
    BY <1>1, <1>10
  <2>2. refreshes[s].slot \in Slots
    BY <1>10, RefreshFields DEF RefreshInv
  <2> QED
    BY <1>6, <1>9, <2>1, <2>2 DEF StillCurrent
<1>11. RefreshesPast'
  BY <1>1, <1>2, <1>3, <1>8, <1>9 DEF RefreshInv, RefreshesPast
<1>12. RefreshOwnsEntry'
  <2> SUFFICES ASSUME NEW s \in RefreshIds, refreshes'[s] # None,
                      StillCurrent(refreshes[s])'
               PROVE  entries'[refreshes'[s].slot].target = refreshes'[s].target
    BY DEF RefreshOwnsEntry
  <2>1. CASE s = r
    BY <1>2, <1>6, <1>8, <1>9, <2>1
  <2>2. CASE s # r
    BY <1>6, <1>9, <1>10, <2>2 DEF RefreshInv, RefreshOwnsEntry
  <2> QED
    BY <2>1, <2>2
<1>13. ASSUME NEW j \in Slots, j # k
       PROVE  InFlightFor(j)' = InFlightFor(j)
  <2>1. ASSUME NEW s \in RefreshIds
        PROVE  s \in InFlightFor(j)' <=> s \in InFlightFor(j)
    <3>1. CASE s = r
      BY <1>1, <1>8, <1>9, <1>13, <3>1 DEF InFlightFor
    <3>2. CASE s # r
      BY <1>9, <1>10, <3>2 DEF InFlightFor
    <3> QED
      BY <3>1, <3>2
  <2> QED
    BY <2>1 DEF InFlightFor
<1>14. InFlightFor(k)' = {r}
  <2>1. InFlightFor(k) = {}
    BY <1>1, <1>2, Zenon DEF RefreshInv, FlagMatchesFlight
  <2>2. r \in InFlightFor(k)'
    <3>1. entries'[k].valid /\ entries'[k].generation = f.generation
      BY <1>2, <1>4, <1>6, <1>8
    <3> QED
      BY <1>8, <1>9, <3>1 DEF InFlightFor, StillCurrent
  <2>3. ASSUME NEW s \in RefreshIds, s # r, s \in InFlightFor(k)'
        PROVE  FALSE
    <3>1. /\ refreshes[s] # None /\ refreshes[s].slot = k
          /\ StillCurrent(refreshes[s])'
      BY <1>9, <2>3 DEF InFlightFor
    <3>2. StillCurrent(refreshes[s])
      BY <1>10, <3>1
    <3> QED
      BY <2>1, <3>1, <3>2 DEF InFlightFor
  <2> QED
    BY <2>2, <2>3 DEF InFlightFor
<1>15. FlagMatchesFlight'
  <2> SUFFICES ASSUME NEW j \in Slots
               PROVE  /\ entries'[j].refreshing => \E s : InFlightFor(j)' = {s}
                      /\ ~entries'[j].refreshing => InFlightFor(j)' = {}
    BY DEF FlagMatchesFlight
  <2>1. CASE j = k
    <3>1. InFlightFor(j)' = {r} /\ entries'[j].refreshing
      BY <1>5, <1>14, <2>1
    <3> QED
      BY <3>1, Zenon
  <2>2. CASE j # k
    <3>1. InFlightFor(j)' = InFlightFor(j) /\ entries'[j] = entries[j]
      BY <1>5, <1>13, <2>2
    <3>2. /\ entries[j].refreshing => \E s : InFlightFor(j) = {s}
          /\ ~entries[j].refreshing => InFlightFor(j) = {}
      BY Zenon DEF RefreshInv, FlagMatchesFlight
    <3> QED
      BY <3>1, <3>2, Zenon
  <2> QED
    BY <2>1, <2>2
<1> QED
  BY <1>7, <1>9, <1>11, <1>12, <1>15 DEF RefreshInv, RefreshesTypeOK

\* A refresh ends and the flags go on telling the refreshes in flight, given
\* what its answer did to the slots.
LEMMA RefreshEnded ==
    ASSUME CacheInv, RefreshInv, CacheInv', generation <= generation',
           NEW r \in RefreshIds, refreshes[r] # None,
           refreshes' = [refreshes EXCEPT ![r] = None],
           \A j \in Slots : entries'[j].target = entries[j].target,
           \A j \in Slots :
               \/ r \notin InFlightFor(j) /\ Kept(j)
               \/ /\ r \in InFlightFor(j) /\ ~entries'[j].refreshing
                  /\ \/ entries'[j].generation = entries[j].generation
                     \/ entries'[j].generation > generation
    PROVE  RefreshInv'
<1>1. /\ generation \in Nat /\ generation' \in Nat
      /\ entries \in [Slots -> Entry] /\ entries' \in [Slots -> Entry]
  BY CacheAssumption DEF CacheInv, CacheTypeOK
<1>2. /\ refreshes \in [RefreshIds -> Refresh \cup {None}]
      /\ refreshes' \in [RefreshIds -> Refresh \cup {None}]
      /\ refreshes'[r] = None
      /\ \A s \in RefreshIds : s # r => refreshes'[s] = refreshes[s]
  BY DEF RefreshInv, RefreshesTypeOK
<1>3. ASSUME NEW s \in RefreshIds, refreshes[s] # None
      PROVE  /\ refreshes[s].slot \in Slots
             /\ refreshes[s].generation \in Nat
             /\ refreshes[s].generation <= generation
  BY <1>3, RefreshFields DEF RefreshInv, RefreshesPast
<1>4. ASSUME NEW j \in Slots, r \in InFlightFor(j)
      PROVE  InFlightFor(j)' = {}
  <2>1. InFlightFor(j) = {r}
    <3>1. PICK q : entries[j].refreshing => InFlightFor(j) = {q}
      BY Zenon DEF RefreshInv, FlagMatchesFlight
    <3>2. ~entries[j].refreshing => InFlightFor(j) = {}
      BY Zenon DEF RefreshInv, FlagMatchesFlight
    <3> QED
      BY <1>4, <3>1, <3>2
  <2>2. SUFFICES ASSUME NEW s \in RefreshIds, s \in InFlightFor(j)'
                 PROVE  FALSE
    BY DEF InFlightFor
  <2>3. /\ s # r /\ refreshes[s] # None /\ refreshes[s].slot = j
        /\ entries'[j].valid /\ entries'[j].generation = refreshes[s].generation
    BY <1>2, <2>2 DEF InFlightFor, StillCurrent
  <2>4. entries[j].valid
    BY <1>4 DEF InFlightFor, StillCurrent
  <2>5. CASE entries'[j].generation = entries[j].generation
    <3>1. s \in InFlightFor(j)
      BY <2>3, <2>4, <2>5 DEF InFlightFor, StillCurrent
    <3> QED
      BY <2>1, <2>3, <3>1
  <2>6. CASE entries'[j].generation > generation
    BY <1>1, <1>3, <2>3, <2>6
  <2> QED
    BY <1>4, <2>5, <2>6
<1>5. ASSUME NEW j \in Slots, r \notin InFlightFor(j)
      PROVE  InFlightFor(j)' = InFlightFor(j)
  <2>1. Kept(j)
    BY <1>5
  <2>2. ASSUME NEW s \in RefreshIds
        PROVE  s \in InFlightFor(j)' <=> s \in InFlightFor(j)
    <3>1. CASE s = r
      BY <1>2, <1>5, <3>1 DEF InFlightFor
    <3>2. CASE s # r
      BY <1>2, <2>1, <3>2 DEF InFlightFor, StillCurrent, Kept
    <3> QED
      BY <3>1, <3>2
  <2> QED
    BY <2>2 DEF InFlightFor
<1>6. RefreshesPast'
  BY <1>1, <1>2, <1>3 DEF RefreshesPast
<1>7. RefreshOwnsEntry'
  <2> SUFFICES ASSUME NEW s \in RefreshIds, refreshes'[s] # None,
                      StillCurrent(refreshes[s])'
               PROVE  entries'[refreshes'[s].slot].target = refreshes'[s].target
    BY DEF RefreshOwnsEntry
  <2>1. PICK j : j = refreshes[s].slot
    OBVIOUS
  <2>2. /\ s # r /\ refreshes[s] # None /\ refreshes'[s] = refreshes[s]
        /\ j \in Slots
    BY <1>2, <1>3, <2>1
  <2>3. s \in InFlightFor(j)'
    BY <2>1, <2>2 DEF InFlightFor
  <2>4. r \notin InFlightFor(j)
    BY <1>4, <2>2, <2>3
  <2>5. s \in InFlightFor(j)
    BY <1>5, <2>2, <2>3, <2>4
  <2> QED
    BY <2>1, <2>2, <2>5 DEF InFlightFor, RefreshInv, RefreshOwnsEntry
<1>8. FlagMatchesFlight'
  <2> SUFFICES ASSUME NEW j \in Slots
               PROVE  /\ entries'[j].refreshing => \E s : InFlightFor(j)' = {s}
                      /\ ~entries'[j].refreshing => InFlightFor(j)' = {}
    BY DEF FlagMatchesFlight
  <2>1. CASE r \in InFlightFor(j)
    <3>1. InFlightFor(j)' = {} /\ ~entries'[j].refreshing
      BY <1>4, <2>1
    <3> QED
      BY <3>1, Zenon
  <2>2. CASE r \notin InFlightFor(j)
    <3>1. InFlightFor(j)' = InFlightFor(j)
      BY <1>5, <2>2
    <3>2. entries'[j].refreshing = entries[j].refreshing
      BY <2>2 DEF Kept
    <3>3. /\ entries[j].refreshing => \E s : InFlightFor(j) = {s}
          /\ ~entries[j].refreshing => InFlightFor(j) = {}
      BY Zenon DEF RefreshInv, FlagMatchesFlight
    <3> QED
      BY <3>1, <3>2, <3>3, Zenon
  <2> QED
    BY <2>1, <2>2
<1> QED
  BY <1>2, <1>6, <1>7, <1>8 DEF RefreshInv, RefreshesTypeOK

\* The answer of a refresh keeps the invariant, current or late.
LEMMA RefreshAnswerStep ==
    ASSUME CacheInv, RefreshInv, now \in Nat,
           NEW r \in RefreshIds, NEW addrs, RefreshAnswer(r, addrs)
    PROVE  CacheInv' /\ RefreshInv'
<1>1. PICK f, k : f = refreshes[r] /\ k = f.slot
  OBVIOUS
<1>2. /\ generation < MaxGeneration \/ addrs = Failed
      /\ refreshes' = [refreshes EXCEPT ![r] = None]
      /\ UNCHANGED <<chain, lru, nextFree>>
  BY <1>1 DEF RefreshAnswer
<1>3. f \in Refresh /\ k \in Slots /\ f # None
  BY <1>1, RefreshFields DEF RefreshInv, RefreshAnswer
<1>4. /\ entries \in [Slots -> Entry] /\ generation \in Nat /\ MaxGeneration \in Nat
      /\ generation \in 0 .. MaxGeneration
      /\ \A j \in Slots : entries[j].generation <= generation
  BY CacheAssumption DEF CacheInv, CacheTypeOK, EntriesPast
<1>5. \A j \in Slots : r \in InFlightFor(j) <=> j = k /\ StillCurrent(f)
  BY <1>1, <1>3 DEF InFlightFor
<1>6. CASE StillCurrent(f)
  <2>0. PICK d \in Ttls :
           /\ entries' = [entries EXCEPT ![k] = Revised(k, f.target, addrs, d)]
           /\ generation' = RevisedGeneration(f.target, addrs)
    BY <1>1, <1>6 DEF RefreshAnswer
  <2>1. PICK e : /\ e = Revised(k, f.target, addrs, d)
                 /\ entries' = [entries EXCEPT ![k] = e]
                 /\ generation' = RevisedGeneration(f.target, addrs)
    BY <2>0
  <2>2. RevisionOf(k, e, generation')
    BY <1>3, <2>1, RevisedProperties
  <2>3. /\ e.target = entries[k].target /\ e.refreshing = FALSE
        /\ \/ generation' = generation /\ e.generation = entries[k].generation
           \/ generation' = generation + 1 /\ e.generation = generation + 1
    BY <2>2 DEF RevisionOf
  <2>4. generation' <= MaxGeneration
    BY <1>2, <1>4, <2>1, <2>3 DEF RevisedGeneration, RefreshAnswer
  <2>5. CacheInv' /\ generation <= generation'
    BY <1>2, <1>3, <2>1, <2>2, <2>4, RevisedKeepsIndex
  <2>6. entries'[k] = e /\ \A j \in Slots : j # k => entries'[j] = entries[j]
    BY <1>3, <1>4, <2>1
  <2>7. \A j \in Slots : entries'[j].target = entries[j].target
    BY <2>3, <2>6
  <2>8. ASSUME NEW j \in Slots
        PROVE  \/ r \notin InFlightFor(j) /\ Kept(j)
               \/ /\ r \in InFlightFor(j) /\ ~entries'[j].refreshing
                  /\ \/ entries'[j].generation = entries[j].generation
                     \/ entries'[j].generation > generation
    <3>1. CASE j = k
      <4>1. r \in InFlightFor(j)
        BY <1>5, <1>6, <3>1
      <4>2. ~entries'[j].refreshing
        BY <2>3, <2>6, <3>1
      <4>3. \/ entries'[j].generation = entries[j].generation
            \/ entries'[j].generation > generation
        BY <1>4, <2>3, <2>6, <3>1
      <4> QED
        BY <4>1, <4>2, <4>3
    <3>2. CASE j # k
      BY <1>5, <2>6, <3>2 DEF Kept
    <3> QED
      BY <3>1, <3>2
  <2>9. refreshes[r] # None
    BY <1>1, <1>3
  <2> QED
    BY <1>2, <2>5, <2>7, <2>8, <2>9, RefreshEnded
<1>7. CASE ~StillCurrent(f)
  <2>1. UNCHANGED <<entries, generation>>
    BY <1>1, <1>7 DEF RefreshAnswer
  <2>2. CacheInv'
    BY <1>2, <1>4, <2>1, IndexKept
  <2>3. \A j \in Slots : r \notin InFlightFor(j) /\ Kept(j)
    BY <1>5, <1>7, <2>1 DEF Kept
  <2>4. refreshes[r] # None /\ generation <= generation'
    BY <1>1, <1>3, <1>4, <2>1
  <2> QED
    BY <1>2, <2>1, <2>2, <2>3, <2>4, RefreshEnded
<1> QED
  BY <1>6, <1>7

-----------------------------------------------------------------------------
(* The invariant and the theorems. *)

IInv ==
    /\ CacheInv
    /\ RefreshInv
    /\ asking \in [Sessions -> Targets \cup {None}]
    /\ now \in 0 .. MaxTime

\* The empty cache satisfies the invariant.
LEMMA InitIInv == Init => IInv
<1> SUFFICES ASSUME Init PROVE IInv
  OBVIOUS
<1>1. /\ \A k \in Slots : entries[k].generation = 0 /\ ~entries[k].refreshing
      /\ entries \in [Slots -> Entry]
  BY DEF Init, Entry, NoOutbound
<1>2. CacheTypeOK
  <2>1. <<>> \in Seq(Slots)
    BY EmptySeq
  <2>2. chain \in [Buckets -> Seq(Slots)] /\ lru \in Seq(Slots)
    BY <2>1 DEF Init
  <2>3. nextFree \in 0 .. Size /\ generation \in 0 .. MaxGeneration
    BY CacheAssumption DEF Init
  <2> QED
    BY <1>1, <2>2, <2>3 DEF CacheTypeOK
<1>3. EntriesPast
  BY <1>1 DEF Init, EntriesPast
<1>4. UsedSlots = {}
  BY DEF Init, UsedSlots
<1>5. Indexed
  BY <1>4 DEF Init, Indexed, LruHoldsUsedSlots, ChainsHoldUsedSlots,
              OneEntryPerTarget, Injective, Elements
<1>6. RefreshesTypeOK /\ \A r \in RefreshIds : refreshes[r] = None
  BY DEF Init, RefreshesTypeOK
<1>7. RefreshesPast /\ RefreshOwnsEntry
  BY <1>6 DEF RefreshesPast, RefreshOwnsEntry
<1>8. FlagMatchesFlight
  BY <1>1, <1>6 DEF FlagMatchesFlight, InFlightFor
<1> QED
  BY <1>2, <1>3, <1>5, <1>6, <1>7, <1>8, CacheAssumption
  DEF IInv, CacheInv, RefreshInv, Init

\* Every step keeps the invariant.
LEMMA StepIInv == IInv /\ [Next]_vars => IInv'
<1> SUFFICES ASSUME IInv, [Next]_vars PROVE IInv'
  OBVIOUS
<1>1. CacheInv /\ RefreshInv
  BY DEF IInv
<1>2. now \in Nat
  BY CacheAssumption DEF IInv
<1> USE <1>1, <1>2
<1>3. CacheInv' /\ RefreshInv'
  <2>1. ASSUME NEW t \in Targets, RequestFresh(t)
        PROVE  CacheInv' /\ RefreshInv'
    BY <2>1, TouchStep DEF RequestFresh
  <2>2. ASSUME NEW t \in Targets, RequestStale(t)
        PROVE  CacheInv' /\ RefreshInv'
    BY <2>2, TouchStep DEF RequestStale
  <2>3. ASSUME NEW t \in Targets, RequestStatic(t)
        PROVE  CacheInv' /\ RefreshInv'
    <3>1. PICK o, ttl : /\ o = SelectOutboundNow(t, {}, FALSE).outbound
                        /\ ttl = SelectOutboundNow(t, {}, FALSE).ttl
      OBVIOUS
    <3>2. o \in OutboundIds \cup {NoOutbound} /\ ttl \in BOOLEAN
      BY <3>1, DecisionType
    <3>3. Insert(t, o, ttl, 0) /\ UNCHANGED refreshes
      BY <2>3, <3>1 DEF RequestStatic
    <3> QED
      BY <3>2, <3>3, InsertStep
  <2>4. ASSUME NEW t \in Targets, NEW r \in RefreshIds, StartRefresh(t, r)
        PROVE  CacheInv' /\ RefreshInv'
    BY <2>4, StartRefreshStep
  <2>5. ASSUME NEW t \in Targets, NEW s \in Sessions, Ask(s, t)
        PROVE  CacheInv' /\ RefreshInv'
    BY <2>5, IdleStep DEF Ask
  <2>6. ASSUME NEW t \in Targets, NEW addrs, RefreshAtOnce(t, addrs)
        PROVE  CacheInv' /\ RefreshInv'
    BY <2>6, RefreshAtOnceStep
  <2>7. ASSUME NEW t \in Targets, NEW addrs, RequestSystem(t, addrs)
        PROVE  CacheInv' /\ RefreshInv'
    <3>1. UNCHANGED refreshes
      BY <2>7 DEF RequestSystem
    <3>2. CASE InsertAnswer(t, addrs)
      BY <3>1, <3>2, InsertAnswerStep
    <3>3. CASE UNCHANGED cacheVars
      BY <3>1, <3>3, IdleStep
    <3>4. CASE ~Miss(t) /\ Touch(SlotOf(t))
      BY <3>1, <3>4, TouchStep
    <3> QED
      BY <2>7, <3>2, <3>3, <3>4 DEF RequestSystem
  <2>8. ASSUME NEW t \in Targets, NEW addrs, AskAtOnce(t, addrs)
        PROVE  CacheInv' /\ RefreshInv'
    BY <2>8, InsertAnswerStep DEF AskAtOnce
  <2>9. ASSUME NEW s \in Sessions, NEW addrs, RouteAnswer(s, addrs)
        PROVE  CacheInv' /\ RefreshInv'
    <3>1. PICK t : t = asking[s]
      OBVIOUS
    <3>2. t \in Targets /\ InsertAnswer(t, addrs) /\ UNCHANGED refreshes
      BY <2>9, <3>1 DEF RouteAnswer, IInv
    <3> QED
      BY <3>2, InsertAnswerStep
  <2>10. ASSUME NEW r \in RefreshIds, NEW addrs, RefreshAnswer(r, addrs)
         PROVE  CacheInv' /\ RefreshInv'
    BY <2>10, RefreshAnswerStep
  <2>11. CASE Tick
    BY <2>11, IdleStep DEF Tick
  <2>12. CASE UNCHANGED vars
    BY <2>12, IdleStep DEF vars, cacheVars
  <2> QED
    BY <2>1, <2>2, <2>3, <2>4, <2>5, <2>6, <2>7, <2>8, <2>9, <2>10, <2>11, <2>12
    DEF Next
<1>4. asking' \in [Sessions -> Targets \cup {None}]
  <2>1. ASSUME NEW s, NEW t \in Targets, Ask(s, t)
        PROVE  asking' \in [Sessions -> Targets \cup {None}]
    BY <2>1 DEF Ask, IInv
  <2>2. ASSUME NEW s, NEW addrs, RouteAnswer(s, addrs)
        PROVE  asking' \in [Sessions -> Targets \cup {None}]
    BY <2>2 DEF RouteAnswer, IInv
  <2>3. CASE UNCHANGED asking
    BY <2>3 DEF IInv
  <2> QED
    BY <2>1, <2>2, <2>3
    DEF Next, RequestFresh, RequestStale, RequestStatic, StartRefresh, RefreshAtOnce,
        RequestSystem, AskAtOnce, RefreshAnswer, Tick, vars
<1>5. now' \in 0 .. MaxTime
  <2>1. CASE Tick
    BY <2>1, CacheAssumption DEF Tick, IInv
  <2>2. CASE UNCHANGED now
    BY <2>2 DEF IInv
  <2> QED
    BY <2>1, <2>2
    DEF Next, RequestFresh, RequestStale, RequestStatic, StartRefresh, RefreshAtOnce,
        RequestSystem, Ask, AskAtOnce, RouteAnswer, RefreshAnswer, vars
<1> QED
  BY <1>3, <1>4, <1>5 DEF IInv

\* The invariant holds throughout.
LEMMA Invariant == Spec => []IInv
BY InitIInv, StepIInv, PTL DEF Spec

\* The state of the cache, of the requests and of the refreshes is well typed;
\* above all, slot numbers in chains, queue and refreshes are slots of the table,
\* and ngx_stream_mtrojan_route_cache_insert on a full table finds a last entry
\* in the LRU queue to evict.
THEOREM TypeCorrect == Spec => []TypeOK
<1>1. IInv => TypeOK
  BY DEF IInv, CacheInv, CacheTypeOK, RefreshInv, RefreshesTypeOK, TypeOK
<1> QED
  BY <1>1, Invariant, PTL

\* The hash chains and the LRU queue always index exactly the slots in use, and
\* no target ever has two entries, through every insert, eviction and lookup of
\* ngx_stream_mtrojan_route_cache_insert and _lookup.
THEOREM AlwaysIndexed == Spec => []Indexed
<1>1. IInv => Indexed
  BY DEF IInv, CacheInv
<1> QED
  BY <1>1, Invariant, PTL

\* ngx_stream_mtrojan_route_refresh_handler never writes a route of another
\* target: whatever is inserted, evicted and updated while a refresh is under
\* way, the generation test lets its answer through only to the entry it was
\* started for.
THEOREM RefreshesStayWithTheirTarget == Spec => []RefreshOwnsEntry
<1>1. IInv => RefreshOwnsEntry
  BY DEF IInv, RefreshInv
<1> QED
  BY <1>1, Invariant, PTL

\* An entry is marked refreshing exactly while one refresh of it as it stands is
\* in flight: none is started twice and no mark is left behind.
THEOREM OneRefreshPerEntry == Spec => []RefreshingMeansOneInFlight
<1>1. IInv => RefreshingMeansOneInFlight
  <2> SUFFICES ASSUME IInv, NEW k \in Slots
               PROVE  Cardinality(InFlightFor(k)) =
                          IF entries[k].refreshing THEN 1 ELSE 0
    BY DEF RefreshingMeansOneInFlight
  <2>1. /\ entries[k].refreshing => \E r : InFlightFor(k) = {r}
        /\ ~entries[k].refreshing => InFlightFor(k) = {}
    BY Zenon DEF IInv, RefreshInv, FlagMatchesFlight
  <2>2. CASE entries[k].refreshing
    <3>1. PICK r : InFlightFor(k) = {r}
      BY <2>1, <2>2
    <3> QED
      BY <2>2, <3>1, FS_Singleton
  <2>3. CASE ~entries[k].refreshing
    BY <2>1, <2>3, FS_EmptySet
  <2> QED
    BY <2>2, <2>3
<1> QED
  BY <1>1, Invariant, PTL

-----------------------------------------------------------------------------
(* What is seen of the cache. *)

View == [k \in Slots |-> [target |-> entries[k].target,
                          outbound |-> entries[k].outbound,
                          ttl |-> entries[k].ttl]]

\* A slot not yet given out has no target.
FreeSlotsEmpty == \A k \in Slots \ UsedSlots : entries[k].target = None

\* What a step may do.
ViewStep == SlotView!SlotsNext \/ View' = View

\* Both copies of the rules say the same.
LEMMA SameRules == SlotView!Selectable = Selectable
BY DEF SlotView!Selectable, Selectable, SlotView!SelectOutboundNow, SelectOutboundNow,
       SlotView!StopsAt, StopsAt, SlotView!MatchesDomain, MatchesDomain,
       SlotView!AsksForAddress, AsksForAddress, SlotView!MatchesLiteral, MatchesLiteral,
       SlotView!MatchesResolvedIp, MatchesResolvedIp, SlotView!Targets, Targets,
       SlotView!OutboundIds, OutboundIds, SlotView!NoOutbound, NoOutbound

\* What the rules decide for a target, without an address or with some, is allowed.
LEMMA DecisionAllowed ==
    ASSUME NEW t \in Targets, NEW addrs \in SUBSET Addrs,
           SelectOutboundNow(t, addrs, addrs # {}).outbound # NoOutbound
    PROVE  /\ SelectOutboundNow(t, addrs, addrs # {}).outbound \in Selectable[t]
           /\ SelectOutboundNow(t, addrs, addrs # {}).outbound \in OutboundIds
           /\ SelectOutboundNow(t, addrs, addrs # {}).ttl \in BOOLEAN
<1>1. SelectOutboundNow(t, addrs, addrs # {}).outbound \in Selectable[t]
  BY DEF Selectable
<1> QED
  BY <1>1, DecisionType

\* What an answer of the resolver decides for t, if it decides anything.
LEMMA AnswerAllowed ==
    ASSUME NEW t \in Targets, NEW addrs \in SUBSET Addrs, addrs # Failed,
           Answered(t, addrs).outbound # NoOutbound
    PROVE  /\ Answered(t, addrs).outbound \in Selectable[t]
           /\ Answered(t, addrs).outbound \in OutboundIds
           /\ Answered(t, addrs).ttl \in BOOLEAN
<1>1. (addrs # {}) = TRUE
  BY DEF Failed
<1>2. QED
  BY <1>1, DecisionAllowed DEF Answered

\* Nothing is seen of a step that leaves targets and decisions alone.
LEMMA SameView ==
    ASSUME \A k \in Slots : /\ entries'[k].target = entries[k].target
                            /\ entries'[k].outbound = entries[k].outbound
                            /\ entries'[k].ttl = entries[k].ttl
    PROVE  View' = View
BY DEF View

\* A slot that is written is all that is seen to change.
LEMMA ViewWritten ==
    ASSUME CacheInv, NEW k \in Slots, NEW e, entries' = [entries EXCEPT ![k] = e]
    PROVE  /\ View' = [View EXCEPT ![k] = [target |-> e.target, outbound |-> e.outbound,
                                           ttl |-> e.ttl]]
           /\ entries'[k] = e
           /\ \A j \in Slots : j # k => entries'[j] = entries[j]
<1>1. entries'[k] = e /\ \A j \in Slots : j # k => entries'[j] = entries[j]
  BY DEF CacheInv, CacheTypeOK
<1>2. \A j \in Slots :
        View'[j] = IF j = k
                   THEN [target |-> e.target, outbound |-> e.outbound, ttl |-> e.ttl]
                   ELSE View[j]
  BY <1>1 DEF View
<1>3. QED
  BY <1>1, <1>2 DEF View

\* A slot given to a target that no other has.
LEMMA Reassigned ==
    ASSUME CacheInv, NEW k \in Slots, NEW e, entries' = [entries EXCEPT ![k] = e],
           e.target \in Targets, e.ttl \in BOOLEAN,
           e.outbound \in Selectable[e.target], e.outbound \in OutboundIds,
           \A j \in Slots : entries[j].target # e.target
    PROVE  SlotView!SlotsNext
<1>1. View' = [View EXCEPT ![k] = [target |-> e.target, outbound |-> e.outbound,
                                   ttl |-> e.ttl]]
  BY ViewWritten
<1>2. \A j \in Slots : View[j].target # e.target
  BY DEF View
<1>3. SlotView!Reassign(k, e.target, e.outbound, e.ttl)
  BY <1>1, <1>2, SameRules DEF SlotView!Reassign, View
<1>4. QED
  BY <1>3 DEF SlotView!SlotsNext, SlotView!OutboundIds, OutboundIds, SlotView!Targets, Targets

\* A slot whose target is decided again.
LEMMA Redecided ==
    ASSUME CacheInv, NEW k \in Slots, NEW e, entries' = [entries EXCEPT ![k] = e],
           entries[k].target \in Targets, e.target = entries[k].target, e.ttl \in BOOLEAN,
           e.outbound \in Selectable[e.target], e.outbound \in OutboundIds
    PROVE  SlotView!SlotsNext
<1>1. View' = [View EXCEPT ![k] = [target |-> e.target, outbound |-> e.outbound,
                                   ttl |-> e.ttl]]
  BY ViewWritten
<1>2. View[k] = [target |-> e.target, outbound |-> entries[k].outbound, ttl |-> entries[k].ttl]
  BY DEF View
<1>3. View' = [View EXCEPT ![k].outbound = e.outbound, ![k].ttl = e.ttl]
  <2>1. PICK f, t, p, q, o, ttl :
           /\ f = View /\ t = e.target /\ o = e.outbound /\ ttl = e.ttl
           /\ p = entries[k].outbound /\ q = entries[k].ttl
    OBVIOUS
  <2>2. f[k] = [target |-> t, outbound |-> p, ttl |-> q]
    BY <1>2, <2>1
  <2>3. [[target |-> t, outbound |-> p, ttl |-> q] EXCEPT !.outbound = o]
          = [target |-> t, outbound |-> o, ttl |-> q]
    OBVIOUS
  <2>4. [[target |-> t, outbound |-> o, ttl |-> q] EXCEPT !.ttl = ttl]
          = [target |-> t, outbound |-> o, ttl |-> ttl]
    OBVIOUS
  <2>5. [f EXCEPT ![k].outbound = o]
          = [f EXCEPT ![k] = [target |-> t, outbound |-> o, ttl |-> q]]
    BY <2>2, <2>3, Zenon
  <2>6. [f EXCEPT ![k].outbound = o, ![k].ttl = ttl]
          = [f EXCEPT ![k] = [target |-> t, outbound |-> o, ttl |-> ttl]]
    BY <2>2, <2>3, <2>4, <2>5, Zenon
  <2>7. QED
    BY <1>1, <2>1, <2>6, Zenon
<1>4. View[k].target = e.target /\ e.target # None
  BY <1>2, CacheAssumption
<1>5. SlotView!Redecide(k, e.outbound, e.ttl)
  BY <1>3, <1>4, SameRules DEF SlotView!Redecide, View
<1>6. QED
  BY <1>5 DEF SlotView!SlotsNext, SlotView!OutboundIds, OutboundIds

-----------------------------------------------------------------------------
(* The steps. *)

\* Slots in use stay in use, and no other is written.
FreeSlotsKept ==
    /\ UsedSlots \subseteq UsedSlots'
    /\ \A k \in Slots \ UsedSlots' : entries'[k] = entries[k]

\* An insert of an allowed decision gives a slot away or decides one again.
LEMMA InsertViewStep ==
    ASSUME CacheInv, FreeSlotsEmpty, NEW t \in Targets, NEW o \in OutboundIds,
           o \in Selectable[t], NEW ttl \in BOOLEAN, NEW expires,
           Insert(t, o, ttl, expires)
    PROVE  SlotView!SlotsNext /\ FreeSlotsKept
<1>1. CASE SlotOf(t) # NoSlot
  <2>1. PICK k, e : k = SlotOf(t) /\ e = UpdatedEntry(entries[k], o, ttl, expires)
    OBVIOUS
  <2>2. entries' = [entries EXCEPT ![k] = e] /\ nextFree' = nextFree
    BY <1>1, <2>1 DEF Insert
  <2>3. k \in UsedSlots /\ k \in Slots /\ entries[k].target = t
    BY <1>1, <2>1, SlotOfProperties
  <2>4. e.target = t /\ e.outbound = o /\ e.ttl = ttl
    BY <2>1, <2>3 DEF UpdatedEntry
  <2>5. SlotView!SlotsNext
    BY <2>2, <2>3, <2>4, Redecided
  <2>6. FreeSlotsKept
    BY <2>2, <2>3, ViewWritten DEF FreeSlotsKept, UsedSlots
  <2>7. QED
    BY <2>5, <2>6
<1>2. CASE SlotOf(t) = NoSlot
  <2>1. PICK k, e : /\ k = VictimSlot
                    /\ e = UpdatedEntry([valid |-> TRUE, target |-> t], o, ttl, expires)
    OBVIOUS
  <2>2. /\ entries' = [entries EXCEPT ![k] = e]
        /\ nextFree' = IF nextFree < Size THEN nextFree + 1 ELSE nextFree
    BY <1>2, <2>1 DEF Insert
  <2>3. k \in Slots /\ UsedSlots' = UsedSlots \cup {k}
    BY <2>1, <2>2, VictimProperties DEF UsedSlots
  <2>4. e.target = t /\ e.outbound = o /\ e.ttl = ttl
    BY <2>1 DEF UpdatedEntry
  <2>5. \A j \in Slots : entries[j].target # t
    BY <1>2, SlotOfProperties, CacheAssumption DEF FreeSlotsEmpty
  <2>6. SlotView!SlotsNext
    BY <2>2, <2>3, <2>4, <2>5, Reassigned
  <2>7. FreeSlotsKept
    BY <2>2, <2>3, ViewWritten DEF FreeSlotsKept
  <2>8. QED
    BY <2>6, <2>7
<1>3. QED
  BY <1>1, <1>2

\* So does an answer of the resolver, or it changes nothing.
LEMMA AnswerViewStep ==
    ASSUME CacheInv, FreeSlotsEmpty, NEW t \in Targets, NEW addrs \in SUBSET Addrs,
           InsertAnswer(t, addrs)
    PROVE  ViewStep /\ FreeSlotsKept
<1>1. CASE addrs # Failed /\ Answered(t, addrs).outbound # NoOutbound
  <2>1. PICK o, ttl : o = Answered(t, addrs).outbound /\ ttl = Answered(t, addrs).ttl
    OBVIOUS
  <2>2. o \in Selectable[t] /\ o \in OutboundIds /\ ttl \in BOOLEAN
    BY <1>1, <2>1, AnswerAllowed
  <2>3. PICK d \in Ttls : Insert(t, o, ttl, now + d)
    BY <1>1, <2>1 DEF InsertAnswer
  <2>4. QED
    BY <2>2, <2>3, InsertViewStep DEF ViewStep
<1>2. CASE ~(addrs # Failed /\ Answered(t, addrs).outbound # NoOutbound)
  <2>1. UNCHANGED <<entries, nextFree>>
    BY <1>2 DEF InsertAnswer, cacheVars
  <2>2. QED
    BY <2>1, SameView DEF ViewStep, FreeSlotsKept, UsedSlots
<1>3. QED
  BY <1>1, <1>2

\* A refresh answered for the target of slot k decides it again, or changes nothing
\* that is seen.
LEMMA RevisedViewStep ==
    ASSUME CacheInv, NEW k \in UsedSlots, k \in Slots, NEW t \in Targets,
           entries[k].target = t, NEW addrs \in SUBSET Addrs, NEW d,
           entries' = [entries EXCEPT ![k] = Revised(k, t, addrs, d)],
           UNCHANGED nextFree
    PROVE  ViewStep /\ FreeSlotsKept
<1>1. PICK e : e = Revised(k, t, addrs, d) /\ entries' = [entries EXCEPT ![k] = e]
  OBVIOUS
<1>2. FreeSlotsKept
  BY <1>1, ViewWritten DEF FreeSlotsKept, UsedSlots
<1>3. CASE addrs # Failed /\ Answered(t, addrs).outbound # NoOutbound
  <2>1. PICK o, ttl : o = Answered(t, addrs).outbound /\ ttl = Answered(t, addrs).ttl
    OBVIOUS
  <2>2. o \in Selectable[t] /\ o \in OutboundIds /\ ttl \in BOOLEAN
    BY <1>3, <2>1, AnswerAllowed
  <2>3. e = UpdatedEntry(entries[k], o, ttl, now + d)
    BY <1>1, <1>3, <2>1 DEF Revised
  <2>4. e.target = t /\ e.outbound = o /\ e.ttl = ttl
    BY <2>3 DEF UpdatedEntry
  <2>5. QED
    BY <1>1, <1>2, <2>2, <2>4, Redecided DEF ViewStep
<1>4. CASE ~(addrs # Failed /\ Answered(t, addrs).outbound # NoOutbound)
  <2>1. e = [entries[k] EXCEPT !.refreshing = FALSE]
    BY <1>1, <1>4 DEF Revised
  <2>2. entries[k] \in Entry
    BY DEF CacheInv, CacheTypeOK
  <2>3. /\ e.target = entries[k].target /\ e.outbound = entries[k].outbound
        /\ e.ttl = entries[k].ttl
    BY <2>1, <2>2, Zenon DEF Entry
  <2>4. View' = View
    BY <1>1, <2>3, ViewWritten, SameView
  <2>5. QED
    BY <1>2, <2>4 DEF ViewStep
<1>5. QED
  BY <1>3, <1>4

\* Raising the flag of an entry is not seen.
LEMMA StartViewStep ==
    ASSUME CacheInv, NEW t \in Targets, NEW r, StartRefresh(t, r)
    PROVE  ViewStep /\ FreeSlotsKept
<1>1. PICK k, e : /\ k = SlotOf(t) /\ e = [entries[k] EXCEPT !.refreshing = TRUE]
  OBVIOUS
<1>2. k \in UsedSlots /\ k \in Slots
  BY <1>1, SlotOfProperties DEF StartRefresh, Miss
<1>3. entries' = [entries EXCEPT ![k] = e] /\ nextFree' = nextFree
  BY <1>1, Zenon DEF StartRefresh
<1>4. entries[k] \in Entry
  BY <1>2 DEF CacheInv, CacheTypeOK
<1>5. /\ e.target = entries[k].target /\ e.outbound = entries[k].outbound
      /\ e.ttl = entries[k].ttl
  BY <1>1, <1>4, Zenon DEF Entry
<1>6. View' = View
  BY <1>2, <1>3, <1>5, ViewWritten, SameView
<1>7. FreeSlotsKept
  BY <1>2, <1>3, ViewWritten DEF FreeSlotsKept, UsedSlots
<1>8. QED
  BY <1>6, <1>7 DEF ViewStep

\* Every step is one that RouteSlots allows.
LEMMA EveryViewStep ==
    ASSUME IInv, FreeSlotsEmpty, [Next]_vars PROVE ViewStep /\ FreeSlotsKept
<1>1. CacheInv /\ RefreshInv
  BY DEF IInv
<1> USE <1>1
<1>2. ASSUME UNCHANGED <<entries, nextFree>> PROVE ViewStep /\ FreeSlotsKept
  BY <1>2, SameView DEF ViewStep, FreeSlotsKept, UsedSlots
<1>3. ASSUME NEW t \in Targets, RequestFresh(t) \/ RequestStale(t)
      PROVE  ViewStep /\ FreeSlotsKept
  BY <1>2, <1>3 DEF RequestFresh, RequestStale, Touch
<1>4. ASSUME NEW t \in Targets, RequestStatic(t)
      PROVE  ViewStep /\ FreeSlotsKept
  <2>1. PICK o, ttl : /\ o = SelectOutboundNow(t, {}, FALSE).outbound
                      /\ ttl = SelectOutboundNow(t, {}, FALSE).ttl
    OBVIOUS
  <2>2. o # NoOutbound /\ Insert(t, o, ttl, 0)
    BY <1>4, <2>1 DEF RequestStatic
  <2>3. o \in Selectable[t] /\ o \in OutboundIds /\ ttl \in BOOLEAN
    <3>1. PICK addrs \in SUBSET Addrs : addrs = {} /\ (addrs # {}) = FALSE
      OBVIOUS
    <3>2. QED
      BY <2>1, <2>2, <3>1, DecisionAllowed
  <2>4. QED
    BY <2>2, <2>3, InsertViewStep DEF ViewStep
<1>5. ASSUME NEW t \in Targets, NEW r, StartRefresh(t, r)
      PROVE  ViewStep /\ FreeSlotsKept
  BY <1>5, StartViewStep
<1>6. ASSUME NEW t \in Targets, NEW addrs \in SUBSET Addrs, RefreshAtOnce(t, addrs)
      PROVE  ViewStep /\ FreeSlotsKept
  <2>1. PICK k, d : /\ k = SlotOf(t)
                    /\ entries' = [entries EXCEPT ![k] = Revised(k, t, addrs, d)]
    BY <1>6 DEF RefreshAtOnce
  <2>2. k \in UsedSlots /\ k \in Slots /\ entries[k].target = t
    BY <1>6, <2>1, SlotOfProperties DEF RefreshAtOnce, Miss
  <2>3. UNCHANGED nextFree
    BY <1>6 DEF RefreshAtOnce
  <2>4. QED
    BY <2>1, <2>2, <2>3, RevisedViewStep
<1>7. ASSUME NEW t \in Targets, NEW addrs \in SUBSET Addrs, RequestSystem(t, addrs)
      PROVE  ViewStep /\ FreeSlotsKept
  BY <1>2, <1>7, AnswerViewStep DEF RequestSystem, cacheVars, Touch
<1>8. ASSUME NEW t \in Targets, NEW addrs \in SUBSET Addrs, AskAtOnce(t, addrs)
      PROVE  ViewStep /\ FreeSlotsKept
  BY <1>8, AnswerViewStep DEF AskAtOnce
<1>9. ASSUME NEW s \in Sessions, NEW addrs \in SUBSET Addrs, RouteAnswer(s, addrs)
      PROVE  ViewStep /\ FreeSlotsKept
  <2>1. PICK t : t = asking[s]
    OBVIOUS
  <2>2. t \in Targets /\ InsertAnswer(t, addrs)
    BY <1>9, <2>1 DEF RouteAnswer, IInv
  <2>3. QED
    BY <2>2, AnswerViewStep
<1>10. ASSUME NEW r \in RefreshIds, NEW addrs \in SUBSET Addrs, RefreshAnswer(r, addrs)
       PROVE  ViewStep /\ FreeSlotsKept
  <2>1. PICK f, k : f = refreshes[r] /\ k = f.slot
    OBVIOUS
  <2>2. k \in Slots /\ f.target \in Targets /\ f # None
    BY <1>10, <2>1, RefreshFields DEF RefreshInv, RefreshAnswer
  <2>3. CASE StillCurrent(f)
    <3>1. PICK d : entries' = [entries EXCEPT ![k] = Revised(k, f.target, addrs, d)]
      BY <1>10, <2>1, <2>3 DEF RefreshAnswer
    <3>2. entries[k].target = f.target
      BY <2>1, <2>2, <2>3 DEF RefreshInv, RefreshOwnsEntry
    <3>3. k \in UsedSlots
      BY <2>2, <3>2, CacheAssumption DEF FreeSlotsEmpty
    <3>4. UNCHANGED nextFree
      BY <1>10 DEF RefreshAnswer
    <3>5. QED
      BY <2>2, <3>1, <3>2, <3>3, <3>4, RevisedViewStep
  <2>4. CASE ~StillCurrent(f)
    BY <1>2, <1>10, <2>1, <2>4 DEF RefreshAnswer
  <2>5. QED
    BY <2>3, <2>4
<1>11. CASE UNCHANGED vars \/ Tick \/ \E s \in Sessions, t \in Targets : Ask(s, t)
  BY <1>2, <1>11 DEF vars, Tick, Ask, cacheVars
<1>12. QED
  BY <1>3, <1>4, <1>5, <1>6, <1>7, <1>8, <1>9, <1>10, <1>11 DEF Next

\* Slots not yet given out stay empty.
LEMMA FreeSlotsInv == IInv /\ FreeSlotsEmpty /\ [Next]_vars => FreeSlotsEmpty'
<1> SUFFICES ASSUME IInv, FreeSlotsEmpty, [Next]_vars PROVE FreeSlotsEmpty'
  OBVIOUS
<1>1. FreeSlotsKept
  BY EveryViewStep
<1>2. QED
  BY <1>1 DEF FreeSlotsKept, FreeSlotsEmpty, Slots

\* The cache starts as RouteSlots does.
LEMMA InitView == Init => SlotView!SlotsInit /\ FreeSlotsEmpty
<1> SUFFICES ASSUME Init PROVE SlotView!SlotsInit /\ FreeSlotsEmpty
  OBVIOUS
<1>1. \A k \in Slots : /\ entries[k].target = None /\ entries[k].outbound = NoOutbound
                       /\ entries[k].ttl = FALSE
  BY DEF Init
<1>2. QED
  BY <1>1 DEF SlotView!SlotsInit, SlotView!EmptySlot, SlotView!NoOutbound, NoOutbound,
         FreeSlotsEmpty

-----------------------------------------------------------------------------
\* Sessions that hold a pointer to an entry of the cache see nothing but what
\* RouteSlots says, whatever requests, answers, refreshes and evictions go on: an
\* entry is given away only to a target no other entry has, and a decision written
\* to it (ngx_stream_mtrojan_route_cache_insert, _update_entry, also from a late
\* refresh) is one the rules can make for the target it then has.
THEOREM SlotsImplemented == Spec => ImplementsRouteSlots
<1>1. Init => FreeSlotsEmpty /\ SlotView!SlotsInit
  BY InitView
<1>2. IInv /\ FreeSlotsEmpty /\ [Next]_vars => [SlotView!SlotsNext]_View
  BY EveryViewStep DEF ViewStep
<1>3. QED
  BY <1>1, <1>2, Invariant, FreeSlotsInv, PTL
     DEF Spec, ImplementsRouteSlots, SlotView!SlotsSpec, View

-----------------------------------------------------------------------------
(* The cache as a table in order of use. *)

Bindings == [target : Targets \cup {None}, outbound : OutboundIds \cup {NoOutbound}]

Row(k) == [target |-> entries[k].target, outbound |-> entries[k].outbound]

Rows == [i \in 1 .. Len(lru) |-> [target |-> entries[lru[i]].target,
                                  outbound |-> entries[lru[i]].outbound]]

\* What a step may do.
TableStep == Table!Next \/ Rows' = Rows

\* Both copies of the rules say the same.
LEMMA SameRulesOfTable == Table!Selectable = Selectable
BY DEF Table!Selectable, Selectable, Table!SelectOutboundNow, SelectOutboundNow,
       Table!StopsAt, StopsAt, Table!MatchesDomain, MatchesDomain,
       Table!AsksForAddress, AsksForAddress, Table!MatchesLiteral, MatchesLiteral,
       Table!MatchesResolvedIp, MatchesResolvedIp, Table!Targets, Targets,
       Table!OutboundIds, OutboundIds, Table!NoOutbound, NoOutbound

RowsOK ==
    /\ nextFree \in Nat /\ Rows \in Seq(Bindings) /\ Len(Rows) = nextFree
    /\ \A k \in Slots : Row(k) \in Bindings
    /\ \A i \in 1 .. nextFree : Rows[i] = Row(lru[i]) /\ lru[i] \in UsedSlots
    /\ UsedSlots \subseteq Slots

\* The table has a row for each slot of the queue, in its order.
LEMMA RowsType == CacheInv => RowsOK
<1> SUFFICES ASSUME CacheInv PROVE RowsOK
  OBVIOUS
<1>1. /\ entries \in [Slots -> Entry] /\ nextFree \in Nat /\ nextFree <= Size /\ Size \in Nat
      /\ lru \in Seq(Slots) /\ Len(lru) = nextFree /\ Elements(lru) = UsedSlots
      /\ DOMAIN lru = 1 .. nextFree
  BY CacheAssumption, LenProperties
     DEF CacheInv, CacheTypeOK, Indexed, LruHoldsUsedSlots
<1>2. UsedSlots \subseteq Slots
  BY <1>1 DEF UsedSlots, Slots
<1>3. \A k \in Slots : Row(k) \in Bindings
  BY <1>1 DEF Row, Bindings, Entry
<1>4. \A i \in 1 .. nextFree : Rows[i] = Row(lru[i]) /\ lru[i] \in UsedSlots
  BY <1>1 DEF Rows, Row, Elements
<1>5. Rows \in Seq(Bindings) /\ Len(Rows) = nextFree
  <2>1. Rows = [i \in 1 .. nextFree |-> Rows[i]]
    BY <1>1 DEF Rows
  <2>2. \A i \in 1 .. nextFree : Rows[i] \in Bindings
    BY <1>2, <1>3, <1>4
  <2>3. QED
    BY <1>1, <2>1, <2>2
<1>6. QED
  BY <1>1, <1>2, <1>3, <1>4, <1>5 DEF RowsOK

\* And so it has after a step.
LEMMA RowsTypeNext == CacheInv' => RowsOK'
BY RowsType, PTL

Front(x, q, p) == <<x>> \o (SubSeq(q, 1, p - 1) \o SubSeq(q, p + 1, Len(q)))

\* An element put in front of a sequence, from which position p is taken out.
LEMMA FrontOfRest ==
    ASSUME NEW B, NEW q \in Seq(B), NEW p \in 1 .. Len(q), NEW x \in B
    PROVE  /\ Front(x, q, p) \in Seq(B) /\ Len(Front(x, q, p)) = Len(q)
           /\ \A i \in 1 .. Len(q) :
                 Front(x, q, p)[i] = IF i = 1 THEN x ELSE IF i <= p THEN q[i - 1] ELSE q[i]
<1>1. PICK n, r : n = Len(q) /\ r = Front(x, q, p)
  OBVIOUS
<1>2. n \in Nat /\ p \in Int /\ p - 1 \in Int /\ p + 1 \in Int /\ \A i \in 1 .. n : q[i] \in B
  BY <1>1, LenProperties, ElementOfSeq
<1>3. PICK a, b : a = SubSeq(q, 1, p - 1) /\ b = SubSeq(q, p + 1, n)
  OBVIOUS
<1>4. a \in Seq(B) /\ Len(a) = p - 1 /\ \A i \in 1 .. p - 1 : a[i] = q[i]
  <2>1. \A i \in 1 .. p - 1 : q[i] \in B
    BY <1>1, <1>2
  <2>2. QED
    BY <1>1, <1>2, <1>3, <2>1, SubSeqProperties
<1>5. b \in Seq(B) /\ Len(b) = n - p /\ \A i \in 1 .. n - p : b[i] = q[p + i]
  <2>1. \A i \in p + 1 .. n : q[i] \in B
    BY <1>1, <1>2
  <2>2. QED
    BY <1>1, <1>2, <1>3, <2>1, SubSeqProperties
<1>6. PICK c : c = a \o b
  OBVIOUS
<1>7. /\ c \in Seq(B) /\ Len(c) = n - 1
      /\ \A i \in 1 .. n - 1 : c[i] = IF i <= p - 1 THEN q[i] ELSE q[i + 1]
  <2>1. /\ c \in Seq(B) /\ Len(c) = Len(a) + Len(b)
        /\ \A i \in 1 .. Len(a) + Len(b) : c[i] = IF i <= Len(a) THEN a[i] ELSE b[i - Len(a)]
    BY <1>4, <1>5, <1>6, ConcatProperties
  <2>2. Len(c) = n - 1 /\ Len(a) + Len(b) = n - 1
    BY <1>1, <1>2, <1>4, <1>5, <2>1
  <2>3. ASSUME NEW i \in 1 .. n - 1 PROVE c[i] = IF i <= p - 1 THEN q[i] ELSE q[i + 1]
    <3>1. c[i] = IF i <= p - 1 THEN a[i] ELSE b[i - (p - 1)]
      BY <1>4, <2>1, <2>2
    <3>2. i <= p - 1 => a[i] = q[i]
      BY <1>2, <1>4
    <3>3. ASSUME ~(i <= p - 1) PROVE b[i - (p - 1)] = q[i + 1]
      <4>1. i - (p - 1) \in 1 .. n - p /\ p + (i - (p - 1)) = i + 1
        BY <1>1, <1>2, <3>3
      <4>2. QED
        BY <1>5, <4>1
    <3>4. QED
      BY <3>1, <3>2, <3>3
  <2>4. QED
    BY <2>1, <2>2, <2>3
<1>8. PICK s : s = <<x>>
  OBVIOUS
<1>9. s \in Seq(B) /\ Len(s) = 1 /\ s[1] = x
  BY <1>8
<1>10. r = s \o c
  BY <1>1, <1>3, <1>6, <1>8 DEF Front
<1>11. /\ r \in Seq(B) /\ Len(r) = Len(s) + Len(c)
       /\ \A i \in 1 .. Len(s) + Len(c) :
             r[i] = IF i <= Len(s) THEN s[i] ELSE c[i - Len(s)]
  <2>1. /\ s \o c \in Seq(B) /\ Len(s \o c) = Len(s) + Len(c)
        /\ \A i \in 1 .. Len(s) + Len(c) :
             (s \o c)[i] = IF i <= Len(s) THEN s[i] ELSE c[i - Len(s)]
    <3>1. s \in Seq(B) /\ c \in Seq(B)
      BY <1>7, <1>9
    <3>2. QED
      BY <3>1, ConcatProperties
  <2>2. QED
    BY <1>10, <2>1, Zenon
<1>12. Len(r) = n /\ Len(s) + Len(c) = n
  <2>1. n \in Nat /\ Len(s) = 1 /\ Len(c) = n - 1
    BY <1>2, <1>7, <1>9
  <2>2. Len(s) + Len(c) = n
    BY <2>1
  <2>3. QED
    BY <1>11, <2>2, Zenon
<1>13. ASSUME NEW i \in 1 .. n
       PROVE  r[i] = IF i = 1 THEN x ELSE IF i <= p THEN q[i - 1] ELSE q[i]
  <2>1. r[i] = IF i <= 1 THEN s[i] ELSE c[i - 1]
    BY <1>9, <1>11, <1>12
  <2>2. CASE i = 1
    BY <1>9, <2>1, <2>2
  <2>3. CASE i # 1
    <3>1. i - 1 \in 1 .. n - 1 /\ (i - 1) + 1 = i /\ (i - 1 <= p - 1 <=> i <= p)
      BY <1>2, <2>3
    <3>2. c[i - 1] = IF i - 1 <= p - 1 THEN q[i - 1] ELSE q[(i - 1) + 1]
      BY <1>7, <3>1
    <3>3. ~(i <= 1)
      BY <1>2, <2>3
    <3>4. QED
      BY <2>1, <2>3, <3>1, <3>2, <3>3
  <2>4. QED
    BY <2>2, <2>3
<1>14. QED
  BY <1>1, <1>11, <1>12, <1>13

\* An element put in front of a sequence, or of all of it but its last element.
LEMMA FrontOfAll ==
    ASSUME NEW B, NEW q \in Seq(B), NEW m \in 0 .. Len(q), NEW x \in B, NEW r,
           r = <<x>> \o SubSeq(q, 1, m)
    PROVE  /\ r \in Seq(B) /\ Len(r) = m + 1
           /\ \A i \in 1 .. m + 1 : r[i] = IF i = 1 THEN x ELSE q[i - 1]
<1>1. Len(q) \in Nat /\ m \in Nat /\ \A i \in 1 .. m : q[i] \in B
  BY LenProperties, ElementOfSeq
<1>2. PICK a : a = SubSeq(q, 1, m)
  OBVIOUS
<1>3. a \in Seq(B) /\ Len(a) = m /\ \A i \in 1 .. m : a[i] = q[i]
  BY <1>1, <1>2, SubSeqProperties
<1>4. <<x>> \in Seq(B) /\ Len(<<x>>) = 1 /\ <<x>>[1] = x
  OBVIOUS
<1>5. /\ r \in Seq(B) /\ Len(r) = 1 + m
      /\ \A i \in 1 .. 1 + m : r[i] = IF i <= 1 THEN <<x>>[i] ELSE a[i - 1]
  BY <1>1, <1>2, <1>3, <1>4, ConcatProperties
<1>6. QED
  BY <1>1, <1>3, <1>4, <1>5

\* Where a slot in use stands, and the queue once it is moved to the head.
LEMMA MovedUp ==
    ASSUME CacheInv, NEW k \in UsedSlots, NEW p, p = Position(lru, k)
    PROVE  /\ p \in 1 .. nextFree /\ lru[p] = k
           /\ \A i \in 1 .. nextFree : lru[i] = k => i = p
           /\ Len(MoveToHead(k)) = nextFree
           /\ \A i \in 1 .. nextFree :
                 MoveToHead(k)[i] = IF i = 1 THEN k
                                    ELSE IF i <= p THEN lru[i - 1] ELSE lru[i]
<1>1. /\ nextFree \in Nat /\ lru \in Seq(Slots) /\ Len(lru) = nextFree
      /\ k \in Elements(lru) /\ Injective(lru) /\ DOMAIN lru = 1 .. nextFree
      /\ k \in Slots
  BY RowsType, LenProperties DEF RowsOK, CacheInv, CacheTypeOK, Indexed, LruHoldsUsedSlots
<1>2. p \in 1 .. nextFree /\ lru[p] = k
  BY <1>1, PositionProperties
<1>3. \A i \in 1 .. nextFree : lru[i] = k => i = p
  BY <1>1, <1>2 DEF Injective
<1>4. PICK r : r = Detach(lru, k)
  OBVIOUS
<1>5. r = [i \in 1 .. nextFree - 1 |-> IF i < p THEN lru[i] ELSE lru[i + 1]]
  BY <1>1, <1>4 DEF Detach
<1>6. Len(r) = nextFree - 1
  BY <1>1, <1>4, DetachProperties
<1>7. MoveToHead(k) = [i \in 1 .. nextFree - 1 + 1 |-> IF i = 1 THEN k ELSE r[i - 1]]
  BY <1>4, <1>6 DEF MoveToHead, Prepend
<1>8. \A i \in 1 .. nextFree :
         MoveToHead(k)[i] = IF i = 1 THEN k ELSE IF i <= p THEN lru[i - 1] ELSE lru[i]
  <2> SUFFICES ASSUME NEW i \in 1 .. nextFree
               PROVE  MoveToHead(k)[i] = IF i = 1 THEN k
                                         ELSE IF i <= p THEN lru[i - 1] ELSE lru[i]
    OBVIOUS
  <2>1. MoveToHead(k)[i] = IF i = 1 THEN k ELSE r[i - 1]
    BY <1>1, <1>7
  <2>2. i # 1 => r[i - 1] = IF i <= p THEN lru[i - 1] ELSE lru[i]
    BY <1>1, <1>2, <1>5
  <2>3. QED
    BY <2>1, <2>2
<1>9. Len(MoveToHead(k)) = nextFree
  BY <1>1, MoveToHeadProperties
<1>10. QED
  BY <1>2, <1>3, <1>8, <1>9

\* A slot in use is moved to the head, and at most its own row is written.
LEMMA RowsMoved ==
    ASSUME CacheInv, CacheInv', NEW k \in UsedSlots, UNCHANGED nextFree,
           lru' = MoveToHead(k), \A j \in Slots : j # k => entries'[j] = entries[j]
    PROVE  \E p \in 1 .. Len(Rows) :
              /\ Rows[p] = Row(k)
              /\ Rows' = Front(Row(k)', Rows, p)
<1>1. PICK p, q, x, r, n :
         /\ p = Position(lru, k) /\ q = Rows /\ x = Row(k)' /\ n = nextFree
         /\ r = Front(x, q, p)
  OBVIOUS
<1>2. /\ p \in 1 .. n /\ lru[p] = k /\ \A i \in 1 .. n : lru[i] = k => i = p
      /\ \A i \in 1 .. n : lru'[i] = IF i = 1 THEN k
                                     ELSE IF i <= p THEN lru[i - 1] ELSE lru[i]
  BY <1>1, MovedUp
<1>3. /\ n \in Nat /\ q \in Seq(Bindings) /\ Len(q) = n /\ k \in Slots
      /\ \A i \in 1 .. n : q[i] = Row(lru[i]) /\ lru[i] \in Slots
  BY <1>1, RowsType DEF RowsOK
<1>4. /\ Rows' \in Seq(Bindings) /\ Len(Rows') = n /\ x \in Bindings
      /\ \A i \in 1 .. n : Rows'[i] = Row(lru[i])'
  <2>1. /\ Rows' \in Seq(Bindings) /\ Len(Rows') = nextFree'
        /\ \A j \in Slots : Row(j)' \in Bindings
        /\ \A i \in 1 .. nextFree' : Rows'[i] = Row(lru[i])'
    BY RowsTypeNext DEF RowsOK
  <2>2. QED
    BY <1>1, <1>3, <2>1
<1>5. /\ r \in Seq(Bindings) /\ Len(r) = n
      /\ \A i \in 1 .. n : r[i] = IF i = 1 THEN x ELSE IF i <= p THEN q[i - 1] ELSE q[i]
  <2>1. p \in 1 .. Len(q) /\ q \in Seq(Bindings) /\ x \in Bindings
    BY <1>2, <1>3, <1>4
  <2>2. r = Front(x, q, p)
    BY <1>1
  <2>3. /\ r \in Seq(Bindings) /\ Len(r) = Len(q)
        /\ \A i \in 1 .. Len(q) :
             r[i] = IF i = 1 THEN x ELSE IF i <= p THEN q[i - 1] ELSE q[i]
    <3>1. /\ Front(x, q, p) \in Seq(Bindings) /\ Len(Front(x, q, p)) = Len(q)
          /\ \A i \in 1 .. Len(q) :
               Front(x, q, p)[i] = IF i = 1 THEN x ELSE IF i <= p THEN q[i - 1] ELSE q[i]
      BY <2>1, FrontOfRest
    <3>2. QED
      BY <2>2, <3>1, Zenon
  <2>4. Len(q) = n
    BY <1>3
  <2>5. QED
    BY <2>3, <2>4, Zenon
<1>6. ASSUME NEW i \in 1 .. n PROVE Rows'[i] = r[i]
  <2>1. PICK j : j = lru'[i]
    OBVIOUS
  <2>2. Rows'[i] = Row(j)'
    BY <1>4, <2>1 DEF Row
  <2>3. CASE i = 1
    BY <1>1, <1>2, <1>5, <2>1, <2>2, <2>3 DEF Row
  <2>4. ASSUME NEW h \in 1 .. n, h # p, j = lru[h], r[i] = q[h]
        PROVE  Rows'[i] = r[i]
    <3>1. j \in Slots /\ j # k
      BY <1>2, <1>3, <2>4
    <3>2. entries'[j] = entries[j]
      BY <3>1
    <3>3. Row(j)' = Row(j)
      BY <3>2 DEF Row
    <3>4. q[h] = Row(j)
      BY <1>3, <2>4
    <3>5. QED
      BY <2>2, <2>4, <3>3, <3>4
  <2>5. CASE i # 1 /\ i <= p
    <3>1. i - 1 \in 1 .. n /\ i - 1 # p /\ j = lru[i - 1] /\ r[i] = q[i - 1]
      BY <1>2, <1>3, <1>5, <2>1, <2>5
    <3>2. QED
      BY <2>4, <3>1
  <2>6. CASE i # 1 /\ ~(i <= p)
    <3>1. i # p /\ j = lru[i] /\ r[i] = q[i]
      BY <1>2, <1>3, <1>5, <2>1, <2>6
    <3>2. QED
      BY <2>4, <3>1
  <2>7. QED
    BY <2>3, <2>5, <2>6
<1>7. Rows' = r
  BY <1>3, <1>4, <1>5, <1>6, SeqEqual
<1>8. QED
  BY <1>1, <1>2, <1>3, <1>7

\* A decision that is looked up is used.
LEMMA RowUsed ==
    ASSUME CacheInv, CacheInv', NEW k \in UsedSlots, UNCHANGED nextFree,
           lru' = MoveToHead(k), \A j \in Slots : j # k => entries'[j] = entries[j],
           entries'[k].target = entries[k].target, entries'[k].outbound = entries[k].outbound
    PROVE  Table!Next
<1>1. PICK p \in 1 .. Len(Rows) : Rows[p] = Row(k) /\ Rows' = Front(Row(k)', Rows, p)
  BY RowsMoved
<1>2. Row(k)' = Row(k)
  BY DEF Row
<1>3. Rows' = Front(Rows[p], Rows, p)
  BY <1>1, <1>2
<1>4. Table!Use(p)
  BY <1>3 DEF Table!Use, Table!Without, Front, Rows
<1>5. p \in Table!Positions
  BY <1>1 DEF Table!Positions, Rows
<1>6. QED
  BY <1>4, <1>5 DEF Table!Next

\* A decision that is made anew is the latest.
LEMMA RowRelearned ==
    ASSUME CacheInv, CacheInv', NEW k \in UsedSlots, UNCHANGED nextFree,
           lru' = MoveToHead(k), \A j \in Slots : j # k => entries'[j] = entries[j],
           NEW t, NEW o \in OutboundIds, o \in Selectable[t],
           entries[k].target = t, entries'[k].target = t, entries'[k].outbound = o
    PROVE  Table!Next
<1>1. PICK p \in 1 .. Len(Rows) : Rows[p] = Row(k) /\ Rows' = Front(Row(k)', Rows, p)
  BY RowsMoved
<1>2. Row(k)' = [target |-> t, outbound |-> o] /\ Rows[p].target = t
  BY <1>1 DEF Row
<1>3. Rows' = Front([target |-> Rows[p].target, outbound |-> o], Rows, p)
  BY <1>1, <1>2
<1>4. Table!Relearn(p, o)
  BY <1>2, <1>3, SameRulesOfTable
     DEF Table!Relearn, Table!Binding, Table!Without, Front, Rows
<1>5. p \in Table!Positions /\ o \in Table!OutboundIds
  BY <1>1 DEF Table!Positions, Rows, Table!OutboundIds, OutboundIds
<1>6. QED
  BY <1>4, <1>5 DEF Table!Next

\* A background revision changes one row where it stands.
LEMMA RowRevised ==
    ASSUME CacheInv, CacheInv', NEW k \in UsedSlots, UNCHANGED <<nextFree, lru>>,
           \A j \in Slots : j # k => entries'[j] = entries[j],
           NEW t, NEW o \in OutboundIds, o \in Selectable[t],
           entries[k].target = t, entries'[k].target = t, entries'[k].outbound = o
    PROVE  Table!Next
<1>1. PICK p, q, n : p = Position(lru, k) /\ q = Rows /\ n = nextFree
  OBVIOUS
<1>2. p \in 1 .. n /\ lru[p] = k /\ \A i \in 1 .. n : lru[i] = k => i = p
  BY <1>1, MovedUp
<1>3. /\ n \in Nat /\ q \in Seq(Bindings) /\ Len(q) = n
      /\ \A i \in 1 .. n : q[i] = Row(lru[i]) /\ lru[i] \in Slots
  BY <1>1, RowsType DEF RowsOK
<1>4. /\ Rows' \in Seq(Bindings) /\ Len(Rows') = n /\ k \in Slots /\ Row(k)' \in Bindings
      /\ \A i \in 1 .. n : Rows'[i] = Row(lru[i])'
  <2>1. /\ Rows' \in Seq(Bindings) /\ Len(Rows') = nextFree' /\ k \in Slots
        /\ \A j \in Slots : Row(j)' \in Bindings
        /\ \A i \in 1 .. nextFree' : Rows'[i] = Row(lru[i])'
    BY RowsType, RowsTypeNext DEF RowsOK
  <2>2. QED
    BY <1>1, <2>1
<1>5. PICK x : x = [target |-> t, outbound |-> o]
  OBVIOUS
<1>6. x = Row(k)' /\ x \in Bindings
  BY <1>4, <1>5 DEF Row
<1>7. ASSUME NEW i \in 1 .. n PROVE Rows'[i] = IF i = p THEN x ELSE q[i]
  <2>1. PICK j : j = lru[i]
    OBVIOUS
  <2>2. Rows'[i] = Row(j)' /\ j \in Slots /\ q[i] = Row(j)
    BY <1>3, <1>4, <2>1 DEF Row
  <2>3. CASE i = p
    BY <1>2, <1>6, <2>1, <2>2, <2>3
  <2>4. CASE i # p
    <3>1. j # k
      BY <1>2, <2>1, <2>4
    <3>2. Row(j)' = Row(j)
      BY <2>2, <3>1 DEF Row
    <3>3. QED
      BY <2>2, <2>4, <3>2
  <2>5. QED
    BY <2>3, <2>4
<1>8. Rows' = [q EXCEPT ![p] = x]
  <2>1. PICK r : r = [q EXCEPT ![p] = x]
    OBVIOUS
  <2>2. r \in Seq(Bindings) /\ Len(r) = n /\ \A i \in 1 .. n : r[i] = IF i = p THEN x ELSE q[i]
    BY <1>2, <1>3, <1>6, <2>1, ExceptSeq
  <2>3. Rows' = r
    BY <1>3, <1>4, <1>7, <2>2, SeqEqual
  <2>4. QED
    BY <2>1, <2>3
<1>9. q[p] = [target |-> t, outbound |-> entries[k].outbound]
  BY <1>2, <1>3 DEF Row
<1>10. [q EXCEPT ![p].outbound = o] = [q EXCEPT ![p] = x]
  <2>1. PICK a : a = entries[k].outbound
    OBVIOUS
  <2>2. [[target |-> t, outbound |-> a] EXCEPT !.outbound = o] = [target |-> t, outbound |-> o]
    OBVIOUS
  <2>3. q[p] = [target |-> t, outbound |-> a]
    BY <1>9, <2>1
  <2>4. QED
    BY <1>5, <2>2, <2>3, Zenon
<1>11. Table!Revise(p, o)
  <2>1. Rows[p].target = t
    BY <1>1, <1>9
  <2>2. Rows' = [Rows EXCEPT ![p].outbound = o]
    BY <1>1, <1>8, <1>10, Zenon
  <2>3. QED
    BY <2>1, <2>2, SameRulesOfTable DEF Table!Revise, Rows
<1>12. p \in Table!Positions /\ o \in Table!OutboundIds
  <2>1. p \in 1 .. Len(Rows)
    BY <1>1, <1>2, <1>3
  <2>2. QED
    BY <2>1 DEF Table!Positions, Rows, Table!OutboundIds, OutboundIds
<1>13. QED
  BY <1>11, <1>12 DEF Table!Next

\* A target not in the table is put in front; the last one of a full table goes.
LEMMA RowLearned ==
    ASSUME CacheInv, CacheInv', NEW t \in Targets, NEW o \in OutboundIds,
           o \in Selectable[t], SlotOf(t) = NoSlot,
           NEW k, k = VictimSlot, lru' = MoveToHead(k),
           nextFree' = IF nextFree < Size THEN nextFree + 1 ELSE nextFree,
           \A j \in Slots : j # k => entries'[j] = entries[j],
           entries'[k].target = t, entries'[k].outbound = o
    PROVE  Table!Next
<1>1. PICK q, n, x, m :
         /\ q = Rows /\ n = nextFree /\ x = [target |-> t, outbound |-> o]
         /\ m = IF nextFree < Size THEN n ELSE Size - 1
  OBVIOUS
<1>2. /\ n \in Nat /\ q \in Seq(Bindings) /\ Len(q) = n /\ lru \in Seq(Slots) /\ Len(lru) = n
      /\ \A i \in 1 .. n : q[i] = Row(lru[i]) /\ lru[i] \in Slots
      /\ Size \in Nat \ {0} /\ n <= Size /\ k \in Slots
  BY <1>1, RowsType, VictimProperties, CacheAssumption
     DEF RowsOK, CacheInv, CacheTypeOK, Indexed, LruHoldsUsedSlots
<1>3. m \in 0 .. n /\ nextFree' = m + 1
  BY <1>1, <1>2
<1>4. /\ Rows' \in Seq(Bindings) /\ Len(Rows') = m + 1 /\ x \in Bindings
      /\ \A i \in 1 .. m + 1 : Rows'[i] = Row(lru[i])'
  <2>1. /\ Rows' \in Seq(Bindings) /\ Len(Rows') = nextFree'
        /\ \A j \in Slots : Row(j)' \in Bindings
        /\ \A i \in 1 .. nextFree' : Rows'[i] = Row(lru[i])'
    BY RowsTypeNext DEF RowsOK
  <2>2. x = Row(k)'
    BY <1>1 DEF Row
  <2>3. QED
    BY <1>2, <1>3, <2>1, <2>2
<1>5. /\ lru'[1] = k
      /\ \A i \in 2 .. m + 1 : lru'[i] = lru[i - 1] /\ lru[i - 1] # k
  <2>1. CASE nextFree < Size
    <3>1. k \notin UsedSlots
      BY <2>1, VictimProperties
    <3>2. Elements(lru) = UsedSlots /\ DOMAIN lru = 1 .. n
      BY <1>2 DEF CacheInv, Indexed, LruHoldsUsedSlots
    <3>3. lru' = Prepend(k, lru)
      BY <3>1, <3>2 DEF MoveToHead, Detach
    <3>4. \A i \in 1 .. n + 1 : lru'[i] = IF i = 1 THEN k ELSE lru[i - 1]
      BY <1>2, <3>3 DEF Prepend
    <3>5. \A i \in 1 .. n : lru[i] # k
      BY <3>1, <3>2 DEF Elements
    <3>6. m = n
      BY <1>1, <2>1
    <3>7. QED
      BY <1>2, <3>4, <3>5, <3>6
  <2>2. CASE ~(nextFree < Size)
    <3>1. k \in UsedSlots /\ k = lru[n] /\ n = Size /\ m = n - 1
      BY <1>1, <1>2, <2>2, VictimProperties DEF VictimSlot
    <3>2. PICK p : p = Position(lru, k)
      OBVIOUS
    <3>3. /\ p \in 1 .. n /\ \A i \in 1 .. n : lru[i] = k => i = p
          /\ \A i \in 1 .. n : lru'[i] = IF i = 1 THEN k
                                         ELSE IF i <= p THEN lru[i - 1] ELSE lru[i]
      <4>1. /\ p \in 1 .. nextFree /\ \A i \in 1 .. nextFree : lru[i] = k => i = p
            /\ \A i \in 1 .. nextFree :
                  MoveToHead(k)[i] = IF i = 1 THEN k
                                     ELSE IF i <= p THEN lru[i - 1] ELSE lru[i]
        BY <3>1, <3>2, MovedUp
      <4>2. n = nextFree /\ lru' = MoveToHead(k)
        BY <1>1
      <4>3. QED
        BY <4>1, <4>2, Zenon
    <3>4. p = n
      BY <1>2, <3>1, <3>3
    <3>5. QED
      BY <1>2, <3>1, <3>3, <3>4
  <2>3. QED
    BY <2>1, <2>2
<1>6. PICK r : r = <<x>> \o SubSeq(q, 1, m)
  OBVIOUS
<1>7. /\ r \in Seq(Bindings) /\ Len(r) = m + 1
      /\ \A i \in 1 .. m + 1 : r[i] = IF i = 1 THEN x ELSE q[i - 1]
  <2>1. m \in 0 .. Len(q)
    BY <1>2, <1>3
  <2>2. QED
    BY <1>2, <1>4, <1>6, <2>1, FrontOfAll
<1>8. ASSUME NEW i \in 1 .. m + 1 PROVE Rows'[i] = r[i]
  <2>1. PICK j : j = lru'[i]
    OBVIOUS
  <2>2. Rows'[i] = Row(j)'
    BY <1>4, <2>1 DEF Row
  <2>3. CASE i = 1
    <3>1. j = k
      BY <1>5, <2>1, <2>3
    <3>2. Row(k)' = x
      BY <1>1 DEF Row
    <3>3. QED
      BY <1>7, <2>2, <2>3, <3>1, <3>2
  <2>4. CASE i # 1
    <3>1. i \in 2 .. m + 1 /\ i - 1 \in 1 .. n
      BY <1>2, <1>3, <2>4
    <3>2. j = lru[i - 1] /\ j # k /\ j \in Slots /\ q[i - 1] = Row(j)
      BY <1>2, <1>5, <2>1, <3>1
    <3>3. Row(j)' = Row(j)
      BY <3>2 DEF Row
    <3>4. r[i] = q[i - 1]
      BY <1>7, <2>4
    <3>5. QED
      BY <2>2, <3>2, <3>3, <3>4
  <2>5. QED
    BY <2>3, <2>4
<1>9. Rows' = r
  BY <1>4, <1>7, <1>8, SeqEqual
<1>10. r = <<x>> \o (IF Len(q) = Size THEN SubSeq(q, 1, Size - 1) ELSE q)
  <2>1. CASE nextFree < Size
    <3>1. Len(q) # Size /\ m = Len(q)
      BY <1>1, <1>2, <2>1
    <3>2. SubSeq(q, 1, Len(q)) = q
      BY <1>2, SubSeqFull
    <3>3. QED
      BY <1>6, <3>1, <3>2
  <2>2. CASE ~(nextFree < Size)
    <3>1. Len(q) = Size /\ m = Size - 1
      BY <1>1, <1>2, <2>2
    <3>2. QED
      BY <1>6, <3>1
  <2>3. QED
    BY <2>1, <2>2
<1>11. \A i \in 1 .. Len(Rows) : Rows[i].target # t
  <2>1. \A j \in UsedSlots : entries[j].target # t
    BY SlotOfProperties
  <2>2. \A i \in 1 .. nextFree : Rows[i] = Row(lru[i]) /\ lru[i] \in UsedSlots
    BY RowsType DEF RowsOK
  <2>3. QED
    BY <1>1, <1>2, <2>1, <2>2 DEF Row
<1>12. Table!Learn(t, o)
  BY <1>1, <1>9, <1>10, <1>11, SameRulesOfTable
     DEF Table!Learn, Table!Binding, Table!Positions, Rows
<1>13. QED
  BY <1>12 DEF Table!Next, Table!Targets, Targets, Table!OutboundIds, OutboundIds

\* An insert of an allowed decision puts its target in front.
LEMMA InsertTableStep ==
    ASSUME CacheInv, CacheInv', NEW t \in Targets, NEW o \in OutboundIds,
           o \in Selectable[t], NEW ttl \in BOOLEAN, NEW expires,
           Insert(t, o, ttl, expires)
    PROVE  Table!Next
<1>1. CASE SlotOf(t) # NoSlot
  <2>1. PICK k, e : k = SlotOf(t) /\ e = UpdatedEntry(entries[k], o, ttl, expires)
    OBVIOUS
  <2>2. /\ entries' = [entries EXCEPT ![k] = e] /\ nextFree' = nextFree
        /\ lru' = MoveToHead(k)
    BY <1>1, <2>1 DEF Insert
  <2>3. k \in UsedSlots /\ k \in Slots /\ entries[k].target = t
    BY <1>1, <2>1, SlotOfProperties
  <2>4. e.target = t /\ e.outbound = o
    BY <2>1, <2>3 DEF UpdatedEntry
  <2>5. entries'[k] = e /\ \A j \in Slots : j # k => entries'[j] = entries[j]
    BY <2>2, <2>3, ViewWritten
  <2>6. QED
    BY <2>2, <2>3, <2>4, <2>5, RowRelearned
<1>2. CASE SlotOf(t) = NoSlot
  <2>1. PICK k, e : /\ k = VictimSlot
                    /\ e = UpdatedEntry([valid |-> TRUE, target |-> t], o, ttl, expires)
    OBVIOUS
  <2>2. /\ entries' = [entries EXCEPT ![k] = e] /\ lru' = MoveToHead(k)
        /\ nextFree' = IF nextFree < Size THEN nextFree + 1 ELSE nextFree
    BY <1>2, <2>1 DEF Insert
  <2>3. k \in Slots
    BY <2>1, VictimProperties
  <2>4. e.target = t /\ e.outbound = o
    BY <2>1 DEF UpdatedEntry
  <2>5. entries'[k] = e /\ \A j \in Slots : j # k => entries'[j] = entries[j]
    BY <2>2, <2>3, ViewWritten
  <2>6. entries'[k].target = t /\ entries'[k].outbound = o
    BY <2>4, <2>5
  <2>7. k = VictimSlot
    BY <2>1
  <2>8. QED
    BY <1>2, <2>2, <2>5, <2>6, <2>7, RowLearned
<1>3. QED
  BY <1>1, <1>2

\* A step that writes neither queue nor decisions is not seen.
LEMMA SameRows ==
    ASSUME CacheInv, UNCHANGED lru,
           \A k \in Slots : /\ entries'[k].target = entries[k].target
                            /\ entries'[k].outbound = entries[k].outbound
    PROVE  Rows' = Rows
<1>1. \A i \in 1 .. Len(lru) : lru[i] \in Slots
  BY RowsType DEF RowsOK, CacheInv, Indexed, LruHoldsUsedSlots
<1>2. QED
  BY <1>1 DEF Rows

\* An answer of the resolver is learned, or changes nothing.
LEMMA AnswerTableStep ==
    ASSUME CacheInv, CacheInv', NEW t \in Targets, NEW addrs \in SUBSET Addrs,
           InsertAnswer(t, addrs)
    PROVE  TableStep
<1>1. CASE addrs # Failed /\ Answered(t, addrs).outbound # NoOutbound
  <2>1. PICK o, ttl : o = Answered(t, addrs).outbound /\ ttl = Answered(t, addrs).ttl
    OBVIOUS
  <2>2. o \in Selectable[t] /\ o \in OutboundIds /\ ttl \in BOOLEAN
    BY <1>1, <2>1, AnswerAllowed
  <2>3. PICK d \in Ttls : Insert(t, o, ttl, now + d)
    BY <1>1, <2>1 DEF InsertAnswer
  <2>4. QED
    BY <2>2, <2>3, InsertTableStep DEF TableStep
<1>2. CASE ~(addrs # Failed /\ Answered(t, addrs).outbound # NoOutbound)
  <2>1. UNCHANGED <<entries, lru>>
    BY <1>2 DEF InsertAnswer, cacheVars
  <2>2. QED
    BY <2>1, SameRows DEF TableStep
<1>3. QED
  BY <1>1, <1>2

\* A lookup that hits is a use.
LEMMA TouchTableStep ==
    ASSUME CacheInv, CacheInv', NEW t \in Targets, ~Miss(t), Touch(SlotOf(t))
    PROVE  TableStep
<1>1. PICK k : k = SlotOf(t)
  OBVIOUS
<1>2. k \in UsedSlots
  BY <1>1, SlotOfProperties DEF Miss
<1>3. lru' = MoveToHead(k) /\ UNCHANGED <<entries, nextFree>>
  BY <1>1 DEF Touch
<1>4. QED
  BY <1>2, <1>3, RowUsed DEF TableStep

\* A refresh answered for the target of slot k revises its row, and uses it if the
\* refresh was answered within the lookup that started it.
LEMMA RevisedTableStep ==
    ASSUME CacheInv, CacheInv', NEW k \in UsedSlots, k \in Slots, NEW t \in Targets,
           entries[k].target = t, NEW addrs \in SUBSET Addrs, NEW d,
           entries' = [entries EXCEPT ![k] = Revised(k, t, addrs, d)],
           UNCHANGED nextFree, lru' \in {lru, MoveToHead(k)}
    PROVE  TableStep
<1>1. PICK e : e = Revised(k, t, addrs, d) /\ entries' = [entries EXCEPT ![k] = e]
  OBVIOUS
<1>2. entries'[k] = e /\ \A j \in Slots : j # k => entries'[j] = entries[j]
  BY <1>1, ViewWritten
<1>3. CASE addrs # Failed /\ Answered(t, addrs).outbound # NoOutbound
  <2>1. PICK o, ttl : o = Answered(t, addrs).outbound /\ ttl = Answered(t, addrs).ttl
    OBVIOUS
  <2>2. o \in Selectable[t] /\ o \in OutboundIds /\ ttl \in BOOLEAN
    BY <1>3, <2>1, AnswerAllowed
  <2>3. e = UpdatedEntry(entries[k], o, ttl, now + d)
    BY <1>1, <1>3, <2>1 DEF Revised
  <2>4. e.target = t /\ e.outbound = o
    BY <2>3 DEF UpdatedEntry
  <2>5. CASE lru' = lru
    BY <1>2, <2>2, <2>4, <2>5, RowRevised DEF TableStep
  <2>6. CASE lru' = MoveToHead(k)
    BY <1>2, <2>2, <2>4, <2>6, RowRelearned DEF TableStep
  <2>7. QED
    BY <2>5, <2>6
<1>4. CASE ~(addrs # Failed /\ Answered(t, addrs).outbound # NoOutbound)
  <2>1. e = [entries[k] EXCEPT !.refreshing = FALSE]
    BY <1>1, <1>4 DEF Revised
  <2>2. entries[k] \in Entry
    BY DEF CacheInv, CacheTypeOK
  <2>3. e.target = entries[k].target /\ e.outbound = entries[k].outbound
    BY <2>1, <2>2, Zenon DEF Entry
  <2>4. CASE lru' = lru
    BY <1>2, <2>3, <2>4, SameRows DEF TableStep
  <2>5. CASE lru' = MoveToHead(k)
    BY <1>2, <2>3, <2>5, RowUsed DEF TableStep
  <2>6. QED
    BY <2>4, <2>5
<1>5. QED
  BY <1>3, <1>4

\* A lookup that starts a refresh is a use.
LEMMA StartTableStep ==
    ASSUME CacheInv, CacheInv', NEW t \in Targets, NEW r, StartRefresh(t, r)
    PROVE  TableStep
<1>1. PICK k, e : /\ k = SlotOf(t) /\ e = [entries[k] EXCEPT !.refreshing = TRUE]
  OBVIOUS
<1>2. k \in UsedSlots /\ k \in Slots
  BY <1>1, SlotOfProperties DEF StartRefresh, Miss
<1>3. entries' = [entries EXCEPT ![k] = e] /\ nextFree' = nextFree /\ lru' = MoveToHead(k)
  BY <1>1, Zenon DEF StartRefresh
<1>4. entries[k] \in Entry
  BY <1>2 DEF CacheInv, CacheTypeOK
<1>5. e.target = entries[k].target /\ e.outbound = entries[k].outbound
  BY <1>1, <1>4, Zenon DEF Entry
<1>6. entries'[k] = e /\ \A j \in Slots : j # k => entries'[j] = entries[j]
  BY <1>2, <1>3, ViewWritten
<1>7. QED
  BY <1>2, <1>3, <1>5, <1>6, RowUsed DEF TableStep

\* Every step is one that RouteTable allows.
LEMMA EveryTableStep ==
    ASSUME IInv, IInv', FreeSlotsEmpty, [Next]_vars PROVE TableStep
<1>1. CacheInv /\ CacheInv' /\ RefreshInv
  BY DEF IInv
<1> USE <1>1
<1>2. ASSUME UNCHANGED <<entries, lru>> PROVE TableStep
  BY <1>2, SameRows DEF TableStep
<1>3. ASSUME NEW t \in Targets, RequestFresh(t) \/ RequestStale(t) PROVE TableStep
  BY <1>3, TouchTableStep DEF RequestFresh, RequestStale
<1>4. ASSUME NEW t \in Targets, RequestStatic(t) PROVE TableStep
  <2>1. PICK o, ttl : /\ o = SelectOutboundNow(t, {}, FALSE).outbound
                      /\ ttl = SelectOutboundNow(t, {}, FALSE).ttl
    OBVIOUS
  <2>2. o # NoOutbound /\ Insert(t, o, ttl, 0)
    BY <1>4, <2>1 DEF RequestStatic
  <2>3. o \in Selectable[t] /\ o \in OutboundIds /\ ttl \in BOOLEAN
    <3>1. PICK addrs \in SUBSET Addrs : addrs = {} /\ (addrs # {}) = FALSE
      OBVIOUS
    <3>2. QED
      BY <2>1, <2>2, <3>1, DecisionAllowed
  <2>4. QED
    BY <2>2, <2>3, InsertTableStep DEF TableStep
<1>5. ASSUME NEW t \in Targets, NEW r, StartRefresh(t, r) PROVE TableStep
  BY <1>5, StartTableStep
<1>6. ASSUME NEW t \in Targets, NEW addrs \in SUBSET Addrs, RefreshAtOnce(t, addrs)
      PROVE  TableStep
  <2>1. PICK k, d : /\ k = SlotOf(t)
                    /\ entries' = [entries EXCEPT ![k] = Revised(k, t, addrs, d)]
    BY <1>6 DEF RefreshAtOnce
  <2>2. k \in UsedSlots /\ k \in Slots /\ entries[k].target = t
    BY <1>6, <2>1, SlotOfProperties DEF RefreshAtOnce, Miss
  <2>3. UNCHANGED nextFree /\ lru' = MoveToHead(k)
    BY <1>6, <2>1 DEF RefreshAtOnce
  <2>4. QED
    BY <2>1, <2>2, <2>3, RevisedTableStep
<1>7. ASSUME NEW t \in Targets, NEW addrs \in SUBSET Addrs, RequestSystem(t, addrs)
      PROVE  TableStep
  <2>1. CASE InsertAnswer(t, addrs)
    BY <1>7, <2>1, AnswerTableStep
  <2>2. CASE ~Miss(t) /\ Touch(SlotOf(t))
    BY <1>7, <2>2, TouchTableStep
  <2>3. CASE UNCHANGED cacheVars
    BY <1>2, <2>3 DEF cacheVars
  <2>4. QED
    BY <1>7, <2>1, <2>2, <2>3 DEF RequestSystem
<1>8. ASSUME NEW t \in Targets, NEW addrs \in SUBSET Addrs, AskAtOnce(t, addrs)
      PROVE  TableStep
  BY <1>8, AnswerTableStep DEF AskAtOnce
<1>9. ASSUME NEW s \in Sessions, NEW addrs \in SUBSET Addrs, RouteAnswer(s, addrs)
      PROVE  TableStep
  <2>1. PICK t : t = asking[s]
    OBVIOUS
  <2>2. t \in Targets /\ InsertAnswer(t, addrs)
    BY <1>9, <2>1 DEF RouteAnswer, IInv
  <2>3. QED
    BY <2>2, AnswerTableStep
<1>10. ASSUME NEW r \in RefreshIds, NEW addrs \in SUBSET Addrs, RefreshAnswer(r, addrs)
       PROVE  TableStep
  <2>1. PICK f, k : f = refreshes[r] /\ k = f.slot
    OBVIOUS
  <2>2. k \in Slots /\ f.target \in Targets /\ f # None
    BY <1>10, <2>1, RefreshFields DEF RefreshInv, RefreshAnswer
  <2>3. CASE StillCurrent(f)
    <3>1. PICK d : entries' = [entries EXCEPT ![k] = Revised(k, f.target, addrs, d)]
      BY <1>10, <2>1, <2>3 DEF RefreshAnswer
    <3>2. entries[k].target = f.target
      BY <2>1, <2>2, <2>3 DEF RefreshInv, RefreshOwnsEntry
    <3>3. k \in UsedSlots
      BY <2>2, <3>2, CacheAssumption DEF FreeSlotsEmpty
    <3>4. UNCHANGED <<nextFree, lru>>
      BY <1>10 DEF RefreshAnswer
    <3>5. QED
      BY <2>2, <3>1, <3>2, <3>3, <3>4, RevisedTableStep
  <2>4. CASE ~StillCurrent(f)
    BY <1>2, <1>10, <2>1, <2>4 DEF RefreshAnswer
  <2>5. QED
    BY <2>3, <2>4
<1>11. CASE UNCHANGED vars \/ Tick \/ \E s \in Sessions, t \in Targets : Ask(s, t)
  BY <1>2, <1>11 DEF vars, Tick, Ask, cacheVars
<1>12. QED
  BY <1>3, <1>4, <1>5, <1>6, <1>7, <1>8, <1>9, <1>10, <1>11 DEF Next

-----------------------------------------------------------------------------
\* Whoever asks the cache for routes finds a table in order of use: at most Size
\* targets, each bound to an outbound its rules allow, of which only the one unused
\* for longest is forgotten, and only for another target in a full table; lookups,
\* answers of the resolver for sessions and refreshes, current or late, do not break
\* this in whatever order they come.
THEOREM TableImplemented == Spec => ImplementsRouteTable
<1>1. Init => FreeSlotsEmpty /\ Table!Init
  <2>1. Init => Rows = <<>>
    BY DEF Init, Rows
  <2>2. QED
    BY <2>1, InitView DEF Table!Init, Rows
<1>2. IInv /\ IInv' /\ FreeSlotsEmpty /\ [Next]_vars => [Table!Next]_Rows
  BY EveryTableStep DEF TableStep
<1>3. QED
  BY <1>1, <1>2, Invariant, FreeSlotsInv, PTL
     DEF Spec, ImplementsRouteTable, Table!Spec, Rows
=============================================================================
