----------------------------- MODULE DomainMph ------------------------------
(***************************************************************************)
(* The compact table a group of rules keeps its domain keys in: a hash     *)
(* without collisions, found by trying seeds.  Keys fall into buckets by   *)
(* their hash with seed 0; the buckets, largest first, each look for a     *)
(* seed that sends their keys to positions of the table that are free.     *)
(* When no seed does, a larger table is tried, up to a limit.              *)
(*                                                                         *)
(* Which hash function it is does not matter: hash is any function of keys *)
(* and seeds.  Sorting and merging of equal keys come before, see Rules.   *)
(***************************************************************************)
EXTENDS Integers, FiniteSets

CONSTANTS
    Keys,       \* what is looked up
    Hashes,     \* the hash functions considered
    Tables,     \* what can be compiled: see Table
    MaxSeed     \* seeds are below it: 65536

Flag == {"root", "below"}   \* NGX_STREAM_MTROJAN_DOMAIN_SUFFIX_INCLUDE_ROOT or none

Table == UNION {[S -> Flag] : S \in SUBSET Keys}

ASSUME MphAssumption ==
    /\ IsFiniteSet(Keys)
    /\ MaxSeed \in Nat \ {0}
    /\ \A h \in Hashes : h \in [Keys -> [0 .. MaxSeed - 1 -> Nat]]
    /\ \A t \in Tables : t \in Table

VARIABLES
    hash,       \* does not change
    unique,     \* does not change: the keys, each with its flag
    stage,      \* "building", "built" or "refused"
    size,       \* of the table that is tried
    todo,       \* the buckets without a seed
    seeds,      \* buckets[].seed
    positions,  \* of the keys of the other buckets; used[] are its values
    mph

mphVars == <<hash, unique, stage, size, todo, seeds, positions, mph>>

-----------------------------------------------------------------------------
N == Cardinality(DOMAIN unique)

NextPower(n) ==
    LET Grow[p \in Nat] == IF p < n THEN Grow[2 * p] ELSE p IN Grow[1]

Bucket(k) == hash[k][0] % NextPower(N \div 4 + 1)

\* Those a lookup can come to, and those that hold keys.
Buckets == {Bucket(k) : k \in Keys}
Filled == {Bucket(k) : k \in DOMAIN unique}

Items(b) == {k \in DOMAIN unique : Bucket(k) = b}

\* ngx_stream_mtrojan_cmp_mph_buckets; buckets of one size come in any order.
Largest(b) ==
    b \in todo /\ \A c \in todo : Cardinality(Items(c)) <= Cardinality(Items(b))

At(k, seed) == hash[k][seed] % size

\* Fault: keys of one bucket may meet.
FitsFreely(b, seed) ==
    \A k \in Items(b) : \A l \in DOMAIN positions : positions[l] # At(k, seed)

\* Neither used[] nor a position of the same bucket.
Fits(b, seed) ==
    /\ \A k \in Items(b) : \A l \in DOMAIN positions : positions[l] # At(k, seed)
    /\ \A k, l \in Items(b) : k # l => At(k, seed) # At(l, seed)

Seeds == 1 .. MaxSeed - 1

NoKeys == [k \in {} |-> 0]

\* What is kept of a finished table; size 0 is the table of no keys.
EmptyMph == [size |-> 0, seeds |-> NoKeys, slots |-> NoKeys]

-----------------------------------------------------------------------------
MphInit ==
    /\ hash \in Hashes /\ unique \in Tables
    /\ stage = IF N = 0 THEN "built" ELSE "building"
    /\ size = N
    /\ todo = Filled
    /\ seeds = [b \in Buckets |-> 0]
    /\ positions = NoKeys
    /\ mph = EmptyMph

\* A bucket gets the first seed that fits.
Place(b, seed) ==
    /\ stage = "building" /\ Largest(b)
    /\ seed \in Seeds /\ Fits(b, seed)
    /\ \A s \in Seeds : s < seed => ~Fits(b, s)
    /\ seeds' = [seeds EXCEPT ![b] = seed]
    /\ positions' = [k \in DOMAIN positions \cup Items(b) |->
                        IF k \in Items(b) THEN At(k, seed) ELSE positions[k]]
    /\ todo' = todo \ {b}
    /\ UNCHANGED <<hash, unique, stage, size, mph>>

\* No seed fits: everything is placed anew in a larger table.
Enlarge(b) ==
    /\ stage = "building" /\ Largest(b)
    /\ \A s \in Seeds : ~Fits(b, s)
    /\ size + N \div 8 + 1 <= 2 * N + 1
    /\ size' = size + N \div 8 + 1
    /\ todo' = Filled
    /\ seeds' = [c \in Buckets |-> 0]
    /\ positions' = NoKeys
    /\ UNCHANGED <<hash, unique, stage, mph>>

\* "could not build compact route_rules domain matcher"
RefuseTable(b) ==
    /\ stage = "building" /\ Largest(b)
    /\ \A s \in Seeds : ~Fits(b, s)
    /\ size + N \div 8 + 1 > 2 * N + 1
    /\ stage' = "refused"
    /\ UNCHANGED <<hash, unique, size, todo, seeds, positions, mph>>

\* Slots without a key have length 0, which no lookup has.
Publish ==
    /\ stage = "building" /\ todo = {}
    /\ stage' = "built"
    /\ mph' = [size |-> size, seeds |-> seeds,
               slots |-> [p \in {positions[k] : k \in DOMAIN positions} |->
                             CHOOSE k \in DOMAIN positions : positions[k] = p]]
    /\ UNCHANGED <<hash, unique, size, todo, seeds, positions>>

MphNext ==
    \/ \E b \in Buckets : Enlarge(b) \/ RefuseTable(b) \/ \E s \in Seeds : Place(b, s)
    \/ Publish

MphSpec == MphInit /\ [][MphNext]_mphVars

-----------------------------------------------------------------------------
\* ngx_stream_mtrojan_route_rules_domain_mph_find; a slot's flags are those of
\* its key.
Find(k) ==
    LET p == hash[k][mph.seeds[Bucket(k)]] % mph.size IN
    IF mph.size # 0 /\ p \in DOMAIN mph.slots /\ mph.slots[p] = k
    THEN unique[k] ELSE "none"

-----------------------------------------------------------------------------
(* Properties. *)

\* Every part of the construction is of its kind.
MphTypeOK ==
    /\ hash \in [Keys -> [0 .. MaxSeed - 1 -> Nat]]
    /\ unique \in Table
    /\ stage \in {"building", "built", "refused"}
    /\ size \in Nat /\ (stage # "built" => size > 0)
    /\ todo \subseteq Filled
    /\ seeds \in [Buckets -> 0 .. MaxSeed - 1]
    /\ DOMAIN positions \subseteq DOMAIN unique
    /\ \A k \in DOMAIN positions : positions[k] \in 0 .. size - 1

\* However the hash scatters the keys and whatever the seeds and the size turn
\* out to be: each key is found with its own flag, and nothing else is found.
FindsExactlyItsKeys ==
    stage = "built" =>
        \A k \in Keys : Find(k) = IF k \in DOMAIN unique THEN unique[k] ELSE "none"
=============================================================================
