---------------------------- MODULE ConfigProofs ----------------------------
(***************************************************************************)
(* Proofs about Rules and Config, for any rules, groups and server blocks: *)
(* a compiled group answers as its rules would one by one, a local proxy   *)
(* is served by the one block it can mean.  First the parts of a compiled  *)
(* group, the sorted arrays of prefixes and the tables of names; then the  *)
(* walk over the outbounds; then the steps of Config.  Last the tables of  *)
(* names with perfect hashing that large groups are compiled into.         *)
(***************************************************************************)
EXTENDS Config, DomainMph, FiniteSetTheorems, SequenceTheorems, WellFoundedInduction, TLAPS

-----------------------------------------------------------------------------
(* Natural numbers. *)

\* A set of numbers that has one has a least one.
LEMMA LeastNumber ==
    ASSUME NEW S \in SUBSET Nat, S # {}
    PROVE  \E n \in S : \A m \in S : n <= m
<1>1. IsWellFoundedOn(OpToRel(<, Nat), Nat)
  BY NatLessThanWellFounded
<1>2. PICK n \in S : \A m \in S : ~(<<m, n>> \in OpToRel(<, Nat))
  BY <1>1, WFMin, Zenon
<1>3. \A m \in S : ~(m < n)
  BY <1>2, Zenon DEF OpToRel
<1>4. QED
  BY <1>3

\* What holds of 0 and of the next number holds of all.
LEMMA AllNumbers ==
    ASSUME NEW S \in SUBSET Nat, 0 \in S, \A n \in S : n + 1 \in S
    PROVE  S = Nat
<1> SUFFICES ASSUME Nat \ S # {} PROVE FALSE
  OBVIOUS
<1>1. PICK n \in Nat \ S : \A m \in Nat \ S : n <= m
  BY LeastNumber
<1>2. n # 0 /\ n - 1 \in Nat /\ n - 1 \in S
  BY <1>1
<1>3. QED
  BY <1>1, <1>2

-----------------------------------------------------------------------------
(* The order of addresses. *)

\* Different sequences differ at some place first.
FirstDifferAt(v, w, j) == v[j] # w[j] /\ \A k \in 1 .. j - 1 : v[k] = w[k]

LEMMA FirstDifference ==
    ASSUME NEW n \in Nat, NEW S, NEW v \in [1 .. n -> S], NEW w \in [1 .. n -> S], v # w
    PROVE  \E j \in 1 .. n : FirstDifferAt(v, w, j)
<1> DEFINE D == {j \in 1 .. n : v[j] # w[j]}
<1>1. D # {}
  <2> SUFFICES ASSUME D = {} PROVE v = w
    OBVIOUS
  <2>1. \A j \in 1 .. n : v[j] = w[j]
    OBVIOUS
  <2>2. QED
    BY <2>1
<1>2. D \in SUBSET Nat
  OBVIOUS
<1> HIDE DEF D
<1>3. PICK j \in D : \A k \in D : j <= k
  BY <1>1, <1>2, LeastNumber
<1>4. QED
  BY <1>3 DEF D, FirstDifferAt

LEMMA BelowTotal ==
    ASSUME NEW f, NEW v \in Word(f), NEW w \in Word(f), v # w, Width(f) \in Nat
    PROVE  Below(v, w) \/ Below(w, v)
<1>1. PICK j \in 1 .. Width(f) : FirstDifferAt(v, w, j)
  BY FirstDifference DEF Word
<1>2. v[j] < w[j] \/ w[j] < v[j]
  BY <1>1 DEF Word, FirstDifferAt
<1>3. QED
  BY <1>1, <1>2 DEF Below, Word, FirstDifferAt

LEMMA BelowOrder ==
    ASSUME NEW f, NEW u \in Word(f), NEW v \in Word(f), NEW w \in Word(f), Width(f) \in Nat
    PROVE  /\ ~Below(v, v)
           /\ Below(u, v) /\ Below(v, w) => Below(u, w)
<1>1. ~Below(v, v)
  BY DEF Below, Word
<1>2. ASSUME Below(u, v), Below(v, w) PROVE Below(u, w)
  <2>1. PICK i \in 1 .. Width(f) : u[i] < v[i] /\ \A k \in 1 .. i - 1 : u[k] = v[k]
    BY <1>2 DEF Below, Word
  <2>2. PICK j \in 1 .. Width(f) : v[j] < w[j] /\ \A k \in 1 .. j - 1 : v[k] = w[k]
    BY <1>2 DEF Below, Word
  <2>3. \A k \in 1 .. Width(f) : u[k] \in Int /\ v[k] \in Int /\ w[k] \in Int
    BY DEF Word
  <2>4. CASE i <= j
    <3>1. u[i] < w[i] /\ \A k \in 1 .. i - 1 : u[k] = w[k]
      BY <2>1, <2>2, <2>3, <2>4
    <3>2. QED
      BY <3>1 DEF Below, Word
  <2>5. CASE j < i
    <3>1. u[j] < w[j] /\ \A k \in 1 .. j - 1 : u[k] = w[k]
      BY <2>1, <2>2, <2>3, <2>5
    <3>2. QED
      BY <3>1 DEF Below, Word
  <2>6. QED
    BY <2>4, <2>5
<1>3. QED
  BY <1>1, <1>2

LEMMA Sizes ==
    ASSUME NEW f \in Families
    PROVE  Words(f) \in Nat \ {0} /\ Width(f) \in Nat \ {0} /\ Size(f) \in Nat
  BY RulesAssumption DEF Families, Words, Width, Size

\* ngx_memcmp is a total order.
LEMMA BeforeTotal ==
    ASSUME NEW f \in Families, NEW x \in Address(f), NEW y \in Address(f), x # y
    PROVE  Before(x, y) \/ Before(y, x)
<1>1. PICK i \in 1 .. Words(f) : FirstDifferAt(x, y, i)
  BY FirstDifference, Sizes DEF Address
<1>2. Below(x[i], y[i]) \/ Below(y[i], x[i])
  BY <1>1, BelowTotal, Sizes DEF Address, FirstDifferAt
<1>3. QED
  BY <1>1, <1>2 DEF Before, Address, FirstDifferAt

LEMMA BeforeOrder ==
    ASSUME NEW f \in Families,
           NEW x \in Address(f), NEW y \in Address(f), NEW z \in Address(f)
    PROVE  /\ ~Before(x, x)
           /\ Before(x, y) /\ Before(y, z) => Before(x, z)
<1>1. ~Before(x, x)
  BY BelowOrder, Sizes DEF Before, Address
<1>2. ASSUME Before(x, y), Before(y, z) PROVE Before(x, z)
  <2>1. PICK i \in 1 .. Words(f) : Below(x[i], y[i]) /\ \A k \in 1 .. i - 1 : x[k] = y[k]
    BY <1>2 DEF Before, Address
  <2>2. PICK j \in 1 .. Words(f) : Below(y[j], z[j]) /\ \A k \in 1 .. j - 1 : y[k] = z[k]
    BY <1>2 DEF Before, Address
  <2>3. \A k \in 1 .. Words(f) : x[k] \in Word(f) /\ y[k] \in Word(f) /\ z[k] \in Word(f)
    BY DEF Address
  <2>4. CASE i < j
    <3>1. Below(x[i], z[i]) /\ \A k \in 1 .. i - 1 : x[k] = z[k]
      BY <2>1, <2>2, <2>4, Sizes
    <3>2. QED
      BY <3>1 DEF Before, Address
  <2>5. CASE i = j
    <3>1. Below(x[i], z[i])
      BY <2>1, <2>2, <2>3, <2>5, BelowOrder, Sizes
    <3>2. \A k \in 1 .. i - 1 : x[k] = z[k]
      BY <2>1, <2>2, <2>5, Sizes
    <3>3. QED
      BY <3>1, <3>2 DEF Before, Address
  <2>6. CASE j < i
    <3>1. Below(x[j], z[j]) /\ \A k \in 1 .. j - 1 : x[k] = z[k]
      BY <2>1, <2>2, <2>6, Sizes
    <3>2. QED
      BY <3>1 DEF Before, Address
  <2>7. QED
    BY <2>4, <2>5, <2>6, Sizes
<1>3. QED
  BY <1>1, <1>2

-----------------------------------------------------------------------------
(* Sorted arrays. *)

\* The numbers of those before each element.
RankIn(S) == [x \in S |-> 1 + Cardinality({y \in S : Before(y, x)})]

\* What ngx_qsort gives.
Ordered(elts, S) ==
    /\ elts \in [1 .. Cardinality(S) -> S]
    /\ \A i, j \in 1 .. Cardinality(S) : i < j => Before(elts[i], elts[j])

LEMMA RankOrder ==
    ASSUME NEW f \in Families, NEW S \in SUBSET Address(f), IsFiniteSet(S),
           NEW x \in S, NEW y \in S
    PROVE  /\ RankIn(S)[x] \in 1 .. Cardinality(S)
           /\ Before(x, y) => RankIn(S)[x] < RankIn(S)[y]
<1> DEFINE P(z) == {u \in S : Before(u, z)}
<1>0. /\ RankIn(S)[x] = 1 + Cardinality(P(x))
      /\ RankIn(S)[y] = 1 + Cardinality(P(y))
  BY DEF RankIn
<1>1. /\ P(x) \in SUBSET (S \ {x}) /\ P(x) \in SUBSET S /\ P(y) \in SUBSET S
      /\ x \notin P(x)
  BY BeforeOrder
<1>2. Before(x, y) => P(x) \cup {x} \in SUBSET P(y)
  BY BeforeOrder
<1> HIDE DEF P
<1>3. /\ IsFiniteSet(P(x)) /\ IsFiniteSet(P(y)) /\ IsFiniteSet(S \ {x})
      /\ Cardinality(S \ {x}) = Cardinality(S) - 1
  BY <1>1, FS_Subset, FS_RemoveElement
<1>4. /\ Cardinality(P(x)) \in Nat /\ Cardinality(P(y)) \in Nat /\ Cardinality(S) \in Nat
      /\ Cardinality(P(x)) <= Cardinality(S) - 1
  BY <1>1, <1>3, FS_Subset, FS_CardinalityType
<1>5. ASSUME Before(x, y) PROVE Cardinality(P(x)) + 1 <= Cardinality(P(y))
  <2>1. Cardinality(P(x) \cup {x}) = Cardinality(P(x)) + 1
    BY <1>1, <1>3, FS_AddElement
  <2>2. Cardinality(P(x) \cup {x}) <= Cardinality(P(y))
    BY <1>2, <1>3, <1>5, FS_Subset
  <2>3. QED
    BY <2>1, <2>2
<1>6. QED
  BY <1>0, <1>4, <1>5

\* Every finite set of addresses can be sorted.
LEMMA SortedExists ==
    ASSUME NEW f \in Families, NEW S \in SUBSET Address(f), IsFiniteSet(S)
    PROVE  \E elts : Ordered(elts, S)
<1> DEFINE n == Cardinality(S)
           elts == [i \in 1 .. n |-> CHOOSE x \in S : RankIn(S)[x] = i]
<1>0. n \in Nat /\ IsFiniteSet(1 .. n) /\ Cardinality(1 .. n) = n
  BY FS_CardinalityType, FS_Interval
<1>1. RankIn(S) \in Injection(S, 1 .. n)
  <2>1. RankIn(S) \in [S -> 1 .. n]
    BY RankOrder DEF RankIn
  <2>2. ASSUME NEW x \in S, NEW y \in S, RankIn(S)[x] = RankIn(S)[y] PROVE x = y
    <3>1. ~Before(x, y) /\ ~Before(y, x)
      BY <2>2, RankOrder, <1>0
    <3>2. QED
      BY <3>1, BeforeTotal
  <2>3. QED
    BY <2>1, <2>2 DEF Injection, IsInjective
<1>2. RankIn(S) \in Surjection(S, 1 .. n)
  BY <1>0, <1>1, FS_Injection
<1>3. \A i \in 1 .. n : \E x \in S : RankIn(S)[x] = i
  BY <1>2 DEF Surjection
<1>4. \A i \in 1 .. n : elts[i] \in S /\ RankIn(S)[elts[i]] = i
  BY <1>3
<1>5. elts \in [1 .. n -> S]
  BY <1>4
<1> HIDE DEF elts
<1>6. ASSUME NEW i \in 1 .. n, NEW j \in 1 .. n, i < j PROVE Before(elts[i], elts[j])
  <2>1. elts[i] # elts[j] /\ ~Before(elts[j], elts[i])
    BY <1>0, <1>4, <1>6, RankOrder
  <2>2. QED
    BY <1>4, <2>1, BeforeTotal
<1>7. QED
  BY <1>5, <1>6 DEF Ordered

LEMMA SortedOrdered ==
    ASSUME NEW f \in Families, NEW S \in SUBSET Address(f), IsFiniteSet(S)
    PROVE  /\ Ordered(Sorted(S), S)
           /\ Sorted(S) \in Seq(Address(f))
           /\ \A x \in S : \E i \in 1 .. Len(Sorted(S)) : Sorted(S)[i] = x
           /\ \A i \in 1 .. Len(Sorted(S)) : Sorted(S)[i] \in S
<1> DEFINE n == Cardinality(S)
           elts == Sorted(S)
<1>0. n \in Nat /\ IsFiniteSet(1 .. n) /\ Cardinality(1 .. n) = n
  BY FS_CardinalityType, FS_Interval
<1>1. Ordered(elts, S)
  BY SortedExists DEF Sorted, Ordered
<1> HIDE DEF elts
<1>2. elts \in Injection(1 .. n, S)
  <2>1. ASSUME NEW i \in 1 .. n, NEW j \in 1 .. n, elts[i] = elts[j] PROVE i = j
    <3>1. ~Before(elts[i], elts[j]) /\ ~Before(elts[j], elts[i])
      BY <1>1, <2>1, BeforeOrder DEF Ordered
    <3>2. QED
      BY <1>1, <3>1, <1>0 DEF Ordered
  <2>2. QED
    BY <1>1, <2>1 DEF Ordered, Injection, IsInjective
<1>3. elts \in Surjection(1 .. n, S)
  BY <1>0, <1>2, FS_Injection
<1>4. elts \in Seq(Address(f)) /\ Len(elts) = n
  BY <1>0, <1>1 DEF Ordered
<1>5. QED
  BY <1>1, <1>3, <1>4 DEF Ordered, Surjection, elts
-----------------------------------------------------------------------------
(* Binary search. *)

Halves(elts) == (0 .. Len(elts)) \X (0 .. Len(elts))

\* The halves not longer than n.
Short(elts, n) == {h \in Halves(elts) : h[2] - h[1] <= n}

Middle(half) == (half[1] + half[2]) \div 2

\* The half that is searched next.
NextHalf(elts, x, half) ==
    IF Before(elts[Middle(half) + 1], x) THEN <<Middle(half) + 1, half[2]>>
                                         ELSE <<half[1], Middle(half)>>

\* One step of the search, the rest of it given.
SearchStep(elts, x, In, half) ==
    IF half[1] >= half[2] THEN 0
    ELSE IF elts[Middle(half) + 1] = x THEN 1
    ELSE In[NextHalf(elts, x, half)]

LEMMA MiddleInside ==
    ASSUME NEW l \in Nat, NEW r \in Nat, l < r
    PROVE  (l + r) \div 2 \in l .. r - 1
  OBVIOUS

LEMMA HalvesShrink ==
    ASSUME NEW S, NEW elts \in Seq(S), NEW x, NEW n \in Nat,
           NEW half \in Short(elts, n + 1), half[1] < half[2]
    PROVE  /\ NextHalf(elts, x, half) \in Short(elts, n)
           /\ Middle(half) \in half[1] .. half[2] - 1
<1>1. PICK l \in 0 .. Len(elts), r \in 0 .. Len(elts) : half = <<l, r>>
  BY DEF Short, Halves
<1>2. l < r /\ r - l <= n + 1 /\ Middle(half) = (l + r) \div 2
  BY <1>1 DEF Short, Middle
<1>3. (l + r) \div 2 \in l .. r - 1
  BY <1>2, MiddleInside
<1>4. QED
  BY <1>1, <1>2, <1>3 DEF Short, Halves, NextHalf

\* The search ends: there is a function that says what it finds.
LEMMA SearchDefined ==
    ASSUME NEW S, NEW elts \in Seq(S), NEW x
    PROVE  \E In : In = [half \in Halves(elts) |-> SearchStep(elts, x, In, half)]
<1> DEFINE Lengths == {n \in Nat : \E In : In = [half \in Short(elts, n) |->
                                              SearchStep(elts, x, In, half)]}
<1>1. 0 \in Lengths
  <2> DEFINE In == [half \in Short(elts, 0) |-> 0]
  <2>1. \A half \in Short(elts, 0) : half[1] >= half[2]
    BY DEF Short, Halves
  <2>2. In = [half \in Short(elts, 0) |-> SearchStep(elts, x, In, half)]
    BY <2>1 DEF SearchStep
  <2> HIDE DEF In
  <2>3. QED
    BY <2>2
<1>2. ASSUME NEW n \in Lengths PROVE n + 1 \in Lengths
  <2>1. PICK In : In = [half \in Short(elts, n) |-> SearchStep(elts, x, In, half)]
    OBVIOUS
  <2> DEFINE On == [half \in Short(elts, n + 1) |->
                        IF half \in Short(elts, n) THEN In[half] ELSE SearchStep(elts, x, In, half)]
  <2>2. \A half \in Short(elts, n + 1) : On[half] = SearchStep(elts, x, In, half)
    BY <2>1
  <2>3. \A half \in Short(elts, n) : half \in Short(elts, n + 1) /\ On[half] = In[half]
    BY DEF Short, Halves
  <2>4. On = [half \in Short(elts, n + 1) |-> On[half]]
    OBVIOUS
  <2> HIDE DEF On, Lengths
  <2>5. ASSUME NEW half \in Short(elts, n + 1) PROVE On[half] = SearchStep(elts, x, On, half)
    <3>0. half[1] \in Nat /\ half[2] \in Nat /\ n \in Nat
      BY DEF Short, Halves, Lengths
    <3>1. CASE half[1] >= half[2]
      BY <2>2, <3>1 DEF SearchStep
    <3>2. CASE half[1] < half[2]
      <4>1. NextHalf(elts, x, half) \in Short(elts, n)
        BY <3>0, <3>2, HalvesShrink
      <4>2. QED
        BY <2>2, <2>3, <4>1 DEF SearchStep
    <3>3. QED
      BY <3>0, <3>1, <3>2
  <2>6. On = [half \in Short(elts, n + 1) |-> SearchStep(elts, x, On, half)]
    BY <2>4, <2>5
  <2>7. QED
    BY <2>6 DEF Lengths
<1> HIDE DEF Lengths
<1>3. Lengths = Nat
  <2>1. Lengths \in SUBSET Nat
    BY DEF Lengths
  <2>2. QED
    BY <1>1, <1>2, <2>1, AllNumbers
<1>4. Len(elts) \in Lengths
  BY <1>3
<1>5. Short(elts, Len(elts)) = Halves(elts)
  BY DEF Short, Halves
<1>6. QED
  BY <1>4, <1>5 DEF Lengths

\* It finds what is there, in a sorted array.
LEMMA SearchFinds ==
    ASSUME NEW f \in Families, NEW elts \in Seq(Address(f)), NEW x \in Address(f),
           \A i, j \in 1 .. Len(elts) : i < j => Before(elts[i], elts[j])
    PROVE  Search(elts, x) = 1 <=> \E i \in 1 .. Len(elts) : elts[i] = x
<1> DEFINE In == CHOOSE g : g = [half \in Halves(elts) |-> SearchStep(elts, x, g, half)]
           Right(half) == In[half] = 1 <=> \E i \in half[1] + 1 .. half[2] : elts[i] = x
           Lengths == {n \in Nat : \A half \in Short(elts, n) : Right(half)}
<1>1. In = [half \in Halves(elts) |-> SearchStep(elts, x, In, half)]
  BY SearchDefined
<1>2. Search(elts, x) = In[<<0, Len(elts)>>]
  BY DEF Search, Halves, SearchStep, Middle, NextHalf
<1> HIDE DEF In
<1>3. \A half \in Halves(elts) : In[half] = SearchStep(elts, x, In, half)
  BY <1>1
<1>4. 0 \in Lengths
  BY <1>3 DEF Short, Halves, SearchStep
<1>5. ASSUME NEW n \in Lengths PROVE n + 1 \in Lengths
  <2> SUFFICES ASSUME NEW half \in Short(elts, n + 1) PROVE Right(half)
    OBVIOUS
  <2>1. PICK l \in 0 .. Len(elts), r \in 0 .. Len(elts) : half = <<l, r>>
    BY DEF Short, Halves
  <2>2. CASE l >= r
    BY <1>3, <2>1, <2>2 DEF Short, SearchStep
  <2>3. CASE l < r
    <3> DEFINE mid == Middle(half)
    <3>0. n \in Nat /\ half[1] < half[2] /\ half[1] = l /\ half[2] = r
      BY <2>1, <2>3
    <3>1. NextHalf(elts, x, half) \in Short(elts, n) /\ mid \in l .. r - 1
      BY <3>0, HalvesShrink
    <3>2. Right(NextHalf(elts, x, half))
      BY <3>1
    <3>3. elts[mid + 1] \in Address(f) /\ \A i \in l + 1 .. r : elts[i] \in Address(f)
      BY <3>1
    <3>4. In[half] = IF elts[mid + 1] = x THEN 1 ELSE In[NextHalf(elts, x, half)]
      BY <1>3, <2>1, <2>3 DEF Short, SearchStep
    <3> HIDE DEF mid
    <3>5. CASE elts[mid + 1] = x
      BY <2>1, <3>1, <3>4, <3>5
    <3>6. CASE elts[mid + 1] # x /\ Before(elts[mid + 1], x)
      <4>1. NextHalf(elts, x, half) = <<mid + 1, r>>
        BY <2>1, <3>6 DEF NextHalf, mid
      <4>2. \A i \in l + 1 .. r : elts[i] = x => i > mid + 1
        BY <3>1, <3>3, <3>6, BeforeOrder
      <4>3. In[half] = 1 <=> \E i \in mid + 2 .. r : elts[i] = x
        BY <3>1, <3>2, <3>4, <3>6, <4>1
      <4>4. QED
        BY <3>0, <3>1, <4>2, <4>3
    <3>7. CASE elts[mid + 1] # x /\ ~Before(elts[mid + 1], x)
      <4>1. NextHalf(elts, x, half) = <<l, mid>>
        BY <2>1, <3>7 DEF NextHalf, mid
      <4>2. \A i \in l + 1 .. r : elts[i] = x => i <= mid
        BY <3>1, <3>7
      <4>3. In[half] = 1 <=> \E i \in l + 1 .. mid : elts[i] = x
        BY <3>2, <3>4, <3>7, <4>1
      <4>4. QED
        BY <3>0, <3>1, <4>2, <4>3
    <3>8. QED
      BY <3>5, <3>6, <3>7
  <2>4. QED
    BY <2>2, <2>3
<1>6. Lengths = Nat
  <2> HIDE DEF Lengths
  <2>1. Lengths \in SUBSET Nat
    BY DEF Lengths
  <2>2. QED
    BY <1>4, <1>5, <2>1, AllNumbers
<1>7. Right(<<0, Len(elts)>>)
  BY <1>6 DEF Short, Halves
<1>8. QED
  BY <1>2, <1>7
-----------------------------------------------------------------------------
(* Address rules. *)

LEMMA AndInside ==
    ASSUME NEW f \in Families, NEW a \in Address(f), NEW m
    PROVE  And(a, m) \in Address(f) /\ And(And(a, m), m) = And(a, m)
<1>1. \A i \in 1 .. Words(f) : a[i] \in [1 .. Width(f) -> {0, 1}]
  BY DEF Address, Word
<1>2. And(a, m) = [i \in 1 .. Words(f) |-> [j \in 1 .. Width(f) |->
                      IF m[i][j] = 1 THEN a[i][j] ELSE 0]]
  <2>1. DOMAIN a = 1 .. Words(f)
    BY DEF Address
  <2>2. \A i \in 1 .. Words(f) : DOMAIN a[i] = 1 .. Width(f)
    BY <1>1
  <2>3. QED
    BY <2>1, <2>2 DEF And
<1>3. And(a, m) \in Address(f)
  <2>1. \A i \in 1 .. Words(f) :
            [j \in 1 .. Width(f) |-> IF m[i][j] = 1 THEN a[i][j] ELSE 0] \in Word(f)
    BY <1>1 DEF Word
  <2>2. QED
    BY <1>2, <2>1 DEF Address
<1> DEFINE b == And(a, m)
<1>4. And(b, m) = [i \in 1 .. Words(f) |-> [j \in 1 .. Width(f) |->
                      IF m[i][j] = 1 THEN b[i][j] ELSE 0]]
  <2>1. DOMAIN b = 1 .. Words(f) /\ \A i \in 1 .. Words(f) : DOMAIN b[i] = 1 .. Width(f)
    BY <1>2
  <2>2. QED
    BY <2>1 DEF And
<1>5. \A i \in 1 .. Words(f), j \in 1 .. Width(f) :
          b[i][j] = IF m[i][j] = 1 THEN a[i][j] ELSE 0
  BY <1>2
<1>6. And(b, m) = b
  BY <1>2, <1>4, <1>5
<1>7. QED
  BY <1>3, <1>6

\* A rule is found under its prefix, which its mask has.
LEMMA CidrFacts ==
    ASSUME NEW rule \in Cidrs
    PROVE  /\ rule.family \in Families /\ rule.addr \in Address(rule.family)
           /\ Prefix(rule.family, rule.mask) \in 0 .. Size(rule.family)
           /\ Mask(rule.family, Prefix(rule.family, rule.mask)) = rule.mask
           /\ And(rule.addr, rule.mask) = rule.addr
<1>0. PICK f \in Families : rule \in {Cidr(f, a, n) : a \in Address(f), n \in 0 .. Size(f)}
  BY DEF Cidrs
<1>1. PICK a \in Address(f), n \in 0 .. Size(f) : rule = Cidr(f, a, n)
  BY <1>0
<1>2. /\ rule.family = f /\ rule.mask = Mask(f, n) /\ rule.addr = And(a, Mask(f, n))
  BY <1>1 DEF Cidr, Masked
<1>3. /\ Prefix(f, rule.mask) \in 0 .. Size(f)
      /\ Mask(f, Prefix(f, rule.mask)) = rule.mask
  BY <1>2 DEF Prefix
<1>4. QED
  BY <1>2, <1>3, AndInside

\* The addresses the array of one prefix is made of.
Nets(f, rules, prefix) ==
    {Masked(f, rules[i].addr, prefix) : i \in
        {j \in DOMAIN rules : rules[j].family = f /\ Prefix(f, rules[j].mask) = prefix}}

LEMMA NetsFinite ==
    ASSUME NEW f \in Families, NEW S, NEW rules \in Seq(S),
           \A i \in DOMAIN rules : rules[i] \in Cidrs, NEW prefix
    PROVE  IsFiniteSet(Nets(f, rules, prefix)) /\ Nets(f, rules, prefix) \in SUBSET Address(f)
<1> DEFINE I == {j \in DOMAIN rules : rules[j].family = f /\ Prefix(f, rules[j].mask) = prefix}
           g == [i \in I |-> Masked(f, rules[i].addr, prefix)]
<1>1. IsFiniteSet(I)
  <2>1. IsFiniteSet(1 .. Len(rules)) /\ I \in SUBSET (1 .. Len(rules))
    BY FS_Interval
  <2>2. QED
    BY <2>1, FS_Subset
<1>2. g \in Surjection(I, Nets(f, rules, prefix))
  BY DEF Surjection, Nets
<1>3. IsFiniteSet(Nets(f, rules, prefix))
  BY <1>1, <1>2, FS_Surjection
<1>4. ASSUME NEW i \in I PROVE Masked(f, rules[i].addr, prefix) \in Address(f)
  BY CidrFacts, AndInside DEF Masked
<1>5. QED
  BY <1>3, <1>4 DEF Nets

\* A compiled group matches the addresses its rules match.
LEMMA CompiledMatchesIp ==
    ASSUME NEW g, NEW S, g.ips \in Seq(S), \A i \in DOMAIN g.ips : g.ips[i] \in Cidrs,
           NEW target \in Addresses
    PROVE  MatchIp(Compiled(g), target) <=> AnyIpMatch(g.ips, target)
<1> DEFINE f == target.family
           a == target.addr
           Found(p) == Search(Prefixes(f, g.ips, p), Masked(f, a, p)) = 1
<1>0. f \in Families /\ a \in Address(f)
  BY DEF Addresses
<1>1. MatchIp(Compiled(g), target) <=> \E p \in 0 .. Size(f) : Found(p)
  <2>1. /\ Compiled(g).compiled
        /\ \A p \in 0 .. Size(f) : Compiled(g).elts[f][p] = Prefixes(f, g.ips, p)
    BY <1>0 DEF Compiled
  <2>2. QED
    BY <2>1 DEF MatchIp
<1>2. ASSUME NEW p \in 0 .. Size(f) PROVE Found(p) <=> Masked(f, a, p) \in Nets(f, g.ips, p)
  <2> DEFINE nets == Nets(f, g.ips, p)
  <2>1. Prefixes(f, g.ips, p) = Sorted(nets)
    BY DEF Prefixes, Nets
  <2>2. IsFiniteSet(nets) /\ nets \in SUBSET Address(f)
    BY <1>0, NetsFinite
  <2>3. Masked(f, a, p) \in Address(f)
    BY <1>0, AndInside DEF Masked
  <2> HIDE DEF nets
  <2> DEFINE elts == Sorted(nets)
  <2>4. /\ Ordered(elts, nets) /\ elts \in Seq(Address(f))
        /\ \A x \in nets : \E i \in 1 .. Len(elts) : elts[i] = x
        /\ \A i \in 1 .. Len(elts) : elts[i] \in nets
    BY <1>0, <2>2, SortedOrdered
  <2> HIDE DEF elts
  <2>5. \A i, j \in 1 .. Len(elts) : i < j => Before(elts[i], elts[j])
    <3>1. 1 .. Len(elts) = 1 .. Cardinality(nets)
      BY <2>4 DEF Ordered
    <3>2. QED
      BY <2>4, <3>1 DEF Ordered
  <2>6. Search(elts, Masked(f, a, p)) = 1 <=> \E i \in 1 .. Len(elts) : elts[i] = Masked(f, a, p)
    BY <1>0, <2>3, <2>4, <2>5, SearchFinds
  <2>7. QED
    BY <2>1, <2>4, <2>6 DEF elts, nets
<1> HIDE DEF Found, f, a
<1>3. ASSUME NEW p \in 0 .. Size(f), Masked(f, a, p) \in Nets(f, g.ips, p)
      PROVE  AnyIpMatch(g.ips, target)
  <2>1. PICK i \in DOMAIN g.ips : /\ g.ips[i].family = f /\ Prefix(f, g.ips[i].mask) = p
                                  /\ Masked(f, a, p) = Masked(f, g.ips[i].addr, p)
    BY <1>3 DEF Nets
  <2>2. /\ Mask(f, p) = g.ips[i].mask /\ And(g.ips[i].addr, g.ips[i].mask) = g.ips[i].addr
    BY <2>1, CidrFacts
  <2>3. IpMatch(g.ips[i], target)
    BY <2>1, <2>2 DEF IpMatch, Masked, f, a
  <2>4. QED
    BY <2>3 DEF AnyIpMatch
<1>4. ASSUME NEW i \in DOMAIN g.ips, IpMatch(g.ips[i], target)
      PROVE  \E p \in 0 .. Size(f) : Masked(f, a, p) \in Nets(f, g.ips, p)
  <2> DEFINE p == Prefix(f, g.ips[i].mask)
  <2>1. g.ips[i].family = f /\ And(a, g.ips[i].mask) = g.ips[i].addr
    BY <1>4 DEF IpMatch, f, a
  <2>2. /\ p \in 0 .. Size(f) /\ Mask(f, p) = g.ips[i].mask
        /\ And(g.ips[i].addr, g.ips[i].mask) = g.ips[i].addr
    BY <2>1, CidrFacts
  <2>3. Masked(f, a, p) = Masked(f, g.ips[i].addr, p)
    BY <2>1, <2>2 DEF Masked
  <2>4. QED
    BY <2>1, <2>2, <2>3 DEF Nets
<1>5. QED
  BY <1>1, <1>2, <1>3, <1>4 DEF AnyIpMatch
-----------------------------------------------------------------------------
(* Domain rules. *)

LEMMA FoldFacts ==
    ASSUME NEW s, IsSequence(s)
    PROVE  /\ Len(s) \in Nat /\ DOMAIN s = 1 .. Len(s)
           /\ IsSequence(Fold(s)) /\ Len(Fold(s)) = Len(s) /\ DOMAIN Fold(s) = 1 .. Len(s)
           /\ \A i \in 1 .. Len(s) : Fold(s)[i] = "." <=> s[i] = "."
<1>1. Len(s) \in Nat /\ DOMAIN s = 1 .. Len(s)
  BY DEF IsSequence
<1> DEFINE U == {Fold(s)[i] : i \in 1 .. Len(s)}
<1>2. Fold(s) = [i \in 1 .. Len(s) |-> IF s[i] \in DOMAIN Lower THEN Lower[s[i]] ELSE s[i]]
  BY <1>1 DEF Fold
<1>3. Fold(s) \in [1 .. Len(s) -> U]
  BY <1>2
<1>4. Fold(s) \in Seq(U) /\ Len(Fold(s)) = Len(s) /\ DOMAIN Fold(s) = 1 .. Len(s)
  BY <1>1, <1>3
<1>5. IsSequence(Fold(s))
  BY <1>4 DEF IsSequence
<1>6. \A i \in 1 .. Len(s) : Fold(s)[i] = "." <=> s[i] = "."
  BY <1>2, RulesAssumption
<1>7. QED
  BY <1>1, <1>4, <1>5, <1>6

\* What is left of a name after its first characters, as written and in lower case.
LEMMA RestFacts ==
    ASSUME NEW s, IsSequence(s), NEW i \in 0 .. Len(s)
    PROVE  /\ IsSequence(SubSeq(s, i + 1, Len(s))) /\ Len(SubSeq(s, i + 1, Len(s))) = Len(s) - i
           /\ Fold(SubSeq(s, i + 1, Len(s))) = SubSeq(Fold(s), i + 1, Len(Fold(s)))
<1> DEFINE S == {s[k] : k \in DOMAIN s}
           rest == SubSeq(s, i + 1, Len(s))
           U == {Fold(s)[k] : k \in DOMAIN Fold(s)}
           low == SubSeq(Fold(s), i + 1, Len(s))
<1>1. /\ Len(s) \in Nat /\ DOMAIN s = 1 .. Len(s)
      /\ Len(Fold(s)) = Len(s) /\ DOMAIN Fold(s) = 1 .. Len(s)
  BY FoldFacts
<1>2. /\ rest \in Seq(S) /\ Len(rest) = Len(s) - i
      /\ \A k \in 1 .. Len(s) - i : rest[k] = s[i + k]
  <2>1. /\ i + 1 \in Int /\ Len(s) \in Int /\ \A k \in i + 1 .. Len(s) : s[k] \in S
    BY <1>1
  <2> HIDE DEF S
  <2>2. /\ rest \in Seq(S) /\ Len(rest) = IF i + 1 <= Len(s) THEN Len(s) - (i + 1) + 1 ELSE 0
        /\ \A k \in 1 .. Len(s) - (i + 1) + 1 : rest[k] = s[(i + 1) + k - 1]
    BY <2>1, SubSeqProperties
  <2> HIDE DEF rest
  <2>3. Len(rest) = Len(s) - i
    <3>1. Len(rest) = IF i + 1 <= Len(s) THEN Len(s) - (i + 1) + 1 ELSE 0
      BY <2>2
    <3>2. i \in Int /\ Len(s) \in Int /\ i <= Len(s)
      BY <1>1
    <3>3. CASE i + 1 <= Len(s)
      BY <3>1, <3>2, <3>3
    <3>4. CASE i = Len(s)
      BY <3>1, <3>2, <3>4
    <3>5. QED
      BY <3>2, <3>3, <3>4
  <2>4. ASSUME NEW k \in 1 .. Len(s) - i PROVE rest[k] = s[i + k]
    <3>1. (i + 1) + k - 1 = i + k /\ k \in 1 .. Len(s) - (i + 1) + 1
      BY <1>1
    <3>2. QED
      BY <2>2, <3>1
  <2>5. QED
    BY <2>2, <2>3, <2>4
<1>3. /\ low \in Seq(U) /\ Len(low) = Len(s) - i
      /\ \A k \in 1 .. Len(s) - i : low[k] = Fold(s)[i + k]
  <2>1. /\ i + 1 \in Int /\ Len(s) \in Int /\ \A k \in i + 1 .. Len(s) : Fold(s)[k] \in U
    BY <1>1
  <2> HIDE DEF U
  <2>2. /\ low \in Seq(U) /\ Len(low) = IF i + 1 <= Len(s) THEN Len(s) - (i + 1) + 1 ELSE 0
        /\ \A k \in 1 .. Len(s) - (i + 1) + 1 : low[k] = Fold(s)[(i + 1) + k - 1]
    BY <2>1, SubSeqProperties
  <2> HIDE DEF low
  <2>3. Len(low) = Len(s) - i
    <3>1. Len(low) = IF i + 1 <= Len(s) THEN Len(s) - (i + 1) + 1 ELSE 0
      BY <2>2
    <3>2. i \in Int /\ Len(s) \in Int /\ i <= Len(s)
      BY <1>1
    <3>3. CASE i + 1 <= Len(s)
      BY <3>1, <3>2, <3>3
    <3>4. CASE i = Len(s)
      BY <3>1, <3>2, <3>4
    <3>5. QED
      BY <3>2, <3>3, <3>4
  <2>4. ASSUME NEW k \in 1 .. Len(s) - i PROVE low[k] = Fold(s)[i + k]
    <3>1. (i + 1) + k - 1 = i + k /\ k \in 1 .. Len(s) - (i + 1) + 1
      BY <1>1
    <3>2. QED
      BY <2>2, <3>1
  <2>5. QED
    BY <2>2, <2>3, <2>4
<1>4. IsSequence(rest)
  <2> HIDE DEF rest, S
  <2>1. rest \in Seq({rest[k] : k \in DOMAIN rest})
    BY <1>2
  <2>2. QED
    BY <2>1 DEF IsSequence
<1>5. /\ Len(Fold(rest)) = Len(rest) /\ DOMAIN Fold(rest) = 1 .. Len(rest)
      /\ Fold(rest) = [k \in DOMAIN Fold(rest) |-> Fold(rest)[k]]
  BY <1>4, FoldFacts DEF Fold
<1>6. \A k \in 1 .. Len(s) - i : Fold(rest)[k] = Fold(s)[i + k]
  <2> HIDE DEF rest, low
  <2> SUFFICES ASSUME NEW k \in 1 .. Len(s) - i PROVE Fold(rest)[k] = Fold(s)[i + k]
    OBVIOUS
  <2>1. k \in DOMAIN rest /\ i + k \in DOMAIN s
    BY <1>1, <1>2
  <2>2. QED
    BY <1>2, <2>1 DEF Fold
<1>7. low = [k \in 1 .. Len(s) - i |-> low[k]] /\ DOMAIN low = 1 .. Len(s) - i
  <2> HIDE DEF low
  <2>1. QED
    BY <1>3
<1>8. Fold(rest) = low
  <2> HIDE DEF rest, low
  <2>1. QED
    BY <1>2, <1>3, <1>5, <1>6, <1>7
<1>9. QED
  BY <1>1, <1>2, <1>4, <1>8

\* A rule takes the names below a key when the key stands after one of their dots:
\* a name does not begin with one.
LEMMA BelowDot ==
    ASSUME NEW host, IsSequence(host), host[1] # ".", NEW key, IsSequence(key)
    PROVE  EndsBelow(host, key)
              <=> \E i \in DOMAIN Fold(host) :
                      Fold(host)[i] = "." /\ SubSeq(Fold(host), i + 1, Len(Fold(host))) = Fold(key)
<1>1. /\ Len(host) \in Nat /\ Len(key) \in Nat /\ Len(Fold(key)) = Len(key)
      /\ Len(Fold(host)) = Len(host) /\ DOMAIN Fold(host) = 1 .. Len(host)
      /\ \A i \in 1 .. Len(host) : Fold(host)[i] = "." <=> host[i] = "."
  BY FoldFacts
<1>2. ASSUME EndsBelow(host, key)
      PROVE  \E i \in DOMAIN Fold(host) :
                 Fold(host)[i] = "." /\ SubSeq(Fold(host), i + 1, Len(Fold(host))) = Fold(key)
  <2> DEFINE dot == Len(host) - Len(key)
  <2>1. /\ dot \in 1 .. Len(host) /\ host[dot] = "."
        /\ Fold(SubSeq(host, dot + 1, Len(host))) = Fold(key)
    BY <1>1, <1>2 DEF EndsBelow
  <2> HIDE DEF dot
  <2>2. Fold(SubSeq(host, dot + 1, Len(host))) = SubSeq(Fold(host), dot + 1, Len(Fold(host)))
    BY <2>1, RestFacts
  <2>3. QED
    BY <1>1, <2>1, <2>2
<1>3. ASSUME NEW i \in DOMAIN Fold(host),
             Fold(host)[i] = ".", SubSeq(Fold(host), i + 1, Len(Fold(host))) = Fold(key)
      PROVE  EndsBelow(host, key)
  <2>1. i \in 1 .. Len(host) /\ i \in 0 .. Len(host) /\ host[i] = "." /\ i # 1
    BY <1>1, <1>3
  <2>2. /\ Fold(SubSeq(host, i + 1, Len(host))) = Fold(key)
        /\ IsSequence(SubSeq(host, i + 1, Len(host)))
        /\ Len(SubSeq(host, i + 1, Len(host))) = Len(host) - i
    BY <1>3, <2>1, RestFacts
  <2>3. Len(key) = Len(host) - i
    BY <1>1, <2>2, FoldFacts
  <2>4. i = Len(host) - Len(key)
    BY <1>1, <2>1, <2>3
  <2>5. Len(host) > Len(key) + 1
    <3>1. Len(host) \in Int /\ Len(key) \in Int /\ i \in Int /\ i > 1
      BY <1>1, <2>1
    <3>2. QED
      BY <2>4, <3>1
  <2>6. /\ host[Len(host) - Len(key)] = "."
        /\ Fold(SubSeq(host, (Len(host) - Len(key)) + 1, Len(host))) = Fold(key)
    BY <2>1, <2>2, <2>4, Zenon
  <2>7. QED
    BY <2>5, <2>6 DEF EndsBelow
<1>4. QED
  BY <1>2, <1>3
\* What a rule without its mark is made of.
LEMMA KeyFacts ==
    ASSUME NEW v, IsSequence(v), DomainType(v) # "invalid"
    PROVE  /\ IsSequence(Key(v))
           /\ DomainType(v) \in {"exact", "suffix", "wildcard", "regex"}
           /\ DomainType(v) = "exact" => Key(v) = v
<1> DEFINE S == {v[k] : k \in DOMAIN v}
<1>1. v \in Seq(S) /\ Len(v) \in Nat /\ v # <<>>
  BY DEF IsSequence, DomainType
<1>2. \A s : s \in Seq(S) => IsSequence(s)
  <2> SUFFICES ASSUME NEW s \in Seq(S) PROVE IsSequence(s)
    OBVIOUS
  <2> HIDE DEF S
  <2>1. s \in Seq({s[k] : k \in DOMAIN s})
    OBVIOUS
  <2>2. QED
    BY <2>1 DEF IsSequence
<1>3. DomainType(v) \in {"exact", "suffix", "wildcard", "regex"}
  BY DEF DomainType
<1> HIDE DEF S
<1>4. Tail(v) \in Seq(S)
  BY <1>1
<1>5. SubSeq(v, 3, Len(v)) \in Seq(S)
  <2>1. \A k \in 3 .. Len(v) : v[k] \in S
    BY <1>1
  <2>2. QED
    BY <1>1, <2>1, SubSeqProperties
<1>6. QED
  BY <1>1, <1>2, <1>3, <1>4, <1>5 DEF Key

LEMMA TableFacts ==
    ASSUME NEW V, NEW k
    PROVE  /\ Lookup(Merged(V), k) # "none" <=> \E v \in V : Fold(Key(v)) = k
           /\ Lookup(Merged(V), k) = "root"
                  <=> \E v \in V : Fold(Key(v)) = k /\ DomainType(v) = "suffix"
  BY DEF Lookup, Merged

LEMMA TypeFacts ==
    ASSUME NEW values, NEW types, NEW v
    PROVE  v \in OfType(values, types)
              <=> \E i \in DOMAIN values : values[i] = v /\ DomainType(v) \in types
  BY DEF OfType

\* A compiled group matches the names its rules match.
LEMMA CompiledMatchesDomain ==
    ASSUME NEW g,
           \A i \in DOMAIN g.domains : IsSequence(g.domains[i]) /\ DomainType(g.domains[i]) # "invalid",
           NEW host \in Names
    PROVE  MatchDomain(Compiled(g), host) <=> AnyDomainMatch(g.domains, host)
<1> DEFINE V == g.domains
           name == Fold(host)
           exact == OfType(V, {"exact"})
           suffix == OfType(V, {"suffix", "wildcard"})
           regex == OfType(V, {"regex"})
           Under(i) == SubSeq(name, i + 1, Len(name))
<1>1. IsSequence(host) /\ host[1] # "." /\ host # <<>> /\ Len(host) <= MaxKey
  <2>1. PICK n \in 1 .. MaxKey : host \in [1 .. n -> Chars]
    BY DEF Names
  <2>2. n \in Nat /\ n > 0 /\ n <= MaxKey
    BY RulesAssumption
  <2>3. host \in Seq({host[k] : k \in DOMAIN host}) /\ Len(host) = n
    BY <2>1, <2>2
  <2>4. QED
    BY <2>2, <2>3 DEF IsSequence, Names
<1>2. MatchDomain(Compiled(g), host)
        <=> \/ Lookup(Merged(exact), name) # "none"
            \/ Lookup(Merged(suffix), name) = "root"
            \/ \E i \in DOMAIN name : name[i] = "." /\ Lookup(Merged(suffix), Under(i)) # "none"
            \/ \E v \in regex : DomainMatch(v, host)
  <2>1. /\ Compiled(g).compiled /\ Compiled(g).exact = Merged(exact)
        /\ Compiled(g).suffix = Merged(suffix) /\ Compiled(g).regex = regex
    BY DEF Compiled
  <2> HIDE DEF exact, suffix, regex
  <2>2. QED
    BY <1>1, <2>1 DEF MatchDomain
<1>3. Lookup(Merged(exact), name) # "none"
        <=> \E i \in DOMAIN V : DomainType(V[i]) = "exact" /\ Fold(V[i]) = name
  <2>1. Lookup(Merged(exact), name) # "none" <=> \E v \in exact : Fold(Key(v)) = name
    BY TableFacts
  <2>2. \A v : v \in exact <=> \E i \in DOMAIN V : V[i] = v /\ DomainType(v) \in {"exact"}
    BY TypeFacts
  <2>3. \A i \in DOMAIN V : DomainType(V[i]) = "exact" => Key(V[i]) = V[i]
    BY KeyFacts
  <2> HIDE DEF exact, V, name
  <2>4. QED
    BY <2>1, <2>2, <2>3
<1>4. Lookup(Merged(suffix), name) = "root"
        <=> \E i \in DOMAIN V : DomainType(V[i]) = "suffix" /\ Fold(Key(V[i])) = name
  <2>1. Lookup(Merged(suffix), name) = "root"
          <=> \E v \in suffix : Fold(Key(v)) = name /\ DomainType(v) = "suffix"
    BY TableFacts
  <2>2. \A v : v \in suffix <=> \E i \in DOMAIN V : V[i] = v /\ DomainType(v) \in {"suffix", "wildcard"}
    BY TypeFacts
  <2> HIDE DEF suffix, V, name
  <2>3. QED
    BY <2>1, <2>2
<1>5. (\E i \in DOMAIN name : name[i] = "." /\ Lookup(Merged(suffix), Under(i)) # "none")
        <=> \E i \in DOMAIN V : DomainType(V[i]) \in {"suffix", "wildcard"} /\ EndsBelow(host, Key(V[i]))
  <2>1. \A k : Lookup(Merged(suffix), k) # "none" <=> \E v \in suffix : Fold(Key(v)) = k
    BY TableFacts
  <2>2. \A v : v \in suffix <=> \E i \in DOMAIN V : V[i] = v /\ DomainType(v) \in {"suffix", "wildcard"}
    BY TypeFacts
  <2>3. \A i \in DOMAIN V : EndsBelow(host, Key(V[i]))
                               <=> \E j \in DOMAIN name : name[j] = "." /\ Under(j) = Fold(Key(V[i]))
    BY <1>1, KeyFacts, BelowDot
  <2> HIDE DEF suffix, V, name, Under
  <2>4. QED
    BY <2>1, <2>2, <2>3
<1>6. (\E v \in regex : DomainMatch(v, host))
        <=> \E i \in DOMAIN V : DomainType(V[i]) = "regex" /\ DomainMatch(V[i], host)
  <2>1. \A v : v \in regex <=> \E i \in DOMAIN V : V[i] = v /\ DomainType(v) \in {"regex"}
    BY TypeFacts
  <2> HIDE DEF regex, V
  <2>2. QED
    BY <2>1
<1>7. ASSUME NEW i \in DOMAIN V
      PROVE  /\ DomainType(V[i]) \in {"exact", "suffix", "wildcard", "regex"}
             /\ DomainType(V[i]) = "exact" => (DomainMatch(V[i], host) <=> Fold(V[i]) = name)
             /\ DomainType(V[i]) = "suffix" =>
                    (DomainMatch(V[i], host)
                        <=> Fold(Key(V[i])) = name \/ EndsBelow(host, Key(V[i])))
             /\ DomainType(V[i]) = "wildcard" =>
                    (DomainMatch(V[i], host) <=> EndsBelow(host, Key(V[i])))
  BY <1>1, KeyFacts DEF DomainMatch
<1> HIDE DEF V, name, exact, suffix, regex, Under
<1>8. AnyDomainMatch(V, host)
        <=> \/ \E i \in DOMAIN V : DomainType(V[i]) = "exact" /\ Fold(V[i]) = name
            \/ \E i \in DOMAIN V : DomainType(V[i]) = "suffix" /\ Fold(Key(V[i])) = name
            \/ \E i \in DOMAIN V :
                   DomainType(V[i]) \in {"suffix", "wildcard"} /\ EndsBelow(host, Key(V[i]))
            \/ \E i \in DOMAIN V : DomainType(V[i]) = "regex" /\ DomainMatch(V[i], host)
  BY <1>7 DEF AnyDomainMatch
<1>9. QED
  BY <1>2, <1>3, <1>4, <1>5, <1>6, <1>8 DEF V

\* For any target, then; a group without rules of its kind matches neither way.
LEMMA CompiledMatches ==
    ASSUME NEW g, IsSequence(g.domains), NEW S, g.ips \in Seq(S),
           \A i \in DOMAIN g.domains : IsSequence(g.domains[i]) /\ DomainType(g.domains[i]) # "invalid",
           \A i \in DOMAIN g.ips : g.ips[i] \in Cidrs
    PROVE  /\ \A t \in Domains :
                  MatchTarget(Compiled(g), t) <=> AnyDomainMatch(g.domains, t.domain)
           /\ \A a \in Addresses : MatchTarget(Compiled(g), a) <=> AnyIpMatch(g.ips, a)
<1>0. Compiled(g).domains = g.domains /\ Compiled(g).ips = g.ips
  BY DEF Compiled
<1>1. ASSUME NEW t \in Domains
      PROVE  MatchTarget(Compiled(g), t) <=> AnyDomainMatch(g.domains, t.domain)
  <2>1. PICK h \in Names : t = [domain |-> h]
    BY DEF Domains
  <2>2. "domain" \in DOMAIN t /\ t.domain = h
    BY <2>1
  <2>3. MatchDomain(Compiled(g), h) <=> AnyDomainMatch(g.domains, h)
    BY CompiledMatchesDomain
  <2>4. g.domains = <<>> => ~AnyDomainMatch(g.domains, h)
    BY DEF AnyDomainMatch
  <2>5. QED
    BY <1>0, <2>2, <2>3, <2>4 DEF MatchTarget
<1>2. ASSUME NEW a \in Addresses
      PROVE  MatchTarget(Compiled(g), a) <=> AnyIpMatch(g.ips, a)
  <2>1. "domain" \notin DOMAIN a
    BY DEF Addresses
  <2>2. MatchIp(Compiled(g), a) <=> AnyIpMatch(g.ips, a)
    BY CompiledMatchesIp
  <2>3. g.ips = <<>> => ~AnyIpMatch(g.ips, a)
    BY DEF AnyIpMatch
  <2>4. QED
    BY <1>0, <2>1, <2>2, <2>3 DEF MatchTarget
<1>3. QED
  BY <1>1, <1>2
-----------------------------------------------------------------------------
(* The walk over the outbounds of two configurations that agree up to the    *)
(* first outbound that takes everything.                                     *)

\* Before the first number of P, which both have, S and T agree.
BeginAlike(S, T, P) == \A i \in Nat : (\A j \in P : i < j) => (i \in S <=> i \in T)

Least(m, S) == m \in S /\ \A k \in S : m <= k

LEMMA SameFirst ==
    ASSUME NEW S \in SUBSET Nat, NEW T \in SUBSET Nat, NEW P \in SUBSET (S \cap T),
           BeginAlike(S, T, P), NEW m, Least(m, S)
    PROVE  Least(m, T) /\ (m \in P \/ \A j \in P : m < j)
<1>1. m \in P \/ \A j \in P : m < j
  BY DEF Least
<1>2. m \in T
  BY <1>1 DEF Least, BeginAlike
<1>3. ASSUME NEW k \in T, k < m PROVE FALSE
  <2>1. \A j \in P : k < j
    BY <1>3 DEF Least
  <2>2. k \in S
    BY <1>3, <2>1 DEF BeginAlike
  <2>3. QED
    BY <1>3, <2>2 DEF Least
<1>4. QED
  BY <1>1, <1>2, <1>3 DEF Least

LEMMA SameEmpty ==
    ASSUME NEW S \in SUBSET Nat, NEW T \in SUBSET Nat, NEW P \in SUBSET (S \cap T),
           BeginAlike(S, T, P)
    PROVE  S = {} <=> T = {}
<1>1. S # {} => T # {}
  <2> HAVE S # {}
  <2>1. PICK m : Least(m, S)
    BY LeastNumber DEF Least
  <2>2. QED
    BY <2>1, SameFirst DEF Least
<1>2. T # {} => S # {}
  <2> HAVE T # {}
  <2>1. PICK m : Least(m, T)
    BY LeastNumber DEF Least
  <2>2. m \in Nat /\ m \in T
    BY <2>1 DEF Least
  <2>3. CASE \A j \in P : m < j
    BY <2>2, <2>3 DEF BeginAlike
  <2>4. CASE ~\A j \in P : m < j
    BY <2>4
  <2>5. QED
    BY <2>3, <2>4
<1>3. QED
  BY <1>1, <1>2

LEMMA LeastChosen ==
    ASSUME NEW S \in SUBSET Nat, NEW m \in S, \A k \in S : m <= k
    PROVE  (CHOOSE i \in S : \A j \in S : i <= j) = m
<1> DEFINE c == CHOOSE i \in S : \A j \in S : i <= j
<1>1. c \in S /\ \A j \in S : c <= j
  OBVIOUS
<1> HIDE DEF c
<1>2. c = m
  BY <1>1
<1>3. QED
  BY <1>2 DEF c

\* Outbounds that agree as far as the walk can get.
Alike(A, B, n) ==
    /\ Len(A) = n /\ Len(B) = n
    /\ \A i \in 1 .. n : A[i].all <=> B[i].all
    /\ \A i \in 1 .. n : (\A j \in 1 .. i : ~A[j].all) =>
                            A[i].domains = B[i].domains /\ A[i].ips = B[i].ips

LEMMA WalkSame ==
    ASSUME NEW n \in Nat, NEW A, NEW B, Alike(A, B, n), NEW lazy, NEW t, NEW addrs
    PROVE  Selected(A, lazy, t, addrs) = Selected(B, lazy, t, addrs)
<1> DEFINE S == {i \in 1 .. n : Walk(A, lazy)!StopsAt(i, t, addrs)}
           T == {i \in 1 .. n : Walk(B, lazy)!StopsAt(i, t, addrs)}
           P == {i \in 1 .. n : A[i].all}
           Agree(i) == \/ A[i].all /\ B[i].all
                       \/ /\ ~A[i].all /\ ~B[i].all
                          /\ A[i].domains = B[i].domains /\ A[i].ips = B[i].ips
<1>1. S \in SUBSET Nat /\ T \in SUBSET Nat
  OBVIOUS
<1>2. P \in SUBSET (S \cap T)
  BY DEF Walk!StopsAt, Walk!MatchesDomain, Alike
<1>3. \A i \in 1 .. n : i \in P \/ (\A j \in P : i < j) => Agree(i)
  BY DEF Alike
<1>4. ASSUME NEW i \in 1 .. n, Agree(i)
      PROVE  /\ Walk(A, lazy)!StopsAt(i, t, addrs) <=> Walk(B, lazy)!StopsAt(i, t, addrs)
             /\ Walk(A, lazy)!MatchesDomain(i, t) <=> Walk(B, lazy)!MatchesDomain(i, t)
  BY <1>4 DEF Walk!StopsAt, Walk!MatchesDomain, Walk!MatchesLiteral, Walk!MatchesResolvedIp,
              Walk!AsksForAddress
<1>5. BeginAlike(S, T, P)
  BY <1>3, <1>4 DEF BeginAlike
<1>6. Walk(A, lazy)!OutboundIds = 1 .. n /\ Walk(B, lazy)!OutboundIds = 1 .. n
  BY DEF Walk!OutboundIds, Alike
<1>7. S = {i \in Walk(A, lazy)!OutboundIds : Walk(A, lazy)!StopsAt(i, t, addrs)}
      /\ T = {i \in Walk(B, lazy)!OutboundIds : Walk(B, lazy)!StopsAt(i, t, addrs)}
  BY <1>6
<1> HIDE DEF S, T, P, Agree
<1>8. S = {} <=> T = {}
  BY <1>1, <1>2, <1>5, SameEmpty
<1>9. CASE S = {}
  BY <1>7, <1>8, <1>9 DEF Selected, Walk!SelectOutboundNow, Walk!NoOutbound
<1>10. CASE S # {}
  <2>1. PICK m : Least(m, S)
    BY <1>1, <1>10, LeastNumber DEF Least
  <2>2. Least(m, T) /\ (m \in P \/ \A j \in P : m < j)
    BY <1>1, <1>2, <1>5, <2>1, SameFirst
  <2>3. /\ (CHOOSE i \in S : \A j \in S : i <= j) = m
        /\ (CHOOSE i \in T : \A j \in T : i <= j) = m
    BY <1>1, <2>1, <2>2, LeastChosen DEF Least
  <2>4. m \in 1 .. n /\ Agree(m)
    BY <1>3, <2>1, <2>2 DEF S, Least
  <2>5. Walk(A, lazy)!MatchesDomain(m, t) <=> Walk(B, lazy)!MatchesDomain(m, t)
    BY <1>4, <2>4
  <2> DEFINE Answer(o, needs) == [outbound |-> o, ttl |-> FALSE, needs |-> needs]
             Result(taken) ==
                 CASE taken -> Answer(m, FALSE)
                   [] ~taken /\ t \in Domains ->
                         IF addrs = {} THEN Answer(0, TRUE)
                                       ELSE [outbound |-> m, ttl |-> TRUE, needs |-> FALSE]
                   [] OTHER -> Answer(m, FALSE)
  <2>6. Selected(A, lazy, t, addrs) = Result(Walk(A, lazy)!MatchesDomain(m, t))
    BY <1>7, <1>10, <2>3 DEF Selected, Walk!SelectOutboundNow, Walk!NoOutbound
  <2>7. Selected(B, lazy, t, addrs) = Result(Walk(B, lazy)!MatchesDomain(m, t))
    BY <1>7, <1>8, <1>10, <2>3 DEF Selected, Walk!SelectOutboundNow, Walk!NoOutbound
  <2>8. QED
    BY <2>5, <2>6, <2>7
<1>11. QED
  BY <1>9, <1>10
-----------------------------------------------------------------------------
(* Groups as they are written. *)

LEMMA CompiledSame ==
    ASSUME NEW g
    PROVE  Compiled(Uncompiled(g)) = Compiled(g)
  BY DEF Compiled, Uncompiled

LEMMA SequenceOf ==
    ASSUME NEW n \in Nat, NEW s, s = [i \in 1 .. n |-> s[i]]
    PROVE  Len(s) = n /\ DOMAIN s = 1 .. n
<1> DEFINE S == {s[i] : i \in 1 .. n}
<1>1. DOMAIN s = 1 .. n
  OBVIOUS
<1>2. s \in [1 .. n -> S]
  OBVIOUS
<1>3. QED
  BY <1>1, <1>2

LEMMA Sequences ==
    ASSUME NEW s, IsSequence(s)
    PROVE  Len(s) \in Nat /\ DOMAIN s = 1 .. Len(s)
  BY DEF IsSequence

\* The blocks and groups of a configuration are lists.
LEMMA ConfLists ==
    ASSUME conf \in Confs
    PROVE  /\ AreGroups(conf.groups)
           /\ Len(conf.groups) \in Nat /\ DOMAIN conf.groups = 1 .. Len(conf.groups)
           /\ Len(conf.servers) \in Nat /\ DOMAIN conf.servers = 1 .. Len(conf.servers)
           /\ \A s \in DOMAIN conf.servers :
                /\ AreGroups(conf.servers[s].rules)
                /\ Len(conf.servers[s].outbounds) \in Nat
                /\ DOMAIN conf.servers[s].outbounds = 1 .. Len(conf.servers[s].outbounds)
                /\ IsFiniteSet(conf.servers[s].listens)
<1>1. /\ AreGroups(conf.groups) /\ IsSequence(conf.servers) /\ IsSequence(conf.groups)
      /\ \A s \in DOMAIN conf.servers :
           /\ AreGroups(conf.servers[s].rules) /\ IsSequence(conf.servers[s].outbounds)
           /\ IsFiniteSet(conf.servers[s].listens)
  BY ConfigAssumption DEF AreGroups
<1>2. QED
  BY <1>1, Sequences

\* The first group of a tag, if there is one; an accepted list has no second.
LEMMA RulesFound ==
    ASSUME NEW gs, AreGroups(gs), NEW tag
    PROVE  /\ RulesFind(gs, tag) = None <=> \A i \in DOMAIN gs : gs[i].tag # tag
           /\ RulesFind(gs, tag) # None =>
                /\ RulesFind(gs, tag) \in DOMAIN gs /\ RulesFind(gs, tag) \in Nat
                /\ gs[RulesFind(gs, tag)].tag = tag
<1> DEFINE at == {i \in DOMAIN gs : gs[i].tag = tag}
<1>1. at \in SUBSET Nat
  BY Sequences DEF AreGroups
<1>2. CASE at = {}
  BY <1>2 DEF RulesFind
<1>3. CASE at # {}
  <2>1. PICK m \in at : \A j \in at : m <= j
    BY <1>1, <1>3, LeastNumber
  <2>2. RulesFind(gs, tag) = m
    <3> HIDE DEF at
    <3>1. (CHOOSE i \in at : \A j \in at : i <= j) = m
      BY <1>1, <2>1, LeastChosen
    <3>2. QED
      BY <1>3, <3>1 DEF RulesFind, at
  <2>3. m # None
    BY <1>1, <2>1, ConfigAssumption
  <2>4. QED
    BY <1>1, <2>1, <2>2, <2>3
<1>4. QED
  BY <1>2, <1>3

\* What the compiled group at a position matches, read off the groups of its tag.
LEMMA FoundMatches ==
    ASSUME NEW gs, AreGroups(gs), GroupsAccepted(gs), NEW at \in DOMAIN gs
    PROVE  /\ {gs[i] : i \in {j \in DOMAIN gs : gs[j].tag = gs[at].tag}} = {gs[at]}
           /\ \A t \in Domains : MatchTarget(Compiled(gs[at]), t)
                                    <=> AnyDomainMatch(gs[at].domains, t.domain)
           /\ \A a \in Addresses : MatchTarget(Compiled(gs[at]), a) <=> AnyIpMatch(gs[at].ips, a)
<1>1. \A j \in DOMAIN gs : gs[j].tag = gs[at].tag => j = at
  BY DEF GroupsAccepted
<1>2. /\ IsSequence(gs[at].domains) /\ gs[at].ips \in Seq(Cidrs \cup {None})
      /\ \A j \in DOMAIN gs[at].domains :
            IsSequence(gs[at].domains[j]) /\ DomainType(gs[at].domains[j]) # "invalid"
  BY DEF AreGroups, GroupsAccepted
<1>3. \A j \in DOMAIN gs[at].ips : gs[at].ips[j] \in Cidrs
  <2>1. \A j \in DOMAIN gs[at].ips : gs[at].ips[j] # None
    BY DEF GroupsAccepted
  <2>2. QED
    BY <1>2, <2>1
<1>4. QED
  BY <1>1, <1>2, <1>3, CompiledMatches
-----------------------------------------------------------------------------
(* The invariant: what has been read is acceptable; what has had its turn is *)
(* compiled, bound or served as the configuration says, the rest untouched.  *)

Accepted ==
    /\ GroupsAccepted(conf.groups)
    /\ \A s \in DOMAIN conf.servers : BlockAccepted(conf.servers[s])

PhaseOK ==
    /\ conf \in Confs
    /\ phase \in {"read", "groups", "servers", "proxies", "ready", "refused"}
    /\ next \in Nat \ {0} /\ next <= 1 + Len(conf.groups) + Len(conf.servers)
    /\ phase = "read" => next = 1
    /\ phase = "groups" => next <= 1 + Len(conf.groups)
    /\ phase \in {"servers", "proxies", "ready"} => next <= 1 + Len(conf.servers)
    /\ phase = "ready" => next = 1 + Len(conf.servers)
    /\ phase \notin {"read", "refused"} => Accepted

GroupTurn(i) == phase \in {"servers", "proxies", "ready"} \/ (phase = "groups" /\ i < next)

GroupsOK ==
    /\ groups = [i \in DOMAIN conf.groups |-> groups[i]]
    /\ phase # "refused" =>
          \A i \in DOMAIN conf.groups :
              groups[i] = IF GroupTurn(i) THEN Compiled(conf.groups[i])
                                          ELSE Uncompiled(conf.groups[i])

ServerTurn(s) == phase \in {"proxies", "ready"} \/ (phase = "servers" /\ s < next)

HasFields(x) ==
    x = [rules |-> x.rules, matchers |-> x.matchers, routed |-> x.routed,
         cached |-> x.cached, resolver |-> x.resolver, effective |-> x.effective]

CompiledRules(s) ==
    [i \in DOMAIN conf.servers[s].rules |-> Compiled(conf.servers[s].rules[i])]

Matchers(s) ==
    [i \in DOMAIN conf.servers[s].outbounds |->
        IF i \in Reached(s) THEN Bound(s, conf.servers[s].outbounds[i].tag) ELSE None]

ServerTyped(s) ==
    /\ HasFields(servers[s])
    /\ servers[s].effective \in DOMAIN conf.servers \cup {None}
    /\ servers[s].routed => conf.servers[s].on

ServerBuilt(s) ==
    /\ servers[s].rules = CompiledRules(s)
    /\ conf.servers[s].on => servers[s].matchers = Matchers(s)

ProxyTurn(s) == phase \in {"proxies", "ready"} /\ s < next /\ IsProxy(s)

ProxyServed(s) ==
    /\ CheckListens(s)
    /\ conf.servers[s].on \/ conf.servers[s].ref # None \/ Cardinality(Trojans) = 1
    /\ servers[s].effective = Served(s)

ServersOK ==
    /\ servers = [s \in DOMAIN conf.servers |-> servers[s]]
    /\ \A s \in DOMAIN conf.servers :
        /\ ServerTyped(s)
        /\ phase # "refused" => IF ServerTurn(s) THEN ServerBuilt(s) ELSE servers[s] = Fresh(s)
        /\ ProxyTurn(s) => ProxyServed(s)

ConfigInv == PhaseOK /\ GroupsOK /\ ServersOK

-----------------------------------------------------------------------------
(* What is said of the configuration alone does not change with it.         *)

LEMMA ConfOnly ==
    ASSUME conf' = conf
    PROVE  /\ Accepted' = Accepted /\ Trojans' = Trojans
           /\ \A s : /\ Fresh(s)' = Fresh(s) /\ CompiledRules(s)' = CompiledRules(s)
                     /\ Matchers(s)' = Matchers(s) /\ IsProxy(s)' = IsProxy(s)
                     /\ CheckListens(s)' = CheckListens(s) /\ Served(s)' = Served(s)
<1>1. Accepted' = Accepted /\ Trojans' = Trojans
  BY DEF Accepted, Trojans
<1>2. \A s : /\ Fresh(s)' = Fresh(s) /\ CompiledRules(s)' = CompiledRules(s)
             /\ IsProxy(s)' = IsProxy(s) /\ CheckListens(s)' = CheckListens(s)
             /\ Reached(s)' = Reached(s)
  BY DEF Fresh, CompiledRules, IsProxy, CheckListens, Reached
<1>3. \A s, tag : Bound(s, tag)' = Bound(s, tag)
  BY DEF Bound
<1>4. \A s : Matchers(s)' = Matchers(s)
  BY <1>2, <1>3 DEF Matchers
<1>5. \A ref : FindTrojanServer(ref)' = FindTrojanServer(ref)
  BY DEF FindTrojanServer, Matches, Named, Trojans
<1>6. \A s : Served(s)' = Served(s)
  BY <1>1, <1>5 DEF Served
<1>7. QED
  BY <1>1, <1>2, <1>4, <1>6

\* The lists of the state are as long as those of the configuration.
Lists(m, n) ==
    /\ Len(groups) = m /\ DOMAIN groups = 1 .. m
    /\ Len(conf.groups) = m /\ DOMAIN conf.groups = 1 .. m
    /\ Len(servers) = n /\ DOMAIN servers = 1 .. n
    /\ Len(conf.servers) = n /\ DOMAIN conf.servers = 1 .. n

LEMMA Lengths ==
    ASSUME ConfigInv
    PROVE  \E m, n \in Nat : Lists(m, n)
<1> DEFINE m == Len(conf.groups)
           n == Len(conf.servers)
<1>1. m \in Nat /\ DOMAIN conf.groups = 1 .. m /\ n \in Nat /\ DOMAIN conf.servers = 1 .. n
  BY ConfLists DEF ConfigInv, PhaseOK
<1>2. m = Len(conf.groups) /\ n = Len(conf.servers)
  OBVIOUS
<1> HIDE DEF m, n
<1>3. groups = [i \in 1 .. m |-> groups[i]] /\ servers = [s \in 1 .. n |-> servers[s]]
  BY <1>1 DEF ConfigInv, GroupsOK, ServersOK
<1>4. Len(groups) = m /\ DOMAIN groups = 1 .. m /\ Len(servers) = n /\ DOMAIN servers = 1 .. n
  BY <1>1, <1>3, SequenceOf
<1>5. QED
  BY <1>1, <1>2, <1>4 DEF Lists

\* A local proxy works with a block there is, or with none.
LEMMA ServedInside ==
    ASSUME conf \in Confs, NEW s \in DOMAIN conf.servers,
           conf.servers[s].on \/ conf.servers[s].ref # None \/ Cardinality(Trojans) = 1
    PROVE  /\ Served(s) \in DOMAIN conf.servers \cup {None}
           /\ ~conf.servers[s].on /\ conf.servers[s].ref = None =>
                  Trojans = {Served(s)}
<1>1. Trojans \in SUBSET (DOMAIN conf.servers) /\ IsFiniteSet(Trojans)
  <2> DEFINE n == Len(conf.servers)
  <2>1. n \in Nat /\ DOMAIN conf.servers = 1 .. n
    BY ConfLists
  <2>2. Trojans \in SUBSET (DOMAIN conf.servers)
    BY DEF Trojans
  <2> HIDE DEF n
  <2>3. IsFiniteSet(1 .. n)
    BY <2>1, FS_Interval
  <2>4. QED
    BY <2>1, <2>2, <2>3, FS_Subset
<1>2. CASE conf.servers[s].on
  BY <1>2 DEF Served
<1>3. CASE ~conf.servers[s].on /\ conf.servers[s].ref # None
  <2> DEFINE ref == conf.servers[s].ref
             found == CHOOSE x \in Matches(ref) : TRUE
  <2>1. Served(s) = IF Cardinality(Matches(ref)) = 1 THEN found[1] ELSE None
    BY <1>3 DEF Served, FindTrojanServer
  <2>2. Matches(ref) # {} => found \in Matches(ref)
    OBVIOUS
  <2>3. \A x \in Matches(ref) : x[1] \in Trojans
    BY DEF Matches
  <2>4. Cardinality(Matches(ref)) = 1 => Matches(ref) # {}
    BY FS_EmptySet
  <2> HIDE DEF found
  <2>5. QED
    BY <1>1, <1>3, <2>1, <2>2, <2>3, <2>4
<1>4. CASE ~conf.servers[s].on /\ conf.servers[s].ref = None
  <2>1. PICK t : Trojans = {t}
    BY <1>1, <1>4, FS_Singleton
  <2>2. Served(s) = t
    BY <1>4, <2>1 DEF Served
  <2>3. QED
    BY <1>1, <2>1, <2>2
<1>5. QED
  BY <1>2, <1>3, <1>4

LEMMA InitConfig ==
    ASSUME Init
    PROVE  ConfigInv
<1>1. /\ Len(conf.groups) \in Nat /\ Len(conf.servers) \in Nat
  BY ConfLists DEF Init
<1>2. PhaseOK
  <2>1. conf \in Confs /\ phase = "read" /\ next = 1
    BY DEF Init
  <2> DEFINE m == Len(conf.groups)
             n == Len(conf.servers)
  <2>2. m \in Nat /\ n \in Nat
    BY <1>1
  <2> HIDE DEF m, n
  <2>3. 1 <= 1 + m + n
    BY <2>2
  <2>4. next \in Nat \ {0} /\ next <= 1 + m + n
    BY <2>1, <2>3
  <2>5. next \in Nat \ {0} /\ next <= 1 + Len(conf.groups) + Len(conf.servers)
    BY <2>4, Zenon DEF m, n
  <2>6. QED
    BY <2>1, <2>5 DEF PhaseOK
<1>3. GroupsOK
  BY DEF Init, GroupsOK, GroupTurn
<1>4. ASSUME NEW s \in DOMAIN conf.servers
      PROVE  ServerTyped(s) /\ servers[s] = Fresh(s) /\ ~ServerTurn(s) /\ ~ProxyTurn(s)
  BY DEF Init, ServerTyped, HasFields, Fresh, ServerTurn, ProxyTurn
<1>5. ServersOK
  BY <1>4 DEF Init, ServersOK
<1>6. QED
  BY <1>2, <1>3, <1>5 DEF ConfigInv

\* Refusing leaves everything as it is.
LEMMA RefuseStep ==
    ASSUME ConfigInv, Refuse, conf' = conf
    PROVE  ConfigInv'
<1>1. phase' = "refused" /\ next' = next /\ groups' = groups /\ servers' = servers
  BY DEF Refuse
<1>2. PhaseOK'
  BY <1>1 DEF ConfigInv, PhaseOK
<1>3. GroupsOK'
  BY <1>1 DEF ConfigInv, GroupsOK
<1>4. ServersOK'
  <2>1. \A s \in DOMAIN conf.servers : ServerTyped(s)' /\ ~ProxyTurn(s)'
    BY <1>1 DEF ConfigInv, ServersOK, ServerTyped, HasFields, ProxyTurn
  <2>2. QED
    BY <1>1, <2>1 DEF ConfigInv, ServersOK
<1>5. QED
  BY <1>2, <1>3, <1>4 DEF ConfigInv

LEMMA ReadStep ==
    ASSUME ConfigInv, Read
    PROVE  ConfigInv'
<1>0. PICK m, n \in Nat : Lists(m, n)
  BY Lengths
<1>1. CASE Refuse
  BY <1>1, RefuseStep DEF Read
<1>2. CASE Accepted /\ Enter("groups") /\ UNCHANGED <<groups, servers>>
  <2>1. /\ phase = "read" /\ phase' = "groups" /\ next' = 1 /\ conf' = conf
        /\ groups' = groups /\ servers' = servers
    BY <1>2 DEF Read, Enter
  <2>2. PhaseOK'
    BY <1>2, <2>1, ConfOnly, <1>0 DEF ConfigInv, PhaseOK, Lists
  <2>3. GroupsOK'
    <3>1. ASSUME NEW i \in DOMAIN conf.groups PROVE ~GroupTurn(i) /\ ~GroupTurn(i)'
      BY <2>1, <1>0 DEF GroupTurn, Lists
    <3>2. QED
      BY <2>1, <3>1 DEF ConfigInv, GroupsOK
  <2>4. ServersOK'
    <3>1. ASSUME NEW s \in DOMAIN conf.servers
          PROVE  /\ ServerTyped(s)' /\ ~ServerTurn(s) /\ ~ServerTurn(s)' /\ ~ProxyTurn(s)'
                 /\ servers[s]' = Fresh(s)'
      BY <2>1, ConfOnly DEF ConfigInv, ServersOK, ServerTyped, HasFields, ServerTurn, ProxyTurn
    <3>2. QED
      BY <2>1, <3>1 DEF ConfigInv, ServersOK
  <2>5. QED
    BY <2>2, <2>3, <2>4 DEF ConfigInv
<1>3. QED
  BY <1>1, <1>2 DEF Read, Accepted

LEMMA CompileGroupStep ==
    ASSUME ConfigInv, CompileGroup
    PROVE  ConfigInv'
<1>0. PICK m, n \in Nat : Lists(m, n)
  BY Lengths
<1>1. CASE Refuse
  BY <1>1, RefuseStep DEF CompileGroup
<1>2. CASE ~Refuse
  <2>1. /\ phase = "groups" /\ phase' = "groups" /\ next' = next + 1 /\ conf' = conf
        /\ next <= Len(groups) /\ servers' = servers
        /\ groups' = [groups EXCEPT ![next] = Compiled(groups[next])]
    BY <1>2 DEF CompileGroup
  <2>2. next \in DOMAIN conf.groups /\ next \in Nat
    BY <2>1, <1>0 DEF ConfigInv, PhaseOK, Lists
  <2>3. PhaseOK'
    BY <2>1, <2>2, ConfOnly, <1>0 DEF ConfigInv, PhaseOK, Lists
  <2>4. GroupsOK'
    <3>1. groups' = [i \in DOMAIN conf.groups |->
                        IF i = next THEN Compiled(groups[next]) ELSE groups[i]]
      BY <2>1, <1>0 DEF ConfigInv, GroupsOK, Lists
    <3>2. ASSUME NEW i \in DOMAIN conf.groups
          PROVE  groups'[i] = IF GroupTurn(i)' THEN Compiled(conf.groups[i])
                                               ELSE Uncompiled(conf.groups[i])
      <4>1. groups[i] = IF GroupTurn(i) THEN Compiled(conf.groups[i]) ELSE Uncompiled(conf.groups[i])
        BY <2>1 DEF ConfigInv, GroupsOK
      <4>2. i \in Nat /\ (GroupTurn(i) <=> i < next) /\ (GroupTurn(i)' <=> i < next + 1)
        BY <2>1, <1>0 DEF GroupTurn, Lists
      <4>3. CASE i = next
        BY <2>2, <3>1, <4>1, <4>2, <4>3, CompiledSame
      <4>4. CASE i # next
        BY <2>2, <3>1, <4>1, <4>2, <4>4
      <4>5. QED
        BY <4>3, <4>4
    <3>3. groups' = [i \in DOMAIN conf.groups |-> groups'[i]]
      BY <3>1
    <3>4. QED
      BY <2>1, <3>2, <3>3 DEF GroupsOK
  <2>5. ServersOK'
    <3>1. ASSUME NEW s \in DOMAIN conf.servers
          PROVE  /\ ServerTyped(s)' /\ ~ServerTurn(s) /\ ~ServerTurn(s)' /\ ~ProxyTurn(s)'
                 /\ servers[s]' = Fresh(s)'
      BY <2>1, ConfOnly DEF ConfigInv, ServersOK, ServerTyped, HasFields, ServerTurn, ProxyTurn
    <3>2. QED
      BY <2>1, <3>1 DEF ConfigInv, ServersOK
  <2>6. QED
    BY <2>3, <2>4, <2>5 DEF ConfigInv
<1>3. QED
  BY <1>1, <1>2

LEMMA GroupsCompiledStep ==
    ASSUME ConfigInv, GroupsCompiled
    PROVE  ConfigInv'
<1>0. PICK m, n \in Nat : Lists(m, n)
  BY Lengths
<1>1. /\ phase = "groups" /\ phase' = "servers" /\ next' = 1 /\ next > Len(groups)
      /\ conf' = conf /\ groups' = groups /\ servers' = servers
  BY DEF GroupsCompiled, Enter
<1>2. PhaseOK'
  BY <1>1, ConfOnly, <1>0 DEF ConfigInv, PhaseOK, Lists
<1>3. GroupsOK'
  <2>1. ASSUME NEW i \in DOMAIN conf.groups PROVE GroupTurn(i) /\ GroupTurn(i)'
    BY <1>1, <1>0 DEF GroupTurn, ConfigInv, PhaseOK, Lists
  <2>2. QED
    BY <1>1, <2>1 DEF ConfigInv, GroupsOK
<1>4. ServersOK'
  <2>1. ASSUME NEW s \in DOMAIN conf.servers
        PROVE  /\ ServerTyped(s)' /\ ~ServerTurn(s) /\ ~ServerTurn(s)' /\ ~ProxyTurn(s)'
               /\ servers[s]' = Fresh(s)'
    BY <1>1, ConfOnly, <1>0
       DEF ConfigInv, ServersOK, ServerTyped, HasFields, ServerTurn, ProxyTurn, Lists
  <2>2. QED
    BY <1>1, <2>1 DEF ConfigInv, ServersOK
<1>5. QED
  BY <1>2, <1>3, <1>4 DEF ConfigInv

\* What a step that leaves the groups alone, and is not their turn, needs.
LEMMA GroupsKept ==
    ASSUME ConfigInv, conf' = conf, groups' = groups,
           phase \in {"servers", "proxies", "ready"}, phase' \in {"servers", "proxies", "ready"}
    PROVE  GroupsOK'
<1>1. \A i : GroupTurn(i) /\ GroupTurn(i)'
  BY DEF GroupTurn
<1>2. QED
  BY <1>1 DEF ConfigInv, GroupsOK

\* A block whose turn it is gets its groups compiled and its outbounds bound.
LEMMA BuiltServer ==
    ASSUME ConfigInv, NEW s \in DOMAIN conf.servers, NEW r, servers[s] = Fresh(s)
    PROVE  /\ CompileRules(s) =
                  [rules |-> CompiledRules(s), matchers |-> Fresh(s).matchers,
                   routed |-> Fresh(s).routed, cached |-> Fresh(s).cached,
                   resolver |-> Fresh(s).resolver, effective |-> Fresh(s).effective]
           /\ BindOutboundMatchers(s, r) =
                  [rules |-> CompiledRules(s), matchers |-> Matchers(s),
                   routed |-> Reached(s) # {},
                   cached |-> Reached(s) # {} /\ conf.servers[s].cache,
                   resolver |-> r, effective |-> Fresh(s).effective]
           /\ ~Fresh(s).routed
<1> DEFINE block == conf.servers[s]
           fresh == Fresh(s)
<1>1. /\ fresh.rules = [i \in DOMAIN block.rules |-> Uncompiled(block.rules[i])]
      /\ fresh.matchers = [i \in DOMAIN block.outbounds |-> None]
      /\ ~fresh.routed
      /\ fresh = [rules |-> fresh.rules, matchers |-> fresh.matchers, routed |-> fresh.routed,
                  cached |-> fresh.cached, resolver |-> fresh.resolver,
                  effective |-> fresh.effective]
  BY DEF Fresh
<1> HIDE DEF fresh
<1>2. [i \in DOMAIN fresh.rules |-> Compiled(fresh.rules[i])] = CompiledRules(s)
  <2>1. \A i \in DOMAIN block.rules : Compiled(Uncompiled(block.rules[i])) = Compiled(block.rules[i])
    BY CompiledSame
  <2>2. QED
    BY <1>1, <2>1 DEF CompiledRules
<1>3. CompileRules(s) =
          [rules |-> CompiledRules(s), matchers |-> fresh.matchers, routed |-> fresh.routed,
           cached |-> fresh.cached, resolver |-> fresh.resolver, effective |-> fresh.effective]
  <2>1. CompileRules(s) =
            [fresh EXCEPT !.rules = [i \in DOMAIN fresh.rules |-> Compiled(fresh.rules[i])]]
    BY DEF CompileRules, fresh
  <2>2. QED
    BY <1>1, <1>2, <2>1
<1>4. [i \in DOMAIN fresh.matchers |-> IF i \in Reached(s) THEN Bound(s, block.outbounds[i].tag)
                                                            ELSE None] = Matchers(s)
  BY <1>1 DEF Matchers
<1> DEFINE x == CompileRules(s)
<1>5. BindOutboundMatchers(s, r) =
          [x EXCEPT !.matchers = [i \in DOMAIN x.matchers |->
                                     IF i \in Reached(s) THEN Bound(s, block.outbounds[i].tag)
                                                         ELSE None],
                    !.routed = Reached(s) # {}, !.cached = Reached(s) # {} /\ block.cache,
                    !.resolver = r]
  BY DEF BindOutboundMatchers
<1> HIDE DEF x
<1>6. /\ x.matchers = fresh.matchers /\ x.rules = CompiledRules(s) /\ x.effective = fresh.effective
      /\ x = [rules |-> x.rules, matchers |-> x.matchers, routed |-> x.routed,
              cached |-> x.cached, resolver |-> x.resolver, effective |-> x.effective]
  BY <1>3 DEF x
<1>7. BindOutboundMatchers(s, r) =
          [x EXCEPT !.matchers = Matchers(s), !.routed = Reached(s) # {},
                    !.cached = Reached(s) # {} /\ block.cache, !.resolver = r]
  BY <1>4, <1>5, <1>6
<1>8. BindOutboundMatchers(s, r) =
          [rules |-> x.rules, matchers |-> Matchers(s), routed |-> Reached(s) # {},
           cached |-> Reached(s) # {} /\ block.cache, resolver |-> r, effective |-> x.effective]
  BY <1>6, <1>7
<1>9. QED
  BY <1>1, <1>3, <1>6, <1>8 DEF fresh

LEMMA CompileServerStep ==
    ASSUME ConfigInv, CompileServer
    PROVE  ConfigInv'
<1>0. PICK m, n \in Nat : Lists(m, n)
  BY Lengths
<1>1. CASE Refuse
  BY <1>1, RefuseStep DEF CompileServer
<1>2. CASE ~Refuse
  <2>1. /\ phase = "servers" /\ phase' = "servers" /\ next' = next + 1 /\ conf' = conf
        /\ next <= Len(servers) /\ groups' = groups
    BY <1>2 DEF CompileServer
  <2>2. PICK r : servers' = [servers EXCEPT ![next] =
                    IF conf.servers[next].on THEN BindOutboundMatchers(next, r)
                                             ELSE CompileRules(next)]
    BY <1>2 DEF CompileServer
  <2>3. next \in DOMAIN conf.servers /\ next \in Nat
    BY <2>1, <1>0 DEF ConfigInv, PhaseOK, Lists
  <2>4. PhaseOK'
    BY <2>1, <2>3, ConfOnly, <1>0 DEF ConfigInv, PhaseOK, Lists
  <2>5. servers[next] = Fresh(next)
    <3>1. ~ServerTurn(next)
      BY <2>1, <2>3 DEF ServerTurn
    <3>2. QED
      BY <2>1, <2>3, <3>1 DEF ConfigInv, ServersOK
  <2>6. /\ servers' = [s \in DOMAIN conf.servers |->
                IF s = next THEN IF conf.servers[next].on THEN BindOutboundMatchers(next, r)
                                                          ELSE CompileRules(next)
                ELSE servers[s]]
    BY <2>2, <1>0 DEF ConfigInv, ServersOK, Lists
  <2>7. servers' = [s \in DOMAIN conf.servers |-> servers'[s]]
    BY <2>6
  <2>8. /\ HasFields(servers'[next]) /\ servers'[next].effective = Fresh(next).effective
        /\ servers'[next].routed => conf.servers[next].on
        /\ servers'[next].rules = CompiledRules(next)
        /\ conf.servers[next].on => servers'[next].matchers = Matchers(next)
    <3>1. CASE conf.servers[next].on
      <4>1. servers'[next] = BindOutboundMatchers(next, r)
        BY <2>3, <2>6, <3>1
      <4>2. QED
        BY <2>3, <2>5, <3>1, <4>1, BuiltServer DEF HasFields
    <3>2. CASE ~conf.servers[next].on
      <4>1. servers'[next] = CompileRules(next)
        BY <2>3, <2>6, <3>2
      <4>2. QED
        BY <2>3, <2>5, <3>2, <4>1, BuiltServer DEF HasFields
    <3>3. QED
      BY <3>1, <3>2
  <2>9. Fresh(next).effective \in DOMAIN conf.servers \cup {None}
    BY <2>3 DEF Fresh
  <2>10. ASSUME NEW s \in DOMAIN conf.servers
         PROVE  /\ ServerTyped(s)' /\ ~ProxyTurn(s)'
                /\ IF ServerTurn(s)' THEN ServerBuilt(s)' ELSE servers'[s] = Fresh(s)'
    <3>0. s \in Nat /\ (ServerTurn(s) <=> s < next) /\ (ServerTurn(s)' <=> s < next + 1)
          /\ ~ProxyTurn(s)'
      BY <2>1, <1>0 DEF ServerTurn, ProxyTurn, Lists
    <3>1. CASE s = next
      <4>1. ServerTyped(s)' /\ ServerBuilt(s)'
        BY <2>1, <2>8, <2>9, <3>1, ConfOnly DEF ServerTyped, ServerBuilt, HasFields
      <4>2. QED
        BY <2>3, <3>0, <3>1, <4>1
    <3>2. CASE s # next
      <4>1. servers'[s] = servers[s] /\ (ServerTurn(s)' <=> ServerTurn(s))
        BY <2>3, <2>6, <3>0, <3>2
      <4>2. ServerTyped(s) /\ IF ServerTurn(s) THEN ServerBuilt(s) ELSE servers[s] = Fresh(s)
        BY <2>1 DEF ConfigInv, ServersOK
      <4>3. ServerTyped(s)' /\ (ServerBuilt(s) => ServerBuilt(s)') /\ Fresh(s)' = Fresh(s)
        BY <2>1, <4>1, <4>2, ConfOnly DEF ServerTyped, ServerBuilt, HasFields
      <4>4. QED
        BY <3>0, <4>1, <4>2, <4>3
    <3>3. QED
      BY <3>1, <3>2
  <2>11. ServersOK'
    BY <2>1, <2>7, <2>10 DEF ServersOK
  <2>12. QED
    BY <2>1, <2>4, <2>11, GroupsKept DEF ConfigInv
<1>3. QED
  BY <1>1, <1>2

LEMMA LatePhase ==
    ASSUME ConfigInv, conf' = conf, NEW m \in Nat, NEW n \in Nat, Lists(m, n),
           phase \notin {"read", "refused"}, phase' \in {"servers", "proxies", "ready"},
           next' \in Nat \ {0}, next' <= 1 + n, phase' = "ready" => next' = 1 + n
    PROVE  PhaseOK'
<1>1. next' <= 1 + m + n
  OBVIOUS
<1>2. m = Len(conf'.groups) /\ n = Len(conf'.servers)
  BY DEF Lists
<1>3. /\ next' <= 1 + Len(conf'.groups) + Len(conf'.servers) /\ next' <= 1 + Len(conf'.servers)
      /\ phase' = "ready" => next' = 1 + Len(conf'.servers)
  BY <1>1, <1>2, Zenon
<1>4. QED
  BY <1>3, ConfOnly DEF ConfigInv, PhaseOK

LEMMA ServersCompiledStep ==
    ASSUME ConfigInv, ServersCompiled
    PROVE  ConfigInv'
<1>0. PICK m, n \in Nat : Lists(m, n)
  BY Lengths
<1>1. /\ phase = "servers" /\ phase' = "proxies" /\ next' = 1 /\ next > Len(servers)
      /\ conf' = conf /\ groups' = groups /\ servers' = servers
  BY DEF ServersCompiled, Enter
<1>2. PhaseOK'
  BY <1>0, <1>1, LatePhase
<1>3. ASSUME NEW s \in DOMAIN conf.servers
      PROVE  ServerTyped(s)' /\ ServerTurn(s)' /\ ServerBuilt(s)' /\ ~ProxyTurn(s)'
  <2>1. ServerTurn(s) /\ ServerTurn(s)' /\ ~ProxyTurn(s)'
    BY <1>0, <1>1 DEF ServerTurn, ProxyTurn, Lists, ConfigInv, PhaseOK
  <2>2. ServerTyped(s) /\ ServerBuilt(s)
    BY <1>1, <2>1 DEF ConfigInv, ServersOK
  <2>3. QED
    BY <1>1, <2>1, <2>2, ConfOnly DEF ServerTyped, ServerBuilt, HasFields
<1>4. ServersOK'
  BY <1>1, <1>3 DEF ConfigInv, ServersOK
<1>5. QED
  BY <1>1, <1>2, <1>4, GroupsKept DEF ConfigInv

LEMMA ServeProxyStep ==
    ASSUME ConfigInv, ServeProxy
    PROVE  ConfigInv'
<1>1. CASE Refuse
  BY <1>1, RefuseStep DEF ServeProxy
<1>2. CASE ~Refuse
  <2>0. PICK m, n \in Nat : Lists(m, n)
    BY Lengths
  <2>1. /\ phase = "proxies" /\ phase' = "proxies" /\ next' = next + 1 /\ conf' = conf
        /\ next <= Len(servers) /\ groups' = groups /\ CheckListens(next)
        /\ conf.servers[next].on \/ conf.servers[next].ref # None \/ Cardinality(Trojans) = 1
        /\ servers' = [servers EXCEPT ![next].effective = Served(next)]
    BY <1>2 DEF ServeProxy
  <2>2. next \in DOMAIN conf.servers /\ next \in Nat
    BY <2>0, <2>1 DEF ConfigInv, PhaseOK, Lists
  <2>3. PhaseOK'
    <3>1. next <= n /\ next \in Nat \ {0}
      BY <2>0, <2>1 DEF ConfigInv, PhaseOK, Lists
    <3>2. QED
      BY <2>0, <2>1, <3>1, LatePhase
  <2>4. servers' = [s \in DOMAIN conf.servers |->
                       IF s = next THEN [servers[next] EXCEPT !.effective = Served(next)]
                                   ELSE servers[s]]
    BY <2>0, <2>1 DEF ConfigInv, ServersOK, Lists
  <2>5. servers' = [s \in DOMAIN conf.servers |-> servers'[s]]
    BY <2>4
  <2>6. ServerTyped(next) /\ ServerBuilt(next)
    BY <2>1, <2>2 DEF ConfigInv, ServersOK, ServerTurn
  <2>7. /\ HasFields(servers'[next]) /\ servers'[next].effective = Served(next)
        /\ servers'[next].routed = servers[next].routed
        /\ servers'[next].rules = servers[next].rules
        /\ servers'[next].matchers = servers[next].matchers
    <3>1. servers'[next] = [servers[next] EXCEPT !.effective = Served(next)]
      BY <2>2, <2>4
    <3>2. QED
      BY <2>6, <3>1 DEF ServerTyped, HasFields
  <2>8. Served(next) \in DOMAIN conf.servers \cup {None}
    BY <2>1, <2>2, ServedInside DEF ConfigInv, PhaseOK
  <2>9. ASSUME NEW s \in DOMAIN conf.servers
        PROVE  /\ ServerTyped(s)' /\ ServerTurn(s)' /\ ServerBuilt(s)'
               /\ ProxyTurn(s)' => ProxyServed(s)'
    <3>1. ServerTurn(s)' /\ ServerTurn(s)
      BY <2>1 DEF ServerTurn
    <3>2. CASE s = next
      BY <2>1, <2>6, <2>7, <2>8, <3>1, <3>2, ConfOnly
         DEF ServerTyped, ServerBuilt, HasFields, ProxyServed
    <3>3. CASE s # next
      <4>1. servers'[s] = servers[s]
        BY <2>4, <3>3
      <4>2. ServerTyped(s) /\ ServerBuilt(s) /\ (ProxyTurn(s) => ProxyServed(s))
        BY <2>1, <3>1 DEF ConfigInv, ServersOK
      <4>3. ProxyTurn(s)' => ProxyTurn(s)
        BY <2>0, <2>1, <2>2, <3>3, ConfOnly DEF ProxyTurn, Lists
      <4>4. QED
        BY <2>1, <3>1, <4>1, <4>2, <4>3, ConfOnly
           DEF ServerTyped, ServerBuilt, HasFields, ProxyServed
    <3>4. QED
      BY <3>2, <3>3
  <2>10. ServersOK'
    BY <2>1, <2>5, <2>9 DEF ServersOK
  <2>11. QED
    BY <2>1, <2>3, <2>10, GroupsKept DEF ConfigInv
<1>3. QED
  BY <1>1, <1>2

\* Steps after which each block is as it was, and no more proxies are due.
LEMMA ProxiesKept ==
    ASSUME ConfigInv, conf' = conf, groups' = groups, servers' = servers,
           phase = "proxies", phase' \in {"proxies", "ready"},
           \A s \in DOMAIN conf.servers : ProxyTurn(s)' => ProxyTurn(s)
    PROVE  GroupsOK' /\ ServersOK'
<1>1. ASSUME NEW s \in DOMAIN conf.servers
      PROVE  /\ ServerTyped(s)' /\ ServerTurn(s)' /\ ServerBuilt(s)'
             /\ ProxyTurn(s)' => ProxyServed(s)'
  <2>1. ServerTurn(s) /\ ServerTurn(s)'
    BY DEF ServerTurn
  <2>2. ServerTyped(s) /\ ServerBuilt(s) /\ (ProxyTurn(s) => ProxyServed(s))
    BY <2>1 DEF ConfigInv, ServersOK
  <2>3. QED
    BY <2>1, <2>2, ConfOnly DEF ServerTyped, ServerBuilt, HasFields, ProxyServed
<1>2. ServersOK'
  BY <1>1 DEF ConfigInv, ServersOK
<1>3. QED
  BY <1>2, GroupsKept

LEMMA NoProxyStep ==
    ASSUME ConfigInv, NoProxy
    PROVE  ConfigInv'
<1>0. PICK m, n \in Nat : Lists(m, n)
  BY Lengths
<1>1. /\ phase = "proxies" /\ phase' = "proxies" /\ next' = next + 1 /\ ~IsProxy(next)
      /\ next <= Len(servers) /\ conf' = conf /\ groups' = groups /\ servers' = servers
  BY DEF NoProxy
<1>2. PhaseOK'
  <2>1. next \in Nat \ {0} /\ next <= n
    BY <1>0, <1>1 DEF ConfigInv, PhaseOK, Lists
  <2>2. QED
    BY <1>0, <1>1, <2>1, LatePhase
<1>3. \A s \in DOMAIN conf.servers : ProxyTurn(s)' => ProxyTurn(s)
  BY <1>0, <1>1, ConfOnly DEF ProxyTurn, Lists, ConfigInv, PhaseOK
<1>4. QED
  BY <1>1, <1>2, <1>3, ProxiesKept DEF ConfigInv

LEMMA ReadyStep ==
    ASSUME ConfigInv, Ready
    PROVE  ConfigInv'
<1>0. PICK m, n \in Nat : Lists(m, n)
  BY Lengths
<1>1. /\ phase = "proxies" /\ phase' = "ready" /\ next' = next /\ next > Len(servers)
      /\ conf' = conf /\ groups' = groups /\ servers' = servers
  BY DEF Ready
<1>2. PhaseOK'
  <2>1. next \in Nat \ {0} /\ next = 1 + n
    BY <1>0, <1>1 DEF ConfigInv, PhaseOK, Lists
  <2>2. QED
    BY <1>0, <1>1, <2>1, LatePhase
<1>3. \A s \in DOMAIN conf.servers : ProxyTurn(s)' => ProxyTurn(s)
  BY <1>1, ConfOnly DEF ProxyTurn
<1>4. QED
  BY <1>1, <1>2, <1>3, ProxiesKept DEF ConfigInv

LEMMA StutterStep ==
    ASSUME ConfigInv, UNCHANGED configVars
    PROVE  ConfigInv'
<1>1. /\ conf' = conf /\ phase' = phase /\ next' = next /\ groups' = groups
      /\ servers' = servers
  BY DEF configVars
<1>2. PhaseOK' /\ GroupsOK'
  BY <1>1, ConfOnly DEF ConfigInv, PhaseOK, GroupsOK, GroupTurn
<1>3. ASSUME NEW s \in DOMAIN conf.servers
      PROVE  /\ ServerTyped(s)' <=> ServerTyped(s)
             /\ ServerTurn(s)' <=> ServerTurn(s)
             /\ ServerBuilt(s)' <=> ServerBuilt(s)
             /\ ProxyTurn(s)' <=> ProxyTurn(s)
             /\ ProxyServed(s)' <=> ProxyServed(s)
             /\ servers[s]' = servers[s] /\ Fresh(s)' = Fresh(s)
  BY <1>1, ConfOnly DEF ServerTyped, ServerTurn, ServerBuilt, HasFields, ProxyTurn, ProxyServed
<1>4. ServersOK'
  BY <1>1, <1>3 DEF ConfigInv, ServersOK
<1>5. QED
  BY <1>2, <1>4 DEF ConfigInv

LEMMA ConfigStep ==
    ASSUME ConfigInv, [Next]_configVars
    PROVE  ConfigInv'
<1>1. CASE TableRefused
  BY <1>1, RefuseStep DEF TableRefused
<1>2. QED
  BY <1>1, ReadStep, CompileGroupStep, GroupsCompiledStep, CompileServerStep,
     ServersCompiledStep, ServeProxyStep, NoProxyStep, ReadyStep, StutterStep DEF Next

\* Whatever the configuration, the invariant holds throughout.
LEMMA ConfigInvariant == Spec => []ConfigInv
<1>1. Init => ConfigInv
  BY InitConfig
<1>2. ConfigInv /\ [Next]_configVars => ConfigInv'
  BY ConfigStep
<1>3. QED
  BY <1>1, <1>2, PTL DEF Spec

-----------------------------------------------------------------------------
(* The types. *)

\* Nothing is compiled or bound before its turn, and then all of it is; a local
\* proxy works with a block there is, and the loops stay within their lists.
THEOREM ConfigTypeCorrect == Spec => []TypeOK
<1>1. ConfigInv => TypeOK
  <2> SUFFICES ASSUME ConfigInv PROVE TypeOK
    OBVIOUS
  <2>0. PICK m, n \in Nat : Lists(m, n)
    BY Lengths
  <2>1. /\ conf \in Confs /\ next \in 1 .. 1 + Len(groups) + Len(servers)
        /\ phase \in {"read", "groups", "servers", "proxies", "ready", "refused"}
    <3>1. next \in Nat \ {0} /\ next <= 1 + Len(conf.groups) + Len(conf.servers)
      BY DEF ConfigInv, PhaseOK
    <3>2. next <= 1 + m + n
      BY <2>0, <3>1, Zenon DEF Lists
    <3>3. next \in 1 .. 1 + m + n
      BY <3>1, <3>2
    <3>4. QED
      BY <2>0, <3>3 DEF Lists, ConfigInv, PhaseOK
  <2>2. ASSUME phase # "refused", NEW i \in DOMAIN groups
        PROVE  groups[i].compiled <=> GroupTurn(i)
    <3>1. i \in DOMAIN conf.groups
      BY <2>0 DEF Lists
    <3>2. groups[i] = IF GroupTurn(i) THEN Compiled(conf.groups[i]) ELSE Uncompiled(conf.groups[i])
      BY <2>2, <3>1 DEF ConfigInv, GroupsOK
    <3>3. Compiled(conf.groups[i]).compiled /\ ~Uncompiled(conf.groups[i]).compiled
      BY DEF Compiled, Uncompiled
    <3>4. QED
      BY <3>2, <3>3
  <2>3. ASSUME NEW s \in DOMAIN servers
        PROVE  /\ servers[s].effective \in DOMAIN servers \cup {None}
               /\ servers[s].routed => conf.servers[s].on
               /\ phase = "ready" => \A i \in DOMAIN servers[s].rules : servers[s].rules[i].compiled
    <3>1. s \in DOMAIN conf.servers /\ DOMAIN servers = DOMAIN conf.servers
      BY <2>0 DEF Lists
    <3>2. ServerTyped(s)
      BY <3>1 DEF ConfigInv, ServersOK
    <3>3. ASSUME phase = "ready", NEW i \in DOMAIN servers[s].rules
          PROVE  servers[s].rules[i].compiled
      <4>1. ServerBuilt(s)
        BY <3>1, <3>3 DEF ConfigInv, ServersOK, ServerTurn
      <4>2. servers[s].rules[i] = Compiled(conf.servers[s].rules[i])
        BY <3>3, <4>1 DEF ServerBuilt, CompiledRules
      <4>3. QED
        BY <4>2 DEF Compiled
    <3>4. QED
      BY <3>1, <3>2, <3>3 DEF ServerTyped
  <2>4. QED
    BY <2>1, <2>2, <2>3 DEF TypeOK, GroupTurn
<1>2. QED
  BY <1>1, ConfigInvariant, PTL

-----------------------------------------------------------------------------
(* Local proxies. *)

LEMMA MatchesFinite ==
    ASSUME conf \in Confs, NEW ref
    PROVE  IsFiniteSet(Matches(ref)) /\ IsFiniteSet(Trojans)
<1> DEFINE n == Len(conf.servers)
           listens == [s \in 1 .. n |-> conf.servers[s].listens]
           L == {conf.servers[s].listens : s \in 1 .. n}
<1>1. /\ n \in Nat /\ DOMAIN conf.servers = 1 .. n
      /\ \A s \in 1 .. n : IsFiniteSet(conf.servers[s].listens)
  BY ConfLists
<1> HIDE DEF n
<1>2. IsFiniteSet(1 .. n)
  BY <1>1, FS_Interval
<1>3. IsFiniteSet(Trojans)
  <2>1. Trojans \in SUBSET (1 .. n)
    BY <1>1 DEF Trojans
  <2>2. QED
    BY <1>2, <2>1, FS_Subset
<1>4. IsFiniteSet(L)
  <2>1. listens \in Surjection(1 .. n, L)
    BY DEF Surjection
  <2> HIDE DEF listens, L
  <2>2. QED
    BY <1>2, <2>1, FS_Surjection
<1>5. \A l \in L : IsFiniteSet(l)
  BY <1>1
<1>6. Matches(ref) \in SUBSET (Trojans \X UNION L)
  BY <1>1 DEF Matches, Trojans
<1> HIDE DEF L
<1>7. IsFiniteSet(Trojans \X UNION L)
  <2>1. IsFiniteSet(UNION L)
    BY <1>4, <1>5, FS_UNION
  <2>2. QED
    BY <1>3, <2>1, FS_Product
<1>8. QED
  BY <1>3, <1>6, <1>7, FS_Subset

\* The blocks a reference can mean are those it is found at.
Meant(ref) ==
    {t \in Trojans : Named(t, ref.host)
                        /\ \E l \in conf.servers[t].listens : l.port = ref.port /\ l.tcp}

LEMMA FoundMeant ==
    ASSUME conf \in Confs, NEW ref
    PROVE  /\ FindTrojanServer(ref) # None => Meant(ref) = {FindTrojanServer(ref)}
           /\ /\ Cardinality(Meant(ref)) = 1
              /\ \A t \in Meant(ref) :
                     Cardinality({l \in conf.servers[t].listens : l.port = ref.port}) = 1
              => FindTrojanServer(ref) # None
<1> DEFINE M == Matches(ref)
           Ports(t) == {l \in conf.servers[t].listens : l.port = ref.port}
<1>0. IsFiniteSet(M) /\ IsFiniteSet(Trojans)
  BY MatchesFinite
<1>1. \A x : x \in M <=> \E t \in Trojans : \E l \in conf.servers[t].listens :
                             Named(t, ref.host) /\ l.port = ref.port /\ l.tcp /\ x = <<t, l>>
  BY DEF Matches
<1>2. \A t : t \in Meant(ref) <=> \E x \in M : x[1] = t
  <2>1. \A t, l : <<t, l>> \in M <=> /\ t \in Trojans /\ l \in conf.servers[t].listens
                                     /\ Named(t, ref.host) /\ l.port = ref.port /\ l.tcp
    BY <1>1
  <2>2. \A x \in M : \E t, l : x = <<t, l>>
    BY <1>1
  <2> HIDE DEF M
  <2>3. ASSUME NEW t \in Meant(ref) PROVE \E x \in M : x[1] = t
    <3>1. PICK l : /\ t \in Trojans /\ l \in conf.servers[t].listens
                   /\ Named(t, ref.host) /\ l.port = ref.port /\ l.tcp
      BY DEF Meant
    <3>2. <<t, l>> \in M /\ <<t, l>>[1] = t
      BY <2>1, <3>1
    <3>3. QED
      BY <3>2
  <2>4. ASSUME NEW x \in M PROVE x[1] \in Meant(ref)
    BY <2>1, <2>2 DEF Meant
  <2>5. QED
    BY <2>3, <2>4
<1> HIDE DEF M
<1>3. ASSUME FindTrojanServer(ref) # None
      PROVE  Meant(ref) = {FindTrojanServer(ref)}
  <2>1. Cardinality(M) = 1 /\ FindTrojanServer(ref) = (CHOOSE x \in M : TRUE)[1]
    BY <1>3 DEF FindTrojanServer, M
  <2>2. PICK y : M = {y}
    BY <1>0, <2>1, FS_Singleton
  <2>3. FindTrojanServer(ref) = y[1]
    BY <2>1, <2>2
  <2>4. QED
    BY <1>2, <2>2, <2>3
<1>4. ASSUME Cardinality(Meant(ref)) = 1, \A t \in Meant(ref) : Cardinality(Ports(t)) = 1
      PROVE  FindTrojanServer(ref) # None
  <2>1. Meant(ref) \in SUBSET Trojans
    BY DEF Meant
  <2>2. PICK t : Meant(ref) = {t}
    BY <1>0, <1>4, <2>1, FS_Subset, FS_Singleton
  <2>3. t \in Trojans /\ t \in DOMAIN conf.servers /\ t # None
    <3>1. t \in Trojans /\ t \in DOMAIN conf.servers
      BY <2>1, <2>2 DEF Trojans
    <3>2. DOMAIN conf.servers \in SUBSET Nat
      BY ConfLists
    <3>3. QED
      BY <3>1, <3>2, ConfigAssumption
  <2>4. PICK p : Ports(t) = {p}
    <3>1. IsFiniteSet(conf.servers[t].listens) /\ Ports(t) \in SUBSET conf.servers[t].listens
      BY <2>3, ConfLists
    <3>2. IsFiniteSet(Ports(t)) /\ Cardinality(Ports(t)) = 1
      BY <1>4, <2>2, <3>1, FS_Subset
    <3> HIDE DEF Ports
    <3>3. QED
      BY <3>2, FS_Singleton
  <2>5. \A x \in M : x = <<t, p>>
    <3> SUFFICES ASSUME NEW x \in M PROVE x = <<t, p>>
      OBVIOUS
    <3>0. PICK u \in Trojans : \E l \in conf.servers[u].listens : l.port = ref.port /\ x = <<u, l>>
      BY <1>1
    <3>1. PICK l \in conf.servers[u].listens : l.port = ref.port /\ x = <<u, l>>
      BY <3>0
    <3>2. u = t
      BY <1>2, <2>2, <3>1
    <3>3. l \in Ports(t)
      BY <3>1, <3>2
    <3>4. QED
      BY <2>4, <3>1, <3>2, <3>3
  <2>6. M = {<<t, p>>}
    BY <1>2, <2>2, <2>5
  <2>7. Cardinality(M) = 1 /\ (CHOOSE x \in M : TRUE)[1] = t
    <3>1. Cardinality(M) = 1
      BY <2>6, FS_Singleton
    <3>2. (CHOOSE x \in M : TRUE) = <<t, p>>
      BY <2>6
    <3>3. <<t, p>>[1] = t
      OBVIOUS
    <3>4. QED
      BY <3>1, <3>2, <3>3, Zenon
  <2>8. QED
    BY <2>3, <2>7 DEF FindTrojanServer, M
<1>5. QED
  BY <1>3, <1>4

\* A local proxy is reached from this machine only, at addresses of its own, and is
\* served by the one Trojan block it can mean.
THEOREM LocalProxiesRight == Spec => []LocalProxiesServed
<1>1. ConfigInv => LocalProxiesServed
  <2> SUFFICES ASSUME ConfigInv, phase = "ready",
                      NEW s \in DOMAIN servers, IsProxy(s), ~conf.servers[s].on
               PROVE  LET ref == conf.servers[s].ref
                          meant == IF ref = None THEN Trojans ELSE Meant(ref)
                          once == \A t \in meant :
                              Cardinality({l \in conf.servers[t].listens : l.port = ref.port}) = 1
                      IN  /\ servers[s].effective # None => meant = {servers[s].effective}
                          /\ Cardinality(meant) = 1 /\ (ref = None \/ once) =>
                                 servers[s].effective # None
                          /\ \A l \in conf.servers[s].listens, t \in DOMAIN servers \ {s} :
                               /\ l.address \in Loopback
                               /\ \A x \in conf.servers[t].listens : ~SameAddress(l, x)
    BY DEF LocalProxiesServed, Meant
  <2> DEFINE ref == conf.servers[s].ref
  <2>0. PICK m, n \in Nat : Lists(m, n)
    BY Lengths
  <2>1. s \in DOMAIN conf.servers /\ DOMAIN servers = DOMAIN conf.servers /\ s \in Nat
        /\ conf \in Confs /\ s < next
    BY <2>0 DEF Lists, ConfigInv, PhaseOK
  <2>2. ProxyServed(s)
    BY <2>1 DEF ConfigInv, ServersOK, ProxyTurn
  <2>3. \A l \in conf.servers[s].listens, t \in DOMAIN servers \ {s} :
            /\ l.address \in Loopback
            /\ \A x \in conf.servers[t].listens : ~SameAddress(l, x)
    BY <2>1, <2>2 DEF ProxyServed, CheckListens
  <2>4. CASE ref = None
    <3>1. Trojans = {servers[s].effective}
      BY <2>1, <2>2, <2>4, ServedInside DEF ProxyServed
    <3>2. servers[s].effective # None
      <4>1. Trojans \in SUBSET Nat
        BY <2>0 DEF Trojans, Lists
      <4>2. QED
        BY <3>1, <4>1, ConfigAssumption
    <3>3. QED
      BY <2>3, <2>4, <3>1, <3>2
  <2>5. CASE ref # None
    <3>1. servers[s].effective = FindTrojanServer(ref)
      BY <2>2, <2>5 DEF ProxyServed, Served
    <3>2. QED
      BY <2>1, <2>3, <2>5, <3>1, FoundMeant
  <2>6. QED
    BY <2>4, <2>5
<1>2. QED
  BY <1>1, ConfigInvariant, PTL

-----------------------------------------------------------------------------
(* Routing. *)

Tagged(gs, tag) == {gs[i] : i \in {j \in DOMAIN gs : gs[j].tag = tag}}

Nearest(s, tag) ==
    IF Tagged(conf.servers[s].rules, tag) # {} THEN Tagged(conf.servers[s].rules, tag)
                                               ELSE Tagged(conf.groups, tag)

\* The group a tag is bound to is the nearest one, compiled.
LEMMA BoundNearest ==
    ASSUME ConfigInv, phase = "ready", NEW s \in DOMAIN conf.servers, NEW tag
    PROVE  /\ Bound(s, tag) = None => Nearest(s, tag) = {}
           /\ Bound(s, tag) # None => \E g :
                /\ Nearest(s, tag) = {g} /\ Pointed(s, Bound(s, tag)) = Compiled(g)
                /\ \A t \in Domains : MatchTarget(Compiled(g), t)
                                         <=> AnyDomainMatch(g.domains, t.domain)
                /\ \A a \in Addresses : MatchTarget(Compiled(g), a) <=> AnyIpMatch(g.ips, a)
<1> DEFINE own == conf.servers[s].rules
           near == RulesFind(own, tag)
           far == RulesFind(conf.groups, tag)
<1>1. /\ conf \in Confs /\ Accepted /\ ServerBuilt(s)
      /\ AreGroups(own) /\ AreGroups(conf.groups)
  BY ConfLists DEF ConfigInv, PhaseOK, ServersOK, ServerTurn
<1>2. GroupsAccepted(own) /\ GroupsAccepted(conf.groups)
  BY <1>1 DEF Accepted, BlockAccepted
<1> HIDE DEF own
<1>3. CASE near # None
  <2>1. near \in DOMAIN own /\ near \in Nat /\ own[near].tag = tag
    BY <1>1, <1>3, RulesFound
  <2>2. Bound(s, tag) = [own |-> TRUE, at |-> near]
    BY <1>3 DEF Bound, own
  <2>3. Bound(s, tag) # None
    <3>1. [own |-> TRUE, at |-> near] \in [own : BOOLEAN, at : Nat]
      BY <2>1
    <3>2. QED
      BY <2>2, <3>1, ConfigAssumption
  <2>4. Tagged(own, tag) = {own[near]}
    BY <1>1, <1>2, <2>1, FoundMatches DEF Tagged
  <2>5. Nearest(s, tag) = {own[near]}
    BY <2>4 DEF Nearest, own
  <2>6. Pointed(s, Bound(s, tag)) = Compiled(own[near])
    BY <1>1, <2>1, <2>2 DEF Pointed, ServerBuilt, CompiledRules, own
  <2>7. QED
    BY <1>1, <1>2, <2>1, <2>3, <2>5, <2>6, FoundMatches
<1>4. CASE near = None /\ far # None
  <2>1. far \in DOMAIN conf.groups /\ far \in Nat /\ conf.groups[far].tag = tag
    BY <1>1, <1>4, RulesFound
  <2>2. Bound(s, tag) = [own |-> FALSE, at |-> far]
    BY <1>4 DEF Bound, own
  <2>3. Bound(s, tag) # None
    <3>1. [own |-> FALSE, at |-> far] \in [own : BOOLEAN, at : Nat]
      BY <2>1
    <3>2. QED
      BY <2>2, <3>1, ConfigAssumption
  <2>4. Tagged(conf.groups, tag) = {conf.groups[far]}
    BY <1>1, <1>2, <2>1, FoundMatches DEF Tagged
  <2>5. Tagged(own, tag) = {}
    BY <1>1, <1>4, RulesFound DEF Tagged
  <2>6. Nearest(s, tag) = {conf.groups[far]}
    BY <2>4, <2>5 DEF Nearest, own
  <2>7. groups[far] = Compiled(conf.groups[far])
    BY <2>1 DEF ConfigInv, GroupsOK, GroupTurn
  <2>8. Pointed(s, Bound(s, tag)) = Compiled(conf.groups[far])
    BY <2>2, <2>7 DEF Pointed
  <2>9. QED
    BY <1>1, <1>2, <2>1, <2>3, <2>6, <2>8, FoundMatches
<1>5. CASE near = None /\ far = None
  <2>1. Bound(s, tag) = None
    BY <1>5 DEF Bound, own
  <2>2. Tagged(own, tag) = {} /\ Tagged(conf.groups, tag) = {}
    BY <1>1, <1>5, RulesFound DEF Tagged
  <2>3. QED
    BY <2>1, <2>2 DEF Nearest, own
<1>6. QED
  BY <1>3, <1>4, <1>5

\* What the walk is given, and what it should be given, outbound by outbound.
LEMMA CompactedAsWritten ==
    ASSUME ConfigInv, phase = "ready", NEW s \in Trojans
    PROVE  \E n \in Nat : Alike(Compacted(s), Written(s), n)
<1> DEFINE out == conf.servers[s].outbounds
           n == Len(out)
           c == Compacted(s)
           w == Written(s)
           m(i) == servers[s].matchers[i]
<1>1. s \in DOMAIN conf.servers /\ conf.servers[s].on /\ conf \in Confs
  BY DEF Trojans, ConfigInv, PhaseOK
<1>2. n \in Nat /\ DOMAIN out = 1 .. n
  BY <1>1, ConfLists
<1>3. c = [i \in DOMAIN out |->
             [all |-> out[i].tag = None,
              domains |-> {t \in Domains : m(i) # None /\ MatchTarget(Pointed(s, m(i)), t)},
              ips |-> {a \in Addresses : m(i) # None /\ MatchTarget(Pointed(s, m(i)), a)}]]
  BY DEF Compacted
<1>4. w = [i \in DOMAIN out |->
             [all |-> out[i].tag = None,
              domains |-> {t \in Domains : \E g \in Nearest(s, out[i].tag) :
                                               AnyDomainMatch(g.domains, t.domain)},
              ips |-> {a \in Addresses : \E g \in Nearest(s, out[i].tag) : AnyIpMatch(g.ips, a)}]]
  BY DEF Written, Nearest, Tagged
<1> HIDE DEF out, n, c, w
<1>5. Len(c) = n /\ Len(w) = n
  <2>1. c = [i \in 1 .. n |-> c[i]] /\ w = [i \in 1 .. n |-> w[i]]
    BY <1>2, <1>3, <1>4
  <2>2. QED
    BY <1>2, <2>1, SequenceOf
<1>6. \A i \in 1 .. n : c[i].all <=> w[i].all
  BY <1>2, <1>3, <1>4
<1>7. ASSUME NEW i \in 1 .. n, \A j \in 1 .. i : ~c[j].all
      PROVE  c[i].domains = w[i].domains /\ c[i].ips = w[i].ips
  <2> DEFINE tag == out[i].tag
  <2>1. i \in DOMAIN out /\ i \in Reached(s)
    <3>1. \A j \in 1 .. i : j \in DOMAIN out
      BY <1>2
    <3>2. \A j \in DOMAIN out : c[j].all <=> out[j].tag = None
      BY <1>3
    <3>3. \A j \in 1 .. i : out[j].tag # None
      BY <1>7, <3>1, <3>2
    <3>4. QED
      BY <1>2, <3>3 DEF Reached, out
  <2>2. m(i) = Bound(s, tag)
    <3>1. servers[s].matchers = Matchers(s)
      BY <1>1 DEF ConfigInv, ServersOK, ServerTurn, ServerBuilt
    <3>2. QED
      BY <2>1, <3>1 DEF Matchers, out
  <2>3. /\ c[i].domains = {t \in Domains : m(i) # None /\ MatchTarget(Pointed(s, m(i)), t)}
        /\ c[i].ips = {a \in Addresses : m(i) # None /\ MatchTarget(Pointed(s, m(i)), a)}
    BY <1>3, <2>1
  <2>4. /\ w[i].domains = {t \in Domains : \E g \in Nearest(s, tag) : AnyDomainMatch(g.domains, t.domain)}
        /\ w[i].ips = {a \in Addresses : \E g \in Nearest(s, tag) : AnyIpMatch(g.ips, a)}
    BY <1>4, <2>1
  <2> HIDE DEF tag, m
  <2>5. CASE Bound(s, tag) = None
    BY <1>1, <2>2, <2>3, <2>4, <2>5, BoundNearest
  <2>6. CASE Bound(s, tag) # None
    <3>1. PICK g :
             /\ Nearest(s, tag) = {g} /\ Pointed(s, Bound(s, tag)) = Compiled(g)
             /\ \A t \in Domains : MatchTarget(Compiled(g), t)
                                      <=> AnyDomainMatch(g.domains, t.domain)
             /\ \A a \in Addresses : MatchTarget(Compiled(g), a) <=> AnyIpMatch(g.ips, a)
      BY <1>1, <2>6, BoundNearest
    <3>2. QED
      BY <2>2, <2>3, <2>4, <2>6, <3>1
  <2>7. QED
    BY <2>5, <2>6
<1>8. QED
  BY <1>2, <1>5, <1>6, <1>7 DEF c, w, Alike

\* Every target goes where the configuration says, rule by rule and outbound by
\* outbound, whatever groups were compiled into, merged with and bound to.
THEOREM RoutesRight == Spec => []RoutesAsWritten
<1>1. ConfigInv => RoutesAsWritten
  <2> SUFFICES ASSUME ConfigInv, phase = "ready", NEW s \in Trojans, NEW t, NEW addrs
               PROVE  Selected(Compacted(s), conf.servers[s].lazy, t, addrs)
                        = Selected(Written(s), conf.servers[s].lazy, t, addrs)
    BY DEF RoutesAsWritten
  <2>1. PICK n \in Nat : Alike(Compacted(s), Written(s), n)
    BY CompactedAsWritten
  <2>2. QED
    BY <2>1, WalkSame
<1>2. QED
  BY <1>1, ConfigInvariant, PTL

-----------------------------------------------------------------------------
(* The perfect hash tables of names, for every hash function, every set of *)
(* keys and every number of seeds: a table that is built finds exactly its *)
(* keys.                                                                   *)

\* The keys of the buckets that have a seed have each their own position, the
\* one a lookup with that seed leads to.
Placed ==
    /\ DOMAIN positions = {k \in DOMAIN unique : Bucket(k) \notin todo}
    /\ \A k \in DOMAIN positions : positions[k] = At(k, seeds[Bucket(k)])
    /\ \A k, l \in DOMAIN positions : positions[k] = positions[l] => k = l

Inv ==
    /\ MphTypeOK
    /\ stage = "building" => Placed /\ mph = EmptyMph
    /\ FindsExactlyItsKeys

-----------------------------------------------------------------------------
\* The number of keys is a number, and 0 only for the table of no keys.
LEMMA Count ==
    ASSUME unique \in Table
    PROVE  N \in Nat /\ (N = 0 <=> DOMAIN unique = {}) /\ DOMAIN unique \subseteq Keys
<1>1. DOMAIN unique \subseteq Keys
  BY DEF Table
<1>2. IsFiniteSet(DOMAIN unique)
  BY <1>1, FS_Subset, MphAssumption
<1> QED
  BY <1>1, <1>2, FS_CardinalityType, FS_EmptySet DEF N

\* A position is inside the table.
LEMMA AtRange ==
    ASSUME MphTypeOK, size > 0, NEW k \in Keys, NEW s \in 0 .. MaxSeed - 1
    PROVE  At(k, s) \in 0 .. size - 1
<1>1. hash[k][s] \in Nat
  BY DEF MphTypeOK
<1>2. size \in Nat
  BY DEF MphTypeOK
<1> QED
  BY <1>1, <1>2 DEF At

\* The first table tried is empty, or has no key at all.
LEMMA InitInv == MphInit => Inv
<1> SUFFICES ASSUME MphInit PROVE Inv
  OBVIOUS
<1> USE DEF MphInit
<1>1. unique \in Table /\ hash \in [Keys -> [0 .. MaxSeed - 1 -> Nat]]
  BY MphAssumption
<1>2. N \in Nat /\ (N = 0 <=> DOMAIN unique = {}) /\ DOMAIN unique \subseteq Keys
  BY <1>1, Count
<1>3. DOMAIN positions = {}
  BY DEF NoKeys
<1>4. seeds \in [Buckets -> 0 .. MaxSeed - 1]
  BY MphAssumption
<1>5. MphTypeOK
  BY <1>1, <1>2, <1>3, <1>4 DEF MphTypeOK
<1>6. Placed
  BY <1>3 DEF Placed, Filled
<1>7. FindsExactlyItsKeys
  <2> SUFFICES ASSUME stage = "built", NEW k \in Keys
               PROVE  Find(k) = IF k \in DOMAIN unique THEN unique[k] ELSE "none"
    BY DEF FindsExactlyItsKeys
  <2>1. DOMAIN unique = {} /\ mph.size = 0
    BY <1>2 DEF EmptyMph
  <2> QED
    BY <2>1 DEF Find
<1> QED
  BY <1>5, <1>6, <1>7 DEF Inv

-----------------------------------------------------------------------------
(* What a step leaves alone. *)

Same == hash' = hash /\ unique' = unique

LEMMA SameBuckets ==
    ASSUME Same
    PROVE  /\ N' = N /\ Buckets' = Buckets /\ Filled' = Filled
           /\ \A k : Bucket(k)' = Bucket(k)
           /\ \A b : Items(b)' = Items(b)
BY DEF Same, N, Buckets, Filled, Bucket, Items

\* The bucket that is placed is not empty, and its seed is in range.
LEMMA PlaceInv ==
    ASSUME Inv, NEW b \in Buckets, NEW s \in Seeds, Place(b, s)
    PROVE  Inv'
<1> USE DEF Place
<1>1. MphTypeOK /\ Placed /\ mph = EmptyMph /\ size > 0 /\ size \in Nat
  BY DEF Inv, MphTypeOK
<1>2. Same /\ size' = size /\ stage' = "building" /\ mph' = mph
  BY DEF Same
<1>3. /\ N' = N /\ Buckets' = Buckets /\ Filled' = Filled
      /\ \A k : Bucket(k)' = Bucket(k)
      /\ \A c : Items(c)' = Items(c)
  BY <1>2, SameBuckets
<1>4. s \in 0 .. MaxSeed - 1
  BY MphAssumption DEF Seeds
<1>5. DOMAIN unique \subseteq Keys /\ DOMAIN positions \subseteq DOMAIN unique
  BY <1>1, Count DEF MphTypeOK
<1>7. seeds' \in [Buckets -> 0 .. MaxSeed - 1] /\ seeds'[b] = s
      /\ \A c \in Buckets : c # b => seeds'[c] = seeds[c]
  BY <1>1, <1>4 DEF MphTypeOK
<1>8. DOMAIN positions' = DOMAIN positions \cup Items(b)
  OBVIOUS
<1>9. \A k \in Items(b) : positions'[k] = At(k, s)
  BY <1>8
<1>10. \A k \in DOMAIN positions : k \notin Items(b) => positions'[k] = positions[k]
  BY <1>8
<1>11. \A k \in Items(b) : k \in DOMAIN unique /\ Bucket(k) = b
  BY DEF Items
<1>12. b \in todo
  BY DEF Largest
<1>13. \A k \in DOMAIN positions : k \notin Items(b) /\ Bucket(k) # b
  BY <1>1, <1>11, <1>12 DEF Placed
<1>14. MphTypeOK'
  <2>1. \A k \in DOMAIN positions' : positions'[k] \in 0 .. size' - 1
    <3> SUFFICES ASSUME NEW k \in DOMAIN positions' PROVE positions'[k] \in 0 .. size - 1
      BY <1>2
    <3>1. CASE k \in Items(b)
      BY <3>1, <1>1, <1>4, <1>5, <1>9, <1>11, AtRange
    <3>2. CASE k \in DOMAIN positions
      BY <3>2, <1>1, <1>10, <1>13 DEF MphTypeOK
    <3> QED
      BY <3>1, <3>2, <1>8
  <2>2. DOMAIN positions' \subseteq DOMAIN unique'
    BY <1>2, <1>5, <1>8, <1>11 DEF Same
  <2>3. todo' \subseteq Filled'
    BY <1>1, <1>3 DEF MphTypeOK
  <2>4. hash' \in [Keys -> [0 .. MaxSeed - 1 -> Nat]] /\ unique' \in Table
        /\ stage' \in {"building", "built", "refused"} /\ size' \in Nat /\ size' > 0
    BY <1>1, <1>2 DEF MphTypeOK, Same
  <2> QED
    BY <2>1, <2>2, <2>3, <2>4, <1>3, <1>7 DEF MphTypeOK
<1>15. Placed'
  <2>1. DOMAIN positions' = {k \in DOMAIN unique' : Bucket(k)' \notin todo'}
    <3>1. DOMAIN positions' = {k \in DOMAIN unique : Bucket(k) \notin todo \ {b}}
      BY <1>1, <1>8 DEF Placed, Items
    <3> QED
      BY <3>1, <1>2, <1>3 DEF Same
  <2>2. \A k \in DOMAIN positions' : positions'[k] = At(k, seeds'[Bucket(k)])
    <3> SUFFICES ASSUME NEW k \in DOMAIN positions' PROVE positions'[k] = At(k, seeds'[Bucket(k)])
      OBVIOUS
    <3>1. CASE k \in Items(b)
      BY <3>1, <1>7, <1>9, <1>11
    <3>2. CASE k \in DOMAIN positions
      <4>1. Bucket(k) \in Buckets /\ Bucket(k) # b
        BY <3>2, <1>5, <1>13 DEF Buckets
      <4>2. seeds'[Bucket(k)] = seeds[Bucket(k)]
        BY <4>1, <1>7
      <4> QED
        BY <3>2, <4>2, <1>1, <1>10, <1>13 DEF Placed
    <3> QED
      BY <3>1, <3>2, <1>8
  <2>3. \A k \in DOMAIN positions' : positions'[k] = At(k, seeds[Bucket(k)])'
    BY <2>2, <1>2, <1>3 DEF At, Same
  <2>4. \A k, l \in DOMAIN positions' : positions'[k] = positions'[l] => k = l
    <3> SUFFICES ASSUME NEW k \in DOMAIN positions', NEW l \in DOMAIN positions',
                        positions'[k] = positions'[l]
                 PROVE  k = l
      OBVIOUS
    <3>1. CASE k \in Items(b) /\ l \in Items(b)
      BY <3>1, <1>9 DEF Fits
    <3>2. CASE k \in Items(b) /\ l \in DOMAIN positions
      BY <3>2, <1>9, <1>10, <1>13 DEF Fits
    <3>3. CASE k \in DOMAIN positions /\ l \in Items(b)
      BY <3>3, <1>9, <1>10, <1>13 DEF Fits
    <3>4. CASE k \in DOMAIN positions /\ l \in DOMAIN positions
      BY <3>4, <1>1, <1>10, <1>13 DEF Placed
    <3> QED
      BY <3>1, <3>2, <3>3, <3>4, <1>8
  <2> QED
    BY <2>1, <2>3, <2>4 DEF Placed
<1>16. FindsExactlyItsKeys'
  BY <1>2 DEF FindsExactlyItsKeys
<1> QED
  BY <1>1, <1>2, <1>14, <1>15, <1>16 DEF Inv, EmptyMph, NoKeys

\* A larger table starts out empty.
LEMMA EnlargeInv ==
    ASSUME Inv, NEW b \in Buckets, Enlarge(b)
    PROVE  Inv'
<1> USE DEF Enlarge
<1>1. MphTypeOK /\ mph = EmptyMph /\ N \in Nat
  BY Count DEF Inv, MphTypeOK
<1>2. Same /\ stage' = "building" /\ mph' = mph
  BY DEF Same
<1>3. /\ N' = N /\ Buckets' = Buckets /\ Filled' = Filled
      /\ \A k : Bucket(k)' = Bucket(k)
  BY <1>2, SameBuckets
<1>4. DOMAIN positions' = {}
  BY DEF NoKeys
<1>5. size' \in Nat /\ size' > 0
  <2>1. N \div 8 \in Nat /\ size \in Nat
    BY <1>1 DEF MphTypeOK
  <2> QED
    BY <2>1
<1>6. seeds' \in [Buckets -> 0 .. MaxSeed - 1]
  BY MphAssumption
<1>7. MphTypeOK'
  <2>1. hash' \in [Keys -> [0 .. MaxSeed - 1 -> Nat]] /\ unique' \in Table
    BY <1>1, <1>2 DEF MphTypeOK, Same
  <2> QED
    BY <2>1, <1>2, <1>3, <1>4, <1>5, <1>6 DEF MphTypeOK
<1>8. Placed'
  <2>1. \A k \in DOMAIN unique' : Bucket(k)' \in todo'
    BY <1>2, <1>3 DEF Same, Filled
  <2> QED
    BY <2>1, <1>4 DEF Placed
<1>9. FindsExactlyItsKeys'
  BY <1>2 DEF FindsExactlyItsKeys
<1> QED
  BY <1>1, <1>2, <1>7, <1>8, <1>9 DEF Inv, EmptyMph, NoKeys

\* A table with a seed for every bucket finds each key where it was placed; a key
\* that is not in it leads to a free slot or to another key's.
LEMMA PublishInv ==
    ASSUME Inv, Publish
    PROVE  Inv'
<1> USE DEF Publish
<1>1. MphTypeOK /\ Placed /\ size \in Nat /\ size > 0
  BY DEF Inv, MphTypeOK
<1>2. Same /\ stage' = "built" /\ size' = size /\ seeds' = seeds /\ positions' = positions
      /\ todo' = todo
  BY DEF Same
<1>3. /\ N' = N /\ Buckets' = Buckets /\ Filled' = Filled
      /\ \A k : Bucket(k)' = Bucket(k)
  BY <1>2, SameBuckets
<1>4. MphTypeOK'
  BY <1>1, <1>2, <1>3 DEF MphTypeOK, Same
<1>5. DOMAIN positions = DOMAIN unique
  BY <1>1 DEF Placed
<1>6. mph'.size = size /\ mph'.seeds = seeds
      /\ mph'.slots = [p \in {positions[k] : k \in DOMAIN positions} |->
                          CHOOSE k \in DOMAIN positions : positions[k] = p]
  OBVIOUS
<1>7. \A k \in Keys : Find(k)' = IF k \in DOMAIN unique THEN unique[k] ELSE "none"
  <2> SUFFICES ASSUME NEW k \in Keys
               PROVE  Find(k)' = IF k \in DOMAIN unique THEN unique[k] ELSE "none"
    OBVIOUS
  <2>1. PICK p : p = At(k, seeds[Bucket(k)])
    OBVIOUS
  <2>2. p = hash'[k][mph'.seeds[Bucket(k)']] % mph'.size
    BY <2>1, <1>2, <1>3, <1>6 DEF At, Same
  <2>3. Find(k)' = IF mph'.size # 0 /\ p \in DOMAIN mph'.slots /\ mph'.slots[p] = k
                   THEN unique[k] ELSE "none"
    BY <2>2, <1>2 DEF Find, Same
  <2>4. CASE k \in DOMAIN unique
    <3>1. p = positions[k] /\ k \in DOMAIN positions
      BY <2>1, <2>4, <1>1, <1>5 DEF Placed
    <3>2. p \in DOMAIN mph'.slots /\ mph'.slots[p] = CHOOSE l \in DOMAIN positions : positions[l] = p
      BY <3>1, <1>6
    <3>3. mph'.slots[p] \in DOMAIN positions /\ positions[mph'.slots[p]] = p
      BY <3>1, <3>2
    <3>4. mph'.slots[p] = k
      BY <3>1, <3>3, <1>1 DEF Placed
    <3> QED
      BY <3>2, <3>4, <2>3, <2>4, <1>1, <1>6
  <2>5. CASE k \notin DOMAIN unique
    <3>1. p \in DOMAIN mph'.slots => mph'.slots[p] \in DOMAIN positions
      BY <1>6
    <3> QED
      BY <3>1, <2>3, <2>5, <1>5
  <2> QED
    BY <2>4, <2>5
<1>8. FindsExactlyItsKeys'
  BY <1>7, <1>2 DEF FindsExactlyItsKeys, Same
<1> QED
  BY <1>2, <1>4, <1>8 DEF Inv

\* When a table is refused nothing is published.
LEMMA RefuseInv ==
    ASSUME Inv, NEW b \in Buckets, RefuseTable(b)
    PROVE  Inv'
<1> USE DEF RefuseTable
<1>1. MphTypeOK /\ size > 0
  BY DEF Inv, MphTypeOK
<1>2. Same
  BY DEF Same
<1>3. /\ Buckets' = Buckets /\ Filled' = Filled
  BY <1>2, SameBuckets
<1>4. MphTypeOK'
  BY <1>1, <1>2, <1>3 DEF MphTypeOK, Same
<1>5. FindsExactlyItsKeys'
  BY DEF FindsExactlyItsKeys
<1> QED
  BY <1>4, <1>5 DEF Inv

\* The invariant is kept by every step.
LEMMA NextInv == Inv /\ [MphNext]_mphVars => Inv'
<1> SUFFICES ASSUME Inv, [MphNext]_mphVars PROVE Inv'
  OBVIOUS
<1>1. CASE \E b \in Buckets : Enlarge(b)
  BY <1>1, EnlargeInv
<1>2. CASE \E b \in Buckets : RefuseTable(b)
  BY <1>2, RefuseInv
<1>3. CASE \E b \in Buckets, s \in Seeds : Place(b, s)
  BY <1>3, PlaceInv
<1>4. CASE Publish
  BY <1>4, PublishInv
<1>5. CASE UNCHANGED mphVars
  BY <1>5 DEF mphVars, Inv, MphTypeOK, Placed, FindsExactlyItsKeys, Find, Bucket, At, N,
              Buckets, Filled
<1> QED
  BY <1>1, <1>2, <1>3, <1>4, <1>5 DEF MphNext

-----------------------------------------------------------------------------
\* Every part of the construction is of its kind, for any hash and any keys.
THEOREM TypeCorrect == MphSpec => []MphTypeOK
<1>1. Inv => MphTypeOK
  BY DEF Inv
<1> QED
  BY InitInv, NextInv, <1>1, PTL DEF MphSpec

\* A table that is built finds each of its keys with its flag and finds nothing
\* else: ngx_stream_mtrojan_route_rules_domain_mph_find answers for the rules.
THEOREM MphCorrect == MphSpec => []FindsExactlyItsKeys
<1>1. Inv => FindsExactlyItsKeys
  BY DEF Inv
<1> QED
  BY InitInv, NextInv, <1>1, PTL DEF MphSpec
=============================================================================
