--------------------------- MODULE SchedulerProofs --------------------------
(***************************************************************************)
(* Proofs about Scheduler.  First what the planner's helpers return, then  *)
(* the inductive invariant of the loop, then the theorems.                 *)
(***************************************************************************)
EXTENDS Scheduler, FiniteSetTheorems, WellFoundedInduction, TLAPS

----------------------------------------------------------------------------
(* The order of keys.                                                      *)

\* Keys of n numbers, which tell the elements of S apart.
Keyed(S, key, n) ==
    /\ n \in Nat /\ key \in [S -> [1 .. n -> Int]]
    /\ \A x, y \in S : key[x] = key[y] => x = y

\* Every nonempty set of naturals has a least element.
LEMMA LeastNatural ==
    ASSUME NEW S \in SUBSET Nat, S # {}
    PROVE  \E m \in S : \A x \in S : m <= x
<1> DEFINE R == OpToRel(<, Nat)
<1>1. IsWellFoundedOn(R, Nat)
  BY NatLessThanWellFounded
<1>2. PICK x \in S : \A y \in S : ~(<<y, x>> \in R)
  <2> HIDE DEF R
  <2> QED
    BY <1>1, WFMin
<1>3. \A y \in S : ~(y < x)
  BY <1>2 DEF OpToRel
<1> QED
  BY <1>3

\* No key comes before itself.
LEMMA BeforeIrreflexive ==
    ASSUME NEW n \in Nat, NEW k \in [1 .. n -> Int]
    PROVE  ~Before(k, k)
  BY DEF Before

\* One of two different keys comes before the other: the least position at which they
\* differ decides.
LEMMA BeforeTotal ==
    ASSUME NEW n \in Nat, NEW k \in [1 .. n -> Int], NEW l \in [1 .. n -> Int], k # l
    PROVE  Before(k, l) \/ Before(l, k)
<1> DEFINE D == {i \in 1 .. n : k[i] # l[i]}
<1>1. D # {} /\ D \in SUBSET Nat
  OBVIOUS
<1>2. PICK i \in D : \A j \in D : i <= j
  BY <1>1, LeastNatural
<1>3. \A j \in 1 .. i - 1 : k[j] = l[j]
  BY <1>2
<1>4. k[i] < l[i] \/ l[i] < k[i]
  BY <1>2
<1>5. i \in DOMAIN k /\ i \in DOMAIN l /\ \A j \in 1 .. i - 1 : l[j] = k[j]
  BY <1>2, <1>3
<1> QED
  BY <1>3, <1>4, <1>5 DEF Before

\* The order is transitive: the lesser of the two positions decides.
LEMMA BeforeTransitive ==
    ASSUME NEW n \in Nat, NEW k \in [1 .. n -> Int], NEW l \in [1 .. n -> Int],
           NEW m \in [1 .. n -> Int], Before(k, l), Before(l, m)
    PROVE  Before(k, m)
<1>1. PICK a \in 1 .. n : k[a] < l[a] /\ \A j \in 1 .. a - 1 : k[j] = l[j]
  BY DEF Before
<1>2. PICK b \in 1 .. n : l[b] < m[b] /\ \A j \in 1 .. b - 1 : l[j] = m[j]
  BY DEF Before
<1>3. CASE a < b
  <2>1. k[a] < m[a] /\ \A j \in 1 .. a - 1 : k[j] = m[j]
    BY <1>1, <1>2, <1>3
  <2> QED
    BY <2>1 DEF Before
<1>4. CASE b < a
  <2>1. k[b] < m[b] /\ \A j \in 1 .. b - 1 : k[j] = m[j]
    BY <1>1, <1>2, <1>4
  <2> QED
    BY <2>1 DEF Before
<1>5. CASE a = b
  <2>1. k[a] < m[a] /\ \A j \in 1 .. a - 1 : k[j] = m[j]
    <3>1. k[a] \in Int /\ l[a] \in Int /\ m[a] \in Int
      OBVIOUS
    <3> QED
      BY <1>1, <1>2, <1>5, <3>1
  <2> QED
    BY <2>1 DEF Before
<1> QED
  BY <1>3, <1>4, <1>5

----------------------------------------------------------------------------
(* Ranks, and what MinBy and Sorted return.                                *)

\* Ranks are naturals, and grow with the order.
LEMMA RankGrows ==
    ASSUME NEW S, IsFiniteSet(S), NEW key, NEW n, Keyed(S, key, n),
           NEW x \in S, NEW y \in S, Before(key[x], key[y])
    PROVE  rank(S, key, x) \in Nat /\ rank(S, key, y) \in Nat /\ rank(S, key, x) < rank(S, key, y)
<1> DEFINE A == {z \in S : Before(key[z], key[x])}
           B == {z \in S : Before(key[z], key[y])}
<1>1. A \subseteq B
  <2>1. SUFFICES ASSUME NEW z \in S, Before(key[z], key[x]) PROVE Before(key[z], key[y])
    OBVIOUS
  <2> QED
    BY <2>1, BeforeTransitive DEF Keyed
<1>2. x \in B /\ x \notin A
  BY BeforeIrreflexive DEF Keyed
<1>3. IsFiniteSet(B)
  <2>1. B \in SUBSET S
    OBVIOUS
  <2> QED
    BY <2>1, FS_Subset
<1>4. IsFiniteSet(A) /\ Cardinality(A) <= Cardinality(B) /\ Cardinality(A) # Cardinality(B)
  BY <1>1, <1>2, <1>3, FS_Subset
<1>5. Cardinality(A) \in Nat /\ Cardinality(B) \in Nat
  BY <1>3, <1>4, FS_CardinalityType
<1> QED
  BY <1>4, <1>5 DEF rank

\* Every rank is below the number of elements.
LEMMA RankBelow ==
    ASSUME NEW S, IsFiniteSet(S), NEW key, NEW n, Keyed(S, key, n), NEW x \in S
    PROVE  rank(S, key, x) \in 0 .. Cardinality(S) - 1
<1> DEFINE A == {z \in S : Before(key[z], key[x])}
<1>1. A \in SUBSET S /\ x \notin A
  BY BeforeIrreflexive DEF Keyed
<1>2. IsFiniteSet(A) /\ Cardinality(A) <= Cardinality(S) /\ Cardinality(A) # Cardinality(S)
  BY <1>1, FS_Subset
<1>3. Cardinality(A) \in Nat /\ Cardinality(S) \in Nat
  BY <1>2, FS_CardinalityType
<1> QED
  BY <1>2, <1>3 DEF rank

\* MinBy picks an element, whenever there is one.
LEMMA MinByPicks ==
    ASSUME NEW S, IsFiniteSet(S), S # {}, NEW key, NEW n, Keyed(S, key, n)
    PROVE  MinBy(S, key) \in S
<1> DEFINE R == {rank(S, key, x) : x \in S}
<1>1. R \in SUBSET Nat /\ R # {}
  BY RankBelow
<1>2. PICK m \in R : \A r \in R : m <= r
  BY <1>1, LeastNatural
<1>3. PICK x \in S : rank(S, key, x) = m
  BY <1>2
<1>4. ASSUME NEW y \in S \ {x} PROVE Before(key[x], key[y])
  <2>1. ~Before(key[y], key[x])
    <3>1. rank(S, key, y) \in R
      OBVIOUS
    <3>2. m <= rank(S, key, y)
      BY <1>2, <3>1
    <3> HIDE DEF R
    <3> QED
      BY <1>3, <3>2, RankGrows
  <2>2. key[x] # key[y]
    BY <1>4 DEF Keyed
  <2> QED
    BY <2>1, <2>2, BeforeTotal DEF Keyed
<1> QED
  BY <1>3, <1>4 DEF MinBy

\* Every rank below the number of elements is taken.
LEMMA RanksOnto ==
    ASSUME NEW S, IsFiniteSet(S), NEW key, NEW n, Keyed(S, key, n),
           NEW r \in 0 .. Cardinality(S) - 1
    PROVE  \E x \in S : rank(S, key, x) = r
<1> DEFINE f == [x \in S |-> rank(S, key, x)]
           T == 0 .. Cardinality(S) - 1
<1>1. Cardinality(S) \in Nat
  BY FS_CardinalityType
<1>2. IsFiniteSet(T) /\ Cardinality(T) = Cardinality(S)
  <2> DEFINE top == Cardinality(S) - 1
  <2>1. top \in Int /\ 0 \in Int
    BY <1>1
  <2>2. IsFiniteSet(0 .. top) /\ Cardinality(0 .. top) = IF 0 > top THEN 0 ELSE top - 0 + 1
    <3> HIDE DEF top
    <3> QED
      BY ONLY <2>1, FS_Interval
  <2> QED
    BY <1>1, <2>2
<1>3. f \in [S -> T]
  BY RankBelow
<1>4. ASSUME NEW x \in S, NEW y \in S, f[x] = f[y] PROVE x = y
  <2>1. rank(S, key, x) = rank(S, key, y)
    BY <1>4
  <2>2. ~Before(key[x], key[y]) /\ ~Before(key[y], key[x])
    BY <2>1, RankGrows
  <2>3. key[x] = key[y]
    BY <2>2, BeforeTotal DEF Keyed
  <2> QED
    BY <2>3 DEF Keyed
<1>5. f \in Injection(S, T)
  BY <1>3, <1>4 DEF Injection, IsInjective
<1>6. f \in Surjection(S, T)
  BY <1>2, <1>5, FS_Injection
<1> QED
  BY <1>6 DEF Surjection

\* Sorted lists every element once.
LEMMA SortedLists ==
    ASSUME NEW S, IsFiniteSet(S), NEW key, NEW n, Keyed(S, key, n)
    PROVE  /\ Cardinality(S) \in Nat
           /\ Sorted(S, key) \in [1 .. Cardinality(S) -> S]
           /\ IsInjective(Sorted(S, key))
           /\ \A x \in S : \E k \in 1 .. Cardinality(S) : Sorted(S, key)[k] = x
<1> DEFINE f == Sorted(S, key)
           c == Cardinality(S)
<1>1. c \in Nat
  BY FS_CardinalityType
<1>2. ASSUME NEW k \in 1 .. c PROVE f[k] \in S /\ rank(S, key, f[k]) = k - 1
  <2>1. k - 1 \in 0 .. c - 1
    BY <1>1
  <2>2. \E x \in S : rank(S, key, x) = k - 1
    BY <2>1, RanksOnto
  <2>3. f[k] = CHOOSE x \in S : rank(S, key, x) = k - 1
    BY DEF Sorted
  <2> QED
    BY <2>2, <2>3
<1>3. DOMAIN f = 1 .. c
  BY DEF Sorted
<1>4. f \in [1 .. c -> S]
  BY <1>2 DEF Sorted
<1>5. IsInjective(f)
  <2> SUFFICES ASSUME NEW k \in 1 .. c, NEW l \in 1 .. c, f[k] = f[l] PROVE k = l
    BY <1>3 DEF IsInjective
  <2>1. k - 1 = l - 1
    BY <1>2
  <2> QED
    BY <1>1, <2>1
<1>6. ASSUME NEW x \in S PROVE \E k \in 1 .. c : f[k] = x
  <2>1. rank(S, key, x) \in 0 .. c - 1
    BY RankBelow
  <2> DEFINE k == rank(S, key, x) + 1
  <2>2. k \in 1 .. c /\ k - 1 = rank(S, key, x)
    BY <1>1, <2>1
  <2>3. f[k] \in S /\ rank(S, key, f[k]) = rank(S, key, x)
    BY <1>2, <2>2
  <2>4. key[f[k]] = key[x]
    <3>1. ~Before(key[f[k]], key[x]) /\ ~Before(key[x], key[f[k]])
      BY <2>3, RankGrows
    <3> QED
      BY <2>3, <3>1, BeforeTotal DEF Keyed
  <2>5. f[k] = x
    BY <2>3, <2>4 DEF Keyed
  <2> QED
    BY <2>2, <2>5
<1> QED
  BY <1>1, <1>4, <1>5, <1>6

----------------------------------------------------------------------------
(* What the planner returns: lists of different candidates.                *)

\* The lists of different elements of A.
Lists(A) == {s \in Seq(A) : IsInjective(s)}

\* Only healthy ids are retained, and none becomes a duplicate.
LEMMA RetainLists ==
    ASSUME NEW A, NEW ids \in Lists(A), NEW healthy
    PROVE  retain(ids, healthy) \in Lists(healthy)
<1> DEFINE places == {i \in DOMAIN ids : ids[i] \in healthy}
           key == [i \in places |-> <<i>>]
           order == Sorted(places, key)
           c == Cardinality(places)
<1>1. DOMAIN ids = 1 .. Len(ids) /\ Len(ids) \in Nat /\ IsInjective(ids)
  BY DEF Lists
<1>2. IsFiniteSet(places)
  <2>1. IsFiniteSet(1 .. Len(ids))
    BY <1>1, FS_Interval
  <2>2. places \in SUBSET (1 .. Len(ids))
    BY <1>1
  <2> QED
    BY <2>1, <2>2, FS_Subset
<1>3. Keyed(places, key, 1)
  <2>1. ASSUME NEW i \in places PROVE <<i>> \in [1 .. 1 -> Int]
    BY <1>1
  <2>2. ASSUME NEW i \in places, NEW j \in places, <<i>> = <<j>> PROVE i = j
    BY <2>2
  <2> QED
    BY <2>1, <2>2 DEF Keyed
<1>4. c \in Nat /\ order \in [1 .. c -> places] /\ IsInjective(order)
  <2> HIDE DEF key, places
  <2> QED
    BY <1>2, <1>3, SortedLists
<1> DEFINE r == [k \in DOMAIN order |-> ids[order[k]]]
<1>5. retain(ids, healthy) = r
  BY DEF retain
<1> HIDE DEF order
<1>6. r \in Seq(healthy) /\ DOMAIN r = 1 .. c
  <2>1. ASSUME NEW k \in 1 .. c PROVE ids[order[k]] \in healthy
    BY <1>4
  <2>2. r \in [1 .. c -> healthy]
    BY <1>4, <2>1
  <2> QED
    BY <1>4, <2>2
<1>7. ASSUME NEW k \in 1 .. c, NEW l \in 1 .. c, r[k] = r[l] PROVE k = l
  <2>1. order[k] \in DOMAIN ids /\ order[l] \in DOMAIN ids /\ ids[order[k]] = ids[order[l]]
    BY <1>4, <1>7
  <2>2. order[k] = order[l]
    BY <1>1, <2>1 DEF IsInjective
  <2> QED
    BY <1>4, <2>2 DEF IsInjective
<1>8. r \in Seq(healthy) /\ IsInjective(r)
  <2> HIDE DEF r
  <2> QED
    BY <1>6, <1>7 DEF IsInjective
<1> QED
  BY <1>5, <1>8 DEF Lists

\* The number of failure domains of a list is a natural.
LEMMA DomainCount ==
    ASSUME NEW A, NEW ids \in Seq(A), NEW domain
    PROVE  domain_count(ids, domain) \in Nat
<1> DEFINE f == [i \in 1 .. Len(ids) |-> domain[ids[i]]]
           T == {domain[n] : n \in Range(ids)}
<1>1. Len(ids) \in Nat /\ DOMAIN ids = 1 .. Len(ids)
  OBVIOUS
<1>2. f \in Surjection(1 .. Len(ids), T)
  BY <1>1 DEF Surjection, Range
<1>3. IsFiniteSet(1 .. Len(ids))
  BY <1>1, FS_Interval
<1>4. IsFiniteSet(T)
  <2> HIDE DEF f, T
  <2> QED
    BY <1>2, <1>3, FS_Surjection
<1> QED
  BY <1>4, FS_CardinalityType DEF domain_count

\* What a step of the fill makes of a list of candidates.
Added(chosen, r, healthy, rf) ==
    /\ r \in Lists(healthy)
    /\ Len(r) >= rf \/ healthy \subseteq Range(r) \/ Len(r) = Len(chosen) + 1
    /\ Len(chosen) >= rf \/ healthy \subseteq Range(chosen) => r = chosen

\* A step of the fill adds a candidate that is not chosen yet, unless there are rf
\* replicas or no more candidates.
LEMMA AddReplica ==
    ASSUME NEW healthy, IsFiniteSet(healthy), healthy \subseteq Int, NEW domain,
           NEW load \in [healthy -> Int], NEW rf \in Nat, NEW chosen \in Lists(healthy),
           NEW r, r = add_replica(chosen, healthy, domain, load, rf)
    PROVE  Added(chosen, r, healthy, rf)
<1> DEFINE remaining == healthy \ Range(chosen)
           used == {domain[n] : n \in Range(chosen)}
           key == [n \in remaining |-> <<Flag(domain[n] \in used), load[n], n>>]
<1>1. chosen \in Seq(healthy) /\ IsInjective(chosen) /\ Len(chosen) \in Nat
  BY DEF Lists
<1>2. CASE Len(chosen) >= rf \/ remaining = {}
  <2>1. r = chosen
    BY <1>2 DEF add_replica
  <2>2. Len(chosen) >= rf \/ healthy \subseteq Range(chosen)
    BY <1>2
  <2> QED
    BY <2>1, <2>2 DEF Added
<1>3. CASE ~(Len(chosen) >= rf \/ remaining = {})
  <2> DEFINE x == MinBy(remaining, key)
  <2>1. Keyed(remaining, key, 3)
    <3>1. ASSUME NEW n \in remaining PROVE key[n] \in [1 .. 3 -> Int] /\ key[n][3] = n
      <4>1. Flag(domain[n] \in used) \in Int /\ load[n] \in Int /\ n \in Int
        BY DEF Flag
      <4>2. key[n] = <<Flag(domain[n] \in used), load[n], n>>
        OBVIOUS
      <4> HIDE DEF key
      <4> QED
        BY ONLY <4>1, <4>2
    <3> HIDE DEF remaining
    <3>2. DOMAIN key = remaining
      OBVIOUS
    <3> QED
      BY <3>1 DEF Keyed
  <2>2. IsFiniteSet(remaining)
    BY FS_Difference
  <2>3. x \in remaining
    <3> HIDE DEF remaining, key
    <3> QED
      BY <1>3, <2>1, <2>2, MinByPicks
  <2>4. r = Append(chosen, x)
    BY <1>3 DEF add_replica
  <2> HIDE DEF x
  <2>5. r \in Seq(healthy) /\ Len(r) = Len(chosen) + 1
    BY <1>1, <2>3, <2>4
  <2>6. ASSUME NEW a \in 1 .. Len(r), NEW b \in 1 .. Len(r), r[a] = r[b] PROVE a = b
    <3>1. \A i \in 1 .. Len(chosen) : chosen[i] # x
      BY <1>1, <2>3 DEF Range
    <3>2. \A i \in 1 .. Len(chosen) : r[i] = chosen[i]
      BY <1>1, <2>4
    <3>3. r[Len(chosen) + 1] = x
      BY <1>1, <2>4
    <3>4. CASE a \in 1 .. Len(chosen) /\ b \in 1 .. Len(chosen)
      BY <1>1, <2>6, <3>2, <3>4 DEF IsInjective
    <3>5. CASE a = Len(chosen) + 1 \/ b = Len(chosen) + 1
      BY <1>1, <2>5, <2>6, <3>1, <3>2, <3>3, <3>5
    <3> QED
      BY <1>1, <2>5, <3>4, <3>5
  <2>7. r \in Lists(healthy)
    BY <2>5, <2>6 DEF Lists, IsInjective
  <2> QED
    BY <1>3, <2>7, <2>5 DEF Added
<1> QED
  BY <1>2, <1>3

\* The fill returns as many different candidates as there should be, or all there are.
LEMMA FillLists ==
    ASSUME NEW healthy, IsFiniteSet(healthy), healthy \subseteq Int, NEW domain,
           NEW load \in [healthy -> Int], NEW rf \in Nat, NEW kept \in Lists(healthy),
           NEW r, r = fill(kept, healthy, domain, load, rf)
    PROVE  r \in Lists(healthy) /\ (Len(r) >= rf \/ healthy \subseteq Range(r))
<1> DEFINE Step(x) == add_replica(x, healthy, domain, load, rf)
           Filled(f, m) == f[0] = kept /\ \A k \in 1 .. m : f[k] = Step(f[k - 1])
           Runs(m) == \E f : DOMAIN f = 0 .. m /\ Filled(f, m)
           Rest == {m \in 0 .. rf : ~Runs(m)}
           F == CHOOSE f : f = [k \in 0 .. rf |-> IF k = 0 THEN kept ELSE Step(f[k - 1])]
\* The recursive definition has a solution: a shortest one without would extend one with.
<1>1. Runs(rf)
  <2> SUFFICES ASSUME Rest # {} PROVE FALSE
    OBVIOUS
  <2>1. PICK m \in Rest : \A k \in Rest : m <= k
    <3>1. Rest \in SUBSET Nat
      OBVIOUS
    <3> HIDE DEF Rest
    <3> QED
      BY <3>1, LeastNatural
  <2>2. m # 0
    <3> DEFINE f == [k \in 0 .. 0 |-> kept]
    <3>1. DOMAIN f = 0 .. 0 /\ f[0] = kept
      OBVIOUS
    <3>2. \A k \in 1 .. 0 : f[k] = Step(f[k - 1])
      OBVIOUS
    <3> HIDE DEF f, Step
    <3>3. Runs(0)
      BY <3>1, <3>2
    <3> HIDE DEF Runs
    <3> QED
      BY <2>1, <3>3
  <2>3. m - 1 \in 0 .. rf /\ m - 1 \notin Rest /\ m \in 0 .. rf
    <3> HIDE DEF Runs
    <3> QED
      BY <2>1, <2>2
  <2>4. PICK f : DOMAIN f = 0 .. m - 1 /\ Filled(f, m - 1)
    BY <2>3
  <2> DEFINE g == [k \in 0 .. m |-> IF k = m THEN Step(f[m - 1]) ELSE f[k]]
  <2> HIDE DEF Step
  <2>5. DOMAIN g = 0 .. m /\ g[0] = kept
    BY <2>2, <2>3, <2>4
  <2>6. ASSUME NEW k \in 1 .. m PROVE g[k] = Step(g[k - 1])
    <3>1. g[k - 1] = f[k - 1]
      BY <2>3
    <3>2. CASE k = m
      BY <2>3, <3>1, <3>2
    <3>3. CASE k # m
      <4>1. k \in 1 .. m - 1
        BY <2>3, <3>3
      <4>2. f[k] = Step(f[k - 1])
        BY <2>4, <4>1
      <4>3. g[k] = f[k]
        BY <3>3
      <4> QED
        BY <3>1, <4>2, <4>3
    <3> QED
      BY <3>2, <3>3
  <2>7. Runs(m)
    <3> HIDE DEF g
    <3> QED
      BY <2>5, <2>6
  <2> HIDE DEF Runs
  <2> QED
    BY <2>1, <2>7
<1>2. Filled(F, rf)
  <2>1. PICK f : DOMAIN f = 0 .. rf /\ Filled(f, rf)
    BY <1>1
  <2> HIDE DEF Step
  <2> DEFINE g == [k \in 0 .. rf |-> f[k]]
  <2>2. g = [k \in 0 .. rf |-> IF k = 0 THEN kept ELSE Step(g[k - 1])]
    <3>1. ASSUME NEW k \in 0 .. rf PROVE g[k] = IF k = 0 THEN kept ELSE Step(g[k - 1])
      <4>1. CASE k = 0
        BY <2>1, <4>1
      <4>2. CASE k # 0
        <5>1. k \in 1 .. rf /\ k - 1 \in 0 .. rf
          BY <4>2
        <5> QED
          BY <2>1, <4>2, <5>1
      <4> QED
        BY <4>1, <4>2
    <3> QED
      BY <3>1
  <2>3. F = [k \in 0 .. rf |-> IF k = 0 THEN kept ELSE Step(F[k - 1])]
    <3> HIDE DEF g
    <3> QED
      BY <2>2
  <2> HIDE DEF F
  <2> QED
    BY <2>3
<1>3. r = F[rf]
  BY DEF fill
<1> HIDE DEF F, Runs, Rest
<1> DEFINE Fine(x, k) == x \in Lists(healthy) /\ (Len(x) >= k \/ Len(x) >= rf \/ healthy \subseteq Range(x))
           Bad == {k \in 0 .. rf : ~Fine(F[k], k)}
<1>4. Bad = {}
  <2> SUFFICES ASSUME Bad # {} PROVE FALSE
    OBVIOUS
  <2>1. PICK m \in Bad : \A k \in Bad : m <= k
    <3>1. Bad \in SUBSET Nat
      OBVIOUS
    <3> HIDE DEF Bad
    <3> QED
      BY <3>1, LeastNatural
  <2>2. m # 0
    <3>1. Fine(F[0], 0)
      <4>1. F[0] = kept /\ Len(kept) \in Nat
        BY <1>2 DEF Lists
      <4> QED
        BY <4>1
    <3> HIDE DEF Fine
    <3> QED
      BY <2>1, <3>1
  <2>3. m \in 1 .. rf /\ m - 1 \in 0 .. rf /\ Fine(F[m - 1], m - 1)
    <3> HIDE DEF Fine
    <3> QED
      BY <2>1, <2>2
  <2>4. F[m] = add_replica(F[m - 1], healthy, domain, load, rf)
    BY <1>2, <2>3
  <2>5. /\ F[m] \in Lists(healthy)
        /\ Len(F[m]) >= rf \/ healthy \subseteq Range(F[m]) \/ Len(F[m]) = Len(F[m - 1]) + 1
        /\ Len(F[m - 1]) >= rf \/ healthy \subseteq Range(F[m - 1]) => F[m] = F[m - 1]
    <3>1. F[m - 1] \in Lists(healthy)
      BY <2>3
    <3> HIDE DEF Fine, Filled, Bad
    <3>2. Added(F[m - 1], F[m], healthy, rf)
      BY <2>4, <3>1, AddReplica
    <3> QED
      BY <3>2 DEF Added
  <2>6. Len(F[m]) \in Nat /\ Len(F[m - 1]) \in Nat
    BY <2>3, <2>5 DEF Lists
  <2>7. Fine(F[m], m)
    BY <2>3, <2>5, <2>6
  <2> HIDE DEF Fine
  <2> QED
    BY <2>1, <2>7
<1>5. Fine(F[rf], rf)
  <2> HIDE DEF Fine
  <2> QED
    BY <1>4
<1> QED
  BY <1>3, <1>5

\* Truncation keeps rf of the replicas.
LEMMA TruncateLists ==
    ASSUME NEW healthy, NEW load \in [healthy -> Int], NEW rf \in Nat, NEW chosen \in Lists(healthy),
           NEW r, r = truncate(chosen, load, rf)
    PROVE  /\ r \in Lists(healthy)
           /\ Range(r) \subseteq Range(chosen)
           /\ Len(r) = IF Len(chosen) <= rf THEN Len(chosen) ELSE rf
<1> DEFINE key == [i \in DOMAIN chosen |-> <<load[chosen[i]], i>>]
           order == Sorted(DOMAIN chosen, key)
<1>1. /\ chosen \in Seq(healthy) /\ IsInjective(chosen)
      /\ DOMAIN chosen = 1 .. Len(chosen) /\ Len(chosen) \in Nat
  BY DEF Lists
<1>2. CASE Len(chosen) <= rf
  BY <1>2 DEF truncate
<1>3. CASE ~(Len(chosen) <= rf)
  <2>1. IsFiniteSet(DOMAIN chosen) /\ Cardinality(DOMAIN chosen) = Len(chosen)
    <3>1. Len(chosen) \in Int /\ 1 \in Int
      BY <1>1
    <3>2. IsFiniteSet(1 .. Len(chosen))
          /\ Cardinality(1 .. Len(chosen)) = IF 1 > Len(chosen) THEN 0 ELSE Len(chosen) - 1 + 1
      BY ONLY <3>1, FS_Interval
    <3> QED
      BY <1>1, <3>2
  <2>2. Keyed(DOMAIN chosen, key, 2)
    <3>1. ASSUME NEW i \in DOMAIN chosen PROVE key[i] \in [1 .. 2 -> Int] /\ key[i][2] = i
      <4>1. load[chosen[i]] \in Int /\ i \in Int
        BY <1>1
      <4>2. key[i] = <<load[chosen[i]], i>>
        OBVIOUS
      <4> HIDE DEF key
      <4> QED
        BY ONLY <4>1, <4>2
    <3>2. DOMAIN key = DOMAIN chosen
      OBVIOUS
    <3> QED
      BY <3>1 DEF Keyed
  <2>3. order \in [1 .. Len(chosen) -> 1 .. Len(chosen)] /\ IsInjective(order)
    <3> HIDE DEF key
    <3> QED
      BY <1>1, <2>1, <2>2, SortedLists
  <2>4. r = [k \in 1 .. rf |-> chosen[order[k]]]
    BY <1>3 DEF truncate
  <2> HIDE DEF order
  <2>5. ASSUME NEW k \in 1 .. rf
        PROVE k \in DOMAIN order /\ order[k] \in 1 .. Len(chosen) /\ r[k] = chosen[order[k]]
    <3>1. k \in 1 .. Len(chosen)
      BY <1>1, <1>3
    <3> QED
      BY <2>3, <2>4, <3>1
  <2>6. r \in Seq(healthy) /\ Len(r) = rf /\ DOMAIN r = 1 .. rf
    <3>1. r \in [1 .. rf -> healthy]
      BY <1>1, <2>4, <2>5
    <3> QED
      BY <3>1
  <2>7. ASSUME NEW k \in 1 .. rf, NEW l \in 1 .. rf, r[k] = r[l] PROVE k = l
    <3>1. order[k] = order[l]
      BY <1>1, <2>5, <2>7 DEF IsInjective
    <3> QED
      BY <2>3, <2>5, <3>1 DEF IsInjective
  <2>8. Range(r) \subseteq Range(chosen)
    BY <1>1, <2>5, <2>6 DEF Range
  <2> QED
    BY <1>3, <2>6, <2>7, <2>8 DEF Lists, IsInjective
<1> QED
  BY <1>2, <1>3

\* A list of candidates as long as another one.
AsLong(r, chosen, healthy) == r \in Lists(healthy) /\ Len(r) = Len(chosen)

\* A swap puts a candidate in the place of a replica, never a duplicate.
LEMMA RebalanceLists ==
    ASSUME NEW healthy, IsFiniteSet(healthy), healthy \subseteq Int, NEW domain,
           NEW load \in [healthy -> Int], NEW rf \in Nat, NEW chosen \in Lists(healthy),
           NEW remaining \in SUBSET healthy, remaining \cap Range(chosen) = {}
    PROVE  AsLong(rebalance(chosen, remaining, domain, load, rf), chosen, healthy)
<1> SUFFICES ASSUME NEW r, r = rebalance(chosen, remaining, domain, load, rf)
             PROVE  r \in Lists(healthy) /\ Len(r) = Len(chosen)
  BY DEF AsLong
<1> DEFINE moves == swaps(chosen, remaining, domain, load)
           trial(m) == [chosen EXCEPT ![m[2]] = m[1]]
           key == [m \in moves |->
                     <<0 - domain_count(trial(m), domain), load[m[1]] - load[chosen[m[2]]],
                       0 - load[chosen[m[2]]], load[m[1]], m[1], chosen[m[2]]>>]
           best == MinBy(moves, key)
<1>1. /\ chosen \in Seq(healthy) /\ IsInjective(chosen)
      /\ DOMAIN chosen = 1 .. Len(chosen) /\ Len(chosen) \in Nat
  BY DEF Lists
<1>2. moves \in SUBSET (remaining \X DOMAIN chosen)
  BY DEF swaps
<1>3. CASE ~(Len(chosen) = rf /\ moves # {})
  <2>1. r = chosen
    BY <1>3 DEF rebalance
  <2> QED
    BY <2>1
<1>4. CASE Len(chosen) = rf /\ moves # {}
  <2>1. IsFiniteSet(moves)
    <3>1. IsFiniteSet(remaining)
      BY FS_Subset
    <3>2. IsFiniteSet(DOMAIN chosen)
      BY <1>1, FS_Interval
    <3>3. IsFiniteSet(remaining \X DOMAIN chosen)
      BY <3>1, <3>2, FS_Product
    <3> HIDE DEF moves
    <3> QED
      BY <1>2, <3>3, FS_Subset
  <2>2. Keyed(moves, key, 6)
    <3> HIDE DEF moves
    <3>1. ASSUME NEW m \in moves
          PROVE  key[m] \in [1 .. 6 -> Int] /\ key[m][5] = m[1] /\ key[m][6] = chosen[m[2]]
      <4>1. m[1] \in remaining /\ m[2] \in 1 .. Len(chosen) /\ chosen[m[2]] \in healthy
        BY <1>1, <1>2
      <4>2. trial(m) \in Seq(healthy)
        <5>1. chosen \in [1 .. Len(chosen) -> healthy]
          BY <1>1
        <5>2. m[1] \in healthy
          BY <4>1
        <5>3. trial(m) \in [1 .. Len(chosen) -> healthy]
          BY <4>1, <5>1, <5>2
        <5> HIDE DEF trial
        <5> QED
          BY <1>1, <5>3
      <4>3. domain_count(trial(m), domain) \in Int
        <5> HIDE DEF trial
        <5> QED
          BY <4>2, DomainCount
      <4>4. load[m[1]] \in Int /\ load[chosen[m[2]]] \in Int /\ m[1] \in Int /\ chosen[m[2]] \in Int
        BY <4>1
      <4>5. /\ 0 - domain_count(trial(m), domain) \in Int /\ load[m[1]] - load[chosen[m[2]]] \in Int
            /\ 0 - load[chosen[m[2]]] \in Int
        BY ONLY <4>3, <4>4
      <4>6. key[m] = <<0 - domain_count(trial(m), domain), load[m[1]] - load[chosen[m[2]]],
                       0 - load[chosen[m[2]]], load[m[1]], m[1], chosen[m[2]]>>
        OBVIOUS
      <4> HIDE DEF key
      <4> QED
        BY ONLY <4>4, <4>5, <4>6
    <3>2. key = [m \in moves |-> key[m]]
      OBVIOUS
    <3> HIDE DEF key
    <3>3. ASSUME NEW m \in moves, NEW o \in moves, key[m] = key[o] PROVE m = o
      <4>1. m[1] = o[1] /\ chosen[m[2]] = chosen[o[2]]
        BY <3>1, <3>3
      <4>2. m[2] \in DOMAIN chosen /\ o[2] \in DOMAIN chosen
        BY <1>2
      <4>3. m[2] = o[2]
        BY <1>1, <4>1, <4>2 DEF IsInjective
      <4> QED
        BY <1>2, <4>1, <4>3
    <3>4. key \in [moves -> [1 .. 6 -> Int]]
      BY <3>1, <3>2
    <3> QED
      BY <3>3, <3>4 DEF Keyed
  <2>3. best \in moves
    <3> HIDE DEF key, moves
    <3> QED
      BY <1>4, <2>1, <2>2, MinByPicks
  <2>4. r = [chosen EXCEPT ![best[2]] = best[1]]
    BY <1>4 DEF rebalance
  <2>5. best[1] \in healthy /\ best[1] \notin Range(chosen) /\ best[2] \in 1 .. Len(chosen)
    <3> HIDE DEF moves, best
    <3> QED
      BY <1>1, <1>2, <2>3
  <2> HIDE DEF best
  <2>6. r \in Seq(healthy) /\ Len(r) = Len(chosen) /\ DOMAIN r = DOMAIN chosen
    BY <1>1, <2>4, <2>5
  <2>7. ASSUME NEW a \in DOMAIN chosen, NEW b \in DOMAIN chosen, r[a] = r[b] PROVE a = b
    BY <1>1, <2>4, <2>5, <2>7 DEF IsInjective, Range
  <2> QED
    BY <2>6, <2>7 DEF Lists, IsInjective
<1> QED
  BY <1>3, <1>4

\* A list of different elements that covers a finite set is as long as the set is large.
LEMMA CoveringLength ==
    ASSUME NEW A, IsFiniteSet(A), NEW s \in Lists(A), A \subseteq Range(s)
    PROVE  Len(s) = Cardinality(A)
<1>1. s \in [1 .. Len(s) -> A] /\ Len(s) \in Nat /\ IsInjective(s)
  BY DEF Lists
<1>2. s \in Injection(1 .. Len(s), A)
  BY <1>1 DEF Injection
<1>3. s \in Surjection(1 .. Len(s), A)
  BY <1>1 DEF Surjection, Range
<1>4. Cardinality(1 .. Len(s)) = Cardinality(A)
  BY <1>2, <1>3, FS_Injection
<1>5. Cardinality(1 .. Len(s)) = Len(s)
  <2>1. Len(s) \in Int /\ 1 \in Int
    BY <1>1
  <2>2. Cardinality(1 .. Len(s)) = IF 1 > Len(s) THEN 0 ELSE Len(s) - 1 + 1
    BY ONLY <2>1, FS_Interval
  <2> QED
    BY <1>1, <2>2
<1> QED
  BY <1>4, <1>5

\* The plan for a shard is a list of different candidates: as many as a shard should
\* have, or all there are.
LEMMA PlanLists ==
    ASSUME NEW A, NEW old \in Lists(A), NEW healthy, IsFiniteSet(healthy), healthy \subseteq Int,
           NEW domain, NEW load \in [healthy -> Int], NEW rf \in Nat,
           NEW r, r = plan_replicas(old, healthy, domain, load, rf)
    PROVE  /\ r \in Lists(healthy) /\ Len(r) <= rf
           /\ Len(r) = rf \/ Len(r) = Cardinality(healthy)
<1> DEFINE kept == retain(old, healthy)
           full == fill(kept, healthy, domain, load, rf)
           remaining == healthy \ Range(full)
           short == truncate(full, load, rf)
<1>1. kept \in Lists(healthy)
  BY RetainLists
<1>2. full \in Lists(healthy) /\ (Len(full) >= rf \/ healthy \subseteq Range(full))
  <2> HIDE DEF kept
  <2> QED
    BY <1>1, FillLists
<1>3. Len(full) >= rf \/ Len(full) = Cardinality(healthy)
  <2> HIDE DEF full
  <2> QED
    BY <1>2, CoveringLength
<1>4. /\ short \in Lists(healthy) /\ Range(short) \subseteq Range(full)
      /\ Len(short) = IF Len(full) <= rf THEN Len(full) ELSE rf
  <2> HIDE DEF full, short
  <2>1. short = truncate(full, load, rf) /\ full \in Lists(healthy)
    BY <1>2 DEF short
  <2> QED
    BY ONLY <2>1, TruncateLists, load \in [healthy -> Int], rf \in Nat
<1>5. r = rebalance(short, remaining, domain, load, rf)
  BY DEF plan_replicas
<1>6. r \in Lists(healthy) /\ Len(r) = Len(short)
  <2>1. remaining \in SUBSET healthy /\ remaining \cap Range(short) = {}
    <3> HIDE DEF short, full
    <3> QED
      BY <1>4
  <2> HIDE DEF short, remaining
  <2>2. short \in Lists(healthy)
    BY <1>4
  <2>3. AsLong(rebalance(short, remaining, domain, load, rf), short, healthy)
    BY <2>1, <2>2, RebalanceLists
  <2> QED
    BY <1>5, <2>3 DEF AsLong
<1>7. Len(full) \in Nat
  BY <1>2 DEF Lists
<1> HIDE DEF full, short
<1> QED
  BY <1>3, <1>4, <1>6, <1>7

\* A shard with replicas among the candidates gets one of them as its leader.
LEMMA LeaderAmongReplicas ==
    ASSUME NEW healthy, IsFiniteSet(healthy), healthy \subseteq Int, NEW replicas \in Lists(healthy),
           replicas # <<>>, NEW policy, NEW location, NEW leader_load \in [healthy -> Int], NEW now_leads,
           NEW target, target = preferred_leader_for_policy(policy, replicas, healthy, location, leader_load, now_leads)
    PROVE  desired_leader(target, replicas, healthy, now_leads) \in Range(replicas)
<1> DEFINE slots == Range(replicas) \cap healthy
           key == [n \in slots |->
                 <<Flag(~wants(policy.home_region, location[n].region)),
                   Flag(~wants(policy.preferred_cloud_provider, location[n].cloud_provider)),
                   leader_load[n], Flag(n # now_leads), n>>]
<1>1. slots # {} /\ slots \in SUBSET healthy
  <2>1. replicas \in Seq(healthy) /\ 1 \in DOMAIN replicas
    BY DEF Lists
  <2>2. replicas[1] \in slots
    BY <2>1 DEF Range
  <2> QED
    BY <2>2
<1>2. IsFiniteSet(slots)
  <2> HIDE DEF slots
  <2> QED
    BY <1>1, FS_Subset
<1>3. Keyed(slots, key, 5)
  <2>1. ASSUME NEW n \in slots PROVE key[n] \in [1 .. 5 -> Int] /\ key[n][5] = n
    <3> DEFINE a == Flag(~wants(policy.home_region, location[n].region))
               b == Flag(~wants(policy.preferred_cloud_provider, location[n].cloud_provider))
               c == Flag(n # now_leads)
    <3>1. a \in Int /\ b \in Int /\ c \in Int
      BY DEF Flag
    <3>2. leader_load[n] \in Int /\ n \in Int
      OBVIOUS
    <3>3. key[n] = <<a, b, leader_load[n], c, n>>
      OBVIOUS
    <3> HIDE DEF a, b, c, key
    <3> QED
      BY ONLY <3>1, <3>2, <3>3
  <2>2. key = [n \in slots |-> key[n]]
    OBVIOUS
  <2> HIDE DEF key, slots
  <2>3. key \in [slots -> [1 .. 5 -> Int]]
    BY <2>1, <2>2
  <2> QED
    BY <2>1, <2>3 DEF Keyed
<1>4. target = MinBy(slots, key)
  BY <1>1 DEF preferred_leader_for_policy
<1>5. target \in slots
  <2> HIDE DEF slots, key
  <2> QED
    BY <1>1, <1>2, <1>3, <1>4, MinByPicks
<1> QED
  BY <1>5 DEF desired_leader

----------------------------------------------------------------------------
(* The inductive invariant.                                                *)

\* What the registry holds of a node.
Member == [health : Health, hosted_shards : SUBSET Shard, leading_shards : SUBSET Shard,
           last_seq : Nat, located : BOOLEAN]

\* What the registry holds of each node is well formed.
Registered(members) ==
    /\ DOMAIN members \subseteq Node
    /\ \A n \in DOMAIN members :
          members[n] \in Member /\ members[n].leading_shards \subseteq members[n].hosted_shards

\* The assignments a placement may hold, and a proposal may carry.
Placements ==
    {a \in Assignments : /\ IsInjective(a.replicas)
                         /\ Len(a.replicas) \in 1 .. ReplicationFactor
                         /\ a.preferred_leader \in Range(a.replicas)}

\* Every placement is one that may be held.
Mapped(assignments) ==
    DOMAIN assignments \subseteq Shard /\ \A s \in DOMAIN assignments : assignments[s] \in Placements

\* The commands the log may hold.
Commands == [type : {"AssignShard"}, shard : Shard, assignment : Placements]
              \cup [type : {"SetScalePlan"}, plan : {at_least_rf(t) : t \in Targets}]
              \cup [type : {"ForgetNode"}, node : Node]

\* The view a tick works from: the loads are those of its candidates, and what it
\* observed of the shards that were not placed covers those that are still not.
Ticking(t, assignments) ==
    t # Idle =>
        /\ DOMAIN t = {"shard", "awaits", "known", "active", "located", "load", "leader_load",
                       "replicas", "leader", "evacuated"}
        /\ t.shard \in Nat /\ t.awaits \in Nat
        /\ t.known \subseteq Node /\ t.active \subseteq Node /\ t.evacuated \subseteq Node
        /\ t.load \in [t.active -> Int] /\ t.leader_load \in [t.active -> Int]
        /\ t.shard \in Shard =>
              \A s \in Shard \ DOMAIN assignments : s \in DOMAIN t.replicas /\ t.replicas[s] \in Lists(Node)

\* The replicas `new` may take the place of `old`.
Gentle(old, new, members) ==
    Len(new) >= Len(old) /\ Range(old) \ Range(new) \subseteq DOMAIN members

\* While no proposal is stray, at most one of the loop's is in the log, and the tick
\* waits for it: what it was decided upon still holds when it commits.
Pending(queue, t, members, assignments) ==
    /\ \A i \in DOMAIN queue : queue[i].type # "SetScalePlan" => t.awaits = i
    /\ \A i \in DOMAIN queue :
          queue[i].type = "AssignShard" /\ queue[i].shard \in DOMAIN assignments =>
              Gentle(assignments[queue[i].shard].replicas, queue[i].assignment.replicas, members)
    /\ \A i \in DOMAIN queue : queue[i].type = "ForgetNode" => t.known = {}
    /\ t # Idle => t.known \subseteq DOMAIN members /\ (t.shard \notin Shard => t.known = {})

\* What nothing else depends on.
Surroundings ==
    /\ policies \in [Shard -> Policies \cup {NoPolicy}]
    /\ leading \in BOOLEAN /\ stray \in BOOLEAN
    /\ hosts \in [Node -> SUBSET Shard] /\ alive \subseteq Node
    /\ events \in 0 .. MaxEvents

\* The replicated state machine: its registry and its placement.
Machine(machine) ==
    /\ DOMAIN machine = {"members", "assignments", "plan"}
    /\ Registered(machine.members) /\ Mapped(machine.assignments)

\* The inductive invariant.
Inv ==
    /\ Surroundings
    /\ Machine(sm)
    /\ log \in Seq(Commands) /\ Len(log) <= MaxLog
    /\ Ticking(tick, sm.assignments)
    /\ ~stray => Pending(log, tick, sm.members, sm.assignments)

----------------------------------------------------------------------------
(* The registry and the view.                                              *)

\* Nodes and shards are finitely many, and there is a shard.
LEMMA Bounds ==
    /\ IsFiniteSet(Node) /\ Node \subseteq Int /\ IsFiniteSet(Shard)
    /\ ShardCount \in Nat /\ 0 \in Shard /\ Shard \subseteq Nat
    /\ ReplicationFactor \in Nat /\ ReplicationFactor >= 1
<1>1. ShardCount - 1 \in Int /\ 0 \in Int
  BY ShardAssumption
<1>2. IsFiniteSet(0 .. ShardCount - 1)
  BY ONLY <1>1, FS_Interval
<1> QED
  BY <1>2, NodeAssumption, ShardAssumption DEF Shard

\* A sweep changes the health of the nodes, and forgets none.
LEMMA SweepRegisters ==
    ASSUME NEW members, Registered(members), NEW silence, NEW cache,
           \A n \in DOMAIN members : silence[n] \in Health,
           NEW swept, swept = sweep(members, silence, cache)
    PROVE  Registered(swept) /\ DOMAIN swept = DOMAIN members
<1>1. DOMAIN swept = DOMAIN members
  BY DEF sweep
<1>2. ASSUME NEW n \in DOMAIN members
      PROVE  swept[n] \in Member /\ swept[n].leading_shards \subseteq swept[n].hosted_shards
  <2>1. members[n] \in Member /\ members[n].leading_shards \subseteq members[n].hosted_shards
    BY DEF Registered
  <2> DEFINE h == verdict(silence[n], liveness(cache, n))
  <2>2. h \in Health
    BY DEF verdict, Health
  <2>3. swept[n] = IF members[n].health = "Draining" THEN members[n] ELSE [members[n] EXCEPT !.health = h]
    BY DEF sweep
  <2> HIDE DEF h
  <2> QED
    BY <2>1, <2>2, <2>3 DEF Member
<1> QED
  BY <1>1, <1>2 DEF Registered

\* A heartbeat registers its node or refreshes what is known of it.
LEMMA HeartbeatRegisters ==
    ASSUME NEW members, Registered(members), NEW n \in Node, NEW report,
           report \in [seq : Nat, hosted_shards : SUBSET Shard, leading_shards : SUBSET Shard, located : BOOLEAN],
           report.leading_shards \subseteq report.hosted_shards,
           NEW after, after = heartbeat(members, n, report)
    PROVE  Registered(after) /\ DOMAIN members \subseteq DOMAIN after
<1> DEFINE known == n \in DOMAIN members
           last_seq == IF known THEN members[n].last_seq ELSE 0
           info == [health |-> IF known /\ members[n].health = "Draining" THEN "Draining" ELSE "Healthy",
                    hosted_shards |-> report.hosted_shards, leading_shards |-> report.leading_shards,
                    last_seq |-> IF report.seq > last_seq THEN report.seq ELSE last_seq,
                    located |-> report.located \/ (known /\ members[n].located)]
<1>1. CASE stale(members, n, report)
  BY <1>1 DEF heartbeat
<1>2. CASE ~stale(members, n, report)
  <2>1. after = with(members, n, info)
    BY <1>2 DEF heartbeat
  <2>2. info \in Member /\ info.leading_shards \subseteq info.hosted_shards
    <3>1. last_seq \in Nat
      BY DEF Registered, Member
    <3>2. (IF report.seq > last_seq THEN report.seq ELSE last_seq) \in Nat
      BY <3>1
    <3>3. (IF known /\ members[n].health = "Draining" THEN "Draining" ELSE "Healthy") \in Health
      BY DEF Health
    <3>4. (report.located \/ (known /\ members[n].located)) \in BOOLEAN
      OBVIOUS
    <3> QED
      BY <3>2, <3>3, <3>4 DEF Member
  <2> HIDE DEF info
  <2>3. DOMAIN after = DOMAIN members \cup {n}
    BY <2>1 DEF with
  <2>4. \A m \in DOMAIN after : after[m] = IF m = n THEN info ELSE members[m]
    BY <2>1 DEF with
  <2> QED
    BY <2>2, <2>3, <2>4 DEF Registered
<1> QED
  BY <1>1, <1>2

\* A drain marks its node and leaves the others alone.
LEMMA DrainRegisters ==
    ASSUME NEW members, Registered(members), NEW n \in DOMAIN members,
           NEW after, after = drain(members, n)
    PROVE  Registered(after) /\ DOMAIN members = DOMAIN after
<1>1. after = [members EXCEPT ![n].health = "Draining"]
  BY DEF drain
<1>2. DOMAIN after = DOMAIN members
  BY <1>1
<1>3. ASSUME NEW m \in DOMAIN members
      PROVE  after[m] \in Member /\ after[m].leading_shards \subseteq after[m].hosted_shards
  <2>1. members[m] \in Member /\ members[m].leading_shards \subseteq members[m].hosted_shards
    BY DEF Registered
  <2>2. after[m] = IF m = n THEN [members[m] EXCEPT !.health = "Draining"] ELSE members[m]
    BY <1>1
  <2> QED
    BY <2>1, <2>2 DEF Member, Health
<1> QED
  BY <1>2, <1>3 DEF Registered

\* What is observed of a shard is a list of different nodes.
LEMMA ObservedLists ==
    ASSUME NEW members, Registered(members), NEW s
    PROVE  observed_replicas(members, s) \in Lists(Node)
<1> DEFINE hosting == {n \in Healthy(members) : s \in members[n].hosted_shards}
           key == [n \in hosting |-> <<n>>]
           r == Sorted(hosting, key)
<1>1. hosting \in SUBSET Node
  BY DEF Healthy, Registered
<1>2. IsFiniteSet(hosting)
  <2> HIDE DEF hosting
  <2> QED
    BY <1>1, Bounds, FS_Subset
<1>3. Keyed(hosting, key, 1)
  <2> HIDE DEF hosting
  <2>1. ASSUME NEW n \in hosting PROVE <<n>> \in [1 .. 1 -> Int]
    BY <1>1, Bounds
  <2>2. ASSUME NEW n \in hosting, NEW m \in hosting, <<n>> = <<m>> PROVE n = m
    BY <2>2
  <2> QED
    BY <2>1, <2>2 DEF Keyed
<1>4. Cardinality(hosting) \in Nat /\ r \in [1 .. Cardinality(hosting) -> hosting] /\ IsInjective(r)
  <2> HIDE DEF hosting, key
  <2> QED
    BY <1>2, <1>3, SortedLists
<1>5. observed_replicas(members, s) = r
  BY DEF observed_replicas
<1> HIDE DEF r, hosting
<1>6. r \in Seq(Node)
  <2>1. r \in [1 .. Cardinality(hosting) -> Node]
    BY <1>1, <1>4
  <2> QED
    BY <1>4, <2>1
<1> QED
  BY <1>4, <1>5, <1>6 DEF Lists

\* The view of a tick.
LEMMA ViewTicks ==
    ASSUME NEW members, Registered(members), NEW assignments, Mapped(assignments), NEW target,
           NEW t, t = view(members, assignments, target)
    PROVE  Ticking(t, assignments) /\ t.known = DOMAIN members /\ t.awaits = 0 /\ t.shard = 0
<1> DEFINE healthy == Healthy(members)
           load == [n \in healthy |-> replica_load(assignments, n)]
           active == active_nodes_for_target(healthy, load, at_least_rf(target))
<1>1. active \subseteq healthy /\ healthy \subseteq DOMAIN members
  BY DEF active_nodes_for_target, Healthy
<1>2. \A n : replica_load(assignments, n) \in Int /\ leader_count(assignments, n) \in Int
  <2> TAKE n
  <2> DEFINE A == {s \in DOMAIN assignments : n \in Range(assignments[s].replicas)}
             B == {s \in DOMAIN assignments : assignments[s].preferred_leader = n}
  <2>1. A \in SUBSET Shard /\ B \in SUBSET Shard
    BY DEF Mapped
  <2>2. IsFiniteSet(A) /\ IsFiniteSet(B)
    <3> HIDE DEF A, B
    <3> QED
      BY <2>1, Bounds, FS_Subset
  <2>3. Cardinality(A) \in Nat /\ Cardinality(B) \in Nat
    <3> HIDE DEF A, B
    <3> QED
      BY <2>2, FS_CardinalityType
  <2> QED
    BY <2>3 DEF replica_load, leader_count
<1> DEFINE located == {n \in active : members[n].located}
           loads == [n \in active |-> load[n]]
           leader_loads == [n \in active |-> leader_count(assignments, n)]
           replicas == [s \in Shard \ DOMAIN assignments |-> observed_replicas(members, s)]
           leader == [s \in Shard |-> observed_leader(members, s)]
           evacuated == {n \in DOMAIN members : members[n].health = "Draining" /\ members[n].hosted_shards = {}}
<1>3. t = [shard |-> 0, awaits |-> 0, known |-> DOMAIN members, active |-> active, located |-> located,
           load |-> loads, leader_load |-> leader_loads, replicas |-> replicas, leader |-> leader,
           evacuated |-> evacuated]
  BY DEF view
<1>4. loads \in [active -> Int] /\ leader_loads \in [active -> Int]
  <2>1. \A n \in active : load[n] \in Int
    BY <1>1, <1>2
  <2> HIDE DEF load, active
  <2> QED
    BY <1>2, <2>1
<1>5. \A s \in Shard \ DOMAIN assignments : s \in DOMAIN replicas /\ replicas[s] \in Lists(Node)
  BY ObservedLists
<1>6. active \subseteq Node /\ DOMAIN members \subseteq Node /\ evacuated \subseteq Node
  BY <1>1 DEF Registered
<1> HIDE DEF healthy, load, active, located, loads, leader_loads, replicas, leader, evacuated
<1>7. /\ DOMAIN t = {"shard", "awaits", "known", "active", "located", "load", "leader_load",
                     "replicas", "leader", "evacuated"}
      /\ t.shard = 0 /\ t.awaits = 0 /\ t.known = DOMAIN members /\ t.active = active
      /\ t.load = loads /\ t.leader_load = leader_loads /\ t.replicas = replicas /\ t.evacuated = evacuated
  BY <1>3
<1> QED
  BY <1>4, <1>5, <1>6, <1>7 DEF Ticking

----------------------------------------------------------------------------
(* Every step keeps the invariant.                                         *)

\* With nothing awaited, only changes of the scale plan are pending.
LEMMA NothingAwaited ==
    ASSUME NEW queue, NEW t, NEW members, NEW assignments, Pending(queue, t, members, assignments),
           queue \in Seq(Commands), t.awaits = 0
    PROVE  \A i \in DOMAIN queue : queue[i].type = "SetScalePlan"
<1>1. \A i \in DOMAIN queue : i # 0
  OBVIOUS
<1> QED
  BY <1>1 DEF Pending

\* A log of nothing else suits every tick that has nothing to wait for.
LEMMA PlansOnly ==
    ASSUME NEW queue, \A i \in DOMAIN queue : queue[i].type = "SetScalePlan",
           NEW t, NEW members, NEW assignments,
           t # Idle => t.known \subseteq DOMAIN members /\ (t.shard \notin Shard => t.known = {})
    PROVE  Pending(queue, t, members, assignments)
  BY DEF Pending

\* What changes of the state machine is the registry.
LEMMA NewRegistry ==
    ASSUME Machine(sm), NEW members, Registered(members), sm' = [sm EXCEPT !.members = members]
    PROVE  Machine(sm)' /\ sm'.assignments = sm.assignments /\ sm'.members = members
<1>1. DOMAIN sm' = DOMAIN sm /\ sm'.assignments = sm.assignments /\ sm'.members = members
  BY DEF Machine
<1> QED
  BY <1>1 DEF Machine

\* A round begins.
LEMMA BeginKeeps ==
    ASSUME Inv, NEW members, Registered(members), DOMAIN members = DOMAIN sm.members, Begin(members),
           events' \in 0 .. MaxEvents
    PROVE  Inv'
<1>1. Machine(sm)' /\ sm'.assignments = sm.assignments /\ sm'.members = members
  BY NewRegistry DEF Begin, Inv
<1>2. /\ Ticking(tick', sm.assignments)
      /\ tick'.known = DOMAIN members /\ tick'.awaits = 0 /\ tick'.shard = 0
  BY ViewTicks DEF Begin, Inv, Machine
<1>3. ~stray' => Pending(log', tick', sm'.members, sm'.assignments)
  <2> SUFFICES ASSUME ~stray' PROVE Pending(log', tick', sm'.members, sm'.assignments)
    OBVIOUS
  <2>1. Pending(log, tick, sm.members, sm.assignments) /\ tick.awaits = 0 /\ log' = log
    BY DEF Begin, Inv, Idle
  <2>2. \A i \in DOMAIN log : log[i].type = "SetScalePlan"
    BY <2>1, NothingAwaited DEF Inv
  <2> QED
    BY <1>1, <1>2, <2>1, <2>2, PlansOnly, Bounds
<1>4. Surroundings'
  BY DEF Begin, Inv, Surroundings
<1>5. log' = log
  BY DEF Begin
<1> QED
  BY <1>1, <1>2, <1>3, <1>4, <1>5 DEF Inv

\* The timeout's verdict on any node is a state of health.
LEMMA TimeoutHealth ==
    ASSUME NEW n
    PROVE  by_timeout(n) \in Health
  BY DEF by_timeout, Health

\* A tick begins with a sweep by the time of silence alone.
LEMMA BeginTickKeeps ==
    ASSUME Inv, NEW cache, BeginTick(cache)
    PROVE  Inv'
<1> DEFINE silence == [n \in DOMAIN sm.members |-> by_timeout(n)]
           swept == sweep(sm.members, silence, cache)
<1>1. Begin(swept) /\ events' = events
  BY DEF BeginTick
<1>2. Registered(swept) /\ DOMAIN swept = DOMAIN sm.members
  <2>1. \A n \in DOMAIN sm.members : silence[n] \in Health
    BY TimeoutHealth
  <2> HIDE DEF silence
  <2> QED
    BY <2>1, SweepRegisters DEF Inv, Machine
<1> HIDE DEF swept
<1> QED
  BY <1>1, <1>2, BeginKeeps DEF Inv, Surroundings

\* So does one whose detector misjudges some of the nodes.
LEMMA BeginMisjudgedKeeps ==
    ASSUME Inv, NEW S, NEW silent \in {"Suspect", "Dead", "Healthy"}, NEW pod, BeginMisjudged(S, silent, pod)
    PROVE  Inv'
<1> DEFINE silence == [n \in DOMAIN sm.members |-> IF n \in S THEN silent ELSE by_timeout(n)]
           cache == [fresh |-> TRUE, pods |-> [n \in S |-> pod]]
           swept == sweep(sm.members, silence, cache)
<1>1. Begin(swept) /\ Event
  BY DEF BeginMisjudged
<1>2. Registered(swept) /\ DOMAIN swept = DOMAIN sm.members
  <2>1. \A n \in DOMAIN sm.members : silence[n] \in Health
    BY TimeoutHealth DEF Health
  <2> HIDE DEF silence, cache
  <2> QED
    BY <2>1, SweepRegisters DEF Inv, Machine
<1> HIDE DEF swept
<1>3. events' \in 0 .. MaxEvents
  BY <1>1, BoundAssumption DEF Event, Inv, Surroundings
<1> QED
  BY <1>1, <1>2, <1>3, BeginKeeps

\* The registry learns of more nodes, or more of those it knows; the tick, the log and
\* the placement stay.
LEMMA RegistryGrows ==
    ASSUME Inv, NEW members, Registered(members), DOMAIN sm.members \subseteq DOMAIN members,
           sm' = [sm EXCEPT !.members = members], Surroundings', UNCHANGED <<log, tick, stray>>
    PROVE  Inv'
<1>1. Machine(sm)' /\ sm'.assignments = sm.assignments /\ sm'.members = members
  BY NewRegistry DEF Inv
<1>2. ASSUME Pending(log, tick, sm.members, sm.assignments)
      PROVE  Pending(log, tick, members, sm.assignments)
  BY <1>2 DEF Pending, Gentle
<1> QED
  BY <1>1, <1>2 DEF Inv

\* A drain changes the health of one node.
LEMMA DrainKeeps ==
    ASSUME Inv, NEW n, Drain(n)
    PROVE  Inv'
<1> DEFINE members == drain(sm.members, n)
<1>1. Registered(members) /\ DOMAIN members = DOMAIN sm.members
  BY DrainRegisters DEF Drain, Inv, Machine
<1>2. sm' = [sm EXCEPT !.members = members]
  BY DEF Drain
<1>3. Surroundings' /\ UNCHANGED <<log, tick, stray>>
  BY BoundAssumption DEF Drain, Operator, Event, Inv, Surroundings
<1> HIDE DEF members
<1> QED
  BY <1>1, <1>2, <1>3, RegistryGrows

\* A heartbeat registers its node with what it hosts.
LEMMA HeartbeatKeeps ==
    ASSUME Inv, NEW n \in Node, NEW hosted \in SUBSET Shard, Heartbeat(n, hosted)
    PROVE  Inv'
<1> DEFINE claims == {s \in DOMAIN sm.assignments : sm.assignments[s].preferred_leader = n}
           report == sanitize_report(Report(0, hosted, claims, TRUE), Shard)
           members == heartbeat(sm.members, n, report)
<1>1. /\ report \in [seq : Nat, hosted_shards : SUBSET Shard, leading_shards : SUBSET Shard, located : BOOLEAN]
      /\ report.leading_shards \subseteq report.hosted_shards
  BY DEF sanitize_report, Report
<1>2. Registered(members) /\ DOMAIN sm.members \subseteq DOMAIN members
  <2> HIDE DEF report
  <2> QED
    BY <1>1, HeartbeatRegisters DEF Inv, Machine
<1>3. sm' = [sm EXCEPT !.members = members] /\ hosts' = [hosts EXCEPT ![n] = hosted]
  BY DEF Heartbeat
<1>4. Surroundings' /\ UNCHANGED <<log, tick, stray>>
  <2>1. hosts' \in [Node -> SUBSET Shard]
    BY <1>3 DEF Inv, Surroundings
  <2> QED
    BY <2>1 DEF Heartbeat, Inv, Surroundings
<1> HIDE DEF members
<1> QED
  BY <1>2, <1>3, <1>4, RegistryGrows

\* One that reports nothing registers its node.
LEMMA BareHeartbeatKeeps ==
    ASSUME Inv, NEW n \in Node, BareHeartbeat(n)
    PROVE  Inv'
<1> DEFINE members == heartbeat(sm.members, n, EmptyReport)
<1>1. /\ EmptyReport \in [seq : Nat, hosted_shards : SUBSET Shard, leading_shards : SUBSET Shard, located : BOOLEAN]
      /\ EmptyReport.leading_shards \subseteq EmptyReport.hosted_shards
  BY DEF EmptyReport, Report
<1>2. Registered(members) /\ DOMAIN sm.members \subseteq DOMAIN members
  BY <1>1, HeartbeatRegisters DEF Inv, Machine
<1>3. sm' = [sm EXCEPT !.members = members]
  BY DEF BareHeartbeat
<1>4. Surroundings' /\ UNCHANGED <<log, tick, stray>>
  BY BoundAssumption DEF BareHeartbeat, Event, Inv, Surroundings
<1> HIDE DEF members
<1> QED
  BY <1>2, <1>3, <1>4, RegistryGrows

----------------------------------------------------------------------------
(* A step of the loop for one shard.                                       *)

\* A list of different nodes is known for the shard the tick is at.
LEMMA CurrentLists ==
    ASSUME Inv, tick # Idle, tick.shard \in Shard
    PROVE  current(tick.shard) \in Lists(Node)
<1>1. CASE tick.shard \in DOMAIN sm.assignments
  <2>1. sm.assignments[tick.shard] \in Placements
    BY <1>1 DEF Inv, Machine, Mapped
  <2> QED
    BY <1>1, <2>1 DEF current, Placements, Assignments, Lists
<1>2. CASE tick.shard \notin DOMAIN sm.assignments
  BY <1>2 DEF current, Inv, Ticking
<1> QED
  BY <1>1, <1>2

\* The candidates of a tick are finitely many nodes.
LEMMA Candidates ==
    ASSUME Inv, tick # Idle
    PROVE  /\ tick.active \in SUBSET Node /\ IsFiniteSet(tick.active) /\ tick.active \subseteq Int
           /\ Cardinality(tick.active) \in Nat
           /\ tick.load \in [tick.active -> Int] /\ tick.leader_load \in [tick.active -> Int]
<1>1. tick.active \in SUBSET Node
  BY DEF Inv, Ticking
<1>2. IsFiniteSet(tick.active)
  BY <1>1, Bounds, FS_Subset
<1> QED
  BY <1>1, <1>2, Bounds, FS_CardinalityType DEF Inv, Ticking

\* The plan is a list of different candidates, of the length a shard should have or of
\* all of them.
LEMMA PlanFits ==
    ASSUME Inv, tick # Idle, tick.shard \in Shard, NEW desired, desired = plan(tick.shard)
    PROVE  /\ desired \in Lists(tick.active) /\ Len(desired) \in Nat /\ Len(desired) <= ReplicationFactor
           /\ Len(desired) = ReplicationFactor \/ Len(desired) = Cardinality(tick.active)
<1>1. current(tick.shard) \in Lists(Node)
  BY CurrentLists
<1>2. desired = plan_replicas(current(tick.shard), tick.active, domain_of, tick.load, ReplicationFactor)
  BY DEF plan
<1>3. ReplicationFactor \in Nat
  BY Bounds
<1>4. /\ desired \in Lists(tick.active) /\ Len(desired) <= ReplicationFactor
      /\ Len(desired) = ReplicationFactor \/ Len(desired) = Cardinality(tick.active)
  BY <1>1, <1>2, <1>3, Candidates, PlanLists
<1> QED
  BY <1>4 DEF Lists

\* Numbers stay numbers.
LEMMA MinusFlag ==
    ASSUME NEW x \in Int, NEW b
    PROVE  Flag(b) \in Int /\ minus(x, Flag(b)) \in Int /\ minus(x, Flag(b)) + Flag(b) \in Int
  BY DEF minus, Flag

\* The leader loads without those of the shard itself are still loads of the candidates.
LEMMA WithoutOwn ==
    ASSUME Inv, tick # Idle, NEW s
    PROVE  without_own(s) \in [tick.active -> Int]
<1> DEFINE own(n) == s \in DOMAIN sm.assignments /\ sm.assignments[s].preferred_leader = n
<1>1. ASSUME NEW n \in tick.active PROVE minus(tick.leader_load[n], Flag(own(n))) \in Int
  <2>1. tick.leader_load[n] \in Int
    BY Candidates
  <2> HIDE DEF own
  <2> QED
    BY <2>1, MinusFlag
<1>2. without_own(s) = [n \in tick.active |-> minus(tick.leader_load[n], Flag(own(n)))]
  BY DEF without_own
<1> HIDE DEF own
<1> QED
  BY <1>1, <1>2

\* What the loop proposes is a placement, unless it found no replica at all.
LEMMA AssignmentFits ==
    ASSUME Inv, tick # Idle, tick.shard \in Shard, NEW desired, desired = plan(tick.shard), desired # <<>>,
           NEW a, a = assignment_for(tick.shard, desired)
    PROVE  a \in Placements /\ a.replicas = desired
<1> DEFINE s == tick.shard
           leader_load == without_own(s)
           target == preferred_leader_for_policy(policies[s], desired, tick.active, location_of,
                                                 leader_load, tick.leader[s])
           chosen == desired_leader(target, desired, tick.active, tick.leader[s])
<1>1. /\ desired \in Lists(tick.active) /\ Len(desired) \in Nat /\ Len(desired) <= ReplicationFactor
  BY PlanFits
<1>2. leader_load \in [tick.active -> Int]
  BY WithoutOwn
<1>3. chosen \in Range(desired)
  <2> HIDE DEF leader_load
  <2> QED
    BY <1>1, <1>2, Candidates, LeaderAmongReplicas
<1>4. a = [replicas |-> desired, preferred_leader |-> chosen, policy |-> policies[s]]
  BY DEF assignment_for
<1>5. policies[s] \in Policies \cup {NoPolicy}
  BY DEF Inv, Surroundings
<1> HIDE DEF chosen
<1>6. desired \in Seq(Node) /\ IsInjective(desired) /\ Range(desired) \subseteq Node
  BY <1>1, Candidates DEF Lists, Range
<1>7. Len(desired) \in 1 .. ReplicationFactor
  BY <1>1, <1>6, Bounds
<1> QED
  BY <1>3, <1>4, <1>5, <1>6, <1>7 DEF Placements, Assignments

\* The fields of a tick once it is past a shard.
Passed(t) ==
    /\ Ticking(t, sm.assignments) /\ t # Idle
    /\ t.awaits = tick.awaits /\ t.shard = tick.shard + 1
    /\ t.known \subseteq tick.known /\ (t.shard \notin Shard => t.known = {})

\* The fields of a tick in progress.
Fields == {"shard", "awaits", "known", "active", "located", "load", "leader_load",
           "replicas", "leader", "evacuated"}

\* Leaving a shard as it is passes the view on to the next.
LEMMA NextShardPasses ==
    ASSUME Inv, tick # Idle, tick.shard \in Shard, NEW t, t = next_shard(tick.shard)
    PROVE  Passed(t) /\ DOMAIN t = Fields /\ t.active \subseteq tick.active
<1>1. /\ DOMAIN tick = Fields /\ tick.shard \in Nat /\ tick.awaits \in Nat
      /\ tick.known \subseteq Node /\ tick.active \subseteq Node /\ tick.evacuated \subseteq Node
      /\ tick.load \in [tick.active -> Int] /\ tick.leader_load \in [tick.active -> Int]
      /\ \A s \in Shard \ DOMAIN sm.assignments : s \in DOMAIN tick.replicas /\ tick.replicas[s] \in Lists(Node)
  BY DEF Inv, Ticking, Fields
<1>2. CASE tick.shard + 1 \in Shard
  <2>1. t = [tick EXCEPT !.shard = tick.shard + 1]
    BY <1>2 DEF next_shard
  <2>2. /\ DOMAIN t = Fields /\ t.shard = tick.shard + 1 /\ t.awaits = tick.awaits
        /\ t.known = tick.known /\ t.active = tick.active /\ t.evacuated = tick.evacuated
        /\ t.load = tick.load /\ t.leader_load = tick.leader_load /\ t.replicas = tick.replicas
    BY <1>1, <2>1 DEF Fields
  <2>3. t # Idle
    BY <2>2 DEF Fields, Idle
  <2> QED
    BY <1>1, <1>2, <2>2, <2>3 DEF Passed, Ticking, Fields
<1>3. CASE tick.shard + 1 \notin Shard
  <2>1. t = [tick EXCEPT !.shard = tick.shard + 1, !.known = {}, !.active = {}, !.located = {}, !.load = <<>>,
                         !.leader_load = <<>>, !.replicas = <<>>, !.leader = <<>>]
    BY <1>3 DEF next_shard
  <2>2. /\ DOMAIN t = Fields /\ t.shard = tick.shard + 1 /\ t.awaits = tick.awaits
        /\ t.known = {} /\ t.active = {} /\ t.evacuated = tick.evacuated
        /\ t.load = <<>> /\ t.leader_load = <<>>
    BY <1>1, <2>1 DEF Fields
  <2>3. t # Idle
    BY <2>2 DEF Fields, Idle
  <2>4. <<>> \in [{} -> Int]
    OBVIOUS
  <2> QED
    BY <1>1, <1>3, <2>2, <2>3, <2>4 DEF Passed, Ticking, Fields
<1> QED
  BY <1>2, <1>3

\* So does deciding on one: the loads move with its replicas.
LEMMA AdvancedPasses ==
    ASSUME Inv, tick # Idle, tick.shard \in Shard, NEW a, NEW t, t = advanced(tick.shard, a)
    PROVE  Passed(t) /\ DOMAIN t = Fields
<1> DEFINE s == tick.shard
           u == next_shard(s)
           out(n) == n \in Range(current(s))
           in(n) == n \in Range(a.replicas)
           load == [n \in DOMAIN u.load |-> minus(u.load[n], Flag(out(n))) + Flag(in(n))]
           leader_load == [n \in DOMAIN u.leader_load |-> without_own(s)[n] + Flag(n = a.preferred_leader)]
<1>1. Passed(u) /\ DOMAIN u = Fields /\ u.active \subseteq tick.active
  BY NextShardPasses
<1>2. t = [u EXCEPT !.load = load, !.leader_load = leader_load]
  BY DEF advanced
<1> HIDE DEF u
<1>3. u.load \in [u.active -> Int] /\ u.leader_load \in [u.active -> Int]
  BY <1>1 DEF Passed, Ticking
<1>4. load \in [u.active -> Int]
  <2>1. ASSUME NEW n \in u.active PROVE minus(u.load[n], Flag(out(n))) + Flag(in(n)) \in Int
    <3>1. u.load[n] \in Int
      BY <1>3
    <3> HIDE DEF out, in
    <3> QED
      BY <3>1, MinusFlag
  <2>2. DOMAIN u.load = u.active
    BY <1>3
  <2> HIDE DEF out, in
  <2> QED
    BY <2>1, <2>2
<1>5. leader_load \in [u.active -> Int]
  <2>1. ASSUME NEW n \in u.active PROVE without_own(s)[n] + Flag(n = a.preferred_leader) \in Int
    <3>1. without_own(s)[n] \in Int
      BY <1>1, WithoutOwn
    <3> QED
      BY <3>1 DEF Flag
  <2>2. DOMAIN u.leader_load = u.active
    BY <1>3
  <2> QED
    BY <2>1, <2>2
<1> HIDE DEF load, leader_load
<1>6. /\ DOMAIN t = Fields /\ t.shard = u.shard /\ t.awaits = u.awaits
      /\ t.known = u.known /\ t.active = u.active /\ t.evacuated = u.evacuated
      /\ t.load = load /\ t.leader_load = leader_load /\ t.replicas = u.replicas
  BY <1>1, <1>2 DEF Fields
<1>7. t # Idle
  BY <1>6 DEF Fields, Idle
<1> QED
  BY <1>1, <1>4, <1>5, <1>6, <1>7 DEF Passed, Ticking, Fields

\* Proposing a command and going on as t: the invariant needs that the command is one,
\* and that what it was decided upon is so.
LEMMA ProposedKeeps ==
    ASSUME Inv, tick # Idle, tick.awaits = 0, NEW t, NEW command \in Commands, proposed(command, t),
           Ticking(t, sm.assignments), t # Idle, t.awaits = 0,
           t.known \subseteq tick.known, ~stray /\ t.shard \notin Shard => t.known = {},
           UNCHANGED <<sm, policies, leading, hosts, alive, events, stray>>,
           command.type # "SetScalePlan",
           ~stray /\ command.type = "AssignShard" /\ command.shard \in DOMAIN sm.assignments =>
               Gentle(sm.assignments[command.shard].replicas, command.assignment.replicas, sm.members),
           ~stray /\ command.type = "ForgetNode" => t.known = {}
    PROVE  Inv'
<1>1. Surroundings' /\ Machine(sm)'
  BY DEF Inv, Surroundings, Machine
<1>2. CASE ~leading
  <2>1. log' = log /\ tick' = t
    BY <1>2 DEF proposed
  <2>2. ~stray' => Pending(log', tick', sm'.members, sm'.assignments)
    <3> SUFFICES ASSUME ~stray PROVE Pending(log, t, sm.members, sm.assignments)
      BY <2>1
    <3>1. \A i \in DOMAIN log : log[i].type = "SetScalePlan"
      BY NothingAwaited DEF Inv
    <3>2. t.known \subseteq DOMAIN sm.members
      BY DEF Inv, Pending
    <3> QED
      BY <3>1, <3>2, PlansOnly
  <2> QED
    BY <1>1, <2>1, <2>2 DEF Inv
<1>3. CASE leading
  <2> DEFINE u == [t EXCEPT !.awaits = Len(log) + 1]
  <2>1. Len(log) < MaxLog /\ log' = Append(log, command) /\ tick' = u
    BY <1>3 DEF proposed
  <2>2. log \in Seq(Commands) /\ Len(log) \in Nat
    BY DEF Inv
  <2>3. log' \in Seq(Commands) /\ Len(log') = Len(log) + 1 /\ Len(log') <= MaxLog
    BY <2>1, <2>2, BoundAssumption
  <2>4. /\ DOMAIN u = Fields /\ u.shard = t.shard /\ u.awaits = Len(log) + 1
        /\ u.known = t.known /\ u.active = t.active /\ u.evacuated = t.evacuated
        /\ u.load = t.load /\ u.leader_load = t.leader_load /\ u.replicas = t.replicas
    BY DEF Ticking, Fields
  <2> HIDE DEF u
  <2>5. Ticking(u, sm.assignments) /\ u # Idle
    <3>1. u # Idle
      BY <2>4 DEF Fields, Idle
    <3> QED
      BY <2>2, <2>4, <3>1 DEF Ticking, Fields
  <2>6. ~stray => Pending(log', u, sm.members, sm.assignments)
    <3> SUFFICES ASSUME ~stray PROVE Pending(log', u, sm.members, sm.assignments)
      OBVIOUS
    <3>1. \A i \in DOMAIN log : log[i].type = "SetScalePlan"
      BY NothingAwaited DEF Inv
    <3>2. u.known \subseteq DOMAIN sm.members
      BY <2>4 DEF Inv, Pending
    <3>3. ASSUME NEW i \in DOMAIN log'
          PROVE  log'[i].type = "SetScalePlan" \/ (i = Len(log) + 1 /\ log'[i] = command)
      BY <2>1, <2>2, <3>1
    <3> QED
      BY <2>4, <3>2, <3>3 DEF Pending
  <2> QED
    BY <1>1, <2>1, <2>3, <2>5, <2>6 DEF Inv
<1> QED
  BY <1>2, <1>3 DEF Inv, Surroundings

\* Going on as t without a proposal.
LEMMA OnwardKeeps ==
    ASSUME Inv, tick # Idle, tick.awaits = 0, Passed(tick'),
           UNCHANGED <<sm, log, policies, leading, hosts, alive, events, stray>>
    PROVE  Inv'
<1>1. Surroundings' /\ Machine(sm)'
  BY DEF Inv, Surroundings, Machine
<1>2. ~stray => Pending(log, tick', sm.members, sm.assignments)
  <2> SUFFICES ASSUME ~stray PROVE Pending(log, tick', sm.members, sm.assignments)
    OBVIOUS
  <2>1. \A i \in DOMAIN log : log[i].type = "SetScalePlan"
    BY NothingAwaited DEF Inv
  <2>2. tick'.known \subseteq DOMAIN sm.members
    BY DEF Inv, Pending, Passed
  <2> QED
    BY <2>1, <2>2, PlansOnly DEF Passed
<1> QED
  BY <1>1, <1>2 DEF Inv, Passed

\* The guards leave no way to propose an empty list, to give up replicas, or to move
\* one the tick has not heard of.
LEMMA ProposalFits ==
    ASSUME Inv, tick # Idle, tick.shard \in Shard, NEW desired, desired = plan(tick.shard),
           NEW a, a = assignment_for(tick.shard, desired),
           ~unheard(tick.shard), ~shrinks(tick.shard, desired), changed(tick.shard, a)
    PROVE  /\ a \in Placements
           /\ tick.shard \in DOMAIN sm.assignments =>
                 /\ Len(a.replicas) >= Len(sm.assignments[tick.shard].replicas)
                 /\ Range(sm.assignments[tick.shard].replicas) \subseteq tick.known
<1> DEFINE s == tick.shard
<1>1. /\ desired \in Lists(tick.active) /\ Len(desired) \in Nat /\ Len(desired) <= ReplicationFactor
      /\ Len(desired) = ReplicationFactor \/ Len(desired) = Cardinality(tick.active)
      /\ Cardinality(tick.active) \in Nat
  BY PlanFits, Candidates
<1>2. ReplicationFactor \in Nat /\ ReplicationFactor >= 1
  BY Bounds
<1>3. a.replicas = desired
  BY DEF assignment_for
<1>4. CASE s \in DOMAIN sm.assignments
  <2>1. current(s) = sm.assignments[s].replicas
    BY <1>4 DEF current
  <2>2. Len(current(s)) \in 1 .. ReplicationFactor
    BY <1>4, <2>1 DEF Inv, Machine, Mapped, Placements
  <2>3. Len(desired) >= Len(current(s))
    <3>1. ~(/\ Cardinality(tick.active) < ReplicationFactor
            /\ Len(desired) < ReplicationFactor /\ Len(desired) < Len(current(s)))
      BY DEF shrinks
    <3> QED
      BY <1>1, <1>2, <2>2, <3>1
  <2>4. desired # <<>>
    BY <1>2, <2>2, <2>3
  <2>5. Range(current(s)) \subseteq tick.known
    BY DEF unheard
  <2> QED
    BY <1>3, <2>1, <2>3, <2>4, <2>5, AssignmentFits
<1>5. CASE s \notin DOMAIN sm.assignments
  <2>1. desired # <<>>
    BY <1>3, <1>5 DEF changed
  <2> QED
    BY <1>5, <2>1, AssignmentFits
<1> QED
  BY <1>4, <1>5

\* A step of the loop over the shards: what it proposes, if anything, is gentle.
LEMMA ReconcileShardKeeps ==
    ASSUME Inv, ReconcileShard
    PROVE  Inv'
<1> DEFINE s == tick.shard
           desired == plan(s)
           a == assignment_for(s, desired)
<1>1. /\ tick # Idle /\ tick.awaits = 0 /\ s \in Shard
      /\ UNCHANGED <<sm, policies, leading, hosts, alive, events, stray>>
  BY DEF ReconcileShard
<1>2. \/ tick' = next_shard(s) /\ log' = log
      \/ /\ ~unheard(s) /\ ~shrinks(s, desired) /\ changed(s, a)
         /\ proposed(AssignShard(s, a), advanced(s, a))
      \/ tick' = advanced(s, a) /\ log' = log
  BY DEF ReconcileShard
<1> HIDE DEF a
<1>3. CASE tick' = next_shard(s) /\ log' = log
  <2>1. Passed(tick')
    BY <1>1, <1>3, NextShardPasses
  <2> QED
    BY <1>1, <1>3, <2>1, OnwardKeeps
<1>4. CASE tick' = advanced(s, a) /\ log' = log
  <2>1. Passed(tick')
    BY <1>1, <1>4, AdvancedPasses
  <2> QED
    BY <1>1, <1>4, <2>1, OnwardKeeps
<1>5. CASE /\ ~unheard(s) /\ ~shrinks(s, desired) /\ changed(s, a)
           /\ proposed(AssignShard(s, a), advanced(s, a))
  <2> DEFINE t == advanced(s, a)
             command == AssignShard(s, a)
  <2>1. Passed(t)
    BY <1>1, AdvancedPasses
  <2>2. /\ a \in Placements
        /\ s \in DOMAIN sm.assignments =>
              /\ Len(a.replicas) >= Len(sm.assignments[s].replicas)
              /\ Range(sm.assignments[s].replicas) \subseteq tick.known
    BY <1>1, <1>5, ProposalFits DEF a
  <2>3. command \in Commands /\ command.type = "AssignShard" /\ command.shard = s /\ command.assignment = a
    BY <1>1, <2>2 DEF AssignShard, Commands
  <2>4. ~stray => tick.known \subseteq DOMAIN sm.members
    BY <1>1 DEF Inv, Pending
  <2>5. ~stray /\ s \in DOMAIN sm.assignments =>
            Gentle(sm.assignments[s].replicas, a.replicas, sm.members)
    BY <2>2, <2>4 DEF Gentle
  <2>6. proposed(command, t)
    BY <1>5
  <2> HIDE DEF t, command
  <2> QED
    BY <1>1, <2>1, <2>3, <2>5, <2>6, ProposedKeeps DEF Passed
<1> QED
  BY <1>2, <1>3, <1>4, <1>5

\* The end of a tick: only a node that no shard is placed on is proposed to be forgotten.
LEMMA FinalizeKeeps ==
    ASSUME Inv, Finalize
    PROVE  Inv'
<1> DEFINE gone == IF tick.shard = ShardCount THEN tick.evacuated \ assigned(sm.assignments)
                   ELSE tick.evacuated
<1>0. ShardCount + 1 \in Nat /\ ShardCount + 1 \notin Shard
  BY ShardAssumption DEF Shard
<1>1. /\ tick # Idle /\ tick.awaits = 0 /\ tick.shard \notin Shard
      /\ UNCHANGED <<sm, policies, leading, hosts, alive, events, stray>>
  BY DEF Finalize
<1>2. \/ tick' = Idle /\ log' = log
      \/ \E n \in gone : proposed(ForgetNode(n), [tick EXCEPT !.shard = ShardCount + 1,
                                                            !.evacuated = {m \in gone : m # n}])
  BY DEF Finalize
<1>3. CASE tick' = Idle /\ log' = log
  <2>1. Surroundings' /\ Machine(sm)'
    BY <1>1 DEF Inv, Surroundings, Machine
  <2>2. ~stray => Pending(log, Idle, sm.members, sm.assignments)
    <3> SUFFICES ASSUME ~stray PROVE Pending(log, Idle, sm.members, sm.assignments)
      OBVIOUS
    <3>1. \A i \in DOMAIN log : log[i].type = "SetScalePlan"
      BY <1>1, NothingAwaited DEF Inv
    <3> QED
      BY <3>1, PlansOnly
  <2> QED
    BY <1>1, <1>3, <2>1, <2>2 DEF Inv, Ticking
<1>4. ASSUME NEW n \in gone,
             proposed(ForgetNode(n), [tick EXCEPT !.shard = ShardCount + 1, !.evacuated = {m \in gone : m # n}])
      PROVE  Inv'
  <2> DEFINE rest == {m \in gone : m # n}
             t == [tick EXCEPT !.shard = ShardCount + 1, !.evacuated = rest]
             command == ForgetNode(n)
  <2>1. n \in Node /\ rest \subseteq Node
    BY <1>1 DEF Inv, Ticking
  <2>2. command \in Commands /\ command.type = "ForgetNode"
    BY <2>1 DEF ForgetNode, Commands
  <2>3. proposed(command, t)
    BY <1>4
  <2> HIDE DEF rest
  <2>4. /\ DOMAIN t = Fields /\ t.shard = ShardCount + 1 /\ t.awaits = tick.awaits
        /\ t.known = tick.known /\ t.active = tick.active /\ t.evacuated = rest
        /\ t.load = tick.load /\ t.leader_load = tick.leader_load /\ t.replicas = tick.replicas
    BY <1>1 DEF Inv, Ticking, Fields
  <2> HIDE DEF t, command
  <2>5. t # Idle
    BY <2>4 DEF Fields, Idle
  <2>6. Ticking(t, sm.assignments)
    BY <1>0, <1>1, <2>1, <2>4, <2>5 DEF Inv, Ticking, Fields
  <2>7. ~stray => t.known = {}
    BY <1>1, <2>4 DEF Inv, Pending
  <2> QED
    BY <1>0, <1>1, <2>2, <2>3, <2>4, <2>5, <2>6, <2>7, ProposedKeeps
<1> QED
  BY <1>2, <1>3, <1>4

----------------------------------------------------------------------------
(* Commits, operators, leadership, the data plane.                         *)

\* What each command changes of the state machine.
LEMMA Applied ==
    ASSUME NEW machine, Machine(machine), NEW command \in Commands,
           NEW m, m = apply_command(machine, command)
    PROVE  /\ Machine(m) /\ DOMAIN machine.assignments \subseteq DOMAIN m.assignments
           /\ command.type = "SetScalePlan" =>
                 m.members = machine.members /\ m.assignments = machine.assignments
           /\ command.type = "AssignShard" =>
                 /\ m.members = machine.members
                 /\ m.assignments = assign(machine.assignments, command.shard, command.assignment)
           /\ command.type = "ForgetNode" =>
                 /\ m.assignments = machine.assignments
                 /\ DOMAIN machine.members \ DOMAIN m.members \subseteq {command.node} \ assigned(machine.assignments)
<1>1. CASE command.type = "AssignShard"
  <2> DEFINE next == assign(machine.assignments, command.shard, command.assignment)
  <2>1. command.shard \in Shard /\ command.assignment \in Placements
    BY <1>1 DEF Commands
  <2>2. /\ DOMAIN next = DOMAIN machine.assignments \cup {command.shard}
        /\ \A s \in DOMAIN next :
              next[s] = IF s = command.shard THEN command.assignment ELSE machine.assignments[s]
    BY DEF assign
  <2>3. m = [machine EXCEPT !.assignments = next]
    BY <1>1 DEF apply_command
  <2> HIDE DEF next
  <2>4. Mapped(next)
    BY <2>1, <2>2 DEF Machine, Mapped
  <2>5. DOMAIN m = DOMAIN machine /\ m.assignments = next /\ m.members = machine.members
    BY <2>3 DEF Machine
  <2> USE DEF next
  <2> QED
    BY <1>1, <2>2, <2>4, <2>5 DEF Machine
<1>2. CASE command.type = "SetScalePlan"
  <2>1. m = [machine EXCEPT !.plan = command.plan]
    BY <1>2 DEF apply_command
  <2>2. DOMAIN m = DOMAIN machine /\ m.assignments = machine.assignments /\ m.members = machine.members
    BY <2>1 DEF Machine
  <2> QED
    BY <1>2, <2>2 DEF Machine
<1>3. CASE command.type = "ForgetNode" /\ still_assigned(machine, command.node)
  <2>1. m = machine
    BY <1>3 DEF apply_command
  <2> QED
    BY <1>3, <2>1
<1>4. CASE command.type = "ForgetNode" /\ ~still_assigned(machine, command.node)
  <2> DEFINE rest == forget(machine.members, command.node)
  <2>1. m = [machine EXCEPT !.members = rest]
    BY <1>4 DEF apply_command
  <2>2. /\ DOMAIN rest = DOMAIN machine.members \ {command.node}
        /\ \A n \in DOMAIN rest : rest[n] = machine.members[n]
    BY DEF forget, without
  <2> HIDE DEF rest
  <2>3. Registered(rest)
    BY <2>2 DEF Machine, Registered
  <2>4. DOMAIN m = DOMAIN machine /\ m.assignments = machine.assignments /\ m.members = rest
    BY <2>1 DEF Machine
  <2> QED
    BY <1>4, <2>2, <2>3, <2>4 DEF Machine, still_assigned
<1>5. command.type \in {"AssignShard", "SetScalePlan", "ForgetNode"}
  BY DEF Commands
<1> QED
  BY <1>1, <1>2, <1>3, <1>4, <1>5

\* A tick survives the placement of more shards, and a change of what it waits for.
LEMMA TickingOn ==
    ASSUME Ticking(tick, sm.assignments), NEW assignments, DOMAIN sm.assignments \subseteq DOMAIN assignments,
           NEW n \in Nat, NEW t, t = [tick EXCEPT !.awaits = n], tick = Idle => n = 0
    PROVE  /\ Ticking(t, assignments) /\ t.awaits = n
           /\ tick = Idle => t = Idle
           /\ tick # Idle => t # Idle /\ t.known = tick.known /\ t.shard = tick.shard
<1>1. CASE tick = Idle
  BY <1>1 DEF Idle, Ticking
<1>2. CASE tick # Idle
  <2>1. /\ DOMAIN t = Fields /\ t.shard = tick.shard /\ t.awaits = n
        /\ t.known = tick.known /\ t.active = tick.active /\ t.evacuated = tick.evacuated
        /\ t.load = tick.load /\ t.leader_load = tick.leader_load /\ t.replicas = tick.replicas
    BY <1>2 DEF Ticking, Fields
  <2>2. t # Idle
    BY <2>1 DEF Fields, Idle
  <2> QED
    BY <1>2, <2>1, <2>2 DEF Ticking, Fields
<1> QED
  BY <1>1, <1>2

\* What a tick waits for is a natural, none when there is no tick.
LEMMA AwaitsNat ==
    ASSUME Ticking(tick, sm.assignments)
    PROVE  tick.awaits \in Nat /\ (tick = Idle => tick.awaits = 0)
  BY DEF Ticking, Idle

\* A proposal given up becomes a stray one.
LEMMA TimeOutKeeps ==
    ASSUME Inv, TimeOut
    PROVE  Inv'
<1>1. Ticking(tick', sm.assignments)
  BY TickingOn DEF TimeOut, Inv
<1>2. Surroundings' /\ Machine(sm)'
  BY BoundAssumption DEF TimeOut, Event, Inv, Surroundings, Machine
<1>3. stray' /\ UNCHANGED <<sm, log>>
  BY DEF TimeOut
<1> QED
  BY <1>1, <1>2, <1>3 DEF Inv

\* A commit applies the oldest proposal, and the tick that awaits it goes on.
LEMMA ApplyKeeps ==
    ASSUME Inv, Apply
    PROVE  Inv'
<1> DEFINE command == Head(log)
           n == minus(tick.awaits, 1)
<1>1. /\ log \in Seq(Commands) /\ log # <<>> /\ log' = Tail(log) /\ sm' = apply_command(sm, command)
      /\ tick' = [tick EXCEPT !.awaits = n]
      /\ UNCHANGED <<policies, leading, hosts, alive, events, stray>>
  BY DEF Apply, Inv
<1>2. /\ command \in Commands /\ command = log[1] /\ 1 \in DOMAIN log
      /\ log' \in Seq(Commands) /\ Len(log') = Len(log) - 1 /\ Len(log) \in Nat
      /\ \A i \in DOMAIN log' : i + 1 \in DOMAIN log /\ log'[i] = log[i + 1] /\ i \in Nat /\ i >= 1
  BY <1>1
<1>3. tick.awaits \in Nat /\ n \in Nat /\ (tick.awaits >= 1 => n = tick.awaits - 1) /\ (tick = Idle => n = 0)
  BY AwaitsNat DEF minus, Inv
<1> HIDE DEF command, n
<1>4. /\ Machine(sm') /\ DOMAIN sm.assignments \subseteq DOMAIN sm'.assignments
      /\ command.type = "SetScalePlan" =>
            sm'.members = sm.members /\ sm'.assignments = sm.assignments
      /\ command.type = "AssignShard" => sm'.members = sm.members
  BY <1>1, <1>2, Applied DEF Inv
<1>5. /\ Ticking(tick', sm'.assignments) /\ tick'.awaits = n
      /\ tick = Idle => tick' = Idle
      /\ tick # Idle => tick' # Idle /\ tick'.known = tick.known /\ tick'.shard = tick.shard
  BY <1>1, <1>3, <1>4, TickingOn DEF Inv
<1>6. Surroundings'
  BY <1>1 DEF Inv, Surroundings
<1>7. ~stray => Pending(log', tick', sm'.members, sm'.assignments)
  <2> SUFFICES ASSUME ~stray PROVE Pending(log', tick', sm'.members, sm'.assignments)
    OBVIOUS
  <2>1. Pending(log, tick, sm.members, sm.assignments)
    BY DEF Inv
  <2>2. CASE command.type = "SetScalePlan"
    <3>1. sm'.members = sm.members /\ sm'.assignments = sm.assignments
      BY <1>4, <2>2
    <3>2. \A i \in DOMAIN log' : log'[i].type # "SetScalePlan" => tick'.awaits = i
      BY <1>2, <1>3, <1>5, <2>1 DEF Pending
    <3>3. \A i \in DOMAIN log' : log'[i].type = "ForgetNode" => tick'.known = {}
      <4> SUFFICES ASSUME NEW i \in DOMAIN log', log'[i].type = "ForgetNode" PROVE tick'.known = {}
        OBVIOUS
      <4>1. log[i + 1].type = "ForgetNode" /\ i + 1 \in DOMAIN log /\ i + 1 # 0
        BY <1>2
      <4>2. tick.awaits = i + 1 /\ tick.known = {}
        BY <2>1, <4>1 DEF Pending
      <4>3. tick # Idle
        BY <4>1, <4>2 DEF Idle
      <4> QED
        BY <1>5, <4>2, <4>3
    <3>4. \A i \in DOMAIN log' :
            log'[i].type = "AssignShard" /\ log'[i].shard \in DOMAIN sm.assignments =>
              Gentle(sm.assignments[log'[i].shard].replicas, log'[i].assignment.replicas, sm.members)
      BY <1>2, <2>1 DEF Pending
    <3>5. tick' # Idle => tick'.known \subseteq DOMAIN sm.members /\ (tick'.shard \notin Shard => tick'.known = {})
      BY <1>5, <2>1 DEF Pending
    <3> QED
      BY <3>1, <3>2, <3>3, <3>4, <3>5 DEF Pending
  <2>3. CASE command.type # "SetScalePlan"
    <3>1. tick.awaits = 1
      BY <1>2, <2>1, <2>3 DEF Pending
    <3>2. ASSUME NEW i \in DOMAIN log' PROVE log'[i].type = "SetScalePlan"
      <4>1. i + 1 # 1
        BY <1>2
      <4> QED
        BY <1>2, <2>1, <3>1, <4>1 DEF Pending
    <3>3. tick' # Idle => tick'.known \subseteq DOMAIN sm'.members /\ (tick'.shard \notin Shard => tick'.known = {})
      <4>1. CASE command.type = "AssignShard"
        BY <1>4, <1>5, <2>1, <4>1 DEF Pending
      <4>2. CASE command.type = "ForgetNode"
        BY <1>2, <1>5, <2>1, <4>2 DEF Pending
      <4>3. command.type \in {"AssignShard", "ForgetNode"}
        BY <1>2, <2>3 DEF Commands
      <4> QED
        BY <4>1, <4>2, <4>3
    <3> QED
      BY <3>2, <3>3, PlansOnly
  <2> QED
    BY <2>2, <2>3
<1>8. Len(log') <= MaxLog
  BY <1>2, BoundAssumption DEF Inv
<1> QED
  BY <1>1, <1>2, <1>4, <1>5, <1>6, <1>7, <1>8 DEF Inv

\* An operator's policy is held for the ticks to come.
LEMMA SetPolicyKeeps ==
    ASSUME Inv, NEW s \in Shard, NEW policy \in Policies, SetPolicy(s, policy)
    PROVE  Inv'
<1>1. /\ policies' = [policies EXCEPT ![s] = policy]
      /\ UNCHANGED <<sm, log, leading, tick, hosts, alive, stray>> /\ Event
  BY DEF SetPolicy, Operator
<1>2. policies' \in [Shard -> Policies \cup {NoPolicy}]
  BY <1>1 DEF Inv, Surroundings
<1>3. Surroundings' /\ Machine(sm)'
  BY <1>1, <1>2, BoundAssumption DEF Event, Inv, Surroundings, Machine
<1> QED
  BY <1>1, <1>3 DEF Inv

\* A scale plan goes behind whatever is in the log.
LEMMA SetScaleKeeps ==
    ASSUME Inv, NEW target \in Targets, SetScale(target)
    PROVE  Inv'
<1> DEFINE command == SetScalePlan(at_least_rf(target))
<1>1. /\ Len(log) < MaxLog /\ log' = Append(log, command)
      /\ UNCHANGED <<sm, policies, leading, tick, hosts, alive, stray>> /\ Event
  BY DEF SetScale, Operator
<1>2. command \in Commands /\ command.type = "SetScalePlan"
  BY DEF SetScalePlan, Commands
<1> HIDE DEF command
<1>3. log \in Seq(Commands) /\ Len(log) \in Nat
  BY DEF Inv
<1>4. log' \in Seq(Commands) /\ Len(log') <= MaxLog
  BY <1>1, <1>2, <1>3, BoundAssumption
<1>5. \A i \in DOMAIN log' : log'[i].type = "SetScalePlan" \/ (i \in DOMAIN log /\ log'[i] = log[i])
  BY <1>1, <1>2, <1>3
<1>6. ~stray => Pending(log', tick, sm.members, sm.assignments)
  <2> SUFFICES ASSUME ~stray PROVE Pending(log', tick, sm.members, sm.assignments)
    OBVIOUS
  <2>1. Pending(log, tick, sm.members, sm.assignments)
    BY DEF Inv
  <2> QED
    BY <1>5, <2>1 DEF Pending
<1>7. Surroundings' /\ Machine(sm)'
  BY <1>1, BoundAssumption DEF Event, Inv, Surroundings, Machine
<1> QED
  BY <1>1, <1>4, <1>6, <1>7 DEF Inv

\* A prefix of the log.
LEMMA PrefixKept ==
    ASSUME log \in Seq(Commands), Len(log) <= MaxLog, NEW kept \in 0 .. Len(log),
           NEW queue, queue = SubSeq(log, 1, kept)
    PROVE  queue \in Seq(Commands) /\ Len(queue) = kept /\ Len(queue) <= MaxLog
<1>1. Len(log) \in Nat /\ kept \in Nat /\ kept <= Len(log)
  OBVIOUS
<1>2. queue \in Seq(Commands) /\ Len(queue) = kept
  BY <1>1
<1> QED
  BY <1>1, <1>2, BoundAssumption

\* A leader deposed leaves a prefix of its log, and strays whatever it holds.
LEMMA LoseLeadershipKeeps ==
    ASSUME Inv, NEW kept \in 0 .. Len(log), LoseLeadership(kept)
    PROVE  Inv'
<1>1. /\ leading' = FALSE /\ log' = SubSeq(log, 1, kept) /\ stray' = (stray \/ kept > 0)
      /\ tick' = [tick EXCEPT !.awaits = 0] /\ UNCHANGED <<sm, policies, hosts, alive>> /\ Event
  BY DEF LoseLeadership
<1>2. log' \in Seq(Commands) /\ Len(log') = kept /\ Len(log') <= MaxLog
  BY <1>1, PrefixKept DEF Inv
<1>3. /\ Ticking(tick', sm.assignments)
      /\ tick = Idle => tick' = Idle
      /\ tick # Idle => tick' # Idle /\ tick'.known = tick.known /\ tick'.shard = tick.shard
  BY <1>1, TickingOn DEF Inv
<1>4. Surroundings' /\ Machine(sm)'
  <2>1. leading' \in BOOLEAN /\ stray' \in BOOLEAN
    BY <1>1
  <2>2. UNCHANGED <<sm, policies, hosts, alive>> /\ Event
    BY <1>1
  <2> QED
    BY <2>1, <2>2, BoundAssumption DEF Event, Inv, Surroundings, Machine
<1>5. ~stray' => Pending(log', tick', sm.members, sm.assignments)
  <2> SUFFICES ASSUME ~stray' PROVE Pending(log', tick', sm.members, sm.assignments)
    OBVIOUS
  <2>1. ~stray /\ kept = 0
    <3>1. ~stray /\ ~(kept > 0)
      BY <1>1
    <3> QED
      BY <3>1
  <2>2. \A i \in DOMAIN log' : log'[i].type = "SetScalePlan"
    BY <1>2, <2>1
  <2> QED
    BY <1>3, <2>1, <2>2, PlansOnly DEF Inv, Pending
<1> QED
  BY <1>1, <1>2, <1>3, <1>4, <1>5 DEF Inv

\* A fail-over keeps the replicated placement and nothing of the registry.
LEMMA FailoverKeeps ==
    ASSUME Inv, NEW kept \in 0 .. Len(log), Failover(kept)
    PROVE  Inv'
<1>1. /\ sm' = [sm EXCEPT !.members = <<>>] /\ policies' = [s \in Shard |-> NoPolicy]
      /\ log' = SubSeq(log, 1, kept) /\ stray' = (stray \/ kept > 0)
      /\ tick' = Idle /\ UNCHANGED <<leading, hosts, alive>> /\ Event
  BY DEF Failover
<1>2. log' \in Seq(Commands) /\ Len(log') = kept /\ Len(log') <= MaxLog
  BY <1>1, PrefixKept DEF Inv
<1>3. Registered(<<>>)
  BY DEF Registered
<1>4. Machine(sm)' /\ sm'.assignments = sm.assignments
  BY <1>1, <1>3, NewRegistry DEF Inv
<1>5. Surroundings'
  BY <1>1, BoundAssumption DEF Event, Inv, Surroundings
<1>6. ~stray' => Pending(log', tick', sm'.members, sm'.assignments)
  <2> SUFFICES ASSUME ~stray' PROVE Pending(log', tick', sm'.members, sm'.assignments)
    OBVIOUS
  <2>1. kept = 0
    <3>1. ~(kept > 0)
      BY <1>1
    <3> QED
      BY <3>1
  <2>2. \A i \in DOMAIN log' : log'[i].type = "SetScalePlan"
    BY <1>2, <2>1
  <2> QED
    BY <1>1, <2>2, PlansOnly
<1> QED
  BY <1>1, <1>2, <1>4, <1>5, <1>6 DEF Inv, Ticking

\* Another leader's placement is well formed too.
LEMMA LayoutFits ==
    ASSUME NEW s \in Shard, NEW replicas \in Layouts, NEW a,
           a = [replicas |-> replicas, preferred_leader |-> Head(replicas), policy |-> NoPolicy]
    PROVE  a \in Placements /\ AssignShard(s, a) \in Commands /\ AssignShard(s, a).type = "AssignShard"
<1>1. replicas \in [1 .. ReplicationFactor -> Node] /\ IsInjective(replicas)
  BY DEF Layouts
<1>2. ReplicationFactor \in Nat /\ ReplicationFactor >= 1
  BY Bounds
<1>3. replicas \in Seq(Node) /\ Len(replicas) = ReplicationFactor /\ DOMAIN replicas = 1 .. ReplicationFactor
  BY <1>1, <1>2
<1>4. Head(replicas) = replicas[1] /\ replicas[1] \in Range(replicas) /\ replicas[1] \in Node
  BY <1>1, <1>2, <1>3 DEF Range
<1>5. a \in Placements
  BY <1>1, <1>2, <1>3, <1>4 DEF Placements, Assignments
<1> QED
  BY <1>5 DEF AssignShard, Commands

\* A following member applies what another leader decided.
LEMMA FollowKeeps ==
    ASSUME Inv, NEW s \in Shard, NEW replicas \in Layouts, Follow(s, replicas)
    PROVE  Inv'
<1> DEFINE a == [replicas |-> replicas, preferred_leader |-> Head(replicas), policy |-> NoPolicy]
           command == AssignShard(s, a)
<1>1. /\ log = <<>> /\ sm' = apply_command(sm, command)
      /\ UNCHANGED <<policies, leading, log, tick, hosts, alive, stray>> /\ Event
  BY DEF Follow
<1>2. command \in Commands /\ command.type = "AssignShard"
  BY LayoutFits
<1> HIDE DEF command
<1>3. Machine(sm') /\ DOMAIN sm.assignments \subseteq DOMAIN sm'.assignments /\ sm'.members = sm.members
  BY <1>1, <1>2, Applied DEF Inv
<1>4. Ticking(tick, sm'.assignments)
  BY <1>3 DEF Inv, Ticking
<1>5. ~stray => Pending(log, tick, sm'.members, sm'.assignments)
  BY <1>1, <1>3 DEF Inv, Pending
<1>6. Surroundings'
  BY <1>1, BoundAssumption DEF Event, Inv, Surroundings
<1> QED
  BY <1>1, <1>3, <1>4, <1>5, <1>6 DEF Inv

\* Neither a gain of leadership nor a death changes what the loop works from.
LEMMA OthersKeep ==
    ASSUME Inv, GainLeadership \/ (\E n \in Node : Die(n))
    PROVE  Inv'
<1>1. UNCHANGED <<sm, log, tick, stray>>
  BY DEF GainLeadership, Die
<1>2. Surroundings' /\ Machine(sm)'
  <2>1. leading' \in BOOLEAN
    BY DEF GainLeadership, Die, Inv, Surroundings
  <2>2. /\ UNCHANGED <<policies, hosts>> /\ alive' \subseteq alive
        /\ events' = events \/ Event
    BY DEF GainLeadership, Die
  <2> QED
    BY <1>1, <2>1, <2>2, BoundAssumption DEF Event, Inv, Surroundings, Machine
<1> QED
  BY <1>1, <1>2 DEF Inv

\* What a node has hosted or converges to is a set of shards.
LEMMA HostedShards ==
    ASSUME Inv, NEW n \in Node, NEW hosted \in {hosts[n], converged(n)}
    PROVE  hosted \in SUBSET Shard
  BY DEF Inv, Surroundings, Machine, Mapped, converged

\* The initial states satisfy the invariant.
LEMMA InitInv ==
    ASSUME Init
    PROVE  Inv
<1>1. /\ sm = [members |-> <<>>, assignments |-> <<>>, plan |-> at_least_rf(InitialTarget)]
      /\ policies = [s \in Shard |-> NoPolicy] /\ leading = TRUE /\ log = <<>> /\ tick = Idle
      /\ hosts \in InitialHosts /\ alive = Node /\ events = 0 /\ stray = FALSE
  BY DEF Init
<1>2. Surroundings
  <2>1. leading \in BOOLEAN /\ stray \in BOOLEAN
    BY <1>1
  <2>2. hosts \in [Node -> SUBSET Shard]
    BY <1>1, HostsAssumption DEF Shard
  <2>3. /\ policies = [s \in Shard |-> NoPolicy] /\ alive = Node /\ events = 0
    BY <1>1
  <2> QED
    BY <2>1, <2>2, <2>3, BoundAssumption DEF Surroundings
<1>3. Machine(sm)
  <2>1. DOMAIN sm = {"members", "assignments", "plan"} /\ sm.members = <<>> /\ sm.assignments = <<>>
    BY <1>1
  <2> QED
    BY <2>1 DEF Machine, Registered, Mapped
<1>4. log \in Seq(Commands) /\ Len(log) <= MaxLog
  BY <1>1, BoundAssumption
<1>5. Ticking(tick, sm.assignments) /\ Pending(log, tick, sm.members, sm.assignments)
  BY <1>1 DEF Ticking, Pending
<1> QED
  BY <1>2, <1>3, <1>4, <1>5 DEF Inv

\* Every step preserves it, action by action.
LEMMA NextInv ==
    ASSUME Inv, [Next]_vars
    PROVE  Inv'
<1>1. CASE Tick
  BY <1>1, BeginTickKeeps, ReconcileShardKeeps, FinalizeKeeps DEF Tick
<1>2. CASE \E S \in (SUBSET alive) \ {{}} :
             \/ \E silence \in {"Suspect", "Dead"} : BeginMisjudged(S, silence, Pod(FALSE, "Pending", FALSE))
             \/ BeginMisjudged(S, "Healthy", Pod(FALSE, "Running", TRUE))
  BY <1>2, BeginMisjudgedKeeps
<1>3. CASE TimeOut
  BY <1>3, TimeOutKeeps
<1>4. CASE Apply
  BY <1>4, ApplyKeeps
<1>5. CASE \E n \in Node : Drain(n)
  BY <1>5, DrainKeeps
<1>6. CASE \E s \in Shard, p \in Policies : SetPolicy(s, p)
  BY <1>6, SetPolicyKeeps
<1>7. CASE \E t \in Targets : SetScale(t)
  BY <1>7, SetScaleKeeps
<1>8. CASE \E kept \in 0 .. Len(log) : LoseLeadership(kept) \/ Failover(kept)
  BY <1>8, LoseLeadershipKeeps, FailoverKeeps
<1>9. CASE \E s \in Shard, r \in Layouts : Follow(s, r)
  BY <1>9, FollowKeeps
<1>10. CASE GainLeadership \/ \E n \in Node : Die(n)
  BY <1>10, OthersKeep
<1>11. ASSUME NEW n \in Node, NEW hosted \in {hosts[n], converged(n)}, Heartbeat(n, hosted) PROVE Inv'
  BY <1>11, HostedShards, HeartbeatKeeps
<1>12. CASE \E n \in Node : BareHeartbeat(n)
  BY <1>12, BareHeartbeatKeeps
<1>13. CASE UNCHANGED vars
  BY <1>13 DEF vars, Inv, Surroundings, Machine
<1> QED
  BY <1>1, <1>2, <1>3, <1>4, <1>5, <1>6, <1>7, <1>8, <1>9, <1>10, <1>11, <1>12, <1>13 DEF Next

----------------------------------------------------------------------------
(* The theorems.                                                           *)

\* The invariant holds of every reachable state.
LEMMA Invariant == Spec => []Inv
<1>1. Init => Inv
  BY InitInv
<1>2. Inv /\ [Next]_vars => Inv'
  BY NextInv
<1> QED
  BY <1>1, <1>2, PTL DEF Spec

\* Nothing but a commit, this member's or another leader's, changes the placement, and
\* nothing but a commit or a fail-over takes a node out of the registry.
LEMMA OnlyCommitsMove ==
    ASSUME Inv, [Next]_vars
    PROVE  \/ Apply
           \/ \E s \in Shard, r \in Layouts : Follow(s, r)
           \/ /\ sm'.assignments = sm.assignments
              /\ \/ \E kept \in 0 .. Len(log) : Failover(kept)
                 \/ DOMAIN sm.members \subseteq DOMAIN sm'.members
<1> DEFINE FailsOver == \E kept \in 0 .. Len(log) : Failover(kept)
           Stays == /\ sm'.assignments = sm.assignments
                    /\ FailsOver \/ DOMAIN sm.members \subseteq DOMAIN sm'.members
<1> HIDE DEF FailsOver
<1>1. ASSUME NEW members, sm' = [sm EXCEPT !.members = members],
             FailsOver \/ DOMAIN sm.members \subseteq DOMAIN members
      PROVE  Stays
  BY <1>1 DEF Inv, Machine
<1>2. ASSUME sm' = sm PROVE Stays
  BY <1>2
<1>3. ASSUME NEW members, Begin(members), DOMAIN members = DOMAIN sm.members PROVE Stays
  BY <1>1, <1>3 DEF Begin
<1> HIDE DEF Stays
<1>4. ASSUME NEW cache, BeginTick(cache) PROVE Stays
  BY <1>3, <1>4 DEF BeginTick, sweep
<1>5. ASSUME NEW S, NEW silence, NEW pod, BeginMisjudged(S, silence, pod) PROVE Stays
  BY <1>3, <1>5 DEF BeginMisjudged, sweep
<1>6. ASSUME NEW n, Drain(n) PROVE Stays
  <2>1. DOMAIN sm.members = DOMAIN drain(sm.members, n)
    BY <1>6, DrainRegisters DEF Drain, Inv, Machine
  <2>2. sm' = [sm EXCEPT !.members = drain(sm.members, n)]
    BY <1>6 DEF Drain
  <2> QED
    BY <1>1, <2>1, <2>2
<1>7. ASSUME NEW n, NEW report PROVE DOMAIN sm.members \subseteq DOMAIN heartbeat(sm.members, n, report)
  BY DEF heartbeat, with
<1>8. ASSUME NEW n, NEW hosted, Heartbeat(n, hosted) PROVE Stays
  BY <1>1, <1>7, <1>8 DEF Heartbeat
<1>9. ASSUME NEW n, BareHeartbeat(n) PROVE Stays
  BY <1>1, <1>7, <1>9 DEF BareHeartbeat
<1>10. ASSUME NEW kept \in 0 .. Len(log), Failover(kept) PROVE Stays
  <2>1. FailsOver
    BY <1>10 DEF FailsOver
  <2>2. sm' = [sm EXCEPT !.members = <<>>]
    BY <1>10 DEF Failover
  <2> QED
    BY <1>1, <2>1, <2>2
<1>11. ASSUME \/ ReconcileShard \/ Finalize \/ TimeOut \/ GainLeadership
              \/ \E s \in Shard, p \in Policies : SetPolicy(s, p)
              \/ \E t \in Targets : SetScale(t)
              \/ \E kept \in 0 .. Len(log) : LoseLeadership(kept)
              \/ \E n \in Node : Die(n)
              \/ UNCHANGED vars
       PROVE  Stays
  <2>1. sm' = sm
    BY <1>11 DEF ReconcileShard, Finalize, TimeOut, GainLeadership, SetPolicy, SetScale,
                 LoseLeadership, Die, vars
  <2> QED
    BY <1>2, <2>1
<1>12. ASSUME Tick PROVE Stays
  BY <1>4, <1>11, <1>12 DEF Tick
<1>13. ASSUME \E n \in Node :
                 \/ \E hosted \in {hosts[n], converged(n)} : Heartbeat(n, hosted)
                 \/ BareHeartbeat(n) \/ Die(n)
       PROVE  Stays
  BY <1>8, <1>9, <1>11, <1>13
<1>14. ASSUME \E kept \in 0 .. Len(log) : LoseLeadership(kept) \/ Failover(kept) PROVE Stays
  BY <1>10, <1>11, <1>14
<1>15. ASSUME \E S \in (SUBSET alive) \ {{}} :
                 \/ \E silence \in {"Suspect", "Dead"} : BeginMisjudged(S, silence, Pod(FALSE, "Pending", FALSE))
                 \/ BeginMisjudged(S, "Healthy", Pod(FALSE, "Running", TRUE))
       PROVE  Stays
  BY <1>5, <1>15
<1>16. ASSUME \E n \in Node : Drain(n) PROVE Stays
  BY <1>6, <1>16
<1>17. \/ Apply
       \/ \E s \in Shard, r \in Layouts : Follow(s, r)
       \/ Stays
  BY <1>11, <1>12, <1>13, <1>14, <1>15, <1>16 DEF Next
<1> QED
  BY <1>17 DEF Stays, FailsOver

\* A commit, while none is stray, replaces what it takes.
LEMMA CommitsAreGentle ==
    ASSUME Inv, Apply, ~stray'
    PROVE  \A s \in DOMAIN sm.assignments :
              Gentle(sm.assignments[s].replicas, sm'.assignments[s].replicas, sm.members)
<1> DEFINE command == Head(log)
<1>1. /\ log \in Seq(Commands) /\ log # <<>> /\ sm' = apply_command(sm, command) /\ stray' = stray
  BY DEF Apply, Inv
<1>2. command \in Commands /\ command = log[1] /\ 1 \in DOMAIN log
  BY <1>1
<1> HIDE DEF command
<1>3. \A s \in DOMAIN sm.assignments : Gentle(sm.assignments[s].replicas, sm.assignments[s].replicas, sm.members)
  <2> SUFFICES ASSUME NEW s \in DOMAIN sm.assignments
               PROVE  Gentle(sm.assignments[s].replicas, sm.assignments[s].replicas, sm.members)
    OBVIOUS
  <2>1. Len(sm.assignments[s].replicas) \in 1 .. ReplicationFactor
    BY DEF Inv, Machine, Mapped, Placements
  <2>2. Len(sm.assignments[s].replicas) >= Len(sm.assignments[s].replicas)
    BY <2>1
  <2> QED
    BY <2>2 DEF Gentle
<1>4. CASE command.type = "AssignShard"
  <2>1. sm'.assignments = assign(sm.assignments, command.shard, command.assignment)
    BY <1>1, <1>2, <1>4, Applied DEF Inv
  <2>2. \A s \in DOMAIN sm.assignments :
           sm'.assignments[s] = IF s = command.shard THEN command.assignment ELSE sm.assignments[s]
    BY <2>1 DEF assign
  <2>3. command.shard \in DOMAIN sm.assignments =>
           Gentle(sm.assignments[command.shard].replicas, command.assignment.replicas, sm.members)
    BY <1>1, <1>2, <1>4 DEF Inv, Pending
  <2> QED
    BY <1>3, <2>2, <2>3
<1>5. CASE command.type # "AssignShard"
  <2>1. command.type \in {"SetScalePlan", "ForgetNode"}
    BY <1>2, <1>5 DEF Commands
  <2>2. sm'.assignments = sm.assignments
    BY <1>1, <1>2, <2>1, Applied DEF Inv
  <2> QED
    BY <1>3, <2>2
<1> QED
  BY <1>4, <1>5

\* The registry, the placement and the log are well formed.
THEOREM SchedulerTypes == Spec => []TypeOK
<1>1. Inv => TypeOK
  <2> SUFFICES ASSUME Inv PROVE TypeOK
    OBVIOUS
  <2>1. \A n \in DOMAIN sm.members : sm.members[n].health \in Health
                                  /\ sm.members[n].leading_shards \subseteq sm.members[n].hosted_shards
                                  /\ sm.members[n].hosted_shards \subseteq Shard
    BY DEF Inv, Machine, Registered, Member
  <2>2. DOMAIN sm.members \subseteq Node /\ DOMAIN sm.assignments \subseteq Shard
    BY DEF Inv, Machine, Registered, Mapped
  <2>3. \A s \in DOMAIN sm.assignments : sm.assignments[s] \in Assignments
    BY DEF Inv, Machine, Mapped, Placements
  <2>4. /\ hosts \in [Node -> SUBSET Shard] /\ alive \subseteq Node /\ stray \in BOOLEAN
        /\ Len(log) <= MaxLog /\ events \in 0 .. MaxEvents
    BY DEF Inv, Surroundings
  <2> QED
    BY <2>1, <2>2, <2>3, <2>4 DEF TypeOK
<1> QED
  BY <1>1, Invariant, PTL

\* Every placed shard has between one and ReplicationFactor different replicas, and one
\* of them as its preferred leader, whatever the nodes reported, however old the
\* proposal that placed it (plan_replicas, preferred_leader_for_policy).
THEOREM PlacementsAreWellFormed == Spec => []WellPlaced
<1>1. Inv => WellPlaced
  BY DEF Inv, Machine, Mapped, Placements, WellPlaced
<1> QED
  BY <1>1, Invariant, PTL

\* While no proposal is stray, a commit leaves no shard with fewer replicas (the floor
\* of reconcile).
THEOREM ShardsNeverShrink == Spec => NeverShrinks
<1> DEFINE Step == ~stray' => \A s \in DOMAIN sm.assignments :
                      Len(sm'.assignments[s].replicas) >= Len(sm.assignments[s].replicas)
<1>1. Inv /\ [Next]_vars => [Step]_vars
  <2> SUFFICES ASSUME Inv, [Next]_vars, ~stray', NEW s \in DOMAIN sm.assignments
               PROVE  Len(sm'.assignments[s].replicas) >= Len(sm.assignments[s].replicas)
    OBVIOUS
  <2>1. Len(sm.assignments[s].replicas) \in 1 .. ReplicationFactor
    BY DEF Inv, Machine, Mapped, Placements
  <2>2. CASE Apply
    BY <2>2, CommitsAreGentle DEF Gentle
  <2>3. ASSUME NEW shard \in Shard, NEW r \in Layouts, Follow(shard, r)
        PROVE  Len(sm'.assignments[s].replicas) >= Len(sm.assignments[s].replicas)
    <3> DEFINE a == [replicas |-> r, preferred_leader |-> Head(r), policy |-> NoPolicy]
    <3>1. sm' = apply_command(sm, AssignShard(shard, a))
      BY <2>3 DEF Follow
    <3>2. AssignShard(shard, a) \in Commands /\ AssignShard(shard, a).type = "AssignShard"
      BY LayoutFits
    <3>3. sm'.assignments = assign(sm.assignments, shard, a)
      <4>1. sm'.assignments = assign(sm.assignments, AssignShard(shard, a).shard, AssignShard(shard, a).assignment)
        <5> DEFINE command == AssignShard(shard, a)
        <5> HIDE DEF command
        <5>1. sm' = apply_command(sm, command) /\ command \in Commands /\ command.type = "AssignShard"
          BY <3>1, <3>2 DEF command
        <5>2. sm'.assignments = assign(sm.assignments, command.shard, command.assignment)
          BY <5>1, Applied DEF Inv
        <5> QED
          BY <5>2 DEF command
      <4> QED
        BY <4>1 DEF AssignShard
    <3>4. sm'.assignments[s] = IF s = shard THEN a ELSE sm.assignments[s]
      BY <3>3 DEF assign
    <3>5. Len(r) = ReplicationFactor
      <4>1. r \in [1 .. ReplicationFactor -> Node]
        BY DEF Layouts
      <4> QED
        BY <4>1, Bounds
    <3> QED
      BY <2>1, <3>4, <3>5, Bounds
  <2>4. CASE sm'.assignments = sm.assignments
    BY <2>1, <2>4
  <2> QED
    BY <2>2, <2>3, <2>4, OnlyCommitsMove
<1> QED
  BY <1>1, Invariant, PTL DEF Spec, NeverShrinks

\* While no proposal is stray, no commit of this leader takes a replica off a node it
\* has not heard of (the hold of reconcile).
THEOREM KnownReplicasMove == Spec => OnlyKnownReplicasMove
<1> DEFINE Step == leading /\ ~stray' => \A s \in DOMAIN sm.assignments :
                      Range(sm.assignments[s].replicas) \ Range(sm'.assignments[s].replicas) \subseteq DOMAIN sm.members
<1>1. Inv /\ [Next]_vars => [Step]_vars
  <2> SUFFICES ASSUME Inv, [Next]_vars, leading, ~stray', NEW s \in DOMAIN sm.assignments
               PROVE  Range(sm.assignments[s].replicas) \ Range(sm'.assignments[s].replicas) \subseteq DOMAIN sm.members
    OBVIOUS
  <2>1. CASE Apply
    BY <2>1, CommitsAreGentle DEF Gentle
  <2>2. CASE \E shard \in Shard, r \in Layouts : Follow(shard, r)
    BY <2>2 DEF Follow
  <2>3. CASE sm'.assignments = sm.assignments
    BY <2>3
  <2> QED
    BY <2>1, <2>2, <2>3, OnlyCommitsMove
<1> QED
  BY <1>1, Invariant, PTL DEF Spec, OnlyKnownReplicasMove

\* However old the proposal, no node that a shard is placed on leaves the registry but
\* by a fail-over (the check of apply_command).
THEOREM NoPlacedNodeForgotten == Spec => NoAssignedNodeForgotten
<1> DEFINE Step == \A n \in DOMAIN sm.members \ DOMAIN sm'.members :
                      (\E kept \in 0 .. Len(log) : Failover(kept)) \/ n \notin assigned(sm'.assignments)
<1>1. Inv /\ [Next]_vars => [Step]_vars
  <2> SUFFICES ASSUME Inv, [Next]_vars, NEW n \in DOMAIN sm.members \ DOMAIN sm'.members,
                      ~\E kept \in 0 .. Len(log) : Failover(kept)
               PROVE  n \notin assigned(sm'.assignments)
    OBVIOUS
  <2>1. CASE Apply
    <3> DEFINE command == Head(log)
    <3>1. log \in Seq(Commands) /\ log # <<>> /\ sm' = apply_command(sm, command)
      BY <2>1 DEF Apply, Inv
    <3>2. command \in Commands
      BY <3>1
    <3> HIDE DEF command
    <3>3. command.type \in {"AssignShard", "SetScalePlan", "ForgetNode"}
      BY <3>2 DEF Commands
    <3>4. command.type = "ForgetNode"
      BY <3>1, <3>2, <3>3, Applied DEF Inv
    <3>5. Machine(sm)
      BY DEF Inv
    <3>6. /\ sm'.assignments = sm.assignments
          /\ DOMAIN sm.members \ DOMAIN sm'.members \subseteq {command.node} \ assigned(sm.assignments)
      BY <3>1, <3>2, <3>4, <3>5, Applied
    <3> QED
      BY <3>6
  <2>2. ASSUME NEW s \in Shard, NEW r \in Layouts, Follow(s, r) PROVE FALSE
    <3> DEFINE command == AssignShard(s, [replicas |-> r, preferred_leader |-> Head(r), policy |-> NoPolicy])
    <3>1. sm' = apply_command(sm, command)
      BY <2>2 DEF Follow
    <3>2. command \in Commands /\ command.type = "AssignShard"
      BY LayoutFits
    <3> HIDE DEF command
    <3>3. Machine(sm)
      BY DEF Inv
    <3>4. sm'.members = sm.members
      BY <3>1, <3>2, <3>3, Applied
    <3> QED
      BY <3>4
  <2>3. CASE DOMAIN sm.members \subseteq DOMAIN sm'.members
    BY <2>3
  <2> QED
    BY <2>1, <2>2, <2>3, OnlyCommitsMove
<1> QED
  BY <1>1, Invariant, PTL DEF Spec, NoAssignedNodeForgotten
=============================================================================
