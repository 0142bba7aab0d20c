-------------------------------- MODULE Lists --------------------------------
(***************************************************************************)
(* The arrays of the code: map, filter, sort and the sum of a reduce, and  *)
(* what a proof needs to know of them.  They are defined by the positions  *)
(* they take, because the provers know nothing of SelectSeq and SortSeq.   *)
(***************************************************************************)
EXTENDS Integers, Sequences, FiniteSets, SequencesExt, FiniteSetTheorems, TLAPS

\* Each element of s translated: a sequence that TLC evaluates once, not at every use.
Evaluated(s) == s \o << >>
Each(s, Op(_)) == Evaluated([i \in DOMAIN s |-> Op(s[i])])

\* The elements of a finite set, by a strict order on it (a set of pairs).
InOrder(S, R) == [n \in 1 .. Cardinality(S) |-> CHOOSE x \in S : Cardinality({y \in S : << y, x >> \in R}) = n - 1]

\* What s holds at some of its positions.
Part(s, places) == Each(InOrder(places, {p \in places \X places : p[1] < p[2]}), LAMBDA i : s[i])

Select(s, Test(_)) == Part(s, {i \in DOMAIN s : Test(s[i])})

\* Values compare by a tuple of criteria, the first that differs deciding.
Ahead(k, l) == \E i \in DOMAIN k : k[i] > l[i] /\ \A j \in 1 .. i - 1 : k[j] = l[j]

\* Sorts are stable: equal values stay in the order they came in.
Precedes(keys) == {p \in (DOMAIN keys) \X (DOMAIN keys) :
                      Ahead(keys[p[1]], keys[p[2]]) \/ (keys[p[1]] = keys[p[2]] /\ p[1] < p[2])}

Sorted(s, keys) == Each(InOrder(DOMAIN s, Precedes(keys)), LAMBDA i : s[i])

SortedBy(s, Key(_)) == Sorted(s, Each(s, Key))

Total(s) == LET sum[n \in 0 .. Len(s)] == IF n = 0 THEN 0 ELSE sum[n - 1] + s[n] IN sum[Len(s)]

SumOver(s, Value(_)) == Total(Each(s, Value))

----------------------------------------------------------------------------
(* A set of numbers has a least one. *)
LEMMA LeastNat ==
    ASSUME NEW T, T \subseteq Nat, T # {}
    PROVE  \E n \in T : \A m \in T : n <= m
<1>1. IsWellFoundedOn(OpToRel(<, Nat), Nat)
  BY NatLessThanWellFounded, Zenon
<1>2. PICK n \in T : \A m \in T : <<m, n>> \notin OpToRel(<, Nat)
  BY <1>1, WFMin, Zenon
<1>3. \A m \in T : ~(m < n)
  BY <1>2 DEF OpToRel
<1> QED
  BY <1>3

IsStrictOrder(S, R) ==
    /\ \A x \in S : << x, x >> \notin R
    /\ \A x, y \in S : x = y \/ << x, y >> \in R \/ << y, x >> \in R
    /\ \A x, y, z \in S : << x, y >> \in R /\ << y, z >> \in R => << x, z >> \in R

(* The listing of a set in an order holds each element once, by that order. *)
LEMMA InOrderLists ==
    ASSUME NEW S, IsFiniteSet(S), NEW R, IsStrictOrder(S, R)
    PROVE  /\ Cardinality(S) \in Nat
           /\ InOrder(S, R) \in [1 .. Cardinality(S) -> S]
           /\ \A x \in S : \E n \in 1 .. Cardinality(S) : InOrder(S, R)[n] = x
           /\ \A m, n \in 1 .. Cardinality(S) : m < n => << InOrder(S, R)[m], InOrder(S, R)[n] >> \in R
<1> DEFINE N == Cardinality(S)
           Below(x) == {y \in S : << y, x >> \in R}
           rank == [x \in S |-> Cardinality(Below(x)) + 1]
<1>1. N \in Nat
  BY FS_CardinalityType
<1>2. \A x \in S : Below(x) \in SUBSET (S \ {x}) /\ IsFiniteSet(S \ {x}) /\ Cardinality(S \ {x}) = N - 1
  BY FS_RemoveElement DEF IsStrictOrder
<1>3. ASSUME NEW x \in S PROVE IsFiniteSet(Below(x)) /\ Cardinality(Below(x)) \in 0 .. N - 1
  <2> DEFINE B == Below(x)  U == S \ {x}
  <2>1. B \in SUBSET U /\ IsFiniteSet(U) /\ Cardinality(U) = N - 1
    BY <1>2
  <2> HIDE DEF B, U
  <2>2. IsFiniteSet(B) /\ Cardinality(B) <= N - 1
    BY <2>1, FS_Subset
  <2>3. Cardinality(B) \in Nat
    BY <2>2, FS_CardinalityType
  <2>4. IsFiniteSet(B) /\ Cardinality(B) \in 0 .. N - 1
    BY <1>1, <2>2, <2>3
  <2> QED
    BY <2>4 DEF B
<1>4. ASSUME NEW x \in S, NEW y \in S, << x, y >> \in R PROVE Cardinality(Below(x)) < Cardinality(Below(y))
  <2> DEFINE A == Below(x)  B == Below(y)
  <2>1. A \in SUBSET B
    BY <1>4 DEF IsStrictOrder
  <2>2. x \in B /\ x \notin A
    BY <1>4 DEF IsStrictOrder
  <2>3. IsFiniteSet(B) /\ Cardinality(A) \in 0 .. N - 1 /\ Cardinality(B) \in 0 .. N - 1
    BY <1>3
  <2> HIDE DEF A, B
  <2>4. Cardinality(A) <= Cardinality(B) /\ Cardinality(A) # Cardinality(B)
    BY <2>1, <2>2, <2>3, FS_Subset
  <2>5. Cardinality(A) < Cardinality(B)
    BY <1>1, <2>3, <2>4
  <2> QED
    BY <2>5 DEF A, B
<1> HIDE DEF Below
<1>5. rank \in [S -> 1 .. N]
  <2>1. \A x \in S : Cardinality(Below(x)) + 1 \in 1 .. N
    BY <1>1, <1>3
  <2> QED
    BY <2>1
<1>6. \A x, y \in S : rank[x] = rank[y] => x = y
  <2> SUFFICES ASSUME NEW x \in S, NEW y \in S, rank[x] = rank[y] PROVE x = y
    OBVIOUS
  <2>1. Cardinality(Below(x)) \in Int /\ Cardinality(Below(y)) \in Int
    BY <1>1, <1>3
  <2>2. ~(Cardinality(Below(x)) < Cardinality(Below(y))) /\ ~(Cardinality(Below(y)) < Cardinality(Below(x)))
    BY <2>1
  <2>3. << x, y >> \notin R /\ << y, x >> \notin R
    BY <1>4, <2>2
  <2> QED
    BY <2>3 DEF IsStrictOrder
<1>7. rank \in Injection(S, 1 .. N)
  BY <1>5, <1>6 DEF Injection, IsInjective
<1>8. IsFiniteSet(1 .. N) /\ Cardinality(1 .. N) = N
  BY <1>1, FS_Interval
<1>9. rank \in Surjection(S, 1 .. N)
  BY <1>7, <1>8, FS_Injection
<1>10. \A n \in 1 .. N : \E x \in S : rank[x] = n
  BY <1>9 DEF Surjection
<1>11. ASSUME NEW n \in 1 .. N PROVE InOrder(S, R)[n] \in S /\ rank[InOrder(S, R)[n]] = n
  <2>1. PICK x \in S : rank[x] = n
    BY <1>10
  <2>2. Cardinality(Below(x)) = n - 1
    <3>1. Cardinality(Below(x)) \in Int /\ n \in Int
      BY <1>1, <1>3
    <3> QED
      BY <2>1, <3>1
  <2>3. InOrder(S, R)[n] = CHOOSE z \in S : Cardinality(Below(z)) = n - 1
    BY DEF InOrder, Below
  <2>4. InOrder(S, R)[n] \in S /\ Cardinality(Below(InOrder(S, R)[n])) = n - 1
    BY <2>2, <2>3
  <2> QED
    BY <1>1, <2>4
<1>12. InOrder(S, R) \in [1 .. N -> S]
  <2> DEFINE Nth(n) == CHOOSE x \in S : Cardinality({y \in S : << y, x >> \in R}) = n - 1
  <2>1. InOrder(S, R) = [n \in 1 .. N |-> Nth(n)]
    BY DEF InOrder
  <2> HIDE DEF Nth
  <2>2. \A n \in 1 .. N : Nth(n) \in S
    BY <1>11, <2>1
  <2> QED
    BY <2>1, <2>2
<1>13. ASSUME NEW x \in S PROVE InOrder(S, R)[rank[x]] = x /\ rank[x] \in 1 .. N
  BY <1>5, <1>6, <1>11
<1>14. ASSUME NEW m \in 1 .. N, NEW n \in 1 .. N, m < n PROVE << InOrder(S, R)[m], InOrder(S, R)[n] >> \in R
  <2> DEFINE x == InOrder(S, R)[m]  y == InOrder(S, R)[n]
  <2>1. x \in S /\ y \in S /\ rank[x] = m /\ rank[y] = n
    BY <1>11
  <2>2. x # y
    BY <1>14, <2>1
  <2>3. << y, x >> \notin R
    <3>1. Cardinality(Below(x)) \in Int /\ Cardinality(Below(y)) \in Int /\ m \in Int /\ n \in Int
      BY <1>1, <1>3, <2>1
    <3>2. ~(Cardinality(Below(y)) < Cardinality(Below(x)))
      BY <1>14, <2>1, <3>1
    <3> QED
      BY <1>4, <2>1, <3>2
  <2> QED
    BY <2>1, <2>2, <2>3 DEF IsStrictOrder
<1> QED
  BY <1>1, <1>12, <1>13, <1>14

----------------------------------------------------------------------------
(* Lists by their positions. *)

\* A list written as a function is its own evaluation.
LEMMA ListOf ==
    ASSUME NEW n \in Nat, NEW f, f = [i \in 1 .. n |-> f[i]]
    PROVE  Evaluated(f) = f /\ Len(f) = n /\ DOMAIN f = 1 .. n /\ f \in Seq(Range(f))
<1>1. f \in [1 .. n -> Range(f)]
  BY DEF Range
<1>2. f \in Seq(Range(f)) /\ Len(f) = n
  BY <1>1
<1>3. f \o << >> = f
  BY <1>2
<1> QED
  BY <1>2, <1>3 DEF Evaluated

\* Positions are ordered by their numbers.
LEMMA PlacesInOrder ==
    ASSUME NEW n \in Nat, NEW I \in SUBSET (1 .. n)
    PROVE  IsFiniteSet(I) /\ Cardinality(I) \in Nat /\ IsStrictOrder(I, {p \in I \X I : p[1] < p[2]})
<1>0. IsFiniteSet(1 .. n)
  BY FS_Interval
<1>1. IsFiniteSet(I)
  BY <1>0, FS_Subset
<1> QED
  BY <1>1, FS_CardinalityType DEF IsStrictOrder

\* p is the order in which t takes the places I of s.
IsPlacing(p, t, s, I) ==
    /\ p \in [1 .. Cardinality(I) -> I]
    /\ \A i \in I : \E k \in 1 .. Cardinality(I) : p[k] = i
    /\ \A k, l \in 1 .. Cardinality(I) : k < l => p[k] < p[l]
    /\ t = [k \in 1 .. Cardinality(I) |-> s[p[k]]]

\* A part holds exactly what stands at its places, in the order of the places.
LEMMA PartHolds ==
    ASSUME NEW s, NEW n \in Nat, DOMAIN s = 1 .. n, NEW I \in SUBSET (1 .. n)
    PROVE  /\ Cardinality(I) \in Nat
           /\ Len(Part(s, I)) = Cardinality(I) /\ DOMAIN Part(s, I) = 1 .. Cardinality(I)
           /\ Part(s, I) \in Seq(Range(s))
           /\ \A x : x \in Range(Part(s, I)) <=> \E i \in I : x = s[i]
           /\ \E p : IsPlacing(p, Part(s, I), s, I)
<1> DEFINE N == Cardinality(I)
           R == {q \in I \X I : q[1] < q[2]}
           p == InOrder(I, R)
<1>1. IsFiniteSet(I) /\ N \in Nat /\ IsStrictOrder(I, R)
  BY PlacesInOrder
<1>2. /\ p \in [1 .. N -> I]
      /\ \A i \in I : \E k \in 1 .. N : p[k] = i
      /\ \A k, l \in 1 .. N : k < l => << p[k], p[l] >> \in R
  <2>1. /\ InOrder(I, R) \in [1 .. Cardinality(I) -> I]
        /\ \A i \in I : \E k \in 1 .. Cardinality(I) : InOrder(I, R)[k] = i
        /\ \A k, l \in 1 .. Cardinality(I) : k < l => << InOrder(I, R)[k], InOrder(I, R)[l] >> \in R
    <3> HIDE DEF R
    <3>1. InOrder(I, R) \in [1 .. Cardinality(I) -> I]
      BY <1>1, InOrderLists
    <3>2. \A i \in I : \E k \in 1 .. Cardinality(I) : InOrder(I, R)[k] = i
      BY <1>1, InOrderLists
    <3>3. \A k, l \in 1 .. Cardinality(I) : k < l => << InOrder(I, R)[k], InOrder(I, R)[l] >> \in R
      BY <1>1, InOrderLists
    <3> QED
      BY <3>1, <3>2, <3>3
  <2> QED
    BY <2>1
<1> DEFINE f == [k \in 1 .. N |-> s[p[k]]]
<1>3. Part(s, I) = Evaluated(f)
  <2>1. Part(s, I) = Evaluated([k \in DOMAIN p |-> s[p[k]]])
    BY DEF Part, Each
  <2> QED
    BY <1>2, <2>1
<1>4. Evaluated(f) = f /\ Len(f) = N /\ DOMAIN f = 1 .. N /\ f \in Seq(Range(f))
  BY <1>1, ListOf
<1>5. (\A x : x \in Range(f) <=> \E i \in I : x = s[i]) /\ Range(f) \subseteq Range(s)
  BY <1>2 DEF Range
<1>6. \A k, l \in 1 .. N : k < l => p[k] < p[l]
  BY <1>2
<1> HIDE DEF p, N
<1>7. /\ Part(s, I) = f /\ Len(f) = N /\ DOMAIN f = 1 .. N
      /\ f \in Seq(Range(s)) /\ \A x : x \in Range(f) <=> \E i \in I : x = s[i]
  <2> HIDE DEF f
  <2>1. f \in Seq(Range(s))
    BY <1>4, <1>5
  <2> QED
    BY <1>3, <1>4, <1>5, <2>1
<1> HIDE DEF f
<1>8. /\ Len(Part(s, I)) = N /\ DOMAIN Part(s, I) = 1 .. N
      /\ Part(s, I) \in Seq(Range(s)) /\ \A x : x \in Range(Part(s, I)) <=> \E i \in I : x = s[i]
  BY <1>7
<1>9. Part(s, I) = [k \in 1 .. N |-> s[p[k]]]
  BY <1>7 DEF f
<1>10. IsPlacing(p, Part(s, I), s, I)
  BY <1>2, <1>6, <1>9 DEF IsPlacing, N
<1> QED
  BY <1>1, <1>8, <1>10 DEF N

\* The same without the order, for uses that do not need it.
LEMMA PartList ==
    ASSUME NEW s, NEW n \in Nat, DOMAIN s = 1 .. n, NEW I \in SUBSET (1 .. n)
    PROVE  /\ Cardinality(I) \in Nat
           /\ Len(Part(s, I)) = Cardinality(I) /\ DOMAIN Part(s, I) = 1 .. Cardinality(I)
           /\ Part(s, I) \in Seq(Range(s))
           /\ \A x : x \in Range(Part(s, I)) <=> \E i \in I : x = s[i]
<1>1. Cardinality(I) \in Nat
  BY PartHolds
<1>2. Len(Part(s, I)) = Cardinality(I)
  BY PartHolds
<1>3. DOMAIN Part(s, I) = 1 .. Cardinality(I)
  BY PartHolds
<1>4. Part(s, I) \in Seq(Range(s))
  BY PartHolds
<1>5. \A x : x \in Range(Part(s, I)) <=> \E i \in I : x = s[i]
  BY PartHolds
<1> QED
  BY <1>1, <1>2, <1>3, <1>4, <1>5

IsList(s) == s \in Seq(Range(s))

\* A list is empty exactly when it holds nothing, and its first element is one of its own.
LEMMA ListHead ==
    ASSUME NEW s, IsList(s)
    PROVE  (s = << >> <=> Range(s) = {}) /\ (s # << >> => s[1] \in Range(s))
BY DEF IsList, Range

\* t holds what s holds at the places I.
IsPart(t, s, I) ==
    /\ IsList(t) /\ t \in Seq(Range(s)) /\ Len(t) = Cardinality(I)
    /\ \A x : x \in Range(t) <=> \E i \in I : x = s[i]

\* What a part holds, for any list and any of its positions.
LEMMA PartIsPart ==
    ASSUME NEW s, IsList(s), NEW I \in SUBSET (DOMAIN s)
    PROVE  IsPart(Part(s, I), s, I)
<1>1. Len(s) \in Nat /\ DOMAIN s = 1 .. Len(s)
  BY DEF IsList
<1> DEFINE n == Len(s)  t == Part(s, I)
<1>2. n \in Nat /\ DOMAIN s = 1 .. n /\ I \in SUBSET (1 .. n)
  BY <1>1
<1> HIDE DEF n, t
<1>3. Len(t) = Cardinality(I)
  BY <1>2, PartList DEF t
<1>4. t \in Seq(Range(s))
  BY <1>2, PartList DEF t
<1>5. \A x : x \in Range(t) <=> \E i \in I : x = s[i]
  BY <1>2, PartList DEF t
<1>6. t \in Seq(Range(t))
  <2>1. t \in [1 .. Len(t) -> Range(t)] /\ Len(t) \in Nat
    BY <1>4 DEF Range
  <2> QED
    BY <2>1
<1> QED
  BY <1>3, <1>4, <1>5, <1>6 DEF IsPart, IsList, t

Distinct(s) == \A i, j \in DOMAIN s : s[i] = s[j] => i = j

\* A part of a list without repetitions has none.
LEMMA PartDistinct ==
    ASSUME NEW s, IsList(s), Distinct(s), NEW I \in SUBSET (DOMAIN s)
    PROVE  Distinct(Part(s, I))
<1> DEFINE n == Len(s)  t == Part(s, I)
<1>1. n \in Nat /\ DOMAIN s = 1 .. n /\ I \in SUBSET (1 .. n)
  BY DEF IsList
<1> HIDE DEF n
<1>0. PICK p : IsPlacing(p, Part(s, I), s, I)
  BY <1>1, PartHolds
<1>2. /\ p \in [1 .. Cardinality(I) -> I]
      /\ \A k, l \in 1 .. Cardinality(I) : k < l => p[k] < p[l]
      /\ Part(s, I) = [k \in 1 .. Cardinality(I) |-> s[p[k]]]
  BY <1>0 DEF IsPlacing
<1>3. Cardinality(I) \in Nat
  BY <1>1, PartHolds
<1> HIDE DEF t
<1>4. ASSUME NEW k \in DOMAIN t, NEW l \in DOMAIN t, t[k] = t[l] PROVE k = l
  <2>1. k \in 1 .. Cardinality(I) /\ l \in 1 .. Cardinality(I) /\ s[p[k]] = s[p[l]]
    BY <1>2, <1>4 DEF t
  <2>2. p[k] \in DOMAIN s /\ p[l] \in DOMAIN s
    BY <1>2, <2>1
  <2>3. p[k] = p[l]
    BY <2>1, <2>2 DEF Distinct
  <2>4. ~(k < l) /\ ~(l < k)
    BY <1>1, <1>2, <2>1, <2>2, <2>3
  <2> QED
    BY <1>3, <2>1, <2>4
<1> QED
  BY <1>4 DEF Distinct, t

(* Lists without duplicates that hold the same are as long. *)
LEMMA SameLength ==
    ASSUME NEW s, IsList(s), Distinct(s), NEW t, IsList(t), Distinct(t), Range(s) = Range(t)
    PROVE  Len(s) = Len(t)
<1>1. ASSUME NEW u, IsList(u), Distinct(u) PROVE Cardinality(Range(u)) = Len(u)
  <2> DEFINE S == Range(u)
  <2>1. Len(u) \in Nat /\ u \in [1 .. Len(u) -> S] /\ DOMAIN u = 1 .. Len(u)
    BY <1>1 DEF IsList
  <2>2. \A x \in S : \E i \in 1 .. Len(u) : u[i] = x
    BY <2>1 DEF Range
  <2>3. \A i, j \in 1 .. Len(u) : u[i] = u[j] => i = j
    BY <1>1, <2>1 DEF Distinct
  <2> HIDE DEF S
  <2>4. u \in Bijection(1 .. Len(u), S)
    BY <2>1, <2>2, <2>3 DEF Bijection, Injection, Surjection, IsInjective
  <2>5. ExistsBijection(1 .. Len(u), S)
    BY <2>4 DEF ExistsBijection
  <2> QED
    BY <2>1, <2>5, FS_CountingElements DEF S
<1> QED
  BY <1>1

(* All places of a list are the list. *)
LEMMA PartOfAll ==
    ASSUME NEW s, IsList(s)
    PROVE  Part(s, DOMAIN s) = s
<1> DEFINE n == Len(s)
           S == 1 .. n
           R == {p \in S \X S : p[1] < p[2]}
           places == InOrder(S, R)
<1>1. n \in Nat /\ DOMAIN s = S /\ s = [i \in S |-> s[i]]
  BY DEF IsList
<1>2. Cardinality(S) = n
  BY <1>1, FS_Interval
<1>3. ASSUME NEW x \in S PROVE Cardinality({y \in S : << y, x >> \in R}) = x - 1
  <2>1. {y \in S : << y, x >> \in R} = 1 .. x - 1
    BY <1>1
  <2>2. Cardinality(1 .. x - 1) = x - 1
    BY <1>1, FS_Interval
  <2> QED
    BY <2>1, <2>2
<1>4. ASSUME NEW k \in S PROVE places[k] = k
  <2>1. places[k] = CHOOSE x \in S : Cardinality({y \in S : << y, x >> \in R}) = k - 1
    BY <1>2 DEF InOrder
  <2>2. (CHOOSE x \in S : Cardinality({y \in S : << y, x >> \in R}) = k - 1) = CHOOSE x \in S : x - 1 = k - 1
    BY <1>3
  <2>3. \A x \in S : x - 1 = k - 1 <=> x = k
    BY <1>1
  <2> QED
    BY <2>1, <2>2, <2>3
<1>5. DOMAIN places = S
  BY <1>2 DEF InOrder
<1>6. Part(s, S) = Evaluated([i \in DOMAIN places |-> s[places[i]]])
  BY DEF Part, Each
<1> HIDE DEF places
<1>7. [i \in DOMAIN places |-> s[places[i]]] = s
  BY <1>1, <1>4, <1>5
<1>8. Evaluated(s) = s
  BY <1>1, ListOf
<1> QED
  BY <1>1, <1>6, <1>7, <1>8

(* Tuples of as many numbers are ordered by the first that differs. *)
LEMMA AheadOrders ==
    ASSUME NEW n \in Nat, NEW k \in [1 .. n -> Int], NEW l \in [1 .. n -> Int]
    PROVE  /\ ~Ahead(k, k)
           /\ k = l \/ Ahead(k, l) \/ Ahead(l, k)
           /\ ~(Ahead(k, l) /\ Ahead(l, k))
           /\ \A m \in [1 .. n -> Int] : Ahead(k, l) /\ Ahead(l, m) => Ahead(k, m)
<1>1. ~Ahead(k, k)
  BY DEF Ahead
<1>2. k = l \/ Ahead(k, l) \/ Ahead(l, k)
  <2> DEFINE Differ == {i \in 1 .. n : k[i] # l[i]}
  <2>1. CASE Differ = {}
    BY <2>1
  <2>2. CASE Differ # {}
    <3>1. Differ \subseteq Nat
      OBVIOUS
    <3>2. PICK i \in Differ : \A j \in Differ : i <= j
      BY <2>2, <3>1, LeastNat
    <3>3. \A j \in 1 .. i - 1 : k[j] = l[j]
      BY <3>2
    <3>4. k[i] > l[i] \/ l[i] > k[i]
      OBVIOUS
    <3> QED
      BY <3>3, <3>4 DEF Ahead
  <2> QED
    BY <2>1, <2>2
<1>3. ASSUME Ahead(k, l), NEW m \in [1 .. n -> Int], Ahead(l, m) PROVE Ahead(k, m)
  <2>1. PICK i \in 1 .. n : k[i] > l[i] /\ \A x \in 1 .. i - 1 : k[x] = l[x]
    BY <1>3 DEF Ahead
  <2>2. PICK j \in 1 .. n : l[j] > m[j] /\ \A x \in 1 .. j - 1 : l[x] = m[x]
    BY <1>3 DEF Ahead
  <2>3. CASE i < j
    <3>1. k[i] > m[i] /\ \A x \in 1 .. i - 1 : k[x] = m[x]
      BY <2>1, <2>2, <2>3
    <3> QED
      BY <3>1 DEF Ahead
  <2>4. CASE i = j
    <3>1. k[i] > m[i] /\ \A x \in 1 .. i - 1 : k[x] = m[x]
      BY <2>1, <2>2, <2>4
    <3> QED
      BY <3>1 DEF Ahead
  <2>5. CASE j < i
    <3>1. k[j] > m[j] /\ \A x \in 1 .. j - 1 : k[x] = m[x]
      BY <2>1, <2>2, <2>5
    <3> QED
      BY <3>1 DEF Ahead
  <2> QED
    BY <2>3, <2>4, <2>5
<1>4. ~(Ahead(k, l) /\ Ahead(l, k))
  BY <1>1, <1>3
<1> QED
  BY <1>1, <1>2, <1>3, <1>4

\* A tuple of criteria is a function, as the lemmas on sorting want it.
LEMMA TupleOfInts ==
    ASSUME NEW a \in Int, NEW b \in Int, NEW c \in Int, NEW d \in Int
    PROVE  /\ << a >> \in [1 .. 1 -> Int] /\ << a, b >> \in [1 .. 2 -> Int]
           /\ << a, b, c >> \in [1 .. 3 -> Int] /\ << a, b, c, d >> \in [1 .. 4 -> Int]
<1>1. 1 .. 1 = {1} /\ 1 .. 2 = {1, 2} /\ 1 .. 3 = {1, 2, 3} /\ 1 .. 4 = {1, 2, 3, 4}
  OBVIOUS
<1>2. << a >> \in [{1} -> Int] /\ << a, b >> \in [{1, 2} -> Int]
  OBVIOUS
<1>3. << a, b, c >> \in [{1, 2, 3} -> Int]
  OBVIOUS
<1>4. << a, b, c, d >> \in [{1, 2, 3, 4} -> Int]
  OBVIOUS
<1> QED
  BY <1>1, <1>2, <1>3, <1>4

\* The order of a stable sort is strict and total, whatever the keys.
LEMMA PrecedesOrders ==
    ASSUME NEW n \in Nat, NEW w \in Nat, NEW keys \in [1 .. n -> [1 .. w -> Int]]
    PROVE  IsStrictOrder(1 .. n, Precedes(keys))
<1> DEFINE R == Precedes(keys)
<1>1. \A i, j \in 1 .. n : << i, j >> \in R <=> Ahead(keys[i], keys[j]) \/ (keys[i] = keys[j] /\ i < j)
  <2>1. DOMAIN keys = 1 .. n
    OBVIOUS
  <2> HIDE DEF Ahead
  <2> QED
    BY <2>1 DEF Precedes
<1>2. ASSUME NEW i \in 1 .. n PROVE << i, i >> \notin R
  <2>1. ~Ahead(keys[i], keys[i])
    BY AheadOrders
  <2> HIDE DEF R
  <2> QED
    BY <1>1, <2>1
<1>3. ASSUME NEW i \in 1 .. n, NEW j \in 1 .. n PROVE i = j \/ << i, j >> \in R \/ << j, i >> \in R
  <2>1. keys[i] = keys[j] \/ Ahead(keys[i], keys[j]) \/ Ahead(keys[j], keys[i])
    BY AheadOrders
  <2> HIDE DEF R
  <2> QED
    BY <1>1, <2>1
<1>4. ASSUME NEW i \in 1 .. n, NEW j \in 1 .. n, NEW k \in 1 .. n, << i, j >> \in R, << j, k >> \in R PROVE << i, k >> \in R
  <2>1. Ahead(keys[i], keys[j]) /\ Ahead(keys[j], keys[k]) => Ahead(keys[i], keys[k])
    BY AheadOrders
  <2> HIDE DEF R
  <2> QED
    BY <1>1, <1>4, <2>1
<1> QED
  BY <1>2, <1>3, <1>4 DEF IsStrictOrder

\* t is s in the order p, none ahead of an earlier one.
IsSorting(t, s, n, keys, p) ==
    /\ p \in [1 .. n -> 1 .. n]
    /\ \A i \in 1 .. n : \E k \in 1 .. n : p[k] = i
    /\ \A k, l \in 1 .. n : k < l => Ahead(keys[p[k]], keys[p[l]]) \/ (keys[p[k]] = keys[p[l]] /\ p[k] < p[l])
    /\ t = [k \in 1 .. n |-> s[p[k]]]

IsListing(t, n, S) == Len(t) = n /\ DOMAIN t = 1 .. n /\ t \in Seq(S) /\ Range(t) = S

\* Sorting loses and adds nothing, and nothing comes before what precedes it.
LEMMA SortedHolds ==
    ASSUME NEW s, NEW n \in Nat, DOMAIN s = 1 .. n, NEW w \in Nat, NEW keys \in [1 .. n -> [1 .. w -> Int]]
    PROVE  IsListing(Sorted(s, keys), n, Range(s)) /\ \E p : IsSorting(Sorted(s, keys), s, n, keys, p)
<1> DEFINE S == 1 .. n
           R == Precedes(keys)
           p == InOrder(S, R)
<1>1. IsFiniteSet(S) /\ Cardinality(S) = n /\ IsStrictOrder(S, R)
  <2>1. IsFiniteSet(S) /\ Cardinality(S) = n
    BY FS_Interval
  <2>2. IsStrictOrder(S, R)
    BY PrecedesOrders
  <2> QED
    BY <2>1, <2>2
<1>2. /\ p \in [1 .. n -> 1 .. n]
      /\ \A i \in 1 .. n : \E k \in 1 .. n : p[k] = i
      /\ \A k, l \in 1 .. n : k < l => << p[k], p[l] >> \in R
  <2>1. /\ InOrder(S, R) \in [1 .. Cardinality(S) -> S]
        /\ \A x \in S : \E k \in 1 .. Cardinality(S) : InOrder(S, R)[k] = x
        /\ \A k, l \in 1 .. Cardinality(S) : k < l => << InOrder(S, R)[k], InOrder(S, R)[l] >> \in R
    <3> HIDE DEF R, S
    <3>1. InOrder(S, R) \in [1 .. Cardinality(S) -> S]
      BY <1>1, InOrderLists
    <3>2. \A x \in S : \E k \in 1 .. Cardinality(S) : InOrder(S, R)[k] = x
      BY <1>1, InOrderLists
    <3>3. \A k, l \in 1 .. Cardinality(S) : k < l => << InOrder(S, R)[k], InOrder(S, R)[l] >> \in R
      BY <1>1, InOrderLists
    <3> QED
      BY <3>1, <3>2, <3>3
  <2> QED
    BY <1>1, <2>1
<1> DEFINE f == [k \in 1 .. n |-> s[p[k]]]
<1>3. Sorted(s, keys) = Evaluated(f)
  <2>1. Sorted(s, keys) = Evaluated([k \in DOMAIN p |-> s[p[k]]])
    BY DEF Sorted, Each
  <2> QED
    BY <1>2, <2>1
<1>4. Evaluated(f) = f /\ Len(f) = n /\ DOMAIN f = 1 .. n /\ f \in Seq(Range(f))
  BY ListOf
<1>5. Range(f) = Range(s)
  BY <1>2 DEF Range
<1>6. \A k, l \in 1 .. n : k < l => Ahead(keys[p[k]], keys[p[l]]) \/ (keys[p[k]] = keys[p[l]] /\ p[k] < p[l])
  BY <1>2 DEF Precedes
<1> HIDE DEF p
<1>7. /\ Sorted(s, keys) = f /\ Len(f) = n /\ DOMAIN f = 1 .. n
      /\ f \in Seq(Range(s)) /\ Range(f) = Range(s)
  BY <1>3, <1>4, <1>5
<1>8. Sorted(s, keys) = [k \in 1 .. n |-> s[p[k]]]
  BY <1>7 DEF f
<1> HIDE DEF f
<1>9. IsSorting(Sorted(s, keys), s, n, keys, p)
  BY <1>2, <1>6, <1>8 DEF IsSorting
<1>10. IsListing(Sorted(s, keys), n, Range(s))
  BY <1>7 DEF IsListing
<1> QED
  BY <1>9, <1>10

\* None is ahead of x.
IsFirst(x, s, n, keys) == \E j \in 1 .. n : x = s[j] /\ \A i \in 1 .. n : ~Ahead(keys[i], keys[j])

\* Nothing is ahead of the first of a sorted list.
LEMMA SortedHead ==
    ASSUME NEW s, NEW n \in Nat, n # 0, DOMAIN s = 1 .. n, NEW w \in Nat, NEW keys \in [1 .. n -> [1 .. w -> Int]]
    PROVE  IsFirst(Sorted(s, keys)[1], s, n, keys)
<1>0. PICK p : IsSorting(Sorted(s, keys), s, n, keys, p)
  BY SortedHolds
<1>1. /\ p \in [1 .. n -> 1 .. n]
      /\ \A i \in 1 .. n : \E k \in 1 .. n : p[k] = i
      /\ \A k, l \in 1 .. n : k < l => Ahead(keys[p[k]], keys[p[l]]) \/ (keys[p[k]] = keys[p[l]] /\ p[k] < p[l])
      /\ Sorted(s, keys) = [k \in 1 .. n |-> s[p[k]]]
  BY <1>0 DEF IsSorting
<1>2. 1 \in 1 .. n /\ p[1] \in 1 .. n /\ Sorted(s, keys)[1] = s[p[1]]
  BY <1>1
<1>3. ASSUME NEW i \in 1 .. n PROVE ~Ahead(keys[i], keys[p[1]])
  <2>1. PICK k \in 1 .. n : p[k] = i
    BY <1>1
  <2>2. CASE k = 1
    <3>1. ~Ahead(keys[i], keys[i])
      BY AheadOrders
    <3> QED
      BY <2>1, <2>2, <3>1
  <2>3. CASE k # 1
    <3>1. 1 < k
      BY <2>3
    <3>2. Ahead(keys[p[1]], keys[i]) \/ keys[p[1]] = keys[i]
      BY <1>1, <1>2, <2>1, <3>1
    <3>3. ~(Ahead(keys[p[1]], keys[i]) /\ Ahead(keys[i], keys[p[1]])) /\ ~Ahead(keys[i], keys[i])
      BY <1>2, AheadOrders
    <3> QED
      BY <3>2, <3>3
  <2> QED
    BY <2>2, <2>3
<1> QED
  BY <1>2, <1>3 DEF IsFirst

----------------------------------------------------------------------------
(* Sums. *)

IsSum(f, s, n) == f \in [0 .. n -> Int] /\ f[0] = 0 /\ \A k \in 1 .. n : f[k] = f[k - 1] + s[k]

(* The sums of the first elements, one after another, end in the total. *)
LEMMA TotalHolds ==
    ASSUME NEW n \in Nat, NEW s \in [1 .. n -> Int]
    PROVE  \E f : IsSum(f, s, n) /\ Total(s) = f[n]
<1> DEFINE Bad == {k \in 0 .. n : ~\E f : IsSum(f, s, k)}
<1>1. Bad = {}
  <2>1. SUFFICES ASSUME Bad # {} PROVE FALSE
    OBVIOUS
  <2>2. Bad \subseteq Nat
    OBVIOUS
  <2>3. PICK k \in Bad : \A j \in Bad : k <= j
    BY <2>1, <2>2, LeastNat
  <2>4. k # 0
    <3>1. IsSum([i \in 0 .. 0 |-> 0], s, 0)
      BY DEF IsSum
    <3> QED
      BY <3>1
  <2>5. k - 1 \in 0 .. n /\ k - 1 \notin Bad
    BY <2>3, <2>4
  <2>6. PICK f : IsSum(f, s, k - 1)
    BY <2>5
  <2> DEFINE g == [i \in 0 .. k |-> IF i = k THEN f[k - 1] + s[k] ELSE f[i]]
  <2>7. IsSum(g, s, k)
    <3>1. k \in 1 .. n /\ f \in [0 .. k - 1 -> Int] /\ f[0] = 0 /\ \A j \in 1 .. k - 1 : f[j] = f[j - 1] + s[j]
      BY <2>4, <2>5, <2>6 DEF IsSum
    <3>2. g \in [0 .. k -> Int] /\ g[0] = 0
      BY <3>1
    <3>3. ASSUME NEW j \in 1 .. k PROVE g[j] = g[j - 1] + s[j]
      BY <3>1
    <3> QED
      BY <3>2, <3>3 DEF IsSum
  <2> QED
    BY <2>3, <2>7
<1>2. PICK f : IsSum(f, s, n)
  <2>1. n \in 0 .. n /\ n \notin Bad
    <3> HIDE DEF Bad
    <3> QED
      BY <1>1
  <2> QED
    BY <2>1
<1> DEFINE Rec(g) == [i \in 0 .. n |-> IF i = 0 THEN 0 ELSE g[i - 1] + s[i]]
<1>3. f = Rec(f)
  BY <1>2 DEF IsSum
<1>4. Len(s) = n
  OBVIOUS
<1> DEFINE g == CHOOSE h : h = Rec(h)
<1>5. Total(s) = g[n]
  BY <1>4 DEF Total
<1>6. g = Rec(g)
  BY <1>3
<1> HIDE DEF g
<1> DEFINE Wrong == {k \in 0 .. n : g[k] # f[k]}
<1>7. Wrong = {}
  <2>1. SUFFICES ASSUME Wrong # {} PROVE FALSE
    OBVIOUS
  <2>2. Wrong \subseteq Nat
    OBVIOUS
  <2>3. PICK k \in Wrong : \A j \in Wrong : k <= j
    BY <2>1, <2>2, LeastNat
  <2>4. g[k] = IF k = 0 THEN 0 ELSE g[k - 1] + s[k]
    BY <1>6
  <2>5. k # 0
    BY <1>2, <2>4 DEF IsSum
  <2>6. k - 1 \in 0 .. n /\ k - 1 \notin Wrong
    BY <2>3, <2>5
  <2> QED
    BY <1>2, <2>4, <2>5, <2>6 DEF IsSum
<1> QED
  BY <1>2, <1>5, <1>7

\* A sum of numbers is a number, no smaller than any of them.
LEMMA TotalOfNats ==
    ASSUME NEW n \in Nat, NEW s \in [1 .. n -> Nat]
    PROVE  Total(s) \in Nat /\ \A i \in 1 .. n : s[i] <= Total(s)
<1>1. PICK f : IsSum(f, s, n) /\ Total(s) = f[n]
  BY TotalHolds
<1> DEFINE Bad == {k \in 0 .. n : f[k] < 0 \/ \E i \in 1 .. k : s[i] > f[k]}
<1>2. Bad = {}
  <2>1. SUFFICES ASSUME Bad # {} PROVE FALSE
    OBVIOUS
  <2>2. Bad \subseteq Nat
    OBVIOUS
  <2>3. PICK k \in Bad : \A j \in Bad : k <= j
    BY <2>1, <2>2, LeastNat
  <2>4. k # 0
    BY <1>1 DEF IsSum
  <2>5. k - 1 \in 0 .. n /\ k - 1 \notin Bad
    BY <2>3, <2>4
  <2>6. f[k] = f[k - 1] + s[k] /\ f[k - 1] \in Int /\ s[k] \in Nat /\ k \in 1 .. n
    BY <1>1, <2>4 DEF IsSum
  <2>7. f[k - 1] >= 0 /\ \A i \in 1 .. k - 1 : s[i] <= f[k - 1]
    BY <2>5, <2>6
  <2>8. \A i \in 1 .. k : s[i] <= f[k]
    BY <2>6, <2>7
  <2> QED
    BY <2>3, <2>6, <2>7, <2>8
<1>3. n \in 0 .. n /\ n \notin Bad
  BY <1>2
<1>4. f[n] \in Int
  BY <1>1, <1>3 DEF IsSum
<1> QED
  BY <1>1, <1>3, <1>4

(* Lists one after another. *)
IsJoin(f, T, s, n) == f \in [1 .. n -> Seq(T)] /\ f[1] = s[1] /\ \A k \in 2 .. n : f[k] = f[k - 1] \o s[k]

\* The joining of lists is a list, of the elements of all of them.
LEMMA FlattenHolds ==
    ASSUME NEW n \in Nat \ {0}, NEW T, NEW s \in [1 .. n -> Seq(T)]
    PROVE  \E f : IsJoin(f, T, s, n) /\ FlattenSeq(s) = f[n]
<1> DEFINE Bad == {k \in 1 .. n : ~\E f : IsJoin(f, T, s, k)}
<1>1. Bad = {}
  <2>1. SUFFICES ASSUME Bad # {} PROVE FALSE
    OBVIOUS
  <2>2. Bad \subseteq Nat
    OBVIOUS
  <2>3. PICK k \in Bad : \A j \in Bad : k <= j
    BY <2>1, <2>2, LeastNat
  <2>4. k # 1
    <3>1. IsJoin([i \in 1 .. 1 |-> s[1]], T, s, 1)
      BY DEF IsJoin
    <3> QED
      BY <3>1
  <2>5. k - 1 \in 1 .. n /\ k - 1 \notin Bad
    <3>1. k \in 1 .. n
      OBVIOUS
    <3> HIDE DEF Bad
    <3>2. ~(k <= k - 1)
      BY <3>1
    <3> QED
      BY <2>3, <2>4, <3>1, <3>2
  <2>6. PICK f : IsJoin(f, T, s, k - 1)
    BY <2>5
  <2> DEFINE g == [i \in 1 .. k |-> IF i = k THEN f[k - 1] \o s[k] ELSE f[i]]
  <2>7. IsJoin(g, T, s, k)
    <3>0. k \in 2 .. n
      BY <2>4
    <3>1. f \in [1 .. k - 1 -> Seq(T)] /\ f[1] = s[1] /\ \A j \in 2 .. k - 1 : f[j] = f[j - 1] \o s[j]
      BY <2>6 DEF IsJoin
    <3>2. f[k - 1] \o s[k] \in Seq(T)
      BY <3>0, <3>1
    <3>3. g \in [1 .. k -> Seq(T)] /\ g[1] = s[1]
      BY <3>0, <3>1, <3>2
    <3>4. ASSUME NEW j \in 2 .. k PROVE g[j] = g[j - 1] \o s[j]
      <4>1. CASE j = k
        <5>1. g[k] = f[k - 1] \o s[k] /\ g[k - 1] = f[k - 1]
          BY <3>0
        <5> QED
          BY <4>1, <5>1
      <4>2. CASE j # k
        <5>1. j \in 2 .. k - 1 /\ g[j] = f[j] /\ g[j - 1] = f[j - 1]
          BY <3>0, <4>2
        <5>2. f[j] = f[j - 1] \o s[j]
          BY <3>1, <5>1
        <5> HIDE DEF g
        <5> QED
          BY <5>1, <5>2
      <4> QED
        BY <4>1, <4>2
    <3> QED
      BY <3>3, <3>4 DEF IsJoin
  <2> QED
    BY <2>3, <2>7
<1>2. PICK f : IsJoin(f, T, s, n)
  <2>1. n \in 1 .. n /\ n \notin Bad
    <3> HIDE DEF Bad
    <3> QED
      BY <1>1
  <2> QED
    BY <2>1
<1> DEFINE Rec(g) == [i \in 1 .. n |-> IF i = 1 THEN s[i] ELSE g[i - 1] \o s[i]]
<1>3. f = Rec(f)
  <2>1. f \in [1 .. n -> Seq(T)] /\ f[1] = s[1] /\ \A k \in 2 .. n : f[k] = f[k - 1] \o s[k]
    BY <1>2 DEF IsJoin
  <2>2. ASSUME NEW i \in 1 .. n PROVE f[i] = IF i = 1 THEN s[i] ELSE f[i - 1] \o s[i]
    <3>1. CASE i = 1
      BY <2>1, <3>1
    <3>2. CASE i # 1
      <4>1. i \in 2 .. n
        BY <3>2
      <4> QED
        BY <2>1, <3>2, <4>1
    <3> QED
      BY <3>1, <3>2
  <2> QED
    BY <2>1, <2>2
<1>4. Len(s) = n
  OBVIOUS
<1> DEFINE g == CHOOSE h : h = Rec(h)
<1>5. FlattenSeq(s) = g[n]
  BY <1>4 DEF FlattenSeq
<1>6. g = Rec(g)
  BY <1>3
<1> HIDE DEF g
<1> DEFINE Wrong == {k \in 1 .. n : g[k] # f[k]}
<1>7. Wrong = {}
  <2>1. SUFFICES ASSUME Wrong # {} PROVE FALSE
    OBVIOUS
  <2>2. Wrong \subseteq Nat
    OBVIOUS
  <2>3. PICK k \in Wrong : \A j \in Wrong : k <= j
    BY <2>1, <2>2, LeastNat
  <2>4. g[k] = IF k = 1 THEN s[k] ELSE g[k - 1] \o s[k]
    BY <1>6
  <2>5. k # 1
    BY <1>2, <2>4 DEF IsJoin
  <2>6. k - 1 \in 1 .. n /\ k - 1 \notin Wrong
    BY <2>3, <2>5
  <2>7. k \in 2 .. n
    BY <2>5
  <2>8. f[k] = f[k - 1] \o s[k]
    BY <1>2, <2>7 DEF IsJoin
  <2> QED
    BY <2>4, <2>5, <2>6, <2>8
<1> QED
  BY <1>2, <1>5, <1>7

\* The total of two lists, one after the other, is the sum of theirs.
LEMMA TotalConcat ==
    ASSUME NEW m \in Nat, NEW s \in [1 .. m -> Int], NEW n \in Nat, NEW t \in [1 .. n -> Int]
    PROVE  Total(s \o t) = Total(s) + Total(t)
<1> DEFINE u == s \o t
<1>1. PICK f : IsSum(f, s, m) /\ Total(s) = f[m]
  BY TotalHolds
<1>2. PICK g : IsSum(g, t, n) /\ Total(t) = g[n]
  BY TotalHolds
<1>3. u \in [1 .. m + n -> Int] /\ (\A i \in 1 .. m : u[i] = s[i]) /\ \A i \in 1 .. n : u[m + i] = t[i]
  <2>1. s \in Seq(Int) /\ Len(s) = m /\ t \in Seq(Int) /\ Len(t) = n
    OBVIOUS
  <2>2. u \in Seq(Int) /\ Len(u) = m + n
    BY <2>1
  <2>3. (\A i \in 1 .. m : u[i] = s[i]) /\ \A i \in 1 .. n : u[m + i] = t[i]
    BY <2>1
  <2> HIDE DEF u
  <2>4. u \in [1 .. Len(u) -> Int]
    BY <2>2
  <2>5. u \in [1 .. m + n -> Int]
    BY <2>2, <2>4
  <2> QED
    BY <2>3, <2>5 DEF u
<1> HIDE DEF u
<1>4. PICK h : IsSum(h, u, m + n) /\ Total(u) = h[m + n]
  <2>1. m + n \in Nat
    OBVIOUS
  <2> QED
    BY <1>3, <2>1, TotalHolds
<1> DEFINE Sum(k) == IF k <= m THEN f[k] ELSE f[m] + g[k - m]
           Bad == {k \in 0 .. m + n : h[k] # Sum(k)}
<1>5. Bad = {}
  <2>1. SUFFICES ASSUME Bad # {} PROVE FALSE
    OBVIOUS
  <2>2. Bad \subseteq Nat
    OBVIOUS
  <2>3. PICK k \in Bad : \A j \in Bad : k <= j
    BY <2>1, <2>2, LeastNat
  <2>4. k # 0
    BY <1>1, <1>4 DEF IsSum
  <2>5. k - 1 \in 0 .. m + n /\ k - 1 \notin Bad /\ k \in 1 .. m + n
    BY <2>3, <2>4
  <2>6. h[k] = h[k - 1] + u[k] /\ h[k - 1] = Sum(k - 1)
    BY <1>4, <2>5 DEF IsSum
  <2>7. CASE k <= m
    <3>1. u[k] = s[k] /\ f[k] = f[k - 1] + s[k]
      BY <1>1, <1>3, <2>5, <2>7 DEF IsSum
    <3> QED
      BY <2>3, <2>5, <2>6, <2>7, <3>1
  <2>8. CASE k > m
    <3>1. k - m \in 1 .. n /\ m + (k - m) = k /\ (k - 1) - m = (k - m) - 1
      BY <2>5, <2>8
    <3>2. u[k] = t[k - m] /\ g[k - m] = g[(k - m) - 1] + t[k - m] /\ g[(k - m) - 1] \in Int /\ t[k - m] \in Int
      BY <1>2, <1>3, <3>1 DEF IsSum
    <3>3. f[m] \in Int /\ g[0] = 0
      BY <1>1, <1>2 DEF IsSum
    <3>4. Sum(k - 1) = f[m] + g[(k - m) - 1]
      <4>1. CASE k - 1 = m
        <5>1. (k - m) - 1 = 0 /\ k - 1 <= m
          BY <2>5, <4>1
        <5> QED
          BY <3>3, <4>1, <5>1
      <4>2. CASE k - 1 # m
        <5>1. ~(k - 1 <= m)
          BY <2>5, <2>8, <4>2
        <5> QED
          BY <3>1, <5>1
      <4> QED
        BY <4>1, <4>2
    <3>5. Sum(k) = f[m] + g[k - m]
      BY <2>5, <2>8
    <3> HIDE DEF Sum
    <3> QED
      BY <2>3, <2>6, <3>2, <3>3, <3>4, <3>5
  <2> QED
    BY <2>5, <2>7, <2>8
<1>6. m + n \in 0 .. m + n /\ m + n \notin Bad
  BY <1>5
<1>7. h[m + n] = f[m] + g[n]
  <2>1. h[m + n] = Sum(m + n)
    BY <1>6
  <2>2. f[m] \in Int /\ g[0] = 0
    BY <1>1, <1>2 DEF IsSum
  <2>3. CASE n = 0
    BY <2>1, <2>2, <2>3
  <2>4. CASE n # 0
    <3>1. ~(m + n <= m) /\ (m + n) - m = n
      BY <2>4
    <3> QED
      BY <2>1, <3>1
  <2> QED
    BY <2>3, <2>4
<1> QED
  BY <1>1, <1>2, <1>4, <1>7 DEF u

\* A list of numbers that is longer, and as great at every place, has as great a total.
LEMMA TotalGrows ==
    ASSUME NEW m \in Nat, NEW s \in [1 .. m -> Nat], NEW n \in Nat, NEW t \in [1 .. n -> Nat],
           m <= n, \A i \in 1 .. m : s[i] <= t[i]
    PROVE  Total(s) <= Total(t)
<1>1. PICK f : IsSum(f, s, m) /\ Total(s) = f[m]
  BY TotalHolds
<1>2. PICK g : IsSum(g, t, n) /\ Total(t) = g[n]
  BY TotalHolds
<1> DEFINE Least(k) == IF k <= m THEN f[k] ELSE f[m]
           Bad == {k \in 0 .. n : g[k] < Least(k)}
<1>3. Bad = {}
  <2>1. SUFFICES ASSUME Bad # {} PROVE FALSE
    OBVIOUS
  <2>2. Bad \subseteq Nat
    OBVIOUS
  <2>3. PICK k \in Bad : \A j \in Bad : k <= j
    BY <2>1, <2>2, LeastNat
  <2>4. k # 0
    BY <1>1, <1>2 DEF IsSum
  <2>5. k - 1 \in 0 .. n /\ k - 1 \notin Bad /\ k \in 1 .. n
    BY <2>3, <2>4
  <2>6. g[k] = g[k - 1] + t[k] /\ g[k - 1] \in Int /\ t[k] \in Nat
    BY <1>2, <2>5 DEF IsSum
  <2>7. f[m] \in Int /\ \A j \in 0 .. m : f[j] \in Int
    BY <1>1 DEF IsSum
  <2>8. g[k - 1] >= Least(k - 1)
    BY <2>5, <2>6, <2>7
  <2>9. CASE k <= m
    <3>1. f[k] = f[k - 1] + s[k] /\ s[k] <= t[k] /\ s[k] \in Nat /\ f[k - 1] \in Int
      BY <1>1, <2>5, <2>9 DEF IsSum
    <3>2. Least(k - 1) = f[k - 1] /\ Least(k) = f[k]
      BY <2>5, <2>9
    <3> HIDE DEF Least
    <3> QED
      BY <2>3, <2>6, <2>8, <3>1, <3>2
  <2>10. CASE k > m
    <3>1. Least(k - 1) = f[m] /\ Least(k) = f[m]
      BY <2>5, <2>10
    <3> HIDE DEF Least
    <3> QED
      BY <2>3, <2>6, <2>7, <2>8, <3>1
  <2> QED
    BY <2>5, <2>9, <2>10
<1>4. n \in 0 .. n /\ n \notin Bad
  BY <1>3
<1>5. Least(n) = f[m] /\ f[m] \in Int /\ g[n] \in Int
  BY <1>1, <1>2, <1>4 DEF IsSum
<1> QED
  BY <1>1, <1>2, <1>4, <1>5

\* A joining holds what its lists hold.
LEMMA JoinElements ==
    ASSUME NEW n \in Nat \ {0}, NEW T, NEW s \in [1 .. n -> Seq(T)], NEW f, IsJoin(f, T, s, n), NEW x
    PROVE  x \in Range(f[n]) <=> \E i \in 1 .. n : x \in Range(s[i])
<1>1. f \in [1 .. n -> Seq(T)] /\ f[1] = s[1] /\ \A k \in 2 .. n : f[k] = f[k - 1] \o s[k]
  BY DEF IsJoin
<1> DEFINE Bad == {k \in 1 .. n : ~(x \in Range(f[k]) <=> \E i \in 1 .. k : x \in Range(s[i]))}
<1>2. Bad = {}
  <2>1. SUFFICES ASSUME Bad # {} PROVE FALSE
    OBVIOUS
  <2>2. Bad \subseteq Nat
    OBVIOUS
  <2>3. PICK k \in Bad : \A j \in Bad : k <= j
    BY <2>1, <2>2, LeastNat
  <2>4. k # 1
    BY <1>1
  <2>5. k \in 2 .. n /\ k - 1 \in 1 .. n /\ k - 1 \notin Bad
    <3>1. k \in 1 .. n
      OBVIOUS
    <3> HIDE DEF Bad
    <3> QED
      BY <2>3, <2>4, <3>1
  <2>6. \A a, b \in Seq(T) : x \in Range(a \o b) <=> x \in Range(a) \/ x \in Range(b)
    <3> SUFFICES ASSUME NEW a \in Seq(T), NEW b \in Seq(T) PROVE x \in Range(a \o b) <=> x \in Range(a) \/ x \in Range(b)
      OBVIOUS
    <3>1. Len(a) \in Nat /\ Len(b) \in Nat /\ DOMAIN a = 1 .. Len(a) /\ DOMAIN b = 1 .. Len(b)
          /\ DOMAIN (a \o b) = 1 .. Len(a) + Len(b)
      OBVIOUS
    <3>2. (\A i \in 1 .. Len(a) : (a \o b)[i] = a[i]) /\ \A i \in 1 .. Len(b) : (a \o b)[Len(a) + i] = b[i]
      OBVIOUS
    <3> DEFINE c == a \o b
    <3> HIDE DEF c
    <3>3. ASSUME x \in Range(c) PROVE x \in Range(a) \/ x \in Range(b)
      <4>1. PICK i \in 1 .. Len(a) + Len(b) : x = c[i]
        BY <3>1, <3>3 DEF Range, c
      <4>2. i <= Len(a) \/ (i - Len(a) \in 1 .. Len(b) /\ Len(a) + (i - Len(a)) = i)
        BY <3>1
      <4>3. CASE i <= Len(a)
        <5>1. i \in 1 .. Len(a) /\ x = a[i]
          BY <3>1, <3>2, <4>1, <4>3 DEF c
        <5> QED
          BY <3>1, <5>1 DEF Range
      <4>4. CASE i - Len(a) \in 1 .. Len(b) /\ Len(a) + (i - Len(a)) = i
        <5>1. x = b[i - Len(a)]
          BY <3>2, <4>1, <4>4 DEF c
        <5> QED
          BY <3>1, <4>4, <5>1 DEF Range
      <4> QED
        BY <4>2, <4>3, <4>4
    <3>4. ASSUME x \in Range(a) \/ x \in Range(b) PROVE x \in Range(c)
      <4>1. (\E i \in 1 .. Len(a) : x = a[i]) \/ \E i \in 1 .. Len(b) : x = b[i]
        BY <3>1, <3>4 DEF Range
      <4>2. \E i \in 1 .. Len(a) + Len(b) : x = c[i]
        <5>1. (\A i \in 1 .. Len(a) : i \in 1 .. Len(a) + Len(b)) /\ \A i \in 1 .. Len(b) : Len(a) + i \in 1 .. Len(a) + Len(b)
          BY <3>1
        <5> QED
          BY <3>2, <4>1, <5>1 DEF c
      <4> QED
        BY <3>1, <4>2 DEF Range, c
    <3> QED
      BY <3>3, <3>4 DEF c
  <2>7. f[k] = f[k - 1] \o s[k] /\ f[k - 1] \in Seq(T) /\ s[k] \in Seq(T)
    BY <1>1, <2>5
  <2>8. x \in Range(f[k]) <=> x \in Range(f[k - 1]) \/ x \in Range(s[k])
    BY <2>6, <2>7
  <2>9. x \in Range(f[k - 1]) <=> \E i \in 1 .. k - 1 : x \in Range(s[i])
    BY <2>5
  <2>10. (\E i \in 1 .. k : x \in Range(s[i])) <=> (\E i \in 1 .. k - 1 : x \in Range(s[i])) \/ x \in Range(s[k])
    <3>1. \A i : i \in 1 .. k <=> i \in 1 .. k - 1 \/ i = k
      BY <2>5
    <3> QED
      BY <3>1
  <2>11. k \in Bad
    BY <2>3
  <2> QED
    BY <2>8, <2>9, <2>10, <2>11
<1>3. n \in 1 .. n /\ n \notin Bad
  <2> HIDE DEF Bad
  <2> QED
    BY <1>2
<1> QED
  BY <1>3

\* x and y are what s and t hold at the same places.
Beside(x, y, s, t, I) == Len(x) = Len(y) /\ \A k \in 1 .. Len(x) : \E i \in I : x[k] = s[i] /\ y[k] = t[i]

\* The same places of two lists, one beside the other.
LEMMA PartAlike ==
    ASSUME NEW n \in Nat, NEW s, DOMAIN s = 1 .. n, NEW t, DOMAIN t = 1 .. n, NEW I \in SUBSET (1 .. n)
    PROVE  Beside(Part(s, I), Part(t, I), s, t, I)
<1> DEFINE N == Cardinality(I)
           R == {q \in I \X I : q[1] < q[2]}
           p == InOrder(I, R)
<1>1. IsFiniteSet(I) /\ N \in Nat /\ IsStrictOrder(I, R)
  BY PlacesInOrder
<1>2. p \in [1 .. N -> I]
  <2> HIDE DEF R
  <2> QED
    BY <1>1, InOrderLists
<1>3. ASSUME NEW u PROVE Part(u, I) = [k \in 1 .. N |-> u[p[k]]] /\ Len(Part(u, I)) = N
  <2> DEFINE f == [k \in 1 .. N |-> u[p[k]]]
  <2>1. Part(u, I) = Evaluated([k \in DOMAIN p |-> u[p[k]]])
    BY DEF Part, Each
  <2>2. Part(u, I) = Evaluated(f)
    BY <1>2, <2>1
  <2>3. Evaluated(f) = f /\ Len(f) = N
    BY <1>1, ListOf
  <2> QED
    BY <2>2, <2>3
<1> HIDE DEF p, N
<1>4. ASSUME NEW k \in 1 .. N PROVE Part(s, I)[k] = s[p[k]] /\ Part(t, I)[k] = t[p[k]] /\ p[k] \in I
  BY <1>2, <1>3
<1> QED
  BY <1>3, <1>4 DEF Beside

\* The total of one number is that number.
LEMMA TotalOfOne ==
    ASSUME NEW s \in [1 .. 1 -> Int]
    PROVE  Total(s) = s[1]
<1>1. PICK f : IsSum(f, s, 1) /\ Total(s) = f[1]
  BY TotalHolds
<1> QED
  BY <1>1 DEF IsSum
=============================================================================
