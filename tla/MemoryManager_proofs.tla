------------------------ MODULE MemoryManager_proofs -------------------------
(***************************************************************************)
(* Theorems about MemoryManager, for every range, alignment, threshold and *)
(* set of sizes, and any sequence of allocations and frees.  HeapInv says  *)
(* that the free and the busy buffers split the managed range into aligned *)
(* pieces and that mFreeSize counts the free bytes.  The algorithms of the *)
(* model are folds along lists: what coalescing does to a list, and that   *)
(* the sum of lengths is a number of bytes, is proved by induction along   *)
(* the list, and that sorting loses nothing by counting places.            *)
(***************************************************************************)
EXTENDS MemoryManager, FiniteSetTheorems, SequenceTheorems, WellFoundedInduction, TLAPS

-----------------------------------------------------------------------------
(***************************************************************************)
(* Induction and folds.                                                    *)
(***************************************************************************)

\* Induction over the naturals, with a set in the place of a predicate: the least number outside
\* the set would have a predecessor inside.
LEMMA SetInduction ==
  ASSUME NEW S, 0 \in S, \A n \in Nat : n \in S => n + 1 \in S
  PROVE  Nat \subseteq S
<1> DEFINE R == OpToRel(<, Nat)
           T == Nat \ S
<1>1. IsWellFoundedOn(R, Nat)
  BY NatLessThanWellFounded
<1>2. \A a, b \in Nat : a < b => <<a, b>> \in R
  BY DEF OpToRel
<1> HIDE DEF R
<1>3. SUFFICES ASSUME T # {} PROVE FALSE
  OBVIOUS
<1>4. PICK m \in T : \A y \in T : ~ (<<y, m>> \in R)
  BY <1>1, <1>3, WFMin
<1>5. m - 1 \in Nat /\ m - 1 < m
  OBVIOUS
<1>6. m - 1 \in S
  BY <1>2, <1>4, <1>5
<1> QED
  BY <1>5, <1>6

\* The largest element of a set of positions is one of them.
LEMMA MaxIsElement ==
  ASSUME NEW N \in Nat, NEW s \in SUBSET (1 .. N), s # {}
  PROVE  Max(s) \in s /\ \A y \in s : Max(s) >= y
<1> DEFINE S == {k \in Nat : \A t \in SUBSET (1 .. k) :
                               t # {} => \E m \in t : \A y \in t : m >= y}
<1>1. 0 \in S
  <2>1. 1 .. 0 = {}
    OBVIOUS
  <2>2. \A t \in SUBSET (1 .. 0) : t = {}
    BY <2>1
  <2> QED
    BY <2>2
<1>2. ASSUME NEW k \in Nat, k \in S PROVE k + 1 \in S
  <2> SUFFICES ASSUME NEW t \in SUBSET (1 .. k + 1), t # {}
               PROVE  \E m \in t : \A y \in t : m >= y
    OBVIOUS
  <2>1. CASE k + 1 \in t
    BY <2>1
  <2>2. CASE k + 1 \notin t
    <3>1. t \in SUBSET (1 .. k)
      BY <2>2
    <3> QED
      BY <1>2, <3>1
  <2> QED
    BY <2>1, <2>2
<1>3. Nat \subseteq S
  <2> HIDE DEF S
  <2> QED
    BY <1>1, <1>2, SetInduction
<1>4. \E m \in s : \A y \in s : m >= y
  BY <1>3
<1> QED
  BY <1>4 DEF Max

\* The largest of the first k positions is k.
LEMMA MaxOfInterval ==
  ASSUME NEW k \in Nat \ {0}
  PROVE  Max(1 .. k) = k
<1>1. 1 .. k # {} /\ k \in 1 .. k
  OBVIOUS
<1>2. Max(1 .. k) \in 1 .. k /\ \A y \in 1 .. k : Max(1 .. k) >= y
  BY <1>1, MaxIsElement
<1> QED
  BY <1>1, <1>2

\* The prefixes of an interval, as a fold takes them apart.
LEMMA PrefixOfInterval ==
  ASSUME NEW N \in Nat, NEW k \in 1 .. N
  PROVE  /\ 1 .. k \in SUBSET (1 .. N) /\ 1 .. k # {}
         /\ (1 .. k) \ {k} = 1 .. k - 1
         /\ Max(1 .. k) = k
<1>1. \A i \in 1 .. k : i \in 1 .. N
  OBVIOUS
<1>2. k \in 1 .. k
  OBVIOUS
<1>3. \A i : i \in (1 .. k) \ {k} <=> i \in 1 .. k - 1
  OBVIOUS
<1>4. Max(1 .. k) = k
  BY MaxOfInterval
<1> QED
  BY <1>1, <1>2, <1>3, <1>4

\* The recursion of a fold over positions, with the function g as its step.
IsFold(F, N, X, base, g) ==
  /\ F \in [SUBSET (1 .. N) -> X]
  /\ F[{}] = base
  /\ \A s \in SUBSET (1 .. N) : s # {} => F[s] = g[<<Max(s), F[s \ {Max(s)}]>>]

\* It has a solution.
LEMMA FoldExists ==
  ASSUME NEW N \in Nat, NEW X, NEW base \in X, NEW g \in [(1 .. N) \X X -> X]
  PROVE  \E F : IsFold(F, N, X, base, g)
<1> DEFINE Solves(F, k) ==
             /\ F \in [SUBSET (1 .. k) -> X]
             /\ \A s \in SUBSET (1 .. k) :
                  F[s] = IF s = {} THEN base ELSE g[<<Max(s), F[s \ {Max(s)}]>>]
           Solvable(k) == \E F : Solves(F, k)
           S == {k \in Nat : k <= N => Solvable(k)}
<1>1. 0 \in S
  <2> DEFINE F == [s \in SUBSET (1 .. 0) |-> base]
  <2>1. \A s \in SUBSET (1 .. 0) : s = {}
    OBVIOUS
  <2>2. Solves(F, 0)
    BY <2>1
  <2> QED
    BY <2>2
<1>2. ASSUME NEW k \in Nat, k \in S PROVE k + 1 \in S
  <2> SUFFICES ASSUME k + 1 <= N PROVE Solvable(k + 1)
    <3> HIDE DEF Solvable
    <3> QED
      OBVIOUS
  <2>0. Solvable(k)
    <3> HIDE DEF Solvable
    <3> QED
      BY <1>2
  <2>1. PICK F : Solves(F, k)
    BY <2>0
  <2> DEFINE G == [s \in SUBSET (1 .. k + 1) |->
                     IF k + 1 \in s THEN g[<<k + 1, F[s \ {k + 1}]>>] ELSE F[s]]
  <2>2. ASSUME NEW s \in SUBSET (1 .. k + 1)
        PROVE  /\ G[s] \in X
               /\ G[s] = IF s = {} THEN base ELSE g[<<Max(s), G[s \ {Max(s)}]>>]
    <3>1. CASE k + 1 \in s
      <4>1. Max(s) = k + 1
        <5>1. Max(s) \in s /\ \A y \in s : Max(s) >= y
          <6>1. k + 1 \in Nat /\ s # {}
            BY <3>1
          <6> HIDE DEF G
          <6> QED
            BY <6>1, MaxIsElement
        <5>2. Max(s) \in 1 .. k + 1 /\ Max(s) >= k + 1
          BY <3>1, <5>1
        <5> QED
          BY <5>2
      <4>2. s \ {k + 1} \in SUBSET (1 .. k)
        OBVIOUS
      <4>3. G[s] = g[<<k + 1, F[s \ {k + 1}]>>]
        BY <3>1
      <4>4. G[s \ {k + 1}] = F[s \ {k + 1}]
        OBVIOUS
      <4>5. F[s \ {k + 1}] \in X
        BY <2>1, <4>2
      <4>6. G[s] \in X
        BY <4>3, <4>5
      <4> HIDE DEF G
      <4> QED
        BY <3>1, <4>1, <4>3, <4>4, <4>6
    <3>2. CASE k + 1 \notin s
      <4>1. s \in SUBSET (1 .. k)
        BY <3>2
      <4>2. G[s] = F[s]
        BY <3>2
      <4>3. s \ {Max(s)} \in SUBSET (1 .. k + 1) /\ k + 1 \notin s \ {Max(s)}
        BY <3>2
      <4>4. G[s \ {Max(s)}] = F[s \ {Max(s)}]
        BY <4>3
      <4> HIDE DEF G
      <4> QED
        BY <2>1, <4>1, <4>2, <4>4
    <3> QED
      BY <3>1, <3>2
  <2>3. Solves(G, k + 1)
    <3>1. G \in [SUBSET (1 .. k + 1) -> X]
      BY <2>2
    <3> HIDE DEF G
    <3> QED
      BY <2>2, <3>1
  <2> QED
    BY <2>3
<1>3. N \in S
  <2> HIDE DEF S
  <2> QED
    BY <1>1, <1>2, SetInduction
<1>4. Solvable(N)
  <2> HIDE DEF Solvable
  <2> QED
    BY <1>3
<1>5. PICK F : Solves(F, N)
  BY <1>4
<1>6. IsFold(F, N, X, base, g)
  BY <1>5 DEF IsFold
<1> QED
  BY <1>6

\* Folding an addition of lengths along a list: the sums of its prefixes.
LEMMA SumSteps ==
  ASSUME NEW list \in Seq(Buffer)
  PROVE  \E acc \in [0 .. Len(list) -> Nat] :
           /\ acc[0] = 0
           /\ \A k \in 1 .. Len(list) : acc[k] = acc[k - 1] + list[k].len
           /\ FoldLeft(LAMBDA n, b : n + b.len, 0, list) = acc[Len(list)]
<1> DEFINE N == Len(list)
           P(F) == F = [s \in SUBSET (1 .. N) |->
                          IF s = {} THEN 0 ELSE F[s \ {Max(s)}] + list[Max(s)].len]
           g == [p \in (1 .. N) \X Nat |-> p[2] + list[p[1]].len]
<1>1. N \in Nat /\ DOMAIN list = 1 .. N
  BY LenProperties
<1>2. \A i \in 1 .. N : list[i] \in Buffer /\ list[i].len \in Nat
  <2>1. \A i \in 1 .. N : list[i] \in Buffer
    BY ElementOfSeq
  <2> QED
    BY <2>1 DEF Buffer
<1> HIDE DEF N
<1>3. g \in [(1 .. N) \X Nat -> Nat]
  BY <1>2
<1>4. \A i \in 1 .. N, x \in Nat : g[<<i, x>>] = x + list[i].len
  OBVIOUS
<1> HIDE DEF g
<1>5. PICK F : IsFold(F, N, Nat, 0, g)
  BY <1>1, <1>3, FoldExists
<1>6. P(F)
  <2>1. ASSUME NEW s \in SUBSET (1 .. N), s # {}
        PROVE  g[<<Max(s), F[s \ {Max(s)}]>>] = F[s \ {Max(s)}] + list[Max(s)].len
    <3>1. Max(s) \in s
      BY <1>1, <2>1, MaxIsElement
    <3>2. Max(s) \in 1 .. N /\ F[s \ {Max(s)}] \in Nat
      BY <1>5, <3>1 DEF IsFold
    <3> QED
      BY <1>4, <3>2
  <2> QED
    BY <1>5, <2>1 DEF IsFold
<1>7. FoldLeft(LAMBDA n, b : n + b.len, 0, list) = (CHOOSE G : P(G))[1 .. N]
  BY <1>1, Zenon DEF FoldLeft, MapThenFoldSet
<1> DEFINE G == CHOOSE H : P(H)
           acc == [k \in 0 .. N |-> G[1 .. k]]
<1>8. P(G)
  <2> HIDE DEF P
  <2> QED
    BY <1>6
<1> HIDE DEF G
<1>9. acc[0] = 0
  <2>1. 1 .. 0 = {} /\ {} \in SUBSET (1 .. N) /\ 0 \in 0 .. N
    BY <1>1
  <2>2. G[{}] = 0
    BY <1>8, <2>1
  <2> QED
    BY <2>1, <2>2
<1>10. ASSUME NEW k \in 1 .. N PROVE acc[k] = acc[k - 1] + list[k].len
  <2>1. /\ 1 .. k \in SUBSET (1 .. N) /\ 1 .. k # {}
        /\ (1 .. k) \ {k} = 1 .. k - 1 /\ Max(1 .. k) = k
    BY <1>1, PrefixOfInterval
  <2>3. G[1 .. k] = G[1 .. k - 1] + list[k].len
    BY <1>8, <2>1
  <2>4. k \in 0 .. N /\ k - 1 \in 0 .. N
    BY <1>1
  <2> QED
    BY <2>3, <2>4
<1>11. acc \in [0 .. N -> Nat]
  <2> DEFINE S == {k \in Nat : k <= N => acc[k] \in Nat}
  <2>1. 0 \in S
    BY <1>9
  <2>2. ASSUME NEW k \in Nat, k \in S PROVE k + 1 \in S
    <3> SUFFICES ASSUME k + 1 <= N PROVE acc[k + 1] \in Nat
      OBVIOUS
    <3>1. k + 1 \in 1 .. N /\ (k + 1) - 1 = k /\ acc[k] \in Nat
      BY <1>1, <2>2
    <3> HIDE DEF acc
    <3> QED
      BY <1>2, <1>10, <3>1
  <2>3. Nat \subseteq S
    <3> HIDE DEF S
    <3> QED
      BY <2>1, <2>2, SetInduction
  <2>4. \A k \in 0 .. N : acc[k] \in Nat
    <3> HIDE DEF acc
    <3> QED
      BY <1>1, <2>3
  <2> QED
    BY <2>4
<1>12. N \in 0 .. N
  BY <1>1
<1>13. FoldLeft(LAMBDA n, b : n + b.len, 0, list) = acc[N]
  <2>1. acc[N] = G[1 .. N]
    BY <1>12
  <2> QED
    BY <1>7, <2>1 DEF G
<1> HIDE DEF acc
<1> QED
  BY <1>9, <1>10, <1>11, <1>13 DEF N

\* Join: the last buffer grows, or the new one is appended.
LEMMA Joined ==
  ASSUME NEW acc \in Seq(Buffer), NEW b \in Buffer,
         NEW n, n = Len(acc), acc # <<>>, acc[n].base + acc[n].len = b.base
  PROVE  /\ Join(acc, b) \in Seq(Buffer) /\ Len(Join(acc, b)) = n /\ n \in Nat \ {0}
         /\ \A i \in 1 .. n : Join(acc, b)[i] =
              IF i = n THEN [base |-> acc[n].base, len |-> acc[n].len + b.len] ELSE acc[i]
<1>1. n \in Nat \ {0} /\ n \in 1 .. Len(acc)
  BY EmptySeq
<1>2. acc[n] \in Buffer
  BY <1>1, ElementOfSeq
<1> DEFINE e == [base |-> acc[n].base, len |-> acc[n].len + b.len]
<1>3. e \in Buffer
  BY <1>2 DEF Buffer
<1>4. [acc[n] EXCEPT !.len = @ + b.len] = e
  BY <1>2 DEF Buffer
<1>5. Join(acc, b) = [acc EXCEPT ![n] = e]
  BY <1>4 DEF Join, Last
<1> HIDE DEF e
<1>6. /\ [acc EXCEPT ![n] = e] \in Seq(Buffer) /\ Len([acc EXCEPT ![n] = e]) = n
      /\ \A i \in 1 .. n : [acc EXCEPT ![n] = e][i] = IF i = n THEN e ELSE acc[i]
  BY <1>1, <1>3, ExceptSeq
<1> QED
  BY <1>1, <1>5, <1>6 DEF e

\* r is list with b as its last entry.
Ends(r, list, n, b) == \A i \in 1 .. n + 1 : r[i] = IF i = n + 1 THEN b ELSE list[i]

\* A buffer that does not start where the last one ends becomes an entry of its own.
LEMMA Appended ==
  ASSUME NEW acc \in Seq(Buffer), NEW b \in Buffer,
         NEW n, n = Len(acc), acc = <<>> \/ acc[n].base + acc[n].len # b.base
  PROVE  /\ Join(acc, b) \in Seq(Buffer) /\ Len(Join(acc, b)) = n + 1 /\ n \in Nat
         /\ Ends(Join(acc, b), acc, n, b)
<1>1. Join(acc, b) = Append(acc, b)
  BY DEF Join, Last
<1> QED
  BY <1>1, AppendProperties, LenProperties DEF Ends

\* Join yields a list of buffers.
LEMMA JoinType ==
  ASSUME NEW acc \in Seq(Buffer), NEW b \in Buffer
  PROVE  Join(acc, b) \in Seq(Buffer)
<1> DEFINE n == Len(acc)
<1>1. CASE acc # <<>> /\ acc[n].base + acc[n].len = b.base
  BY <1>1, Joined
<1>2. CASE acc = <<>> \/ acc[n].base + acc[n].len # b.base
  BY <1>2, Appended
<1> QED
  BY <1>1, <1>2

\* Folding Join along a list: the lists it goes through.
LEMMA JoinSteps ==
  ASSUME NEW list \in Seq(Buffer)
  PROVE  \E acc \in [0 .. Len(list) -> Seq(Buffer)] :
           /\ acc[0] = <<>>
           /\ \A k \in 1 .. Len(list) : acc[k] = Join(acc[k - 1], list[k])
           /\ FoldLeft(Join, <<>>, list) = acc[Len(list)]
<1> DEFINE N == Len(list)
           P(F) == F = [s \in SUBSET (1 .. N) |->
                          IF s = {} THEN <<>> ELSE Join(F[s \ {Max(s)}], list[Max(s)])]
           g == [p \in (1 .. N) \X Seq(Buffer) |-> Join(p[2], list[p[1]])]
<1>1. N \in Nat /\ DOMAIN list = 1 .. N
  BY LenProperties
<1>2. \A i \in 1 .. N : list[i] \in Buffer
  BY ElementOfSeq
<1> HIDE DEF N
<1>3. g \in [(1 .. N) \X Seq(Buffer) -> Seq(Buffer)]
  BY <1>2, JoinType
<1>4. \A i \in 1 .. N, x \in Seq(Buffer) : g[<<i, x>>] = Join(x, list[i])
  OBVIOUS
<1> HIDE DEF g
<1>5. PICK F : IsFold(F, N, Seq(Buffer), <<>>, g)
  BY <1>1, <1>3, FoldExists, EmptySeq
<1>6. P(F)
  <2>1. ASSUME NEW s \in SUBSET (1 .. N), s # {}
        PROVE  g[<<Max(s), F[s \ {Max(s)}]>>] = Join(F[s \ {Max(s)}], list[Max(s)])
    <3>1. Max(s) \in s
      BY <1>1, <2>1, MaxIsElement
    <3>2. Max(s) \in 1 .. N /\ F[s \ {Max(s)}] \in Seq(Buffer)
      BY <1>5, <3>1 DEF IsFold
    <3> QED
      BY <1>4, <3>2
  <2> QED
    BY <1>5, <2>1 DEF IsFold
<1>7. FoldLeft(Join, <<>>, list) = (CHOOSE G : P(G))[1 .. N]
  BY <1>1, Zenon DEF FoldLeft, MapThenFoldSet
<1> DEFINE G == CHOOSE H : P(H)
           acc == [k \in 0 .. N |-> G[1 .. k]]
<1>8. P(G)
  <2> HIDE DEF P
  <2> QED
    BY <1>6
<1> HIDE DEF G
<1>9. acc[0] = <<>>
  <2>1. 1 .. 0 = {} /\ {} \in SUBSET (1 .. N) /\ 0 \in 0 .. N
    BY <1>1
  <2>2. G[{}] = <<>>
    BY <1>8, <2>1
  <2> QED
    BY <2>1, <2>2
<1>10. ASSUME NEW k \in 1 .. N PROVE acc[k] = Join(acc[k - 1], list[k])
  <2>1. /\ 1 .. k \in SUBSET (1 .. N) /\ 1 .. k # {}
        /\ (1 .. k) \ {k} = 1 .. k - 1 /\ Max(1 .. k) = k
    BY <1>1, PrefixOfInterval
  <2>3. G[1 .. k] = Join(G[1 .. k - 1], list[k])
    BY <1>8, <2>1
  <2>4. k \in 0 .. N /\ k - 1 \in 0 .. N
    BY <1>1
  <2> QED
    BY <2>3, <2>4
<1>11. acc \in [0 .. N -> Seq(Buffer)]
  <2> DEFINE S == {k \in Nat : k <= N => acc[k] \in Seq(Buffer)}
  <2>1. 0 \in S
    BY <1>9, EmptySeq
  <2>2. ASSUME NEW k \in Nat, k \in S PROVE k + 1 \in S
    <3> SUFFICES ASSUME k + 1 <= N PROVE acc[k + 1] \in Seq(Buffer)
      OBVIOUS
    <3>1. k + 1 \in 1 .. N /\ (k + 1) - 1 = k /\ acc[k] \in Seq(Buffer)
      BY <1>1, <2>2
    <3> HIDE DEF acc
    <3> QED
      BY <1>2, <1>10, <3>1, JoinType
  <2>3. Nat \subseteq S
    <3> HIDE DEF S
    <3> QED
      BY <2>1, <2>2, SetInduction
  <2>4. \A k \in 0 .. N : acc[k] \in Seq(Buffer)
    <3> HIDE DEF acc
    <3> QED
      BY <1>1, <2>3
  <2> QED
    BY <2>4
<1>12. N \in 0 .. N
  BY <1>1
<1>13. FoldLeft(Join, <<>>, list) = acc[N]
  <2>1. acc[N] = G[1 .. N]
    BY <1>12
  <2> QED
    BY <1>7, <2>1 DEF G
<1> HIDE DEF acc
<1> QED
  BY <1>9, <1>10, <1>11, <1>13 DEF N

-----------------------------------------------------------------------------
(***************************************************************************)
(* Sorting.                                                                *)
(***************************************************************************)

DistinctBases(list) ==
  \A i, j \in 1 .. Len(list) : i # j => list[i].base # list[j].base

\* The entries before the i-th, and itself: PlaceOf counts them.
UpTo(list, i) ==
  {j \in DOMAIN list : Before(list[j], list[i]) \/ (list[j] = list[i] /\ j <= i)}

\* Places are positions, in the order of the bases.
LEMMA PlacesAreOrdered ==
  ASSUME NEW list \in Seq(Buffer), DistinctBases(list), NEW N, N = Len(list)
  PROVE  /\ \A i \in 1 .. N : PlaceOf(list, i) \in 1 .. N
         /\ \A i, j \in 1 .. N :
              list[i].base < list[j].base => PlaceOf(list, i) < PlaceOf(list, j)
<1>1. N \in Nat /\ DOMAIN list = 1 .. N
  BY LenProperties
<1>2. \A i \in 1 .. N : list[i] \in Buffer /\ list[i].base \in Nat /\ list[i].len \in Nat
  <2>1. \A i \in 1 .. N : list[i] \in Buffer
    BY ElementOfSeq
  <2> QED
    BY <2>1 DEF Buffer
<1>3. \A i, j \in 1 .. N : j \in UpTo(list, i) <=> list[j].base <= list[i].base
  BY <1>1, <1>2 DEF UpTo, Before, DistinctBases
<1>4. \A i \in 1 .. N : UpTo(list, i) \subseteq 1 .. N /\ PlaceOf(list, i) = Cardinality(UpTo(list, i))
  BY <1>1 DEF UpTo, PlaceOf
<1>5. IsFiniteSet(1 .. N) /\ Cardinality(1 .. N) = N
  <2>1. 1 \in Int /\ N \in Int
    BY <1>1
  <2>2. IsFiniteSet(1 .. N) /\ Cardinality(1 .. N) = IF 1 > N THEN 0 ELSE N - 1 + 1
    BY <2>1, FS_Interval
  <2> QED
    BY <1>1, <2>2
<1>6. ASSUME NEW i \in 1 .. N PROVE IsFiniteSet(UpTo(list, i)) /\ PlaceOf(list, i) \in 1 .. N
  <2>1. IsFiniteSet(UpTo(list, i)) /\ Cardinality(UpTo(list, i)) <= N
    BY <1>4, <1>5, FS_Subset
  <2>2. i \in UpTo(list, i)
    BY <1>2, <1>3
  <2>3. Cardinality(UpTo(list, i)) \in Nat /\ Cardinality(UpTo(list, i)) # 0
    BY <2>1, <2>2, FS_CardinalityType, FS_EmptySet
  <2> QED
    BY <1>1, <1>4, <2>1, <2>3
<1>7. ASSUME NEW i \in 1 .. N, NEW j \in 1 .. N, list[i].base < list[j].base
      PROVE  PlaceOf(list, i) < PlaceOf(list, j)
  <2>1. UpTo(list, i) \subseteq UpTo(list, j)
    BY <1>2, <1>3, <1>4, <1>7
  <2>2. j \in UpTo(list, j) /\ j \notin UpTo(list, i)
    BY <1>2, <1>3, <1>7
  <2>3. /\ Cardinality(UpTo(list, i)) <= Cardinality(UpTo(list, j))
        /\ Cardinality(UpTo(list, i)) # Cardinality(UpTo(list, j))
    BY <1>6, <2>1, <2>2, FS_Subset
  <2> QED
    BY <1>1, <1>4, <1>6, <2>3
<1> QED
  BY <1>6, <1>7

\* Two lists of one length with the same entries.
SameEntries(s, t) ==
  /\ Len(s) = Len(t)
  /\ \A k \in 1 .. Len(t) : \E i \in 1 .. Len(t) : s[k] = t[i]
  /\ \A i \in 1 .. Len(t) : \E k \in 1 .. Len(t) : s[k] = t[i]

\* Sorting permutes the entries and orders them by their bases.
LEMMA SortedList ==
  ASSUME NEW list \in Seq(Buffer), DistinctBases(list), NEW N, N = Len(list)
  PROVE  /\ Sorted(list) \in Seq(Buffer) /\ SameEntries(Sorted(list), list)
         /\ \A k, m \in 1 .. N : k < m => Sorted(list)[k].base < Sorted(list)[m].base
<1>1. N \in Nat /\ DOMAIN list = 1 .. N
  BY LenProperties
<1>2. \A i \in 1 .. N : list[i] \in Buffer /\ list[i].base \in Nat
  <2>1. \A i \in 1 .. N : list[i] \in Buffer
    BY ElementOfSeq
  <2> QED
    BY <2>1 DEF Buffer
<1> DEFINE P == [i \in 1 .. N |-> PlaceOf(list, i)]
           c(k) == CHOOSE i \in DOMAIN list : PlaceOf(list, i) = k
           q == [k \in 1 .. N |-> c(k)]
<1>3. /\ \A i \in 1 .. N : PlaceOf(list, i) \in 1 .. N
      /\ \A i, j \in 1 .. N : list[i].base < list[j].base => PlaceOf(list, i) < PlaceOf(list, j)
  BY PlacesAreOrdered
<1>4. \A i, j \in 1 .. N : i # j => PlaceOf(list, i) # PlaceOf(list, j)
  BY <1>1, <1>2, <1>3 DEF DistinctBases
<1>5. P \in Injection(1 .. N, 1 .. N)
  BY <1>3, <1>4 DEF Injection, IsInjective
<1>6. IsFiniteSet(1 .. N)
  BY <1>1, FS_Interval
<1>7. P \in Surjection(1 .. N, 1 .. N)
  <2> HIDE DEF P
  <2> QED
    BY <1>5, <1>6, FS_Injection
<1>8. \A k \in 1 .. N : \E i \in 1 .. N : PlaceOf(list, i) = k
  BY <1>7 DEF Surjection
<1>9. \A k \in 1 .. N : q[k] \in 1 .. N /\ PlaceOf(list, q[k]) = k
  BY <1>1, <1>8
<1>10. Sorted(list) = [k \in 1 .. N |-> list[q[k]]]
  <2>1. Sorted(list) = [k \in DOMAIN list |-> list[c(k)]]
    BY Zenon DEF Sorted
  <2> HIDE DEF c
  <2> QED
    BY <1>1, <2>1
<1> HIDE DEF q
<1>11. \A k \in 1 .. N : Sorted(list)[k] = list[q[k]] /\ list[q[k]] \in Buffer
  BY <1>2, <1>9, <1>10
<1>12. Sorted(list) \in [1 .. N -> Buffer]
  BY <1>10, <1>11
<1>13. Sorted(list) \in Seq(Buffer) /\ Len(Sorted(list)) = N
  BY <1>1, <1>12, SeqDef
<1>14. ASSUME NEW k \in 1 .. N, NEW m \in 1 .. N, k < m
       PROVE  list[q[k]].base < list[q[m]].base
  <2>1. q[k] # q[m]
    BY <1>9, <1>14
  <2>2. list[q[k]].base # list[q[m]].base
    BY <1>9, <2>1 DEF DistinctBases
  <2>3. ~ (list[q[m]].base < list[q[k]].base)
    BY <1>1, <1>3, <1>9, <1>14
  <2> QED
    BY <1>2, <1>9, <2>2, <2>3
<1>15. ASSUME NEW i \in 1 .. N PROVE \E k \in 1 .. N : Sorted(list)[k] = list[i]
  <2>1. q[PlaceOf(list, i)] = i
    BY <1>3, <1>4, <1>9
  <2> QED
    BY <1>3, <1>11, <2>1
<1>16. SameEntries(Sorted(list), list)
  BY <1>9, <1>11, <1>13, <1>15 DEF SameEntries
<1> QED
  BY <1>11, <1>13, <1>14, <1>16

-----------------------------------------------------------------------------
(***************************************************************************)
(* Lists of buffers.                                                       *)
(***************************************************************************)

End(b)      == b.base + b.len
Sound(b)    == b.len > 0 /\ b.base % Alignment = 0
Apart(b, c) == End(b) <= c.base \/ End(c) <= b.base

\* The bytes of the first k buffers of a list.
Held(list, k) == UNION {Extent(list[i]) : i \in 1 .. k}

AllSound(list) == \A i \in 1 .. Len(list) : Sound(list[i])

\* A list whose buffers do not overlap.
Separate(list) ==
  \A i, j \in 1 .. Len(list) : i # j => Apart(list[i], list[j])

\* A list in order, with a gap behind every buffer.
Gapped(list) ==
  \A i, j \in 1 .. Len(list) : i < j => End(list[i]) < list[j].base

\* What can be said of an entry.
LEMMA Entries ==
  ASSUME NEW list \in Seq(Buffer), NEW N, N = Len(list)
  PROVE  /\ N \in Nat /\ DOMAIN list = 1 .. N
         /\ \A i \in 1 .. N : list[i] \in Buffer /\ list[i].base \in Nat /\ list[i].len \in Nat
<1>1. N \in Nat /\ DOMAIN list = 1 .. N
  BY LenProperties
<1>2. \A i \in 1 .. N : list[i] \in Buffer
  BY ElementOfSeq
<1> QED
  BY <1>1, <1>2 DEF Buffer

\* A byte of the first k buffers is in one of them.
LEMMA InHeld ==
  ASSUME NEW list, NEW k, NEW x
  PROVE  x \in Held(list, k) <=> \E i \in 1 .. k : x \in Extent(list[i])
BY DEF Held

\* The bytes of two buffers side by side.
LEMMA ExtentsJoin ==
  ASSUME NEW u, NEW v, NEW w, u.base \in Nat, u.len \in Nat, v.base \in Nat, v.len \in Nat,
         v.base = u.base + u.len, w.base = u.base, w.len = u.len + v.len
  PROVE  Extent(w) = Extent(u) \cup Extent(v)
<1>1. \A p, l, k \in Nat : p .. p + (l + k) - 1 = (p .. p + l - 1) \cup (p + l .. (p + l) + k - 1)
  OBVIOUS
<1>2. Extent(w) = u.base .. u.base + (u.len + v.len) - 1
  BY DEF Extent
<1>3. Extent(u) = u.base .. u.base + u.len - 1
  BY DEF Extent
<1>4. Extent(v) = u.base + u.len .. (u.base + u.len) + v.len - 1
  BY DEF Extent
<1> QED
  BY <1>1, <1>2, <1>3, <1>4, SMTT(20)

\* What is left of a buffer when its front is cut off.
LEMMA ExtentsSplit ==
  ASSUME NEW u, NEW v, NEW w, u.base \in Nat, u.len \in Nat, v.len \in Nat, u.len >= v.len,
         v.base = u.base, w.base = u.base + v.len, w.len = u.len - v.len
  PROVE  Extent(w) = Extent(u) \ Extent(v)
<1>1. \A p, l, k \in Nat : l >= k =>
        (p + k .. (p + k) + (l - k) - 1 = (p .. p + l - 1) \ (p .. p + k - 1))
  OBVIOUS
<1>2. Extent(w) = u.base + v.len .. (u.base + v.len) + (u.len - v.len) - 1
  BY DEF Extent
<1>3. Extent(u) = u.base .. u.base + u.len - 1
  BY DEF Extent
<1>4. Extent(v) = u.base .. u.base + v.len - 1
  BY DEF Extent
<1> QED
  BY <1>1, <1>2, <1>3, <1>4

\* Two buffers are apart just if they have no byte in common.
LEMMA ApartIsDisjoint ==
  ASSUME NEW b \in Buffer, NEW c \in Buffer, b.len > 0, c.len > 0
  PROVE  Apart(b, c) <=> Extent(b) \cap Extent(c) = {}
<1>1. b.base \in Nat /\ b.len \in Nat /\ c.base \in Nat /\ c.len \in Nat
  BY DEF Buffer
<1>2. ASSUME Apart(b, c) PROVE Extent(b) \cap Extent(c) = {}
  BY <1>1, <1>2 DEF Apart, End, Extent
<1>3. ASSUME ~ Apart(b, c) PROVE Extent(b) \cap Extent(c) # {}
  <2>1. CASE b.base <= c.base
    <3>1. c.base \in Extent(b) /\ c.base \in Extent(c)
      BY <1>1, <1>3, <2>1 DEF Apart, End, Extent
    <3> QED
      BY <3>1
  <2>2. CASE c.base <= b.base
    <3>1. b.base \in Extent(b) /\ b.base \in Extent(c)
      BY <1>1, <1>3, <2>2 DEF Apart, End, Extent
    <3> QED
      BY <3>1
  <2> QED
    BY <1>1, <2>1, <2>2
<1> QED
  BY <1>2, <1>3

\* A buffer that starts at the end of the list or behind it joins it: the list stays in order, and
\* holds the buffer's bytes too.
LEMMA JoinKeepsOrder ==
  ASSUME NEW a \in Seq(Buffer), NEW b \in Buffer, NEW n, n = Len(a),
         AllSound(a), Gapped(a), Sound(b),
         a # <<>> => End(a[n]) <= b.base,
         NEW r, r = Join(a, b), NEW m, m = Len(r)
  PROVE  /\ r \in Seq(Buffer) /\ r # <<>> /\ AllSound(r) /\ Gapped(r)
         /\ End(r[m]) = End(b)
         /\ Held(r, m) = Held(a, n) \cup Extent(b)
<1>1. b.base \in Nat /\ b.len \in Nat
  BY DEF Buffer
<1>2. /\ n \in Nat
      /\ \A i \in 1 .. n : a[i] \in Buffer /\ a[i].base \in Nat /\ a[i].len \in Nat
  BY Entries
<1>3. CASE a # <<>> /\ a[n].base + a[n].len = b.base
  <2>1. /\ r \in Seq(Buffer) /\ m = n /\ n \in Nat \ {0}
        /\ \A i \in 1 .. n : r[i] =
             IF i = n THEN [base |-> a[n].base, len |-> a[n].len + b.len] ELSE a[i]
    BY <1>3, Joined
  <2>2. n \in 1 .. n /\ r[n].base = a[n].base /\ r[n].len = a[n].len + b.len
    BY <2>1
  <2>3. \A i \in 1 .. n : i # n => r[i] = a[i]
    BY <2>1
  <2>4. r # <<>>
    BY <2>1, EmptySeq
  <2>5. AllSound(r)
    <3>1. \A i \in 1 .. n : Sound(a[i])
      BY DEF AllSound
    <3>2. Sound(r[n])
      BY <1>1, <1>2, <2>2, <3>1 DEF Sound
    <3> QED
      BY <2>1, <2>3, <3>1, <3>2 DEF AllSound
  <2>6. Gapped(r)
    <3>1. \A i, j \in 1 .. n : i < j => End(a[i]) < a[j].base
      BY DEF Gapped
    <3>2. ASSUME NEW i \in 1 .. n, NEW j \in 1 .. n, i < j PROVE End(r[i]) < r[j].base
      <4>1. i # n /\ r[i] = a[i] /\ r[j].base = a[j].base
        BY <1>2, <2>2, <2>3, <3>2
      <4> QED
        BY <3>1, <3>2, <4>1
    <3> QED
      BY <2>1, <3>2 DEF Gapped
  <2>7. End(r[m]) = End(b)
    BY <1>1, <1>2, <1>3, <2>1, <2>2 DEF End
  <2>8. Held(r, m) = Held(a, n) \cup Extent(b)
    <3>1. Extent(r[n]) = Extent(a[n]) \cup Extent(b)
      <4>1. a[n].base \in Nat /\ a[n].len \in Nat /\ b.base = a[n].base + a[n].len
        BY <1>2, <1>3, <2>2
      <4> QED
        BY <1>1, <2>2, <4>1, ExtentsJoin
    <3>2. \A i \in 1 .. n : i # n => Extent(r[i]) = Extent(a[i])
      BY <2>3
    <3>3. ASSUME NEW x
          PROVE  (\E i \in 1 .. n : x \in Extent(r[i])) <=>
                   (\E i \in 1 .. n : x \in Extent(a[i])) \/ x \in Extent(b)
      BY <2>2, <3>1, <3>2
    <3>4. ASSUME NEW x
          PROVE  x \in Held(r, m) <=> x \in Held(a, n) \/ x \in Extent(b)
      BY <2>1, <3>3, InHeld
    <3> QED
      BY <3>4
  <2> QED
    BY <2>1, <2>4, <2>5, <2>6, <2>7, <2>8
<1>4. CASE a = <<>> \/ a[n].base + a[n].len # b.base
  <2>1. /\ r \in Seq(Buffer) /\ m = n + 1
        /\ \A i \in 1 .. n + 1 : r[i] = IF i = n + 1 THEN b ELSE a[i]
    <3>1. /\ Join(a, b) \in Seq(Buffer) /\ Len(Join(a, b)) = n + 1
          /\ Ends(Join(a, b), a, n, b)
      BY <1>4, Appended
    <3> QED
      BY <3>1 DEF Ends
  <2>2. r[m] = b /\ m \in 1 .. m /\ m # 0
    BY <1>2, <2>1
  <2>3. \A i \in 1 .. m : i # m => i \in 1 .. n /\ r[i] = a[i]
    BY <1>2, <2>1
  <2>4. r # <<>>
    BY <2>1, <2>2, EmptySeq
  <2>5. AllSound(r)
    <3>1. \A i \in 1 .. n : Sound(a[i])
      BY DEF AllSound
    <3> QED
      BY <2>2, <2>3, <3>1 DEF AllSound
  <2>6. Gapped(r)
    <3>1. \A i, j \in 1 .. n : i < j => End(a[i]) < a[j].base
      BY DEF Gapped
    <3>2. \A i \in 1 .. n : Sound(a[i])
      BY DEF AllSound
    <3>3. ASSUME NEW i \in 1 .. n PROVE End(a[i]) < b.base
      <4>1. n \in 1 .. n /\ a # <<>>
        BY <1>2, EmptySeq
      <4>2. End(a[n]) < b.base
        <5>1. End(a[n]) <= b.base /\ End(a[n]) # b.base
          BY <1>4, <4>1 DEF End
        <5>2. End(a[n]) \in Nat
          BY <1>2, <4>1 DEF End
        <5> QED
          BY <1>1, <5>1, <5>2
      <4>3. i # n => End(a[i]) < a[n].base
        BY <1>2, <3>1, <4>1
      <4> QED
        BY <1>1, <1>2, <3>2, <4>1, <4>2, <4>3 DEF End, Sound
    <3>4. ASSUME NEW i \in 1 .. m, NEW j \in 1 .. m, i < j PROVE End(r[i]) < r[j].base
      <4>1. i \in 1 .. n /\ r[i] = a[i]
        BY <1>2, <2>1, <2>3, <3>4
      <4>2. CASE j = m
        BY <2>2, <3>3, <4>1, <4>2
      <4>3. CASE j # m
        BY <2>3, <3>1, <3>4, <4>1, <4>3
      <4> QED
        BY <4>2, <4>3
    <3> QED
      BY <3>4 DEF Gapped
  <2>7. \A i \in 1 .. n : i \in 1 .. m /\ r[i] = a[i]
    BY <1>2, <2>1
  <2>8. Held(r, m) = Held(a, n) \cup Extent(b)
    BY <2>2, <2>3, <2>7 DEF Held
  <2> QED
    BY <2>1, <2>2, <2>4, <2>5, <2>6, <2>8
<1> QED
  BY <1>3, <1>4

\* Buffers that do not overlap start at different addresses.
LEMMA SeparateBases ==
  ASSUME NEW list \in Seq(Buffer), AllSound(list), Separate(list)
  PROVE  DistinctBases(list)
<1> DEFINE N == Len(list)
<1>1. /\ N \in Nat
      /\ \A i \in 1 .. N : list[i] \in Buffer /\ list[i].base \in Nat /\ list[i].len \in Nat
  BY Entries
<1>2. ASSUME NEW i \in 1 .. N, NEW j \in 1 .. N, i # j PROVE list[i].base # list[j].base
  <2>1. list[i].len > 0 /\ list[j].len > 0 /\ Apart(list[i], list[j])
    BY <1>2 DEF AllSound, Separate, Sound
  <2> HIDE DEF N
  <2> QED
    BY <1>1, <2>1 DEF Apart, End
<1> QED
  BY <1>2 DEF DistinctBases

\* Coalescing keeps the bytes of the list, separates its buffers by gaps, and forgets nothing of
\* their alignment.
LEMMA CoalesceList ==
  ASSUME NEW list \in Seq(Buffer), AllSound(list), Separate(list),
         NEW N, N = Len(list), NEW r, r = Coalesce(list), NEW m, m = Len(r)
  PROVE  /\ r \in Seq(Buffer) /\ AllSound(r) /\ Gapped(r)
         /\ Held(r, m) = Held(list, N)
<1> DEFINE s == Sorted(list)
<1>1. /\ N \in Nat
      /\ \A i \in 1 .. N : list[i] \in Buffer /\ list[i].base \in Nat /\ list[i].len \in Nat
  BY Entries
<1>2. /\ s \in Seq(Buffer) /\ Len(s) = N
      /\ \A k, l \in 1 .. N : k < l => s[k].base < s[l].base
      /\ \A k \in 1 .. N : \E i \in 1 .. N : s[k] = list[i]
      /\ \A i \in 1 .. N : \E k \in 1 .. N : s[k] = list[i]
  <2>1. DistinctBases(list)
    BY SeparateBases
  <2>2. /\ Sorted(list) \in Seq(Buffer) /\ Len(Sorted(list)) = N
        /\ \A k, l \in 1 .. N : k < l => Sorted(list)[k].base < Sorted(list)[l].base
        /\ \A k \in 1 .. N : \E i \in 1 .. N : Sorted(list)[k] = list[i]
        /\ \A i \in 1 .. N : \E k \in 1 .. N : Sorted(list)[k] = list[i]
    <3>1. Sorted(list) \in Seq(Buffer) /\ SameEntries(Sorted(list), list)
      BY <2>1, SortedList
    <3>2. \A k, l \in 1 .. N : k < l => Sorted(list)[k].base < Sorted(list)[l].base
      BY <2>1, SortedList
    <3> QED
      BY <3>1, <3>2 DEF SameEntries
  <2> QED
    BY <2>2, Zenon
<1> HIDE DEF s
<1>3. \A k \in 1 .. N : s[k] \in Buffer /\ s[k].base \in Nat /\ s[k].len \in Nat /\ Sound(s[k])
  <2>1. \A i \in 1 .. N : Sound(list[i])
    BY DEF AllSound
  <2> QED
    BY <1>1, <1>2, <2>1
<1>4. ASSUME NEW k \in 1 .. N, NEW l \in 1 .. N, k < l PROVE End(s[k]) <= s[l].base
  <2>1. s[k].base < s[l].base
    BY <1>2, <1>4
  <2>2. PICK i \in 1 .. N : s[k] = list[i]
    BY <1>2
  <2>3. PICK j \in 1 .. N : s[l] = list[j]
    BY <1>2
  <2>4. i # j
    BY <1>3, <2>1, <2>2, <2>3
  <2>5. Apart(s[k], s[l])
    BY <2>2, <2>3, <2>4 DEF Separate
  <2>6. ~ (End(s[l]) <= s[k].base)
    BY <1>3, <2>1 DEF End
  <2> QED
    BY <2>5, <2>6 DEF Apart
<1>5. PICK acc \in [0 .. N -> Seq(Buffer)] :
        /\ acc[0] = <<>>
        /\ \A k \in 1 .. N : acc[k] = Join(acc[k - 1], s[k])
        /\ FoldLeft(Join, <<>>, s) = acc[N]
  BY <1>2, JoinSteps
<1> DEFINE Good(k) ==
             LET a == acc[k]
             IN  /\ AllSound(a) /\ Gapped(a) /\ Held(a, Len(a)) = Held(s, k)
                 /\ k = 0 => a = <<>>
                 /\ k > 0 => a # <<>> /\ End(a[Len(a)]) = End(s[k])
           S == {k \in Nat : k <= N => Good(k)}
<1>6. 0 \in S
  <2>1. Len(acc[0]) = 0 /\ 1 .. 0 = {}
    BY <1>5
  <2>2. Held(acc[0], 0) = {} /\ Held(s, 0) = {}
    BY <2>1 DEF Held
  <2>3. AllSound(acc[0]) /\ Gapped(acc[0])
    BY <2>1 DEF AllSound, Gapped
  <2> QED
    BY <1>5, <2>1, <2>2, <2>3
<1>7. ASSUME NEW k \in Nat, k \in S PROVE k + 1 \in S
  <2> SUFFICES ASSUME k + 1 <= N PROVE Good(k + 1)
    <3> HIDE DEF Good
    <3> QED
      OBVIOUS
  <2>1. Good(k)
    <3> HIDE DEF Good
    <3> QED
      BY <1>1, <1>7
  <2> DEFINE a == acc[k]
             n == Len(a)
             b == s[k + 1]
             t == acc[k + 1]
             p == Len(t)
  <2>2. k + 1 \in 1 .. N /\ k \in 0 .. N /\ k + 1 \in 0 .. N /\ (k + 1) - 1 = k
    BY <1>1
  <2>3. t = Join(a, b) /\ a \in Seq(Buffer) /\ b \in Buffer /\ Sound(b)
    BY <1>3, <1>5, <2>2
  <2>4. AllSound(a) /\ Gapped(a) /\ Held(a, n) = Held(s, k)
    BY <2>1
  <2>5. a # <<>> => End(a[n]) <= b.base
    <3>1. k = 0 => a = <<>>
      BY <2>1
    <3>2. k > 0 => End(a[n]) = End(s[k]) /\ End(s[k]) <= b.base
      <4>1. k > 0 => k \in 1 .. N /\ k < k + 1
        BY <1>1, <2>2
      <4> QED
        BY <1>4, <2>1, <2>2, <4>1
    <3> QED
      BY <3>1, <3>2
  <2>6a. n = Len(a) /\ p = Len(t)
    OBVIOUS
  <2> HIDE DEF a, b, t, n, p
  <2>6. /\ t # <<>> /\ AllSound(t) /\ Gapped(t) /\ End(t[p]) = End(b)
        /\ Held(t, p) = Held(a, n) \cup Extent(b)
    BY <2>3, <2>4, <2>5, <2>6a, JoinKeepsOrder
  <2>7. Held(s, k + 1) = Held(s, k) \cup Extent(b)
    <3>1. \A i : i \in 1 .. k + 1 <=> i \in 1 .. k \/ i = k + 1
      OBVIOUS
    <3>2. ASSUME NEW x PROVE x \in Held(s, k + 1) <=> x \in Held(s, k) \/ x \in Extent(b)
      BY <3>1, InHeld DEF b
    <3> QED
      BY <3>2
  <2> QED
    BY <2>4, <2>6, <2>7 DEF t, p, b
<1>8. Good(N)
  <2>1. N \in S
    <3> HIDE DEF S
    <3> QED
      BY <1>1, <1>6, <1>7, SetInduction
  <2> HIDE DEF Good
  <2> QED
    BY <1>1, <2>1
<1>9. r = acc[N] /\ r \in Seq(Buffer)
  <2>1. r = FoldLeft(Join, <<>>, s)
    BY DEF Coalesce, s
  <2>2. N \in 0 .. N
    BY <1>1
  <2> QED
    BY <1>5, <2>1, <2>2
<1>10. AllSound(r) /\ Gapped(r) /\ Held(r, m) = Held(s, N)
  BY <1>8, <1>9
<1>11. Held(s, N) = Held(list, N)
  <2>1. ASSUME NEW x PROVE x \in Held(s, N) <=> x \in Held(list, N)
    <3>1. (\E k \in 1 .. N : x \in Extent(s[k])) <=> (\E i \in 1 .. N : x \in Extent(list[i]))
      BY <1>2
    <3> QED
      BY <3>1, InHeld
  <2> QED
    BY <2>1
<1> QED
  BY <1>9, <1>10, <1>11

-----------------------------------------------------------------------------
(***************************************************************************)
(* Arithmetic of alignment, and the size that is allocated.                *)
(***************************************************************************)

\* A number without remainder is a multiple.
LEMMA Multiple ==
  ASSUME NEW a \in Nat \ {0}, NEW x \in Nat, x % a = 0
  PROVE  \E q \in Int : x = a * q
<1>1. x = a * (x \div a) + (x % a)
  OBVIOUS
<1>2. x \div a \in Int
  OBVIOUS
<1>3. x = a * (x \div a)
  BY <1>1
<1> QED
  BY <1>2, <1>3, Zenon

\* The base behind an aligned piece is aligned.
LEMMA SumOfMultiples ==
  ASSUME NEW a \in Nat \ {0}, NEW x \in Nat, NEW y \in Nat, x % a = 0, y % a = 0
  PROVE  (x + y) % a = 0
<1>1. PICK p \in Int : x = a * p
  BY Multiple
<1>2. PICK q \in Int : y = a * q
  BY Multiple
<1>3. x + y = a * (p + q) /\ p + q \in Int
  BY <1>1, <1>2
<1>4. \A r \in Int : (a * r) % a = 0
  OBVIOUS
<1> QED
  BY <1>3, <1>4

\* Padding with what lacks to the next multiple leaves no remainder.
LEMMA PadToMultiple ==
  ASSUME NEW a \in Nat \ {0}, NEW x \in Nat
  PROVE  (x + (a - (x % a))) % a = 0
OBVIOUS

\* What is allocated is at least what was asked for, not nothing, and a multiple of the alignment.
LEMMA PaddedSize ==
  ASSUME NEW size \in Nat
  PROVE  /\ Padded(size) \in Nat /\ Padded(size) > 0 /\ Padded(size) >= size
         /\ Padded(size) % Alignment = 0
<1> DEFINE s == IF size = 0 THEN Alignment ELSE size
           m == s % Alignment
<1>1. Alignment \in Nat \ {0}
  BY RangeAssumption
<1>2. s \in Nat /\ s > 0 /\ s >= size
  BY <1>1
<1>3. Padded(size) = IF m > 0 THEN s + (Alignment - m) ELSE s
  BY DEF Padded
<1> HIDE DEF s
<1>4. m \in 0 .. Alignment - 1
  BY <1>1, <1>2
<1>5. (s + (Alignment - m)) % Alignment = 0
  <2>1. \A a \in Nat \ {0}, x \in Nat : (x + (a - (x % a))) % a = 0
    BY PadToMultiple
  <2>2. (s + (Alignment - (s % Alignment))) % Alignment = 0
    BY <1>1, <1>2, <2>1
  <2> QED
    BY <2>2
<1>6. m = 0 => s % Alignment = 0
  OBVIOUS
<1> HIDE DEF m
<1>7. CASE m > 0
  BY <1>1, <1>2, <1>3, <1>4, <1>5, <1>7
<1>8. CASE m = 0
  BY <1>1, <1>2, <1>3, <1>6, <1>8
<1> QED
  BY <1>4, <1>7, <1>8

-----------------------------------------------------------------------------
(***************************************************************************)
(* Cutting and adding buffers.                                             *)
(***************************************************************************)

\* No buffer of the list ends where one of them begins.
NoneTouch(list) ==
  \A i, j \in 1 .. Len(list) : End(list[i]) # list[j].base

\* r is list without its i-th entry.
Skips(r, list, i) ==
  \A k \in 1 .. Len(list) - 1 : r[k] = IF k < i THEN list[k] ELSE list[k + 1]

\* RemoveAt skips one entry.
LEMMA Removed ==
  ASSUME NEW list \in Seq(Buffer), NEW N, N = Len(list), NEW i \in 1 .. N,
         NEW r, r = RemoveAt(list, i)
  PROVE  r \in Seq(Buffer) /\ Len(r) = N - 1 /\ Skips(r, list, i)
<1>1. /\ N \in Nat
      /\ \A k \in 1 .. N : list[k] \in Buffer
  BY Entries
<1> DEFINE u == SubSeq(list, 1, i - 1)
           v == SubSeq(list, i + 1, N)
<1>2. /\ u \in Seq(Buffer) /\ Len(u) = i - 1
      /\ \A k \in 1 .. i - 1 : u[k] = list[k]
  <2>1. 1 \in Int /\ i - 1 \in Int /\ \A k \in 1 .. i - 1 : list[k] \in Buffer
    BY <1>1
  <2>2. /\ u \in Seq(Buffer) /\ Len(u) = IF 1 <= i - 1 THEN (i - 1) - 1 + 1 ELSE 0
        /\ \A k \in 1 .. (i - 1) - 1 + 1 : u[k] = list[1 + k - 1]
    BY <2>1, SubSeqProperties
  <2> HIDE DEF u
  <2> QED
    BY <1>1, <2>2
<1>3. /\ v \in Seq(Buffer) /\ Len(v) = N - i
      /\ \A k \in 1 .. N - i : v[k] = list[i + k]
  <2>1. i + 1 \in Int /\ N \in Int /\ \A k \in i + 1 .. N : list[k] \in Buffer
    BY <1>1
  <2>2. /\ v \in Seq(Buffer) /\ Len(v) = IF i + 1 <= N THEN N - (i + 1) + 1 ELSE 0
        /\ \A k \in 1 .. N - (i + 1) + 1 : v[k] = list[(i + 1) + k - 1]
    BY <2>1, SubSeqProperties
  <2> HIDE DEF v
  <2>3. Len(v) = N - i
    BY <1>1, <2>2
  <2>4. \A k \in 1 .. N - i : k \in 1 .. N - (i + 1) + 1 /\ (i + 1) + k - 1 = i + k
    BY <1>1
  <2> QED
    BY <2>2, <2>3, <2>4
<1>4. r = u \o v
  BY DEF RemoveAt
<1> DEFINE a == Len(u)
           b == Len(v)
<1> HIDE DEF u, v
<1>5. /\ u \o v \in Seq(Buffer) /\ Len(u \o v) = a + b
      /\ \A k \in 1 .. a + b : (u \o v)[k] = IF k <= a THEN u[k] ELSE v[k - a]
  BY <1>2, <1>3, ConcatProperties
<1>6. a = i - 1 /\ b = N - i
  BY <1>2, <1>3
<1> HIDE DEF a, b
<1>7. a + b = N - 1
  BY <1>1, <1>6
<1>8. ASSUME NEW k \in 1 .. N - 1
      PROVE  (u \o v)[k] = IF k < i THEN list[k] ELSE list[k + 1]
  <2>1. k \in 1 .. a + b
    BY <1>7
  <2>2. CASE k < i
    <3>1. k <= a /\ k \in 1 .. i - 1
      BY <1>6, <2>2
    <3> QED
      BY <1>2, <1>5, <2>1, <2>2, <3>1
  <2>3. CASE ~ (k < i)
    <3>1. ~ (k <= a) /\ k - a \in 1 .. N - i /\ i + (k - a) = k + 1
      BY <1>1, <1>6, <2>3
    <3>2. (u \o v)[k] = v[k - a]
      BY <1>5, <2>1, <3>1
    <3>3. v[k - a] = list[i + (k - a)]
      BY <1>3, <3>1
    <3> QED
      BY <2>3, <3>1, <3>2, <3>3
  <2> QED
    BY <2>2, <2>3
<1>9. Skips(r, list, i)
  BY <1>4, <1>8 DEF Skips
<1> QED
  BY <1>4, <1>5, <1>7, <1>9

\* CutFront, for any list.
Cut(list, i, n) ==
  IF list[i].len > n
    THEN [list EXCEPT ![i] = [base |-> @.base + n, len |-> @.len - n]]
    ELSE RemoveAt(list, i)

\* Cutting the front off a longer entry.
LEMMA Shortened ==
  ASSUME NEW list \in Seq(Buffer), NEW N, N = Len(list), NEW i \in 1 .. N,
         NEW n \in Nat, list[i].len > n,
         NEW r, r = Cut(list, i, n)
  PROVE  /\ r \in Seq(Buffer) /\ Len(r) = N
         /\ r[i].base = list[i].base + n /\ r[i].len = list[i].len - n
         /\ \A k \in 1 .. N : k # i => r[k] = list[k]
<1>1. \A k \in 1 .. N : list[k] \in Buffer /\ list[k].base \in Nat /\ list[k].len \in Nat
  BY Entries
<1> DEFINE e == [base |-> list[i].base + n, len |-> list[i].len - n]
<1>2. e \in Buffer
  BY <1>1 DEF Buffer
<1>3. r = [list EXCEPT ![i] = e]
  BY DEF Cut
<1>4. e.base = list[i].base + n /\ e.len = list[i].len - n
  OBVIOUS
<1> HIDE DEF e
<1>5. /\ [list EXCEPT ![i] = e] \in Seq(Buffer) /\ Len([list EXCEPT ![i] = e]) = N
      /\ \A k \in 1 .. N : [list EXCEPT ![i] = e][k] = IF k = i THEN e ELSE list[k]
  BY <1>2, ExceptSeq
<1> QED
  BY <1>3, <1>4, <1>5

\* The list an allocation leaves, by CutFront, when the i-th entry of the free list has at least n
\* bytes: it lacks just the bytes that were cut off, and gains no neighbours.
LEMMA CutList ==
  ASSUME NEW list \in Seq(Buffer), AllSound(list), Separate(list),
         NEW N, N = Len(list), NEW i \in 1 .. N,
         NEW n \in Nat, n > 0, n % Alignment = 0, list[i].len >= n,
         NEW r, r = Cut(list, i, n),
         NEW m, m = Len(r),
         NEW b, b = [base |-> list[i].base, len |-> n]
  PROVE  /\ r \in Seq(Buffer) /\ AllSound(r) /\ Separate(r) /\ m <= N
         /\ Held(r, m) = Held(list, N) \ Extent(b)
         /\ Extent(b) \subseteq Held(list, N)
         /\ NoneTouch(list) => NoneTouch(r)
<1>1. /\ N \in Nat
      /\ \A k \in 1 .. N : list[k] \in Buffer /\ list[k].base \in Nat /\ list[k].len \in Nat
  BY Entries
<1>2. \A k \in 1 .. N : list[k].len > 0 /\ list[k].base % Alignment = 0
  BY DEF AllSound, Sound
<1>3. \A j, k \in 1 .. N : j # k => Apart(list[j], list[k])
  BY DEF Separate
<1>4. \A j, k \in 1 .. N : j # k => Extent(list[j]) \cap Extent(list[k]) = {}
  BY <1>1, <1>2, <1>3, ApartIsDisjoint
<1>5. Extent(b) \subseteq Extent(list[i])
  <2>1. Extent(b) = list[i].base .. list[i].base + n - 1
    BY DEF Extent
  <2>2. Extent(list[i]) = list[i].base .. list[i].base + list[i].len - 1
    BY DEF Extent
  <2>3. list[i].base \in Nat /\ list[i].len \in Nat
    BY <1>1
  <2> QED
    BY <2>1, <2>2, <2>3
<1>6. Extent(b) \subseteq Held(list, N)
  BY <1>5 DEF Held
<1>7. CASE list[i].len > n
  <2>1. /\ r \in Seq(Buffer) /\ Len(r) = N
        /\ r[i].base = list[i].base + n /\ r[i].len = list[i].len - n
        /\ \A k \in 1 .. N : k # i => r[k] = list[k]
    BY <1>7, Shortened
  <2>2. m = N
    BY <2>1
  <2>3. End(r[i]) = End(list[i]) /\ r[i].len > 0 /\ r[i].base % Alignment = 0
    <3>1. list[i].base \in Nat /\ list[i].len \in Nat /\ list[i].base % Alignment = 0
      BY <1>1, <1>2
    <3>2. (list[i].base + n) % Alignment = 0
      BY <3>1, SumOfMultiples, RangeAssumption
    <3>3. r[i].base + r[i].len = list[i].base + list[i].len
      BY <2>1, <3>1
    <3>4. r[i].len > 0
      BY <1>7, <2>1, <3>1
    <3> QED
      BY <2>1, <3>2, <3>3, <3>4 DEF End
  <2>4. AllSound(r)
    BY <1>2, <2>1, <2>3 DEF AllSound, Sound
  <2>5. \A k \in 1 .. N : End(r[k]) = End(list[k]) /\ r[k].base >= list[k].base /\ r[k].base \in Nat
    BY <1>1, <2>1, <2>3
  <2>6. Separate(r)
    <3>1. ASSUME NEW j \in 1 .. N, NEW k \in 1 .. N, j # k PROVE Apart(r[j], r[k])
      <4>1. Apart(list[j], list[k])
        BY <1>3, <3>1
      <4>2. \A l \in 1 .. N : End(list[l]) \in Nat
        BY <1>1 DEF End
      <4>3. End(list[j]) <= list[k].base => End(r[j]) <= r[k].base
        BY <1>1, <2>5, <4>2
      <4>4. End(list[k]) <= list[j].base => End(r[k]) <= r[j].base
        BY <1>1, <2>5, <4>2
      <4> QED
        BY <4>1, <4>3, <4>4 DEF Apart
    <3> QED
      BY <2>1, <3>1 DEF Separate
  <2>7. Held(r, m) = Held(list, N) \ Extent(b)
    <3>1. Extent(r[i]) = Extent(list[i]) \ Extent(b)
      <4>1. list[i].base \in Nat /\ list[i].len \in Nat /\ list[i].len >= n
        BY <1>1
      <4>2. b.base = list[i].base /\ b.len = n
        OBVIOUS
      <4> QED
        BY <2>1, <4>1, <4>2, ExtentsSplit
    <3>2. \A k \in 1 .. N : k # i => Extent(r[k]) = Extent(list[k]) /\ Extent(list[k]) \cap Extent(b) = {}
      BY <1>4, <1>5, <2>1
    <3>3. ASSUME NEW x
          PROVE  (\E k \in 1 .. N : x \in Extent(r[k])) <=>
                   (\E k \in 1 .. N : x \in Extent(list[k])) /\ x \notin Extent(b)
      BY <3>1, <3>2
    <3>4. ASSUME NEW x PROVE x \in Held(r, m) <=> x \in Held(list, N) /\ x \notin Extent(b)
      BY <2>2, <3>3, InHeld
    <3> QED
      BY <3>4
  <2>8. ASSUME NoneTouch(list) PROVE NoneTouch(r)
    <3>1. ASSUME NEW j \in 1 .. N, NEW k \in 1 .. N PROVE End(r[j]) # r[k].base
      <4>1. CASE k # i
        <5>1. r[k] = list[k] /\ End(r[j]) = End(list[j])
          BY <2>1, <2>5, <4>1
        <5>2. End(list[j]) # list[k].base
          BY <2>8 DEF NoneTouch
        <5> QED
          BY <5>1, <5>2
      <4>2. CASE k = i /\ j = i
        <5>1. r[i].len > 0 /\ r[i].base \in Nat /\ r[i].len \in Nat
          BY <1>1, <1>7, <2>1, <2>3
        <5> QED
          BY <4>2, <5>1 DEF End
      <4>3. CASE k = i /\ j # i
        <5>1. End(list[j]) <= list[i].base \/ End(list[i]) <= list[j].base
          BY <1>3, <4>3 DEF Apart
        <5>2. /\ list[j].base \in Nat /\ list[j].len \in Nat /\ list[j].len > 0
              /\ list[i].base \in Nat /\ list[i].len \in Nat
          BY <1>1, <1>2
        <5>3. CASE list[j].base + list[j].len <= list[i].base
          BY <5>2, <5>3, <2>1, <2>5, <4>3 DEF End
        <5>4. CASE list[i].base + list[i].len <= list[j].base
          <6>1. End(r[j]) = list[j].base + list[j].len
            BY <2>5 DEF End
          <6>2. r[k].base = list[i].base + n
            BY <2>1, <4>3
          <6> QED
            BY <1>7, <5>2, <5>4, <6>1, <6>2
        <5> QED
          BY <5>1, <5>3, <5>4 DEF End
      <4> QED
        BY <4>1, <4>2, <4>3
    <3> QED
      BY <2>1, <3>1 DEF NoneTouch
  <2>9. m <= N
    BY <1>1, <2>2
  <2> QED
    BY <1>6, <2>1, <2>4, <2>6, <2>7, <2>8, <2>9
<1>8. CASE ~ (list[i].len > n)
  <2>1. r = RemoveAt(list, i) /\ Extent(b) = Extent(list[i])
    <3>1. list[i].len = n
      BY <1>1, <1>8
    <3> QED
      BY <1>8, <3>1 DEF Extent, Cut
  <2>2. /\ r \in Seq(Buffer) /\ m = N - 1
        /\ \A k \in 1 .. N - 1 : r[k] = IF k < i THEN list[k] ELSE list[k + 1]
    <3>1. r \in Seq(Buffer) /\ Len(r) = N - 1 /\ Skips(r, list, i)
      BY <2>1, Removed
    <3> QED
      BY <3>1 DEF Skips
  <2> DEFINE from(k) == IF k < i THEN k ELSE k + 1
  <2>3. ASSUME NEW k \in 1 .. m
        PROVE  from(k) \in 1 .. N /\ from(k) # i /\ r[k] = list[from(k)]
    <3>1. k \in 1 .. N - 1
      BY <2>2
    <3>2. CASE k < i
      BY <1>1, <2>2, <3>1, <3>2, SMTT(20)
    <3>3. CASE ~ (k < i)
      BY <1>1, <2>2, <3>1, <3>3
    <3> QED
      BY <3>2, <3>3
  <2>4. \A j, k \in 1 .. m : j # k => from(j) # from(k)
    BY <1>1, <2>2
  <2>5. ASSUME NEW k \in 1 .. N, k # i PROVE \E j \in 1 .. m : r[j] = list[k]
    <3>1. CASE k < i
      <4>1. k \in 1 .. N - 1
        BY <1>1, <3>1
      <4>2. r[k] = list[k]
        BY <2>2, <3>1, <4>1
      <4> QED
        BY <2>2, <4>1, <4>2
    <3>2. CASE ~ (k < i)
      <4>1. k - 1 \in 1 .. N - 1 /\ ~ (k - 1 < i) /\ (k - 1) + 1 = k
        BY <1>1, <2>5, <3>2
      <4>2. r[k - 1] = list[k]
        BY <2>2, <4>1
      <4> QED
        BY <2>2, <4>1, <4>2
    <3> QED
      BY <3>1, <3>2
  <2> HIDE DEF from
  <2>6. AllSound(r)
    BY <2>3 DEF AllSound
  <2>7. Separate(r)
    BY <2>3, <2>4 DEF Separate
  <2>8. Held(r, m) = Held(list, N) \ Extent(b)
    <3>1. ASSUME NEW x
          PROVE  (\E k \in 1 .. m : x \in Extent(r[k])) <=>
                   (\E k \in 1 .. N : x \in Extent(list[k])) /\ x \notin Extent(b)
      <4>1. ASSUME NEW k \in 1 .. m, x \in Extent(r[k])
            PROVE  (\E l \in 1 .. N : x \in Extent(list[l])) /\ x \notin Extent(b)
        BY <1>4, <2>1, <2>3, <4>1
      <4>2. ASSUME NEW k \in 1 .. N, x \in Extent(list[k]), x \notin Extent(b)
            PROVE  \E l \in 1 .. m : x \in Extent(r[l])
        <5>1. k # i
          BY <2>1, <4>2
        <5>2. PICK j \in 1 .. m : r[j] = list[k]
          BY <2>5, <5>1
        <5> QED
          BY <4>2, <5>2
      <4> QED
        BY <4>1, <4>2
    <3>2. ASSUME NEW x PROVE x \in Held(r, m) <=> x \in Held(list, N) /\ x \notin Extent(b)
      BY <3>1, InHeld
    <3> QED
      BY <3>2
  <2>9. NoneTouch(list) => NoneTouch(r)
    BY <2>3 DEF NoneTouch
  <2> QED
    BY <1>1, <1>6, <2>2, <2>6, <2>7, <2>8, <2>9
<1> QED
  BY <1>7, <1>8

\* None of the buffer's bytes is among the first k buffers; and what adding it makes of them.
Outside(b, list, k) == Extent(b) \cap Held(list, k) = {}

Gains(r, m, list, k, b) == Held(r, m) = Held(list, k) \cup Extent(b)

\* The list with a buffer of other bytes appended.
LEMMA AddList ==
  ASSUME NEW list \in Seq(Buffer), AllSound(list), Separate(list),
         NEW N, N = Len(list),
         NEW b \in Buffer, Sound(b), Outside(b, list, N),
         NEW r, r = Append(list, b), NEW m, m = Len(r)
  PROVE  /\ r \in Seq(Buffer) /\ AllSound(r) /\ Separate(r)
         /\ Gains(r, m, list, N, b)
<1>1. /\ N \in Nat
      /\ \A k \in 1 .. N : list[k] \in Buffer /\ list[k].base \in Nat /\ list[k].len \in Nat
  BY Entries
<1>2. /\ r \in Seq(Buffer) /\ m = N + 1 /\ r[N + 1] = b
      /\ \A k \in 1 .. N : r[k] = list[k]
  BY AppendProperties
<1>3. \A k \in 1 .. m : k \in 1 .. N \/ k = N + 1
  BY <1>1, <1>2
<1>4. \A k \in 1 .. N : Sound(list[k])
  BY DEF AllSound
<1>5. AllSound(r)
  BY <1>2, <1>3, <1>4 DEF AllSound
<1>6. ASSUME NEW k \in 1 .. N PROVE Apart(list[k], b) /\ Apart(b, list[k])
  <2>1. Extent(list[k]) \cap Extent(b) = {}
    BY DEF Held, Outside
  <2>2. Apart(list[k], b)
    BY <1>1, <1>4, <2>1, ApartIsDisjoint DEF Sound
  <2> QED
    BY <2>2 DEF Apart
<1>7. Separate(r)
  <2>1. \A j, k \in 1 .. N : j # k => Apart(list[j], list[k])
    BY DEF Separate
  <2> QED
    BY <1>2, <1>3, <1>6, <2>1 DEF Separate
<1>8. Gains(r, m, list, N, b)
  <2>1. \A k : k \in 1 .. m <=> k \in 1 .. N \/ k = N + 1
    BY <1>1, <1>2
  <2>2. ASSUME NEW x
        PROVE  (\E k \in 1 .. m : x \in Extent(r[k])) <=>
                 (\E k \in 1 .. N : x \in Extent(list[k])) \/ x \in Extent(b)
    BY <1>2, <2>1
  <2>3. ASSUME NEW x PROVE x \in Held(r, m) <=> x \in Held(list, N) \/ x \in Extent(b)
    BY <2>2, InHeld
  <2> QED
    BY <2>3 DEF Gains
<1> QED
  BY <1>2, <1>5, <1>7, <1>8

-----------------------------------------------------------------------------
(***************************************************************************)
(* Counting bytes.                                                         *)
(***************************************************************************)

\* A buffer has as many bytes as its length says.
LEMMA ExtentSize ==
  ASSUME NEW b \in Buffer
  PROVE  IsFiniteSet(Extent(b)) /\ Cardinality(Extent(b)) = b.len
<1>1. b.base \in Nat /\ b.len \in Nat
  BY DEF Buffer
<1>2. b.base \in Int /\ b.base + b.len - 1 \in Int
  BY <1>1
<1>3. /\ IsFiniteSet(b.base .. b.base + b.len - 1)
      /\ Cardinality(b.base .. b.base + b.len - 1)
           = IF b.base > b.base + b.len - 1 THEN 0 ELSE (b.base + b.len - 1) - b.base + 1
  BY <1>2, FS_Interval
<1> QED
  BY <1>1, <1>3 DEF Extent

\* As the buffers of the list do not overlap, the sum of their lengths is the number of their bytes.
LEMMA SumIsCount ==
  ASSUME NEW list \in Seq(Buffer), AllSound(list), Separate(list), NEW N, N = Len(list)
  PROVE  /\ IsFiniteSet(Held(list, N))
         /\ FoldLeft(LAMBDA n, b : n + b.len, 0, list) = Cardinality(Held(list, N))
<1>1. /\ N \in Nat
      /\ \A k \in 1 .. N : list[k] \in Buffer /\ list[k].base \in Nat /\ list[k].len \in Nat
  BY Entries
<1>2. PICK acc \in [0 .. N -> Nat] :
        /\ acc[0] = 0
        /\ \A k \in 1 .. N : acc[k] = acc[k - 1] + list[k].len
        /\ FoldLeft(LAMBDA n, b : n + b.len, 0, list) = acc[N]
  BY SumSteps
<1> DEFINE Good(k) == IsFiniteSet(Held(list, k)) /\ acc[k] = Cardinality(Held(list, k))
           S == {k \in Nat : k <= N => Good(k)}
<1>3. 0 \in S
  <2>1. Held(list, 0) = {}
    BY DEF Held
  <2> QED
    BY <1>2, <2>1, FS_EmptySet
<1>4. ASSUME NEW k \in Nat, k \in S PROVE k + 1 \in S
  <2> SUFFICES ASSUME k + 1 <= N PROVE Good(k + 1)
    <3> HIDE DEF Good
    <3> QED
      OBVIOUS
  <2>1. Good(k)
    <3> HIDE DEF Good
    <3> QED
      BY <1>1, <1>4
  <2> DEFINE H == Held(list, k)
             E == Extent(list[k + 1])
  <2>2. k + 1 \in 1 .. N /\ (k + 1) - 1 = k /\ k \in 0 .. N
    BY <1>1
  <2>3. IsFiniteSet(E) /\ Cardinality(E) = list[k + 1].len
    BY <1>1, <2>2, ExtentSize
  <2>4. H \cap E = {}
    <3>1. ASSUME NEW j \in 1 .. k PROVE Extent(list[j]) \cap E = {}
      <4>1. j \in 1 .. N /\ j # k + 1
        BY <1>1, <2>2
      <4>2. Apart(list[j], list[k + 1])
        BY <2>2, <4>1 DEF Separate
      <4> QED
        BY <1>1, <2>2, <4>1, <4>2, ApartIsDisjoint DEF AllSound, Sound
    <3> QED
      BY <3>1 DEF Held
  <2>5. Held(list, k + 1) = H \cup E
    <3>1. \A i : i \in 1 .. k + 1 <=> i \in 1 .. k \/ i = k + 1
      OBVIOUS
    <3>2. ASSUME NEW x PROVE x \in Held(list, k + 1) <=> x \in H \/ x \in E
      BY <3>1, InHeld
    <3> QED
      BY <3>2
  <2>6. acc[k + 1] = acc[k] + list[k + 1].len /\ acc[k] \in Nat
    BY <1>2, <2>2
  <2> HIDE DEF H, E
  <2>7. IsFiniteSet(H) /\ acc[k] = Cardinality(H)
    BY <2>1 DEF H
  <2>8. /\ IsFiniteSet(H \cup E)
        /\ Cardinality(H \cup E) = Cardinality(H) + Cardinality(E) - Cardinality(H \cap E)
    BY <2>3, <2>7, FS_Union
  <2>9. Cardinality(H \cap E) = 0
    BY <2>4, FS_EmptySet
  <2>10. list[k + 1].len \in Nat
    BY <1>1, <2>2
  <2>11. acc[k + 1] = Cardinality(H \cup E)
    BY <2>3, <2>6, <2>7, <2>8, <2>9, <2>10
  <2> QED
    BY <2>5, <2>8, <2>11
<1>5. Good(N)
  <2>1. N \in S
    <3> HIDE DEF S
    <3> QED
      BY <1>1, <1>3, <1>4, SetInduction
  <2> HIDE DEF Good
  <2> QED
    BY <1>1, <2>1
<1> QED
  BY <1>2, <1>5

-----------------------------------------------------------------------------
(***************************************************************************)
(* The inductive invariant.                                                *)
(***************************************************************************)

Types == /\ free \in Seq(Buffer)
         /\ busy \subseteq Buffer
         /\ reply \in [rc : {"none", "SUCCESS", "NOMEM"}, eva : 0 .. EvaSpace - 1]

Managed == Start .. Start + Size - 1

FreeBytes == Held(free, Len(free))
BusyBytes == UNION {Extent(b) : b \in busy}

FreeInv == AllSound(free) /\ Separate(free)

BusyInv == /\ \A b \in busy : Sound(b)
           /\ \A b, c \in busy : b # c => Extent(b) \cap Extent(c) = {}

CoverInv == /\ FreeBytes \cap BusyBytes = {}
            /\ FreeBytes \cup BusyBytes = Managed

CountInv == freeSize = Cardinality(FreeBytes)

CoalescedInv == Len(free) > CoalesceThreshold => NoneTouch(free)

HeapInv == Types /\ FreeInv /\ BusyInv /\ CoverInv /\ CountInv /\ CoalescedInv

\* At first one free buffer is the whole range.
LEMMA InitHeap == Init => HeapInv
<1> SUFFICES ASSUME Init PROVE HeapInv
  OBVIOUS
<1> DEFINE b == [base |-> Start, len |-> Size]
<1>1. /\ Start \in Nat /\ Size \in Nat /\ Size > 0 /\ Start % Alignment = 0
      /\ EvaSpace \in Nat /\ EvaSpace > 0
  BY RangeAssumption
<1>2. b \in Buffer /\ b.base = Start /\ b.len = Size
  BY <1>1 DEF Buffer
<1>3. free = <<b>> /\ busy = {} /\ freeSize = Size /\ reply = [rc |-> "none", eva |-> 0]
  BY DEF Init, NoReply
<1> HIDE DEF b
<1>4. free \in Seq(Buffer) /\ Len(free) = 1 /\ free[1] = b
  BY <1>2, <1>3
<1>5. 1 .. Len(free) = {1}
  BY <1>4
<1>6. Types
  BY <1>1, <1>3, <1>4 DEF Types
<1>7. FreeInv
  <2>1. Sound(b)
    BY <1>1, <1>2 DEF Sound
  <2> QED
    BY <1>4, <1>5, <2>1 DEF FreeInv, AllSound, Separate
<1>8. FreeBytes = Extent(b)
  BY <1>4, <1>5 DEF FreeBytes, Held
<1>9. Extent(b) = Managed
  BY <1>2 DEF Extent, Managed
<1>10. BusyInv /\ BusyBytes = {}
  BY <1>3 DEF BusyInv, BusyBytes
<1>11. CoverInv
  BY <1>8, <1>9, <1>10 DEF CoverInv
<1>12. CountInv
  BY <1>2, <1>3, <1>8, ExtentSize DEF CountInv
<1>13. CoalescedInv
  <2>1. End(b) # b.base
    BY <1>1, <1>2 DEF End
  <2> QED
    BY <1>4, <1>5, <2>1 DEF CoalescedInv, NoneTouch
<1> QED
  BY <1>6, <1>7, <1>10, <1>11, <1>12, <1>13 DEF HeapInv

\* An allocation moves bytes from the free to the busy buffers.
LEMMA AllocateHeap ==
  ASSUME HeapInv, NEW size \in Requests, NEW i \in DOMAIN free, Allocate(size, i)
  PROVE  HeapInv'
<1> DEFINE n == Padded(size)
           b == [base |-> free[i].base, len |-> n]
           N == Len(free)
<1>1. /\ n \in Nat /\ n > 0 /\ n % Alignment = 0
  BY RangeAssumption, PaddedSize
<1>2. /\ free \in Seq(Buffer) /\ busy \subseteq Buffer
      /\ AllSound(free) /\ Separate(free)
  BY DEF HeapInv, Types, FreeInv
<1>3. /\ N \in Nat /\ i \in 1 .. N
      /\ \A k \in 1 .. N : free[k] \in Buffer /\ free[k].base \in Nat /\ free[k].len \in Nat
  BY <1>2, Entries
<1>4. /\ free[i].len >= n
      /\ free' = Cut(free, i, n)
      /\ busy' = busy \cup {b}
      /\ freeSize' = freeSize - n
      /\ reply' = [rc |-> "SUCCESS", eva |-> ToEva(free[i].base)]
  BY DEF Allocate, Candidates, CutFront, Cut
<1>5. b \in Buffer /\ b.base = free[i].base /\ b.len = n
  BY <1>1, <1>3 DEF Buffer
<1>6. Sound(b)
  BY <1>1, <1>2, <1>3, <1>5 DEF Sound, AllSound
<1>b. b = [base |-> free[i].base, len |-> n]
  OBVIOUS
<1>n. N = Len(free)
  OBVIOUS
<1> HIDE DEF n, b, N
<1>7. /\ free' \in Seq(Buffer) /\ AllSound(free') /\ Separate(free') /\ Len(free') <= N
      /\ Held(free', Len(free')) = Held(free, N) \ Extent(b)
      /\ Extent(b) \subseteq Held(free, N)
      /\ NoneTouch(free) => NoneTouch(free')
  <2> DEFINE r == free'
             m == Len(r)
  <2>1. free[i].len >= n /\ r = Cut(free, i, n)
    BY <1>4
  <2>2. m = Len(r)
    OBVIOUS
  <2> HIDE DEF r, m
  <2>3. /\ r \in Seq(Buffer) /\ AllSound(r) /\ Separate(r) /\ m <= N
        /\ Held(r, m) = Held(free, N) \ Extent(b)
        /\ Extent(b) \subseteq Held(free, N)
        /\ NoneTouch(free) => NoneTouch(r)
    BY <1>1, <1>2, <1>3, <1>b, <1>n, <2>1, <2>2, CutList
  <2> QED
    BY <2>3 DEF r, m
<1>8. FreeBytes' = FreeBytes \ Extent(b) /\ Extent(b) \subseteq FreeBytes
  BY <1>7, <1>n DEF FreeBytes
<1>9. BusyBytes' = BusyBytes \cup Extent(b)
  BY <1>4 DEF BusyBytes
<1>10. Types'
  <2>1. EvaSpace \in Nat /\ EvaSpace > 0 /\ free[i].base \in Nat
    BY <1>3, RangeAssumption
  <2>2. ToEva(free[i].base) \in 0 .. EvaSpace - 1
    BY <2>1 DEF ToEva
  <2> QED
    BY <1>2, <1>4, <1>5, <1>7, <2>2 DEF Types
<1>11. FreeInv'
  BY <1>7 DEF FreeInv
<1>12. BusyInv'
  <2>1. \A c \in busy : Extent(b) \cap Extent(c) = {}
    BY <1>8 DEF HeapInv, CoverInv, BusyBytes
  <2> QED
    BY <1>4, <1>6, <2>1 DEF HeapInv, BusyInv
<1>13. CoverInv'
  <2>1. FreeBytes \cap BusyBytes = {} /\ FreeBytes \cup BusyBytes = Managed
    BY DEF HeapInv, CoverInv
  <2>2. Managed' = Managed
    BY DEF Managed
  <2>3. FreeBytes' \cap BusyBytes' = {}
    BY <1>8, <1>9, <2>1
  <2>4. FreeBytes' \cup BusyBytes' = Managed
    BY <1>8, <1>9, <2>1
  <2> QED
    BY <2>2, <2>3, <2>4 DEF CoverInv
<1>14. CountInv'
  <2>1. IsFiniteSet(FreeBytes)
    BY <1>2, SumIsCount DEF FreeBytes
  <2>2. IsFiniteSet(Extent(b)) /\ Cardinality(Extent(b)) = n
    BY <1>5, ExtentSize
  <2>3. Cardinality(FreeBytes \ Extent(b)) = Cardinality(FreeBytes) - Cardinality(FreeBytes \cap Extent(b))
    BY <2>1, FS_Difference
  <2>4. FreeBytes \cap Extent(b) = Extent(b)
    BY <1>8
  <2>5. freeSize = Cardinality(FreeBytes)
    BY DEF HeapInv, CountInv
  <2>6. freeSize' = Cardinality(FreeBytes')
    BY <1>4, <1>8, <2>2, <2>3, <2>4, <2>5
  <2> QED
    BY <2>6 DEF CountInv
<1>15. CoalescedInv'
  <2>1. Len(free') \in Nat /\ CoalesceThreshold \in Nat
    BY <1>7, LenProperties, RangeAssumption
  <2> QED
    BY <1>3, <1>7, <1>n, <2>1 DEF HeapInv, CoalescedInv
<1> QED
  BY <1>10, <1>11, <1>12, <1>13, <1>14, <1>15 DEF HeapInv

\* An allocation that finds nothing changes only the reply.
LEMMA ExhaustedHeap ==
  ASSUME HeapInv, NEW size, Exhausted(size)
  PROVE  HeapInv'
<1>1. UNCHANGED <<free, busy, freeSize>>
  BY DEF Exhausted
<1>2. EvaSpace \in Nat /\ EvaSpace > 0
  BY RangeAssumption
<1>3. ToEva(mNull) \in 0 .. EvaSpace - 1
  <2>1. \A k \in Int : k % EvaSpace \in 0 .. EvaSpace - 1
    BY <1>2
  <2>2. mNull \in Int
    BY <1>2 DEF mNull
  <2> QED
    BY <2>1, <2>2 DEF ToEva
<1>4. reply' \in [rc : {"none", "SUCCESS", "NOMEM"}, eva : 0 .. EvaSpace - 1]
  BY <1>2, <1>3 DEF Exhausted
<1>5. Types'
  BY <1>1, <1>4 DEF HeapInv, Types
<1>6. FreeBytes' = FreeBytes /\ BusyBytes' = BusyBytes /\ Managed' = Managed
  BY <1>1 DEF FreeBytes, BusyBytes, Managed
<1>7. FreeInv' /\ BusyInv' /\ CoalescedInv'
  BY <1>1 DEF HeapInv, FreeInv, BusyInv, CoalescedInv
<1>8. CoverInv' /\ CountInv'
  BY <1>1, <1>6 DEF HeapInv, CoverInv, CountInv
<1> QED
  BY <1>5, <1>7, <1>8 DEF HeapInv

\* A list in order with gaps has no overlaps and no neighbours.
LEMMA GappedIsSeparate ==
  ASSUME NEW r \in Seq(Buffer), AllSound(r), Gapped(r)
  PROVE  Separate(r) /\ NoneTouch(r)
<1> DEFINE m == Len(r)
<1>1. /\ m \in Nat
      /\ \A k \in 1 .. m : r[k] \in Buffer /\ r[k].base \in Nat /\ r[k].len \in Nat
  BY Entries
<1>2. \A k \in 1 .. m : r[k].len > 0
  BY DEF AllSound, Sound
<1>3. \A j, k \in 1 .. m : j < k => r[j].base + r[j].len < r[k].base
  BY DEF Gapped, End
<1> HIDE DEF m
<1>4. ASSUME NEW j \in 1 .. m, NEW k \in 1 .. m
      PROVE  (j # k => Apart(r[j], r[k])) /\ End(r[j]) # r[k].base
  <2>1. CASE j = k
    BY <1>1, <1>2, <2>1 DEF End
  <2>2. CASE j < k
    BY <1>1, <1>2, <1>3, <2>2 DEF End, Apart
  <2>3. CASE k < j
    BY <1>1, <1>2, <1>3, <2>3, SMTT(20) DEF End, Apart
  <2> QED
    BY <1>1, <2>1, <2>2, <2>3
<1> QED
  BY <1>4 DEF Separate, NoneTouch, m

\* A buffer that is freed moves its bytes back; anything else that is freed changes nothing.
LEMMA FreeHeap ==
  ASSUME HeapInv, NEW eva, DeviceFree(eva)
  PROVE  HeapInv'
<1>r. reply' = [rc |-> "none", eva |-> 0]
  BY DEF DeviceFree, NoReply
<1>e. EvaSpace \in Nat /\ EvaSpace > 0
  BY RangeAssumption
<1>m. Managed' = Managed
  BY DEF Managed
<1>1. CASE \E b \in busy : b.base = eva
  <2>1. PICK b \in busy :
          /\ freeSize' = freeSize + b.len
          /\ busy' = busy \ {b}
          /\ free' = IF Len(Append(free, b)) > CoalesceThreshold
                       THEN Coalesce(Append(free, b)) ELSE Append(free, b)
    BY <1>1 DEF DeviceFree, Count
  <2>2. /\ free \in Seq(Buffer) /\ busy \subseteq Buffer
        /\ AllSound(free) /\ Separate(free)
    BY DEF HeapInv, Types, FreeInv
  <2>3. b \in Buffer /\ Sound(b)
    BY <2>2 DEF HeapInv, BusyInv
  <2>4. /\ Extent(b) \cap FreeBytes = {} /\ Extent(b) \subseteq BusyBytes
        /\ \A c \in busy : c # b => Extent(b) \cap Extent(c) = {}
    BY DEF HeapInv, CoverInv, BusyInv, BusyBytes
  <2> DEFINE longer == Append(free, b)
             N == Len(free)
             newLen == Len(longer)
  <2>5. N = Len(free) /\ newLen = Len(longer) /\ longer = Append(free, b)
    OBVIOUS
  <2>6. free' = IF newLen > CoalesceThreshold THEN Coalesce(longer) ELSE longer
    BY <2>1
  <2> HIDE DEF longer, N, newLen
  <2>7. Outside(b, free, N)
    BY <2>4, <2>5 DEF FreeBytes, Outside
  <2>8. /\ longer \in Seq(Buffer) /\ AllSound(longer) /\ Separate(longer)
        /\ Gains(longer, newLen, free, N, b)
    <3>1. free \in Seq(Buffer) /\ AllSound(free) /\ Separate(free)
      BY <2>2
    <3>2. N = Len(free)
      BY <2>5
    <3>3. longer = Append(free, b)
      BY <2>5
    <3>4. newLen = Len(longer)
      BY <2>5
    <3> QED
      BY <2>3, <2>7, <3>1, <3>2, <3>3, <3>4, AddList
  <2>9. /\ free' \in Seq(Buffer) /\ AllSound(free') /\ Separate(free')
        /\ Held(free', Len(free')) = Held(longer, newLen)
        /\ Len(free') > CoalesceThreshold => NoneTouch(free')
    <3>1. CASE newLen > CoalesceThreshold
      <4> DEFINE r == Coalesce(longer)
                 m == Len(r)
      <4>1. r = Coalesce(longer) /\ m = Len(r)
        OBVIOUS
      <4> HIDE DEF r, m
      <4>2. r \in Seq(Buffer) /\ AllSound(r) /\ Gapped(r) /\ Held(r, m) = Held(longer, newLen)
        <5>1. longer \in Seq(Buffer) /\ AllSound(longer) /\ Separate(longer)
          BY <2>8
        <5>2. newLen = Len(longer)
          BY <2>5
        <5> QED
          BY <4>1, <5>1, <5>2, CoalesceList
      <4>3. Separate(r) /\ NoneTouch(r)
        BY <4>2, GappedIsSeparate
      <4> QED
        BY <2>6, <3>1, <4>1, <4>2, <4>3
    <3>2. CASE ~ (newLen > CoalesceThreshold)
      BY <2>5, <2>6, <2>8, <3>2
    <3> QED
      BY <3>1, <3>2
  <2>10. FreeBytes' = FreeBytes \cup Extent(b)
    BY <2>5, <2>8, <2>9 DEF FreeBytes, Gains
  <2>11. BusyBytes' = BusyBytes \ Extent(b)
    <3>1. BusyBytes' = UNION {Extent(c) : c \in busy \ {b}}
      BY <2>1 DEF BusyBytes
    <3>2. ASSUME NEW x
          PROVE  (\E c \in busy \ {b} : x \in Extent(c)) <=>
                   (\E c \in busy : x \in Extent(c)) /\ x \notin Extent(b)
      BY <2>4
    <3>3. \A x : x \in BusyBytes' <=> x \in BusyBytes /\ x \notin Extent(b)
      BY <3>1, <3>2 DEF BusyBytes
    <3> QED
      BY <3>3
  <2>12. Types'
    BY <1>r, <1>e, <2>1, <2>2, <2>9 DEF Types
  <2>13. FreeInv' /\ CoalescedInv'
    BY <2>9 DEF FreeInv, CoalescedInv
  <2>14. BusyInv'
    BY <2>1 DEF HeapInv, BusyInv
  <2>15. CoverInv'
    <3>1. FreeBytes \cap BusyBytes = {} /\ FreeBytes \cup BusyBytes = Managed
      BY DEF HeapInv, CoverInv
    <3>2. FreeBytes' \cap BusyBytes' = {}
      BY <2>10, <2>11, <3>1
    <3>3. FreeBytes' \cup BusyBytes' = Managed
      BY <2>4, <2>10, <2>11, <3>1
    <3> QED
      BY <1>m, <3>2, <3>3 DEF CoverInv
  <2>16. CountInv'
    <3>1. IsFiniteSet(FreeBytes)
      BY <2>2, SumIsCount DEF FreeBytes
    <3>2. IsFiniteSet(Extent(b)) /\ Cardinality(Extent(b)) = b.len
      BY <2>3, ExtentSize
    <3>3. Cardinality(FreeBytes \cup Extent(b))
            = Cardinality(FreeBytes) + Cardinality(Extent(b)) - Cardinality(FreeBytes \cap Extent(b))
      BY <3>1, <3>2, FS_Union
    <3>4. FreeBytes \cap Extent(b) = {} /\ Cardinality({}) = 0
      BY <2>4, FS_EmptySet
    <3>5. freeSize = Cardinality(FreeBytes)
      BY DEF HeapInv, CountInv
    <3>6. Cardinality(FreeBytes) \in Nat /\ b.len \in Nat
      BY <2>3, <3>1, FS_CardinalityType DEF Buffer
    <3>7. Cardinality(FreeBytes \cup Extent(b)) = freeSize + b.len
      <4>1. Cardinality(FreeBytes \cap Extent(b)) = 0
        BY <3>4
      <4> QED
        BY <3>2, <3>3, <3>5, <3>6, <4>1
    <3>8. freeSize' = Cardinality(FreeBytes')
      BY <2>1, <2>10, <3>7
    <3> QED
      BY <3>8 DEF CountInv
  <2> QED
    BY <2>12, <2>13, <2>14, <2>15, <2>16 DEF HeapInv
<1>2. CASE ~ \E b \in busy : b.base = eva
  <2>1. UNCHANGED <<free, busy, freeSize>>
    BY <1>2 DEF DeviceFree
  <2>2. Types'
    BY <1>r, <1>e, <2>1 DEF HeapInv, Types
  <2>3. FreeBytes' = FreeBytes /\ BusyBytes' = BusyBytes
    BY <2>1 DEF FreeBytes, BusyBytes
  <2>4. FreeInv' /\ BusyInv' /\ CoalescedInv'
    BY <2>1 DEF HeapInv, FreeInv, BusyInv, CoalescedInv
  <2>5. CoverInv' /\ CountInv'
    BY <1>m, <2>1, <2>3 DEF HeapInv, CoverInv, CountInv
  <2> QED
    BY <2>2, <2>4, <2>5 DEF HeapInv
<1> QED
  BY <1>1, <1>2

\* The invariant is inductive.
LEMMA HeapStep == HeapInv /\ [Next]_vars => HeapInv'
<1> SUFFICES ASSUME HeapInv, [Next]_vars PROVE HeapInv'
  OBVIOUS
<1>1. CASE \E size \in Requests : DeviceMalloc(size)
  <2>1. PICK size \in Requests : DeviceMalloc(size)
    BY <1>1
  <2>2. CASE Exhausted(size)
    BY <2>2, ExhaustedHeap
  <2>3. CASE \E i \in DOMAIN free : Allocate(size, i)
    BY <2>3, AllocateHeap
  <2> QED
    BY <2>1, <2>2, <2>3 DEF DeviceMalloc
<1>2. CASE \E eva \in Addresses : DeviceFree(eva)
  BY <1>2, FreeHeap
<1>3. CASE UNCHANGED vars
  <2>1. UNCHANGED <<free, busy, freeSize, reply>>
    BY <1>3 DEF vars
  <2>2. /\ Types' /\ FreeInv' /\ BusyInv' /\ CoalescedInv'
        /\ FreeBytes' = FreeBytes /\ BusyBytes' = BusyBytes /\ Managed' = Managed
    BY <2>1 DEF HeapInv, Types, FreeInv, BusyInv, CoalescedInv, FreeBytes, BusyBytes, Managed
  <2> QED
    BY <2>1, <2>2 DEF HeapInv, CoverInv, CountInv
<1> QED
  BY <1>1, <1>2, <1>3 DEF Next

\* The heap's invariant: the lists of free and busy buffers split the managed range into aligned,
\* disjoint pieces, in every behaviour of the manager.
THEOREM HeapHolds == Spec => []HeapInv
<1>1. Init => HeapInv
  BY InitHeap
<1>2. HeapInv /\ [Next]_vars => HeapInv'
  BY HeapStep
<1> QED
  BY <1>1, <1>2, PTL DEF Spec

-----------------------------------------------------------------------------
(***************************************************************************)
(* The properties.                                                         *)
(***************************************************************************)

\* There is never more free than is managed.
LEMMA CountIsBounded ==
  ASSUME HeapInv
  PROVE  freeSize \in 0 .. Size
<1>1. Start \in Nat /\ Size \in Nat /\ Size > 0
  BY RangeAssumption
<1>2. /\ IsFiniteSet(Managed)
      /\ Cardinality(Managed) = Size
  <2>1. Start \in Int /\ Start + Size - 1 \in Int
    BY <1>1
  <2>2. /\ IsFiniteSet(Start .. Start + Size - 1)
        /\ Cardinality(Start .. Start + Size - 1)
             = IF Start > Start + Size - 1 THEN 0 ELSE (Start + Size - 1) - Start + 1
    BY <2>1, FS_Interval
  <2> QED
    BY <1>1, <2>2 DEF Managed
<1>3. FreeBytes \subseteq Managed
  BY DEF HeapInv, CoverInv
<1>4. /\ IsFiniteSet(FreeBytes) /\ Cardinality(FreeBytes) <= Cardinality(Managed)
  BY <1>2, <1>3, FS_Subset
<1>5. Cardinality(FreeBytes) \in Nat
  BY <1>4, FS_CardinalityType
<1> QED
  BY <1>1, <1>2, <1>4, <1>5 DEF HeapInv, CountInv

\* The types of the two lists, of the size that is left and of the replies.
THEOREM TypeCorrect == Spec => []TypeOK
<1>1. HeapInv => TypeOK
  <2> SUFFICES ASSUME HeapInv PROVE TypeOK
    OBVIOUS
  <2>1. freeSize \in 0 .. Size
    BY CountIsBounded
  <2> QED
    BY <2>1 DEF HeapInv, Types, TypeOK
<1> QED
  BY <1>1, HeapHolds, PTL

\* mFreeSize is the sum of the lengths of the free list: it never drifts from the list, in whatever
\* order buffers are cut, freed and joined.
THEOREM FreeSizeExact == Spec => []FreeSizeIsExact
<1>1. HeapInv => FreeSizeIsExact
  <2> SUFFICES ASSUME HeapInv PROVE FreeSizeIsExact
    OBVIOUS
  <2>1. free \in Seq(Buffer) /\ AllSound(free) /\ Separate(free)
    BY DEF HeapInv, Types, FreeInv
  <2>2. FoldLeft(LAMBDA n, b : n + b.len, 0, free) = Cardinality(FreeBytes)
    BY <2>1, SumIsCount DEF FreeBytes
  <2> QED
    BY <2>2 DEF HeapInv, CountInv, FreeSizeIsExact
<1> QED
  BY <1>1, HeapHolds, PTL

\* After a buffer was freed into a long list, no entry ends where another begins: coalescing
\* leaves nothing that could still be joined, and an allocation makes no new neighbours.
THEOREM LongListCoalesced == Spec => []LongListIsCoalesced
<1>1. HeapInv => LongListIsCoalesced
  <2> SUFFICES ASSUME HeapInv, Len(free) > CoalesceThreshold,
                      NEW b \in ToSet(free), NEW c \in ToSet(free)
               PROVE  b.base + b.len # c.base
    BY DEF LongListIsCoalesced
  <2>1. DOMAIN free = 1 .. Len(free)
    BY Entries DEF HeapInv, Types
  <2>2. PICK j \in 1 .. Len(free) : b = free[j]
    BY <2>1 DEF ToSet
  <2>3. PICK k \in 1 .. Len(free) : c = free[k]
    BY <2>1 DEF ToSet
  <2>4. End(free[j]) # free[k].base
    BY DEF HeapInv, CoalescedInv, NoneTouch
  <2> QED
    BY <2>2, <2>3, <2>4 DEF End
<1> QED
  BY <1>1, HeapHolds, PTL

\* No byte of device DRAM is handed out twice and none is lost: the free and the busy buffers
\* partition the managed range.
THEOREM RangeIsPartitioned == Spec => []BuffersPartitionRange
<1>1. HeapInv => BuffersPartitionRange
  <2> SUFFICES ASSUME HeapInv PROVE BuffersPartitionRange
    OBVIOUS
  <2> DEFINE N == Len(free)
  <2>1. /\ N \in Nat /\ DOMAIN free = 1 .. N
        /\ \A k \in 1 .. N : free[k] \in Buffer /\ free[k].base \in Nat /\ free[k].len \in Nat
    BY Entries DEF HeapInv, Types
  <2>2. \A k \in 1 .. N : Sound(free[k])
    BY DEF HeapInv, FreeInv, AllSound
  <2>3. \A j, k \in 1 .. N : j # k => Apart(free[j], free[k])
    BY DEF HeapInv, FreeInv, Separate
  <2> HIDE DEF N
  <2>4. \A j, k \in 1 .. N : j # k => Extent(free[j]) \cap Extent(free[k]) = {}
    BY <2>1, <2>2, <2>3, ApartIsDisjoint DEF Sound
  <2>5. \A b : b \in ToSet(free) <=> \E k \in 1 .. N : b = free[k]
    BY <2>1 DEF ToSet
  <2>6. FreeBytes = UNION {Extent(b) : b \in ToSet(free)}
    <3>1. FreeBytes = Held(free, N)
      BY DEF FreeBytes, N
    <3>2. ASSUME NEW x PROVE (\E k \in 1 .. N : x \in Extent(free[k])) <=>
                               \E b \in ToSet(free) : x \in Extent(b)
      BY <2>5
    <3>3. \A x : x \in FreeBytes <=> \E b \in ToSet(free) : x \in Extent(b)
      BY <3>1, <3>2, InHeld
    <3> QED
      BY <3>3
  <2>7. /\ \A b \in busy : Sound(b)
        /\ \A b, c \in busy : b # c => Extent(b) \cap Extent(c) = {}
        /\ FreeBytes \cap BusyBytes = {} /\ FreeBytes \cup BusyBytes = Managed
    BY DEF HeapInv, BusyInv, CoverInv
  <2>8. \A b \in Buffers : Sound(b)
    BY <2>2, <2>5, <2>7 DEF Buffers
  <2>9. \A b, c \in Buffers : b # c => Extent(b) \cap Extent(c) = {}
    <3>1. \A b, c \in ToSet(free) : b # c => Extent(b) \cap Extent(c) = {}
      BY <2>4, <2>5
    <3>2. \A b \in ToSet(free), c \in busy : Extent(b) \cap Extent(c) = {}
      BY <2>6, <2>7 DEF BusyBytes
    <3> QED
      BY <2>7, <3>1, <3>2 DEF Buffers
  <2>10. \A b \in Buffers : Extent(b) # {}
    <3>1. \A b \in Buffers : b \in Buffer
      BY <2>1, <2>5 DEF Buffers, HeapInv, Types
    <3>2. ASSUME NEW b \in Buffer, Sound(b) PROVE b.base \in Extent(b)
      BY <3>2 DEF Buffer, Sound, Extent
    <3> QED
      BY <2>8, <3>1, <3>2
  <2>11. IsInjective(free)
    <3>1. \A j, k \in 1 .. N : free[j] = free[k] => j = k
      <4>1. \A k \in 1 .. N : Extent(free[k]) # {}
        BY <2>5, <2>10 DEF Buffers
      <4> QED
        BY <2>4, <4>1
    <3> QED
      BY <2>1, <3>1 DEF IsInjective
  <2>12. ToSet(free) \cap busy = {}
    <3>1. ASSUME NEW b \in ToSet(free), b \in busy PROVE FALSE
      <4>1. Extent(b) # {} /\ Extent(b) \subseteq FreeBytes /\ Extent(b) \subseteq BusyBytes
        BY <2>6, <2>10, <3>1 DEF Buffers, BusyBytes
      <4> QED
        BY <2>7, <4>1
    <3> QED
      BY <3>1
  <2>13. UNION {Extent(b) : b \in Buffers} = Start .. Start + Size - 1
    <3>1. \A x : x \in UNION {Extent(b) : b \in Buffers} <=> x \in FreeBytes \/ x \in BusyBytes
      BY <2>6 DEF Buffers, BusyBytes
    <3> QED
      BY <2>7, <3>1 DEF Managed
  <2> QED
    BY <2>8, <2>9, <2>11, <2>12, <2>13 DEF BuffersPartitionRange, Sound
<1> QED
  BY <1>1, HeapHolds, PTL
=============================================================================
