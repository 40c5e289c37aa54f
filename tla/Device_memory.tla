---------------------------- MODULE Device_memory ----------------------------
(***************************************************************************)
(* Theorems about what Device writes to its tiles and what it hears of     *)
(* them, for every array of tiles, every set of binaries and any number of *)
(* devices opened and calls that fail. Tiles are frozen before anything    *)
(* else is written to them, and stopped between sessions (MemoryInv, of    *)
(* freeze registers and what is under way to them); what is received are   *)
(* whole packets of this session (StreamInv); and Device's types and       *)
(* bounds (LinkInv).                                                       *)
(***************************************************************************)
EXTENDS Device_proofs, WellFoundedInduction

-----------------------------------------------------------------------------
(* Lists of writes.                                                        *)

\* Induction over the numbers in a set.
LEMMA SetInduction ==
  ASSUME NEW S, 0 \in S, \A n \in Nat : n \in S => n + 1 \in S
  PROVE  Nat \subseteq S
<1> DEFINE R == OpToRel(<, Nat)
           T == Nat \ S
<1>1. IsWellFoundedOn(R, Nat)
  BY NatLessThanWellFounded
<1>2. \A a, b \in Nat : a < b => <<a, b>> \in R
  BY DEF OpToRel
<1> HIDE DEF R
<1>3. SUFFICES ASSUME T # {} PROVE FALSE
  OBVIOUS
<1>4. PICK m \in T : \A y \in T : ~ (<<y, m>> \in R)
  BY <1>1, <1>3, WFMin
<1>5. m - 1 \in Nat /\ m - 1 < m
  OBVIOUS
<1>6. m - 1 \in S
  BY <1>2, <1>4, <1>5
<1> QED
  BY <1>5, <1>6

\* f is built from the left: its first value is base, g makes the next ones.
IsBuilt(f, N, base, g) == f = [i \in 0 .. N |-> IF i = 0 THEN base ELSE g[<<i, f[i - 1]>>]]

\* There is such a function.
LEMMA BuiltExists ==
  ASSUME NEW N \in Nat, NEW X, NEW base \in X, NEW g \in [(1 .. N) \X X -> X]
  PROVE  \E f \in [0 .. N -> X] : IsBuilt(f, N, base, g)
<1> DEFINE Solves(f, k) ==
             /\ f \in [0 .. k -> X]
             /\ f[0] = base
             /\ \A i \in 1 .. k : f[i] = g[<<i, f[i - 1]>>]
           Solvable(k) == \E f : Solves(f, k)
           S == {k \in Nat : k <= N => Solvable(k)}
<1>1. 0 \in S
  <2>1. Solves([i \in 0 .. 0 |-> base], 0)
    OBVIOUS
  <2>2. Solvable(0)
    BY <2>1
  <2> HIDE DEF Solvable
  <2> QED
    BY <2>2
<1>2. ASSUME NEW k \in Nat, k \in S PROVE k + 1 \in S
  <2> SUFFICES ASSUME k + 1 <= N PROVE Solvable(k + 1)
    <3> HIDE DEF Solvable
    <3> QED
      OBVIOUS
  <2>0. Solvable(k)
    <3> HIDE DEF Solvable
    <3> QED
      BY <1>2
  <2>1. PICK f : Solves(f, k)
    BY <2>0
  <2> DEFINE h == [i \in 0 .. k + 1 |-> IF i = k + 1 THEN g[<<i, f[k]>>] ELSE f[i]]
  <2>2. g[<<k + 1, f[k]>>] \in X
    BY <2>1
  <2>3. h \in [0 .. k + 1 -> X]
    <3>1. \A i \in 0 .. k + 1 : i # k + 1 => i \in 0 .. k
      OBVIOUS
    <3>2. \A i \in 0 .. k : f[i] \in X
      BY <2>1
    <3> QED
      BY <2>2, <3>1, <3>2
  <2>4. h[0] = base
    BY <2>1
  <2>5. \A i \in 1 .. k + 1 : h[i] = g[<<i, h[i - 1]>>]
    <3> TAKE i \in 1 .. k + 1
    <3>1. CASE i = k + 1
      BY <3>1
    <3>2. CASE i # k + 1
      <4>1. i \in 1 .. k /\ i - 1 \in 0 .. k /\ i - 1 # k + 1
        BY <3>2
      <4>2. h[i] = f[i] /\ h[i - 1] = f[i - 1]
        BY <3>2, <4>1
      <4> QED
        BY <2>1, <4>1, <4>2
    <3> QED
      BY <3>1, <3>2
  <2> HIDE DEF h
  <2>6. Solves(h, k + 1)
    BY <2>3, <2>4, <2>5
  <2> QED
    BY <2>6
<1>3. N \in S
  <2> HIDE DEF S
  <2> QED
    BY <1>1, <1>2, SetInduction
<1>4. Solvable(N)
  <2> HIDE DEF Solvable
  <2> QED
    BY <1>3
<1>5. PICK f : Solves(f, N)
  BY <1>4
<1>6. IsBuilt(f, N, base, g)
  <2>1. \A i \in 0 .. N : f[i] = IF i = 0 THEN base ELSE g[<<i, f[i - 1]>>]
    BY <1>5
  <2> QED
    BY <1>5, <2>1 DEF IsBuilt
<1> QED
  BY <1>5, <1>6

Elems(s) == {s[i] : i \in DOMAIN s}

LEMMA ElemsOfAppend ==
  ASSUME NEW W, NEW s \in Seq(W), NEW w \in W
  PROVE  Append(s, w) \in Seq(W) /\ Elems(Append(s, w)) = Elems(s) \cup {w}
<1>1. /\ Append(s, w) \in Seq(W) /\ Len(Append(s, w)) = Len(s) + 1 /\ Len(s) \in Nat
      /\ DOMAIN Append(s, w) = 1 .. Len(s) + 1 /\ DOMAIN s = 1 .. Len(s)
  OBVIOUS
<1>2. \A i \in 1 .. Len(s) : Append(s, w)[i] = s[i]
  OBVIOUS
<1>3. Append(s, w)[Len(s) + 1] = w
  OBVIOUS
<1> DEFINE q == Append(s, w)
           n == Len(s)
<1>4. /\ n \in Nat /\ DOMAIN q = 1 .. n + 1 /\ DOMAIN s = 1 .. n
      /\ \A i \in 1 .. n : q[i] = s[i]
      /\ q[n + 1] = w
  BY <1>1, <1>2, <1>3
<1> HIDE DEF q, n
<1>5. Elems(q) = Elems(s) \cup {w}
  <2>1. \A i \in 1 .. n + 1 : i \in 1 .. n \/ i = n + 1
    BY <1>4
  <2>2. \A i \in 1 .. n : i \in 1 .. n + 1
    BY <1>4
  <2>3. n + 1 \in 1 .. n + 1
    BY <1>4
  <2>4. ASSUME NEW x \in Elems(q) PROVE x \in Elems(s) \cup {w}
    <3>1. PICK i \in 1 .. n + 1 : x = q[i]
      BY <1>4 DEF Elems
    <3> QED
      BY <1>4, <2>1, <3>1 DEF Elems
  <2>5. ASSUME NEW x \in Elems(s) PROVE x \in Elems(q)
    <3>1. PICK i \in 1 .. n : x = s[i]
      BY <1>4 DEF Elems
    <3> QED
      BY <1>4, <2>2, <3>1 DEF Elems
  <2>6. w \in Elems(q)
    BY <1>4, <2>3 DEF Elems
  <2> QED
    BY <2>4, <2>5, <2>6
<1> QED
  BY <1>1, <1>5 DEF q

\* What tlapm does not see at once of a concatenation.
LEMMA Concatenation ==
  ASSUME NEW W, NEW a \in Seq(W), NEW b \in Seq(W)
  PROVE  /\ a \o b \in Seq(W)
         /\ Len(a) \in Nat /\ Len(b) \in Nat /\ Len(a \o b) = Len(a) + Len(b)
         /\ DOMAIN a = 1 .. Len(a) /\ DOMAIN b = 1 .. Len(b)
         /\ DOMAIN (a \o b) = 1 .. Len(a) + Len(b)
         /\ \A i \in 1 .. Len(a) : (a \o b)[i] = a[i]
         /\ \A i \in 1 .. Len(b) : (a \o b)[Len(a) + i] = b[i]
<1>1. a \o b \in Seq(W) /\ Len(a \o b) = Len(a) + Len(b)
  OBVIOUS
<1>2. /\ Len(a) \in Nat /\ Len(b) \in Nat
      /\ DOMAIN a = 1 .. Len(a) /\ DOMAIN b = 1 .. Len(b)
      /\ DOMAIN (a \o b) = 1 .. Len(a \o b)
  BY <1>1
<1>3. \A i \in 1 .. Len(a) : (a \o b)[i] = a[i]
  OBVIOUS
<1>4. \A i \in 1 .. Len(b) : (a \o b)[Len(a) + i] = b[i]
  OBVIOUS
<1> QED
  BY <1>1, <1>2, <1>3, <1>4

LEMMA ElemsOfConcatenation ==
  ASSUME NEW W, NEW a \in Seq(W), NEW b \in Seq(W)
  PROVE  a \o b \in Seq(W) /\ Elems(a \o b) = Elems(a) \cup Elems(b)
<1> DEFINE q == a \o b
           m == Len(a)
           n == Len(b)
<1>1. /\ q \in Seq(W) /\ m \in Nat /\ n \in Nat
      /\ DOMAIN a = 1 .. m /\ DOMAIN b = 1 .. n /\ DOMAIN q = 1 .. m + n
      /\ \A i \in 1 .. m : q[i] = a[i]
      /\ \A i \in 1 .. n : q[m + i] = b[i]
  BY Concatenation
<1> HIDE DEF q, m, n
<1>2. \A i \in 1 .. m + n : i \in 1 .. m \/ \E j \in 1 .. n : i = m + j
  <2> TAKE i \in 1 .. m + n
  <2>1. CASE i > m
    <3>1. i - m \in 1 .. n /\ i = m + (i - m)
      BY <1>1, <2>1
    <3> QED
      BY <3>1
  <2> QED
    BY <1>1, <2>1
<1>3. \A i \in 1 .. m : i \in 1 .. m + n
  BY <1>1
<1>4. \A i \in 1 .. n : m + i \in 1 .. m + n
  BY <1>1
<1>5. ASSUME NEW x \in Elems(q) PROVE x \in Elems(a) \cup Elems(b)
  <2>1. PICK i \in 1 .. m + n : x = q[i]
    BY <1>1 DEF Elems
  <2> QED
    BY <1>1, <1>2, <2>1 DEF Elems
<1>6. ASSUME NEW x \in Elems(a) PROVE x \in Elems(q)
  BY <1>1, <1>3, <1>6 DEF Elems
<1>7. ASSUME NEW x \in Elems(b) PROVE x \in Elems(q)
  BY <1>1, <1>4, <1>7 DEF Elems
<1>8. Elems(q) = Elems(a) \cup Elems(b)
  BY <1>5, <1>6, <1>7
<1> QED
  BY <1>1, <1>8 DEF q

LEMMA ElemsOfPrefix ==
  ASSUME NEW W, NEW s \in Seq(W), NEW k \in 0 .. Len(s)
  PROVE  SubSeq(s, 1, k) \in Seq(W) /\ Elems(SubSeq(s, 1, k)) \subseteq Elems(s)
<1> DEFINE q == SubSeq(s, 1, k)
<1>1. /\ q \in Seq(W) /\ DOMAIN q = 1 .. k
      /\ \A i \in 1 .. k : q[i] = s[i] /\ i \in DOMAIN s
  OBVIOUS
<1> HIDE DEF q
<1>2. Elems(q) \subseteq Elems(s)
  BY <1>1 DEF Elems
<1> QED
  BY <1>1, <1>2 DEF q

\* Sent(writes, n) are those of the list that go to n.
SentTo(writes, n) == {w \in Elems(writes) : w.to = n}

LEMMA SentWrites ==
  ASSUME NEW W, NEW writes \in Seq(W), NEW n
  PROVE  Sent(writes, n) \in Seq(W) /\ Elems(Sent(writes, n)) = SentTo(writes, n)
<1> DEFINE N == Len(writes)
           X == Seq(W)
           g == [p \in (1 .. N) \X X |->
                   IF writes[p[1]].to = n THEN Append(p[2], writes[p[1]]) ELSE p[2]]
           Is(f) == f = [i \in 0 .. Len(writes) |->
                           IF i = 0 THEN <<>>
                           ELSE IF writes[i].to = n THEN Append(f[i - 1], writes[i]) ELSE f[i - 1]]
           F == CHOOSE f : Is(f)
<1>0. N \in Nat /\ DOMAIN writes = 1 .. N /\ \A i \in 1 .. N : writes[i] \in W
  OBVIOUS
<1>1. g \in [(1 .. N) \X X -> X]
  <2>1. \A i \in 1 .. N : \A s \in X : Append(s, writes[i]) \in X
    BY <1>0
  <2> QED
    BY <2>1
<1>2. <<>> \in X
  OBVIOUS
<1>3. PICK f \in [0 .. N -> X] : IsBuilt(f, N, <<>>, g)
  <2> HIDE DEF g, X, N
  <2> QED
    BY <1>0, <1>1, <1>2, BuiltExists
<1>4. Is(f)
  <2>1. \A i \in 0 .. N : i # 0 =>
           g[<<i, f[i - 1]>>] = IF writes[i].to = n THEN Append(f[i - 1], writes[i]) ELSE f[i - 1]
    <3> TAKE i \in 0 .. N
    <3> HAVE i # 0
    <3>1. i \in 1 .. N /\ i - 1 \in 0 .. N
      BY <1>0
    <3>2. f[i - 1] \in X
      BY <1>3, <3>1
    <3>3. <<i, f[i - 1]>> \in (1 .. N) \X X
      BY <3>1, <3>2
    <3> QED
      BY <3>3
  <2> HIDE DEF g, X
  <2> QED
    BY <1>0, <2>1, <1>3 DEF IsBuilt
<1>5. Is(F)
  <2> HIDE DEF Is
  <2> QED
    BY <1>4
<1>6. Sent(writes, n) = F[N]
  BY DEF Sent
<1>7. F[0] = <<>> /\ \A k \in Nat : k + 1 <= N =>
         F[k + 1] = IF writes[k + 1].to = n THEN Append(F[k], writes[k + 1]) ELSE F[k]
  <2>1. \A i \in 0 .. N : F[i] =
           IF i = 0 THEN <<>>
           ELSE IF writes[i].to = n THEN Append(F[i - 1], writes[i]) ELSE F[i - 1]
    <3> HIDE DEF F
    <3> QED
      BY <1>5
  <2> HIDE DEF F, Is
  <2>2. 0 \in 0 .. N /\ \A k \in Nat : k + 1 <= N =>
            k + 1 \in 0 .. N /\ k + 1 # 0 /\ (k + 1) - 1 = k
    BY <1>0
  <2> HIDE DEF N
  <2>3. F[0] = <<>>
    BY <2>1, <2>2
  <2>4. ASSUME NEW k \in Nat, k + 1 <= N
        PROVE  F[k + 1] = IF writes[k + 1].to = n THEN Append(F[k], writes[k + 1]) ELSE F[k]
    BY <2>1, <2>2, <2>4
  <2> QED
    BY <2>3, <2>4
<1> DEFINE Firsts(k) == {w \in {writes[i] : i \in 1 .. k} : w.to = n}
           S == {k \in Nat : k <= N => F[k] \in Seq(W) /\ Elems(F[k]) = Firsts(k)}
<1> HIDE DEF F, g, X, Is
<1>8. 0 \in S
  <2>1. <<>> \in Seq(W) /\ Elems(<<>>) = {} /\ 1 .. 0 = {}
    BY DEF Elems
  <2>2. Firsts(0) = {}
    BY <2>1
  <2> QED
    BY <1>7, <2>1, <2>2
<1>9. ASSUME NEW k \in Nat, k \in S PROVE k + 1 \in S
  <2> SUFFICES ASSUME k + 1 <= N PROVE F[k + 1] \in Seq(W) /\ Elems(F[k + 1]) = Firsts(k + 1)
    OBVIOUS
  <2>1. F[k] \in Seq(W) /\ Elems(F[k]) = Firsts(k) /\ writes[k + 1] \in W
    BY <1>0, <1>9
  <2>2. 1 .. k + 1 = 1 .. k \cup {k + 1}
    OBVIOUS
  <2>3. CASE writes[k + 1].to = n
    <3>1. Firsts(k + 1) = Firsts(k) \cup {writes[k + 1]}
      BY <2>2, <2>3
    <3>2. F[k + 1] = Append(F[k], writes[k + 1])
      BY <1>7, <2>3
    <3> HIDE DEF Firsts
    <3> DEFINE s == F[k]
               w == writes[k + 1]
    <3>3. s \in Seq(W) /\ w \in W
      BY <2>1
    <3> HIDE DEF s, w
    <3>4. Append(s, w) \in Seq(W) /\ Elems(Append(s, w)) = Elems(s) \cup {w}
      BY <3>3, ElemsOfAppend
    <3> QED
      BY <2>1, <3>1, <3>2, <3>4 DEF s, w
  <2>4. CASE writes[k + 1].to # n
    <3>1. Firsts(k + 1) = Firsts(k)
      BY <2>2, <2>4
    <3>2. F[k + 1] = F[k]
      BY <1>7, <2>4
    <3> HIDE DEF Firsts
    <3> QED
      BY <2>1, <3>1, <3>2
  <2> QED
    BY <2>3, <2>4
<1>10. N \in S
  <2> HIDE DEF S
  <2> QED
    BY <1>0, <1>8, <1>9, SetInduction
<1>11. Firsts(N) = SentTo(writes, n)
  BY <1>0 DEF SentTo, Elems
<1> QED
  BY <1>6, <1>10, <1>11

\* ForEach(tiles, lists) are the writes of the lists of all these tiles.
LEMMA ForEachWrites ==
  ASSUME NEW W, NEW T, NEW tiles \in Seq(T), NEW lists \in [T -> Seq(W)]
  PROVE  /\ ForEach(tiles, lists) \in Seq(W)
         /\ \A w : w \in Elems(ForEach(tiles, lists)) <=> \E t \in Elems(tiles) : w \in Elems(lists[t])
<1> DEFINE N == Len(tiles)
           X == Seq(W)
           g == [p \in (1 .. N) \X X |-> p[2] \o lists[tiles[p[1]]]]
           Is(f) == f = [i \in 0 .. Len(tiles) |->
                           IF i = 0 THEN <<>> ELSE f[i - 1] \o lists[tiles[i]]]
           F == CHOOSE f : Is(f)
<1>0. /\ N \in Nat /\ DOMAIN tiles = 1 .. N
      /\ \A i \in 1 .. N : tiles[i] \in T /\ lists[tiles[i]] \in Seq(W)
  OBVIOUS
<1>1. g \in [(1 .. N) \X X -> X]
  <2>1. \A i \in 1 .. N : \A s \in X : s \o lists[tiles[i]] \in X
    BY <1>0, Concatenation
  <2> QED
    BY <2>1
<1>2. <<>> \in X
  OBVIOUS
<1>3. PICK f \in [0 .. N -> X] : IsBuilt(f, N, <<>>, g)
  <2> HIDE DEF g, X, N
  <2> QED
    BY <1>0, <1>1, <1>2, BuiltExists
<1>4. Is(f)
  <2>1. \A i \in 0 .. N : i # 0 => g[<<i, f[i - 1]>>] = f[i - 1] \o lists[tiles[i]]
    <3> TAKE i \in 0 .. N
    <3> HAVE i # 0
    <3>1. i \in 1 .. N /\ i - 1 \in 0 .. N
      BY <1>0
    <3>2. f[i - 1] \in X
      BY <1>3, <3>1
    <3>3. <<i, f[i - 1]>> \in (1 .. N) \X X
      BY <3>1, <3>2
    <3> QED
      BY <3>3
  <2> HIDE DEF g, X
  <2> QED
    BY <1>0, <2>1, <1>3 DEF IsBuilt
<1>5. Is(F)
  <2> HIDE DEF Is
  <2> QED
    BY <1>4
<1>6. ForEach(tiles, lists) = F[N]
  BY DEF ForEach
<1>7. F[0] = <<>> /\ \A k \in Nat : k + 1 <= N => F[k + 1] = F[k] \o lists[tiles[k + 1]]
  <2>1. \A i \in 0 .. N : F[i] = IF i = 0 THEN <<>> ELSE F[i - 1] \o lists[tiles[i]]
    <3> HIDE DEF F
    <3> QED
      BY <1>5
  <2> HIDE DEF F, Is
  <2>2. 0 \in 0 .. N /\ \A k \in Nat : k + 1 <= N =>
            k + 1 \in 0 .. N /\ k + 1 # 0 /\ (k + 1) - 1 = k
    BY <1>0
  <2> HIDE DEF N
  <2>3. F[0] = <<>>
    BY <2>1, <2>2
  <2>4. ASSUME NEW k \in Nat, k + 1 <= N PROVE F[k + 1] = F[k] \o lists[tiles[k + 1]]
    BY <2>1, <2>2, <2>4
  <2> QED
    BY <2>3, <2>4
<1> DEFINE Firsts(k) == UNION {Elems(lists[tiles[i]]) : i \in 1 .. k}
           S == {k \in Nat : k <= N => F[k] \in Seq(W) /\ Elems(F[k]) = Firsts(k)}
<1> HIDE DEF F, g, X, Is
<1>8. 0 \in S
  <2>1. <<>> \in Seq(W) /\ Elems(<<>>) = {} /\ 1 .. 0 = {}
    BY DEF Elems
  <2>2. Firsts(0) = {}
    BY <2>1
  <2> QED
    BY <1>7, <2>1, <2>2
<1>9. ASSUME NEW k \in Nat, k \in S PROVE k + 1 \in S
  <2> SUFFICES ASSUME k + 1 <= N PROVE F[k + 1] \in Seq(W) /\ Elems(F[k + 1]) = Firsts(k + 1)
    OBVIOUS
  <2>0. F[k] \in Seq(W) /\ Elems(F[k]) = Firsts(k)
    <3> HIDE DEF Firsts
    <3> QED
      BY <1>0, <1>9
  <2>1. /\ F[k] \in Seq(W) /\ Elems(F[k]) = Firsts(k) /\ lists[tiles[k + 1]] \in Seq(W)
        /\ F[k + 1] = F[k] \o lists[tiles[k + 1]]
    <3> HIDE DEF Firsts
    <3>1. k + 1 \in 1 .. N
      BY <1>0
    <3> HIDE DEF N
    <3>2. lists[tiles[k + 1]] \in Seq(W)
      BY <1>0, <3>1
    <3>3. F[k + 1] = F[k] \o lists[tiles[k + 1]]
      BY <1>7
    <3> QED
      BY <2>0, <3>2, <3>3
  <2>2. 1 .. k + 1 = 1 .. k \cup {k + 1}
    OBVIOUS
  <2>3. Firsts(k + 1) = Firsts(k) \cup Elems(lists[tiles[k + 1]])
    BY <2>2
  <2> HIDE DEF Firsts
  <2> DEFINE a == F[k]
             b == lists[tiles[k + 1]]
  <2>4. a \in Seq(W) /\ b \in Seq(W)
    BY <2>1
  <2> HIDE DEF a, b
  <2>5. a \o b \in Seq(W) /\ Elems(a \o b) = Elems(a) \cup Elems(b)
    BY <2>4, ElemsOfConcatenation
  <2> QED
    BY <2>1, <2>3, <2>5 DEF a, b
<1>10. N \in S
  <2> HIDE DEF S
  <2> QED
    BY <1>0, <1>8, <1>9, SetInduction
<1>11. \A w : w \in Firsts(N) <=> \E t \in Elems(tiles) : w \in Elems(lists[t])
  <2>1. Elems(tiles) = {tiles[i] : i \in 1 .. N}
    BY <1>0 DEF Elems
  <2> QED
    BY <2>1
<1>12. F[N] \in Seq(W) /\ Elems(F[N]) = Firsts(N)
  <2> HIDE DEF Firsts
  <2> QED
    BY <1>0, <1>10
<1> HIDE DEF Firsts
<1> QED
  BY <1>6, <1>11, <1>12

-----------------------------------------------------------------------------
(* What a freeze register hears.                                           *)

IsFreeze(w) == w.epa = EPA_FREEZE
\* m is the last of the first k writes of q that go to the register.
LastIs(q, k, m) == m \in 1 .. k /\ IsFreeze(q[m]) /\ \A j \in m + 1 .. k : ~IsFreeze(q[j])
NoFreeze(q, k) == \A i \in 1 .. k : ~IsFreeze(q[i])
\* The register when the first k writes of q have arrived, if it is v before.
FreezeIn(q, v, k) ==
  IF \E i \in 1 .. k : q[i].epa = EPA_FREEZE THEN q[LastFreeze(q, k)].val ELSE v

LEMMA LastExists ==
  ASSUME NEW q, NEW k \in Nat, ~NoFreeze(q, k)
  PROVE  \E m : LastIs(q, k, m)
<1> DEFINE S == {n \in Nat : NoFreeze(q, n) \/ \E m : LastIs(q, n, m)}
<1>1. 0 \in S
  BY DEF NoFreeze
<1>2. ASSUME NEW n \in Nat, n \in S PROVE n + 1 \in S
  <2>1. CASE IsFreeze(q[n + 1])
    <3>1. LastIs(q, n + 1, n + 1)
      BY <2>1 DEF LastIs
    <3> QED
      BY <3>1
  <2>2. CASE ~IsFreeze(q[n + 1]) /\ NoFreeze(q, n)
    <3>1. NoFreeze(q, n + 1)
      <4> SUFFICES ASSUME NEW i \in 1 .. n + 1 PROVE ~IsFreeze(q[i])
        BY DEF NoFreeze
      <4>1. i = n + 1 \/ i \in 1 .. n
        OBVIOUS
      <4> QED
        BY <2>2, <4>1 DEF NoFreeze
    <3> QED
      BY <3>1
  <2>3. ASSUME NEW m, LastIs(q, n, m), ~IsFreeze(q[n + 1])
        PROVE  n + 1 \in S
    <3>1. m \in 1 .. n /\ m \in 1 .. n + 1
      BY <2>3 DEF LastIs
    <3>2. \A j \in m + 1 .. n + 1 : j = n + 1 \/ j \in m + 1 .. n
      BY <3>1
    <3>3. LastIs(q, n + 1, m)
      BY <2>3, <3>1, <3>2 DEF LastIs
    <3> QED
      BY <3>3
  <2> QED
    BY <1>2, <2>1, <2>2, <2>3
<1>3. k \in S
  <2> HIDE DEF S
  <2> QED
    BY <1>1, <1>2, SetInduction
<1> QED
  BY <1>3

LEMMA FreezeInIs ==
  ASSUME NEW q, NEW v, NEW k \in Nat
  PROVE  /\ NoFreeze(q, k) => FreezeIn(q, v, k) = v
         /\ \A m : LastIs(q, k, m) => FreezeIn(q, v, k) = q[m].val
<1>1. NoFreeze(q, k) => FreezeIn(q, v, k) = v
  BY DEF NoFreeze, FreezeIn, IsFreeze
<1>2. ASSUME NEW m, LastIs(q, k, m) PROVE FreezeIn(q, v, k) = q[m].val
  <2>1. \E i \in 1 .. k : q[i].epa = EPA_FREEZE
    BY <1>2 DEF LastIs, IsFreeze
  <2>2. /\ LastFreeze(q, k) \in 1 .. k
        /\ q[LastFreeze(q, k)].epa = EPA_FREEZE
        /\ \A j \in LastFreeze(q, k) + 1 .. k : q[j].epa # EPA_FREEZE
    <3>1. \E i \in 1 .. k : /\ q[i].epa = EPA_FREEZE
                            /\ \A j \in i + 1 .. k : q[j].epa # EPA_FREEZE
      BY <1>2 DEF LastIs, IsFreeze
    <3> QED
      BY <3>1 DEF LastFreeze
  <2>3. LastFreeze(q, k) = m
    <3> DEFINE l == LastFreeze(q, k)
    <3>1. l \in 1 .. k /\ m \in 1 .. k
      BY <1>2, <2>2 DEF LastIs
    <3>2. ~(l < m)
      <4> SUFFICES ASSUME l < m PROVE FALSE
        OBVIOUS
      <4>1. m \in l + 1 .. k
        BY <3>1
      <4> QED
        BY <1>2, <2>2, <4>1 DEF LastIs, IsFreeze
    <3>3. ~(m < l)
      <4> SUFFICES ASSUME m < l PROVE FALSE
        OBVIOUS
      <4>1. l \in m + 1 .. k
        BY <3>1
      <4> QED
        BY <1>2, <2>2, <4>1 DEF LastIs, IsFreeze
    <3> HIDE DEF l
    <3>4. l = m
      BY <3>1, <3>2, <3>3
    <3> QED
      BY <3>4 DEF l
  <2> QED
    BY <2>1, <2>3 DEF FreezeIn
<1> QED
  BY <1>1, <1>2

\* Two queues that agree as far as they are looked at.
LEMMA FreezeInAgrees ==
  ASSUME NEW q, NEW r, NEW v, NEW k \in Nat, \A i \in 1 .. k : r[i] = q[i]
  PROVE  FreezeIn(r, v, k) = FreezeIn(q, v, k)
<1>1. CASE NoFreeze(q, k)
  <2>1. NoFreeze(r, k)
    BY <1>1 DEF NoFreeze
  <2> QED
    BY <1>1, <2>1, FreezeInIs
<1>2. CASE ~NoFreeze(q, k)
  <2>1. PICK m : LastIs(q, k, m)
    BY <1>2, LastExists
  <2>2. m \in 1 .. k /\ \A j \in m + 1 .. k : j \in 1 .. k
    BY <2>1 DEF LastIs
  <2>3. LastIs(r, k, m)
    BY <2>1, <2>2 DEF LastIs
  <2> QED
    BY <2>1, <2>2, <2>3, FreezeInIs
<1> QED
  BY <1>1, <1>2

\* Writes that are sent do not change what the register hears before them.
LEMMA FreezeInBefore ==
  ASSUME NEW W, NEW q \in Seq(W), NEW p \in Seq(W), NEW v, NEW k \in 0 .. Len(q)
  PROVE  FreezeIn(q \o p, v, k) = FreezeIn(q, v, k)
<1>1. \A i \in 1 .. k : (q \o p)[i] = q[i]
  <2>1. \A i \in 1 .. k : i \in 1 .. Len(q)
    BY Concatenation
  <2> QED
    BY <2>1, Concatenation
<1>2. k \in Nat
  BY Concatenation
<1> DEFINE r == q \o p
<1> HIDE DEF r
<1> QED
  BY <1>1, <1>2, FreezeInAgrees, ZenonT(30) DEF r

\* If none of them goes to the register, it hears nothing new.
LEMMA FreezeInSame ==
  ASSUME NEW W, NEW q \in Seq(W), NEW p \in Seq(W), NEW v, NEW j \in 0 .. Len(p),
         \A w \in Elems(p) : ~IsFreeze(w)
  PROVE  FreezeIn(q \o p, v, Len(q) + j) = FreezeIn(q, v, Len(q))
<1> DEFINE r == q \o p
           n == Len(q)
           l == Len(p)
<1>1. /\ n \in Nat /\ l \in Nat
      /\ \A i \in 1 .. n : r[i] = q[i]
      /\ \A i \in 1 .. l : r[n + i] = p[i]
      /\ DOMAIN p = 1 .. l
  BY Concatenation
<1>2. j \in 0 .. l
  OBVIOUS
<1> HIDE DEF r, n, l
<1>3. j \in Nat /\ n + j \in Nat
  BY <1>1, <1>2
<1>4. \A i \in n + 1 .. n + j : ~IsFreeze(r[i])
  <2> TAKE i \in n + 1 .. n + j
  <2>1. i - n \in 1 .. l /\ i = n + (i - n)
    BY <1>1, <1>2, <1>3
  <2>2. r[i] = p[i - n]
    BY <1>1, <2>1
  <2>3. p[i - n] \in Elems(p)
    BY <1>1, <2>1 DEF Elems
  <2> QED
    BY <2>2, <2>3
<1>5. CASE NoFreeze(q, n)
  <2>1. NoFreeze(r, n + j)
    <3> SUFFICES ASSUME NEW i \in 1 .. n + j PROVE ~IsFreeze(r[i])
      BY DEF NoFreeze
    <3>1. i \in 1 .. n \/ i \in n + 1 .. n + j
      BY <1>1, <1>3
    <3> QED
      BY <1>1, <1>4, <1>5, <3>1 DEF NoFreeze
  <2> QED
    BY <1>1, <1>3, <1>5, <2>1, FreezeInIs DEF r, n
<1>6. CASE ~NoFreeze(q, n)
  <2>1. PICK m : LastIs(q, n, m)
    BY <1>1, <1>6, LastExists
  <2>2. m \in 1 .. n /\ m \in 1 .. n + j
    BY <1>1, <1>3, <2>1 DEF LastIs
  <2>3. \A i \in m + 1 .. n + j : ~IsFreeze(r[i])
    <3> TAKE i \in m + 1 .. n + j
    <3>1. (i \in m + 1 .. n /\ i \in 1 .. n) \/ i \in n + 1 .. n + j
      BY <1>1, <1>3, <2>2
    <3> QED
      BY <1>1, <1>4, <2>1, <3>1 DEF LastIs
  <2>4. LastIs(r, n + j, m)
    BY <1>1, <2>1, <2>2, <2>3 DEF LastIs
  <2>5. FreezeIn(r, v, n + j) = r[m].val
    BY <1>3, <2>4, FreezeInIs
  <2>6. FreezeIn(q, v, n) = q[m].val
    BY <1>1, <2>1, FreezeInIs
  <2> QED
    BY <1>1, <2>2, <2>5, <2>6 DEF r, n
<1> QED
  BY <1>5, <1>6

\* If all that go to the register freeze the tile, and there is one or it was frozen already.
LEMMA FreezeInFrozen ==
  ASSUME NEW W, NEW q \in Seq(W), NEW p \in Seq(W), NEW v,
         \A w \in Elems(p) : IsFreeze(w) => w.val = 1,
         (\E w \in Elems(p) : IsFreeze(w)) \/ FreezeIn(q, v, Len(q)) = 1
  PROVE  FreezeIn(q \o p, v, Len(q) + Len(p)) = 1
<1>1. CASE \A w \in Elems(p) : ~IsFreeze(w)
  <2>1. Len(p) \in 0 .. Len(p)
    BY Concatenation
  <2>2. FreezeIn(q \o p, v, Len(q) + Len(p)) = FreezeIn(q, v, Len(q))
    BY <1>1, <2>1, FreezeInSame
  <2> QED
    BY <1>1, <2>2
<1>2. CASE \E w \in Elems(p) : IsFreeze(w)
  <2> DEFINE r == q \o p
             n == Len(q)
             l == Len(p)
  <2>1. /\ n \in Nat /\ l \in Nat
        /\ \A i \in 1 .. l : r[n + i] = p[i]
        /\ DOMAIN p = 1 .. l
    BY Concatenation
  <2> HIDE DEF r, n, l
  <2>2. n + l \in Nat
    BY <2>1
  <2>3. ~NoFreeze(p, l)
    BY <1>2, <2>1 DEF NoFreeze, Elems
  <2>4. PICK m : LastIs(p, l, m)
    BY <2>1, <2>3, LastExists
  <2>5. m \in 1 .. l /\ n + m \in 1 .. n + l
    BY <2>1, <2>4 DEF LastIs
  <2>6. \A i \in (n + m) + 1 .. n + l : ~IsFreeze(r[i])
    <3> TAKE i \in (n + m) + 1 .. n + l
    <3>1. i - n \in m + 1 .. l /\ i - n \in 1 .. l /\ i = n + (i - n)
      BY <2>1, <2>5
    <3>2. r[i] = p[i - n]
      BY <2>1, <3>1
    <3> QED
      BY <2>4, <3>1, <3>2 DEF LastIs
  <2>7. r[n + m] = p[m] /\ p[m] \in Elems(p) /\ IsFreeze(p[m])
    BY <2>1, <2>4, <2>5 DEF LastIs, Elems
  <2>8. LastIs(r, n + l, n + m)
    BY <2>5, <2>6, <2>7 DEF LastIs
  <2>9. FreezeIn(r, v, n + l) = r[n + m].val
    BY <2>2, <2>8, FreezeInIs
  <2> QED
    BY <2>7, <2>9 DEF r, n, l
<1> QED
  BY <1>1, <1>2

\* The first write arrives.
LEMMA FreezeInArrives ==
  ASSUME NEW W, NEW q \in Seq(W), q # <<>>, NEW v, NEW k \in 0 .. Len(q) - 1
  PROVE  FreezeIn(Tail(q), IF IsFreeze(Head(q)) THEN Head(q).val ELSE v, k) = FreezeIn(q, v, k + 1)
<1> DEFINE r == Tail(q)
           n == Len(q)
           u == IF IsFreeze(Head(q)) THEN Head(q).val ELSE v
<1>1. n \in Nat /\ n >= 1 /\ Head(q) = q[1] /\ \A i \in 1 .. n - 1 : r[i] = q[i + 1]
  OBVIOUS
<1>2. k \in 0 .. n - 1
  OBVIOUS
<1>3. u = IF IsFreeze(q[1]) THEN q[1].val ELSE v
  BY <1>1
<1> HIDE DEF r, n, u
<1>4. k \in Nat /\ k + 1 \in Nat /\ \A i \in 1 .. k : r[i] = q[i + 1] /\ i + 1 \in 1 .. k + 1
  BY <1>1, <1>2
<1>5. CASE NoFreeze(q, k + 1)
  <2>1. NoFreeze(r, k) /\ ~IsFreeze(q[1])
    BY <1>4, <1>5 DEF NoFreeze
  <2>2. FreezeIn(r, u, k) = u
    BY <1>4, <2>1, FreezeInIs
  <2>3. FreezeIn(q, v, k + 1) = v
    BY <1>4, <1>5, FreezeInIs
  <2> QED
    BY <1>3, <2>1, <2>2, <2>3 DEF r, u
<1>6. ASSUME NEW m, LastIs(q, k + 1, m)
      PROVE  FreezeIn(r, u, k) = FreezeIn(q, v, k + 1)
  <2>1. m \in 1 .. k + 1 /\ FreezeIn(q, v, k + 1) = q[m].val
    BY <1>4, <1>6, FreezeInIs DEF LastIs
  <2>2. CASE m = 1
    <3>1. NoFreeze(r, k)
      <4> SUFFICES ASSUME NEW i \in 1 .. k PROVE ~IsFreeze(r[i])
        BY DEF NoFreeze
      <4>1. i + 1 \in m + 1 .. k + 1
        BY <1>4, <2>2
      <4> QED
        BY <1>4, <1>6, <4>1 DEF LastIs
    <3>2. FreezeIn(r, u, k) = u
      BY <1>4, <3>1, FreezeInIs
    <3>3. IsFreeze(q[1])
      BY <1>6, <2>2 DEF LastIs
    <3> QED
      BY <1>3, <2>1, <2>2, <3>2, <3>3
  <2>3. CASE m # 1
    <3>1. m - 1 \in 1 .. k /\ (m - 1) + 1 = m
      BY <1>4, <2>1, <2>3
    <3>2. r[m - 1] = q[m]
      BY <1>4, <3>1
    <3>3. \A j \in (m - 1) + 1 .. k : ~IsFreeze(r[j])
      <4> TAKE j \in (m - 1) + 1 .. k
      <4>1. j \in 1 .. k /\ j + 1 \in m + 1 .. k + 1
        BY <1>4, <3>1
      <4> QED
        BY <1>4, <1>6, <4>1 DEF LastIs
    <3>4. LastIs(r, k, m - 1)
      BY <1>6, <3>1, <3>2, <3>3 DEF LastIs
    <3>5. FreezeIn(r, u, k) = r[m - 1].val
      BY <1>4, <3>4, FreezeInIs
    <3> QED
      BY <2>1, <3>2, <3>5
  <2> QED
    BY <2>2, <2>3
<1> QED
  BY <1>4, <1>5, <1>6, LastExists DEF r, u

-----------------------------------------------------------------------------
(* Meshes.                                                                 *)

LEMMA Division ==
  ASSUME NEW w \in Nat \ {0}, NEW n \in Nat
  PROVE  /\ n % w \in 0 .. w - 1 /\ n \div w \in Nat
         /\ n = w * (n \div w) + (n % w)
<1>1. n % w \in 0 .. w - 1
  OBVIOUS
<1>2. n \div w \in Nat
  OBVIOUS
<1>3. n = w * (n \div w) + (n % w)
  OBVIOUS
<1> QED
  BY <1>1, <1>2, <1>3

LEMMA ProductOrder ==
  ASSUME NEW w \in Nat \ {0}, NEW b \in Nat, NEW c \in Nat, b < c
  PROVE  w * b + w <= w * c
<1>1. c - b - 1 \in Nat
  OBVIOUS
<1> DEFINE d == c - b - 1
<1>2. c = b + 1 + d /\ d \in Nat
  BY <1>1
<1> HIDE DEF d
<1>3. w * c = w * b + w + w * d
  BY <1>2
<1>4. w * d \in Nat
  BY <1>2
<1> QED
  BY <1>3, <1>4

LEMMA DivisionIsUnique ==
  ASSUME NEW w \in Nat \ {0}, NEW a \in 0 .. w - 1, NEW b \in Nat,
         NEW c \in 0 .. w - 1, NEW d \in Nat, w * b + a = w * d + c
  PROVE  a = c /\ b = d
<1>1. ~(b < d)
  <2> SUFFICES ASSUME b < d PROVE FALSE
    OBVIOUS
  <2>1. w * b + w <= w * d
    BY ProductOrder
  <2>2. w * b \in Nat /\ w * d \in Nat
    OBVIOUS
  <2> QED
    BY <2>1, <2>2
<1>2. ~(d < b)
  <2> SUFFICES ASSUME d < b PROVE FALSE
    OBVIOUS
  <2>1. w * d + w <= w * b
    BY ProductOrder
  <2>2. w * b \in Nat /\ w * d \in Nat
    OBVIOUS
  <2> QED
    BY <2>1, <2>2
<1>3. b = d
  BY <1>1, <1>2
<1>4. w * b = w * d /\ w * b \in Nat
  BY <1>3
<1> QED
  BY <1>3, <1>4

\* Where the i-th tile of a mesh is: its column and its row.
LEMMA PlaceInMesh ==
  ASSUME NEW w \in Nat \ {0}, NEW h \in Nat \ {0}, NEW i \in 1 .. w * h
  PROVE  /\ (i - 1) % w \in 0 .. w - 1 /\ (i - 1) \div w \in 0 .. h - 1
         /\ i = w * ((i - 1) \div w) + ((i - 1) % w) + 1
<1> DEFINE n == i - 1
           a == n % w
           b == n \div w
<1>1. w * h \in Nat
  OBVIOUS
<1>2. n \in Nat /\ i = n + 1 /\ n < w * h
  BY <1>1
<1> HIDE DEF n
<1>3. a \in 0 .. w - 1 /\ b \in Nat /\ n = w * b + a
  BY <1>2, Division
<1> HIDE DEF a, b
<1>4. b < h
  <2> SUFFICES ASSUME ~(b < h) PROVE FALSE
    OBVIOUS
  <2>1. w * h <= w * b
    <3>1. CASE b = h
      BY <1>1, <3>1
    <3>2. CASE h < b
      <4>1. w * h + w <= w * b
        BY <1>3, <3>2, ProductOrder
      <4>2. w * b \in Nat
        BY <1>3
      <4> QED
        BY <1>1, <4>1, <4>2
    <3> QED
      BY <1>3, <3>1, <3>2
  <2>2. w * b \in Nat
    BY <1>3
  <2> QED
    BY <1>1, <1>2, <1>3, <2>1, <2>2
<1>5. a \in 0 .. w - 1 /\ b \in 0 .. h - 1 /\ i = w * b + a + 1
  <2>1. w * b \in Nat
    BY <1>3
  <2> QED
    BY <1>2, <1>3, <1>4, <2>1
<1> QED
  BY <1>5 DEF n, a, b

LEMMA MeshOfTiles ==
  ASSUME NEW dim \in Nat \X Nat, ValidDim(dim)
  PROVE  /\ MeshTiles(dim) \in Seq(Tiles)
         /\ Len(MeshTiles(dim)) \in Nat \ {0}
         /\ \A i, j \in DOMAIN MeshTiles(dim) : MeshTiles(dim)[i] = MeshTiles(dim)[j] => i = j
<1> DEFINE w == dim[1]
           h == dim[2]
           W == ArrayDim[1]
           H == ArrayDim[2]
           ox == Origin[1]
           oy == Origin[2]
           N == w * h
           q == [i \in 1 .. N |-> <<ox + ((i - 1) % w), oy + ((i - 1) \div w)>>]
           A == [i \in 1 .. W * H |-> <<ox + ((i - 1) % W), oy + ((i - 1) \div W)>>]
<1>1. /\ w \in Nat \ {0} /\ h \in Nat \ {0} /\ W \in Nat \ {0} /\ H \in Nat \ {0}
      /\ w <= W /\ h <= H /\ ox \in Nat /\ oy \in Nat
  BY ArrayAssumption DEF ValidDim
<1>2. MeshTiles(dim) = q /\ Array = A
  BY DEF MeshTiles, Array
<1> HIDE DEF w, h, W, H, ox, oy
<1>3. N \in Nat \ {0}
  BY <1>1
<1>4. ASSUME NEW i \in 1 .. N PROVE q[i] \in Tiles
  <2> DEFINE a == (i - 1) % w
             b == (i - 1) \div w
             k == W * b + a + 1
  <2>1. a \in 0 .. w - 1 /\ b \in 0 .. h - 1
    BY <1>1, PlaceInMesh
  <2> HIDE DEF a, b
  <2>2. a \in 0 .. W - 1 /\ b \in Nat /\ b < H
    BY <1>1, <2>1
  <2>3. W * b + W <= W * H
    BY <1>1, <2>2, ProductOrder
  <2>4. W * b \in Nat /\ W * H \in Nat
    BY <1>1, <2>2
  <2>5. k \in 1 .. W * H
    BY <1>1, <2>2, <2>3, <2>4
  <2> HIDE DEF k
  <2>6. /\ (k - 1) % W \in 0 .. W - 1 /\ (k - 1) \div W \in 0 .. H - 1
        /\ k = W * ((k - 1) \div W) + ((k - 1) % W) + 1
    BY <1>1, <2>5, PlaceInMesh
  <2> DEFINE c == (k - 1) % W
             d == (k - 1) \div W
  <2>7. c \in 0 .. W - 1 /\ d \in Nat /\ k = W * d + c + 1
    <3>1. c \in 0 .. W - 1 /\ d \in 0 .. H - 1 /\ k = W * d + c + 1
      BY <2>6
    <3> HIDE DEF c, d
    <3>2. d \in Nat
      BY <3>1
    <3> QED
      BY <3>1, <3>2
  <2> HIDE DEF c, d
  <2>8. W * b + a = W * d + c
    <3>1. W * d \in Nat
      BY <1>1, <2>7
    <3> QED
      BY <2>2, <2>4, <2>7, <3>1 DEF k
  <2>9. a = c /\ b = d
    BY <1>1, <2>2, <2>7, <2>8, DivisionIsUnique
  <2>10. q[i] = A[k]
    BY <2>5, <2>9 DEF a, b, c, d
  <2>11. A[k] \in Tiles
    <3>1. k \in DOMAIN A
      BY <2>5
    <3> HIDE DEF A
    <3> QED
      BY <1>2, <3>1 DEF Tiles
  <2> QED
    BY <2>10, <2>11
<1>5. ASSUME NEW i \in 1 .. N, NEW j \in 1 .. N, q[i] = q[j] PROVE i = j
  <2>1. ox + ((i - 1) % w) = ox + ((j - 1) % w) /\ oy + ((i - 1) \div w) = oy + ((j - 1) \div w)
    BY <1>5
  <2>2. /\ (i - 1) % w \in 0 .. w - 1 /\ (i - 1) \div w \in 0 .. h - 1
        /\ i = w * ((i - 1) \div w) + ((i - 1) % w) + 1
    BY <1>1, PlaceInMesh
  <2>3. /\ (j - 1) % w \in 0 .. w - 1 /\ (j - 1) \div w \in 0 .. h - 1
        /\ j = w * ((j - 1) \div w) + ((j - 1) % w) + 1
    BY <1>1, PlaceInMesh
  <2> DEFINE a == (i - 1) % w
             b == (i - 1) \div w
             c == (j - 1) % w
             d == (j - 1) \div w
  <2>4. /\ ox + a = ox + c /\ oy + b = oy + d
        /\ a \in 0 .. w - 1 /\ b \in 0 .. h - 1 /\ c \in 0 .. w - 1 /\ d \in 0 .. h - 1
        /\ i = w * b + a + 1 /\ j = w * d + c + 1
    BY <2>1, <2>2, <2>3
  <2> HIDE DEF a, b, c, d
  <2>5. a = c /\ b = d
    BY <1>1, <2>4
  <2> QED
    BY <2>4, <2>5
<1>6. q \in Seq(Tiles) /\ DOMAIN q = 1 .. N /\ Len(q) = N
  <2>1. DOMAIN q = 1 .. N
    OBVIOUS
  <2>2. q = [i \in 1 .. N |-> q[i]]
    OBVIOUS
  <2> HIDE DEF q
  <2>3. q \in [1 .. N -> Tiles]
    BY <1>4, <2>1, <2>2
  <2> HIDE DEF N
  <2>4. q \in Seq(Tiles)
    BY <1>3, <2>3
  <2> QED
    BY <1>3, <2>1, <2>4
<1> HIDE DEF q, N
<1> QED
  BY <1>2, <1>3, <1>5, <1>6

-----------------------------------------------------------------------------
(* What is under way to the nodes.                                         *)

Registers == {EPA_FREEZE, EPA_ORIGIN_X, EPA_ORIGIN_Y, EPA_DRAM_ENABLE}
PacketTo(n) ==
  {w \in [to : {n}, epa : Epas(n), val : Nat] : n \in Tiles /\ IsFreeze(w) => w.val \in {0, 1}}
Packet == UNION {PacketTo(n) : n \in Nodes}

\* The types of memories and of what is under way to them: a freeze register is told 0 or 1.
MemInv ==
  /\ DOMAIN posted = Nodes /\ \A n \in Nodes : posted[n] \in Seq(PacketTo(n))
  /\ DOMAIN mem = Nodes /\ \A n \in Nodes : mem[n] \in [Epas(n) -> Nat]

\* What the freeze register of a tile holds when all that is under way has arrived.
Last(t) == FreezeAfter(t, Len(posted[t]))

\* How a list of writes may touch tile t.
Calm(W, t)          == \A w \in Elems(W) : w.to = t => ~IsFreeze(w)
Freezing(W, t)      == \A w \in Elems(W) : w.to = t /\ IsFreeze(w) => w.val = 1
Freezes(W, t)       == \E w \in Elems(W) : w.to = t /\ IsFreeze(w)
OnlyRegisters(W, t) == \A w \in Elems(W) : w.to = t => w.epa \in Registers
Harmless(W) == \A t \in Tiles : OnlyRegisters(W, t) \/ (Last(t) = 1 /\ Calm(W, t))

LEMMA FreezeAfterIs ==
  \A t, k : FreezeAfter(t, k) = FreezeIn(posted[t], mem[t][EPA_FREEZE], k)
BY DEF FreezeAfter, FreezeIn

LEMMA Addresses ==
  /\ DmemWords \in Nat \ {0} /\ IcacheWords \in Nat \ {0} /\ DramWords \in Nat \ {0}
  /\ EPA_FREEZE = DmemWords /\ EPA_ICACHE = DmemWords + 4
  /\ Registers \subseteq TileEpas
  /\ \A t \in Tiles : Epas(t) = TileEpas
  /\ Epas(Cache) = CacheEpas
  /\ Cache \in Nodes /\ Cache \notin Tiles /\ Tiles \subseteq Nodes
  /\ EPA_FREEZE \in TileEpas /\ EPA_FREEZE \in Nat
BY MemoryAssumption, ArrayAssumption
   DEF EPA_FREEZE, EPA_ICACHE, Registers, EPA_ORIGIN_X, EPA_ORIGIN_Y, EPA_DRAM_ENABLE, TileEpas,
       Epas, Nodes

\* A list that is sent keeps the types; each node gets its part of it behind what is under way.
LEMMA PostedParts ==
  ASSUME MemInv, NEW W \in Seq(Packet), Post(W), mem' = mem
  PROVE  /\ MemInv'
         /\ \A n \in Nodes : /\ posted'[n] = posted[n] \o Sent(W, n)
                             /\ posted[n] \in Seq(PacketTo(n))
                             /\ Sent(W, n) \in Seq(PacketTo(n))
                             /\ Elems(Sent(W, n)) = SentTo(W, n)
<1>1. ASSUME NEW n \in Nodes
      PROVE  Sent(W, n) \in Seq(PacketTo(n)) /\ Elems(Sent(W, n)) = SentTo(W, n)
  <2>1. Sent(W, n) \in Seq(Packet) /\ Elems(Sent(W, n)) = SentTo(W, n)
    BY SentWrites
  <2> DEFINE s == Sent(W, n)
  <2> HIDE DEF s
  <2>2. /\ DOMAIN s = 1 .. Len(s) /\ Len(s) \in Nat
        /\ \A i \in DOMAIN s : s[i] \in Packet /\ s[i] \in Elems(s)
    BY <2>1 DEF s, Elems
  <2>3. \A i \in DOMAIN s : s[i] \in PacketTo(n)
    <3> TAKE i \in DOMAIN s
    <3>1. s[i].to = n
      BY <2>1, <2>2 DEF SentTo, s
    <3>2. PICK m \in Nodes : s[i] \in PacketTo(m)
      BY <2>2 DEF Packet
    <3>3. m = n
      BY <3>1, <3>2 DEF PacketTo
    <3> QED
      BY <3>2, <3>3
  <2>4. s \in Seq(Packet)
    BY <2>1 DEF s
  <2>5. s \in Seq(PacketTo(n))
    BY <2>2, <2>3, <2>4
  <2> QED
    BY <2>1, <2>5 DEF s
<1>2. ASSUME NEW n \in Nodes
      PROVE  posted'[n] = posted[n] \o Sent(W, n) /\ posted[n] \in Seq(PacketTo(n))
  BY DEF Post, MemInv
<1>3. ASSUME NEW n \in Nodes PROVE posted'[n] \in Seq(PacketTo(n))
  <2> DEFINE a == posted[n]
             b == Sent(W, n)
             S == PacketTo(n)
  <2>1. a \in Seq(S) /\ b \in Seq(S)
    BY <1>1, <1>2
  <2> HIDE DEF a, b, S
  <2>2. a \o b \in Seq(S)
    BY <2>1, Concatenation
  <2> QED
    BY <1>2, <2>2 DEF a, b, S
<1>4. MemInv'
  BY <1>3 DEF MemInv, Post, PacketTo, IsFreeze, EPA_FREEZE, Epas, Nodes, TileEpas, CacheEpas, EPA_ICACHE
<1> QED
  BY <1>1, <1>2, <1>4

\* What a tile's freeze register hears last when a list of writes is sent.
LEMMA LastAfterPost ==
  ASSUME MemInv, NEW W \in Seq(Packet), Post(W), mem' = mem, NEW t \in Tiles
  PROVE  /\ Calm(W, t) => Last(t)' = Last(t)
         /\ Freezing(W, t) /\ (Last(t) = 1 \/ Freezes(W, t)) => Last(t)' = 1
<1> DEFINE q == posted[t]
           p == Sent(W, t)
           v == mem[t][EPA_FREEZE]
           S == PacketTo(t)
<1>1. /\ posted'[t] = q \o p /\ q \in Seq(S) /\ p \in Seq(S) /\ Elems(p) = SentTo(W, t)
      /\ mem'[t][EPA_FREEZE] = v
  BY PostedParts DEF Nodes
<1>2. Last(t) = FreezeIn(q, v, Len(q))
  BY FreezeAfterIs DEF Last
<1>3. Last(t)' = FreezeIn(posted'[t], v, Len(posted'[t]))
  <2>1. FreezeAfter(t, Len(posted[t]))' = FreezeIn(posted'[t], mem'[t][EPA_FREEZE], Len(posted'[t]))
    BY DEF FreezeAfter, FreezeIn, EPA_FREEZE
  <2> QED
    BY <1>1, <2>1 DEF Last
<1> HIDE DEF q, p, v, S
<1>4. Len(q \o p) = Len(q) + Len(p) /\ Len(p) \in 0 .. Len(p)
  BY <1>1, Concatenation
<1>5. Last(t)' = FreezeIn(q \o p, v, Len(q) + Len(p))
  BY <1>1, <1>3, <1>4
<1>6. Calm(W, t) => Last(t)' = Last(t)
  <2> SUFFICES ASSUME Calm(W, t) PROVE Last(t)' = Last(t)
    OBVIOUS
  <2>1. \A w \in Elems(p) : ~IsFreeze(w)
    BY <1>1 DEF Calm, SentTo
  <2>2. FreezeIn(q \o p, v, Len(q) + Len(p)) = FreezeIn(q, v, Len(q))
    BY <1>1, <1>4, <2>1, FreezeInSame
  <2> QED
    BY <1>2, <1>5, <2>2
<1>7. Freezing(W, t) /\ (Last(t) = 1 \/ Freezes(W, t)) => Last(t)' = 1
  <2> SUFFICES ASSUME Freezing(W, t), Last(t) = 1 \/ Freezes(W, t) PROVE Last(t)' = 1
    OBVIOUS
  <2>1. \A w \in Elems(p) : IsFreeze(w) => w.val = 1
    BY <1>1 DEF Freezing, SentTo
  <2>2. (\E w \in Elems(p) : IsFreeze(w)) \/ FreezeIn(q, v, Len(q)) = 1
    BY <1>1, <1>2 DEF Freezes, SentTo
  <2>3. FreezeIn(q \o p, v, Len(q) + Len(p)) = 1
    BY <1>1, <2>1, <2>2, FreezeInFrozen
  <2> QED
    BY <1>5, <2>3
<1> QED
  BY <1>6, <1>7

\* Writes to registers, and to frozen tiles, are harmless.
LEMMA HarmlessPost ==
  ASSUME MemInv, FrozenWhileWritten, NEW W \in Seq(Packet), Post(W), mem' = mem, Harmless(W)
  PROVE  FrozenWhileWritten'
<1> SUFFICES ASSUME NEW t \in Tiles, NEW i \in DOMAIN posted'[t]
             PROVE  posted'[t][i].epa \in Registers \/ FreezeAfter(t, i)' = 1
  BY DEF FrozenWhileWritten, Registers, EPA_FREEZE, EPA_ORIGIN_X, EPA_ORIGIN_Y, EPA_DRAM_ENABLE
<1> DEFINE q == posted[t]
           p == Sent(W, t)
           v == mem[t][EPA_FREEZE]
           S == PacketTo(t)
<1>1. /\ posted'[t] = q \o p /\ q \in Seq(S) /\ p \in Seq(S) /\ Elems(p) = SentTo(W, t)
      /\ mem'[t][EPA_FREEZE] = v
  BY PostedParts DEF Nodes
<1>2. /\ Last(t) = FreezeIn(q, v, Len(q))
      /\ \A k : FreezeAfter(t, k) = FreezeIn(q, v, k)
  BY FreezeAfterIs DEF Last
<1>3. FreezeAfter(t, i)' = FreezeIn(posted'[t], v, i)
  <2>1. FreezeAfter(t, i)' = FreezeIn(posted'[t], mem'[t][EPA_FREEZE], i)
    BY DEF FreezeAfter, FreezeIn, EPA_FREEZE
  <2> QED
    BY <1>1, <2>1
<1>4. \A k \in DOMAIN q : q[k].epa \in Registers \/ FreezeIn(q, v, k) = 1
  BY <1>2 DEF FrozenWhileWritten, Registers
<1> HIDE DEF q, p, v, S
<1> DEFINE n == Len(q)
           l == Len(p)
           r == q \o p
<1>5. /\ n \in Nat /\ l \in Nat /\ DOMAIN q = 1 .. n /\ DOMAIN p = 1 .. l /\ DOMAIN r = 1 .. n + l
      /\ \A k \in 1 .. n : r[k] = q[k]
      /\ \A k \in 1 .. l : r[n + k] = p[k]
  BY <1>1, Concatenation
<1>6. CASE i \in 1 .. n
  <2>1. i \in 0 .. Len(q)
    BY <1>5, <1>6
  <2>2. FreezeIn(q \o p, v, i) = FreezeIn(q, v, i)
    BY <1>1, <2>1, FreezeInBefore
  <2> QED
    BY <1>1, <1>3, <1>4, <1>5, <1>6, <2>2
<1>7. ASSUME NEW j \in 1 .. l, i = n + j
      PROVE  posted'[t][i].epa \in Registers \/ FreezeAfter(t, i)' = 1
  <2>1. r[i] = p[j] /\ p[j] \in SentTo(W, t)
    BY <1>1, <1>5, <1>7 DEF Elems
  <2>2. CASE OnlyRegisters(W, t)
    BY <1>1, <2>1, <2>2 DEF OnlyRegisters, SentTo
  <2>3. CASE Last(t) = 1 /\ Calm(W, t)
    <3>1. \A w \in Elems(p) : ~IsFreeze(w)
      BY <1>1, <2>3 DEF Calm, SentTo
    <3>2. j \in 0 .. Len(p)
      BY <1>5
    <3>3. FreezeIn(q \o p, v, Len(q) + j) = FreezeIn(q, v, Len(q))
      BY <1>1, <3>1, <3>2, FreezeInSame
    <3> QED
      BY <1>1, <1>2, <1>3, <1>7, <2>3, <3>3
  <2> QED
    BY <2>2, <2>3 DEF Harmless
<1>8. i \in 1 .. n \/ \E j \in 1 .. l : i = n + j
  <2>1. i \in 1 .. n + l
    BY <1>1, <1>5
  <2> HIDE DEF n, l
  <2>2. CASE i > n
    <3>1. i - n \in 1 .. l /\ i = n + (i - n)
      BY <1>5, <2>1, <2>2
    <3> QED
      BY <3>1
  <2> QED
    BY <1>5, <2>1, <2>2
<1> QED
  BY <1>6, <1>7, <1>8

\* A write that arrives changes nothing of what the registers hear last.
LEMMA DeliverEffect ==
  ASSUME MemInv, NEW n \in Nodes, Deliver(n)
  PROVE  /\ MemInv'
         /\ \A t \in Tiles : Last(t)' = Last(t)
         /\ FrozenWhileWritten => FrozenWhileWritten'
<1> DEFINE q == posted[n]
           w == Head(q)
           S == PacketTo(n)
<1>1. /\ q \in Seq(S) /\ q # <<>>
      /\ posted' = [posted EXCEPT ![n] = Tail(q)]
      /\ mem' = [mem EXCEPT ![n][w.epa] = w.val]
  BY DEF Deliver, MemInv
<1>2. w \in S /\ Tail(q) \in Seq(S)
  BY <1>1
<1>3. MemInv'
  <2>1. w.epa \in Epas(n) /\ w.val \in Nat
    BY <1>2 DEF PacketTo
  <2>2. DOMAIN posted' = Nodes /\ \A m \in Nodes : posted'[m] \in Seq(PacketTo(m))
    BY <1>1, <1>2 DEF MemInv
  <2> HIDE DEF w, q
  <2>3. \A m \in Nodes : mem[m] \in [Epas(m) -> Nat]
    BY DEF MemInv
  <2>4. DOMAIN mem' = Nodes /\ \A m \in Nodes : mem'[m] \in [Epas(m) -> Nat]
    BY <1>1, <2>1, <2>3 DEF MemInv
  <2> QED
    BY <2>2, <2>4
    DEF MemInv, PacketTo, IsFreeze, EPA_FREEZE, Epas, Nodes, TileEpas, CacheEpas, EPA_ICACHE
<1>4. ASSUME NEW t \in Tiles, t # n
      PROVE  posted'[t] = posted[t] /\ mem'[t] = mem[t]
  BY <1>1, <1>4 DEF Nodes, MemInv
<1>5. \A t, k : FreezeAfter(t, k)' = FreezeIn(posted'[t], mem'[t][EPA_FREEZE], k)
  BY DEF FreezeAfter, FreezeIn, EPA_FREEZE
<1>6. ASSUME n \in Tiles
      PROVE  /\ posted'[n] = Tail(q) /\ Len(Tail(q)) = Len(q) - 1 /\ Len(q) \in Nat \ {0}
             /\ \A k \in 0 .. Len(q) - 1 : FreezeAfter(n, k)' = FreezeAfter(n, k + 1)
  <2>1. mem'[n][EPA_FREEZE] = IF IsFreeze(w) THEN w.val ELSE mem[n][EPA_FREEZE]
    <3>1. n \in DOMAIN mem /\ mem[n] \in [Epas(n) -> Nat] /\ EPA_FREEZE \in Epas(n) /\ w.epa \in Epas(n)
      BY <1>2, <1>6, Addresses DEF MemInv, PacketTo
    <3> HIDE DEF w
    <3> QED
      BY <1>1, <3>1 DEF IsFreeze
  <2>2. posted'[n] = Tail(q) /\ Len(Tail(q)) = Len(q) - 1 /\ Len(q) \in Nat \ {0}
    BY <1>1 DEF MemInv
  <2>3. ASSUME NEW k \in 0 .. Len(q) - 1 PROVE FreezeAfter(n, k)' = FreezeAfter(n, k + 1)
    <3> DEFINE v == mem[n][EPA_FREEZE]
    <3>1. FreezeAfter(n, k)' = FreezeIn(Tail(q), IF IsFreeze(w) THEN w.val ELSE v, k)
      BY <1>5, <2>1, <2>2
    <3>2. FreezeAfter(n, k + 1) = FreezeIn(q, v, k + 1)
      BY FreezeAfterIs
    <3> HIDE DEF v, q, S
    <3>3. FreezeIn(Tail(q), IF IsFreeze(w) THEN w.val ELSE v, k) = FreezeIn(q, v, k + 1)
      BY <1>1, FreezeInArrives
    <3> QED
      BY <3>1, <3>2, <3>3
  <2> QED
    BY <2>2, <2>3
<1>7. ASSUME NEW t \in Tiles PROVE Last(t)' = Last(t)
  <2>1. Last(t)' = FreezeIn(posted'[t], mem'[t][EPA_FREEZE], Len(posted'[t]))
    <3>1. FreezeAfter(t, Len(posted[t]))' = FreezeIn(posted'[t], mem'[t][EPA_FREEZE], Len(posted'[t]))
      BY DEF FreezeAfter, FreezeIn, EPA_FREEZE
    <3> QED
      BY <3>1 DEF Last
  <2>2. CASE t = n
    <3>0. posted'[n] = Tail(q) /\ Len(Tail(q)) = Len(q) - 1 /\ Len(q) \in Nat \ {0}
      BY <1>6, <2>2
    <3>1. Len(posted'[n]) = Len(q) - 1 /\ Len(q) - 1 \in 0 .. Len(q) - 1 /\ (Len(q) - 1) + 1 = Len(q)
      BY <3>0
    <3>2. PICK k \in 0 .. Len(q) - 1 : k + 1 = Len(q) /\ Len(posted'[n]) = k
      BY <3>1
    <3>3. FreezeAfter(n, k)' = FreezeAfter(n, k + 1)
      <4>1. \A j \in 0 .. Len(q) - 1 : FreezeAfter(n, j)' = FreezeAfter(n, j + 1)
        BY <1>6, <2>2
      <4> QED
        BY <3>2, <4>1
    <3>4. Last(t)' = FreezeAfter(n, k)'
      BY <2>1, <2>2, <3>2, <1>5
    <3> QED
      BY <2>2, <3>2, <3>3, <3>4 DEF Last
  <2>3. CASE t # n
    <3>0. posted'[t] = posted[t] /\ mem'[t] = mem[t]
      BY <1>4, <2>3
    <3>1. Last(t)' = FreezeIn(posted[t], mem[t][EPA_FREEZE], Len(posted[t]))
      BY <2>1, <3>0
    <3> QED
      BY <3>1, FreezeAfterIs DEF Last
  <2> QED
    BY <2>2, <2>3
<1>8. FrozenWhileWritten => FrozenWhileWritten'
  <2> SUFFICES ASSUME FrozenWhileWritten, NEW t \in Tiles, NEW i \in DOMAIN posted'[t]
               PROVE  posted'[t][i].epa \in Registers \/ FreezeAfter(t, i)' = 1
    BY DEF FrozenWhileWritten, Registers, EPA_FREEZE, EPA_ORIGIN_X, EPA_ORIGIN_Y, EPA_DRAM_ENABLE
  <2>1. \A k \in DOMAIN posted[t] : posted[t][k].epa \in Registers \/ FreezeAfter(t, k) = 1
    BY DEF FrozenWhileWritten, Registers
  <2>2. CASE t = n
    <3>1. /\ posted'[n] = Tail(q) /\ Len(Tail(q)) = Len(q) - 1 /\ Len(q) \in Nat \ {0}
          /\ \A k \in 0 .. Len(q) - 1 : FreezeAfter(n, k)' = FreezeAfter(n, k + 1)
      BY <1>6, <2>2
    <3>2. DOMAIN Tail(q) = 1 .. Len(q) - 1 /\ \A k \in 1 .. Len(q) - 1 : Tail(q)[k] = q[k + 1]
      BY <1>1
    <3>3. i \in 1 .. Len(q) - 1 /\ DOMAIN q = 1 .. Len(q)
      <4>1. i \in DOMAIN posted'[n]
        BY <2>2
      <4>2. i \in DOMAIN Tail(q)
        BY <3>1, <4>1
      <4> QED
        BY <1>1, <3>2, <4>2
    <3> HIDE DEF q
    <3>4. i + 1 \in DOMAIN q /\ i \in 0 .. Len(q) - 1
      BY <3>1, <3>3
    <3>5. FreezeAfter(n, i)' = FreezeAfter(n, i + 1) /\ posted'[n][i] = q[i + 1]
      BY <3>1, <3>2, <3>3, <3>4
    <3>6. q[i + 1].epa \in Registers \/ FreezeAfter(n, i + 1) = 1
      BY <2>1, <2>2, <3>4 DEF q
    <3> QED
      BY <2>2, <3>5, <3>6
  <2>3. CASE t # n
    <3>0. posted'[t] = posted[t] /\ mem'[t] = mem[t]
      BY <1>4, <2>3
    <3>1. FreezeAfter(t, i)' = FreezeAfter(t, i)
      BY <1>5, <3>0, FreezeAfterIs
    <3> QED
      BY <2>1, <3>0, <3>1
  <2> QED
    BY <2>2, <2>3
<1> QED
  BY <1>3, <1>7, <1>8

\* Nor does a program that writes its variables: they are not in the registers.
LEMMA StoreEffect ==
  ASSUME MemInv, NEW u \in Tiles, Store(u)
  PROVE  /\ MemInv'
         /\ \A t \in Tiles : mem'[t][EPA_FREEZE] = mem[t][EPA_FREEZE]
         /\ \A t \in Tiles : Last(t)' = Last(t)
         /\ FrozenWhileWritten => FrozenWhileWritten'
<1>1. PICK eva \in ProgramData :
         mem' = [mem EXCEPT ![Place(u, eva).node][Place(u, eva).epa] = Junk]
  BY DEF Store
<1>2. posted' = posted
  BY DEF Store
<1> DEFINE n == Place(u, eva).node
           a == Place(u, eva).epa
<1>3. /\ n \in Nodes /\ a \in Epas(n) /\ (n \in Tiles => a # EPA_FREEZE)
  <2>1. DramEva \in Nat /\ DramEva >= DmemWords /\ Junk \in Nat
    BY BinariesAssumption, MemoryAssumption
  <2>2. eva \in 0 .. DmemWords - 1 \/ eva \in DramEva .. DramEva + DramWords - 1
    BY DeviceAssumption
  <2>3. CASE eva \in 0 .. DmemWords - 1
    <3>1. n = u /\ a = eva
      BY <2>1, <2>3, Addresses DEF Place, is_dram
    <3>2. eva \in TileEpas /\ eva # EPA_FREEZE
      BY <2>3, Addresses DEF TileEpas
    <3> QED
      BY <3>1, <3>2, Addresses
  <2>4. CASE eva \in DramEva .. DramEva + DramWords - 1
    <3>1. n = Cache /\ a = eva - DramEva
      BY <2>1, <2>4, Addresses DEF Place, is_dram
    <3>2. eva - DramEva \in CacheEpas
      BY <2>1, <2>4, Addresses DEF CacheEpas
    <3> QED
      BY <3>1, <3>2, Addresses
  <2> QED
    BY <2>2, <2>3, <2>4
<1>4. mem' = [mem EXCEPT ![n][a] = Junk]
  BY <1>1
<1> HIDE DEF n, a
<1>5. DOMAIN mem' = Nodes /\ \A m \in Nodes : mem'[m] \in [Epas(m) -> Nat]
  BY <1>3, <1>4, MemoryAssumption DEF MemInv
<1>6. MemInv'
  BY <1>2, <1>5 DEF MemInv, PacketTo, IsFreeze, EPA_FREEZE, Epas, Nodes, TileEpas, CacheEpas, EPA_ICACHE
<1>7. \A t \in Tiles : mem'[t][EPA_FREEZE] = mem[t][EPA_FREEZE]
  BY <1>3, <1>4, Addresses DEF MemInv
<1>8. \A t \in Tiles : \A k : FreezeAfter(t, k)' = FreezeAfter(t, k)
  <2>1. \A t, k : FreezeAfter(t, k)' = FreezeIn(posted'[t], mem'[t][EPA_FREEZE], k)
    BY DEF FreezeAfter, FreezeIn, EPA_FREEZE
  <2> QED
    BY <1>2, <1>7, <2>1, FreezeAfterIs
<1>9. \A t \in Tiles : Last(t)' = Last(t)
  <2> TAKE t \in Tiles
  <2>1. Last(t)' = FreezeIn(posted'[t], mem'[t][EPA_FREEZE], Len(posted'[t]))
    <3>1. FreezeAfter(t, Len(posted[t]))' = FreezeIn(posted'[t], mem'[t][EPA_FREEZE], Len(posted'[t]))
      BY DEF FreezeAfter, FreezeIn, EPA_FREEZE
    <3> QED
      BY <3>1 DEF Last
  <2> QED
    BY <1>2, <1>7, <2>1, FreezeAfterIs DEF Last
<1>10. FrozenWhileWritten => FrozenWhileWritten'
  BY <1>2, <1>8
  DEF FrozenWhileWritten, EPA_FREEZE, EPA_ORIGIN_X, EPA_ORIGIN_Y, EPA_DRAM_ENABLE
<1> QED
  BY <1>6, <1>7, <1>9, <1>10

\* Sending a list, or as much of it as can be sent.
LEMMA SendEffect ==
  ASSUME MemInv, FrozenWhileWritten, NEW W \in Seq(Packet), Harmless(W),
         Post(W) \/ PostSome(W), mem' = mem
  PROVE  /\ MemInv' /\ FrozenWhileWritten'
         /\ \A t \in Tiles : /\ Calm(W, t) => Last(t)' = Last(t)
                             /\ Freezing(W, t) /\ Last(t) = 1 => Last(t)' = 1
<1>1. PICK P \in Seq(Packet) : Post(P) /\ Elems(P) \subseteq Elems(W)
  <2>1. CASE Post(W)
    BY <2>1
  <2>2. CASE PostSome(W)
    <3>1. PICK n \in 0 .. Len(W) - 1 : Post(SubSeq(W, 1, n))
      BY <2>2 DEF PostSome
    <3>2. Len(W) \in Nat
      OBVIOUS
    <3>3. n \in 0 .. Len(W)
      BY <3>2
    <3> QED
      BY <3>1, <3>3, ElemsOfPrefix
  <2> QED
    BY <2>1, <2>2
<1>2. Harmless(P)
  BY <1>1 DEF Harmless, OnlyRegisters, Calm
<1>3. MemInv'
  BY <1>1, PostedParts
<1>4. FrozenWhileWritten'
  BY <1>1, <1>2, HarmlessPost
<1>5. ASSUME NEW t \in Tiles
      PROVE  /\ Calm(W, t) => Last(t)' = Last(t)
             /\ Freezing(W, t) /\ Last(t) = 1 => Last(t)' = 1
  <2>1. Calm(W, t) => Calm(P, t)
    BY <1>1 DEF Calm
  <2>2. Freezing(W, t) => Freezing(P, t)
    BY <1>1 DEF Freezing
  <2> QED
    BY <1>1, <2>1, <2>2, LastAfterPost
<1> QED
  BY <1>3, <1>4, <1>5

-----------------------------------------------------------------------------
(* The lists of writes that the host sends.                                *)

\* Writes to the registers of tiles, or to a cache.
Control(W) == W \in Seq(Packet) /\ \A t \in Tiles : OnlyRegisters(W, t)

\* What one tile gets of a program: not in its freeze register, and nothing for other tiles.
Content(W, t) ==
  /\ W \in Seq(Packet)
  /\ \A w \in Elems(W) : (w.to = t \/ w.to = Cache) /\ (w.to = t => ~IsFreeze(w))

LEMMA TileWrite ==
  ASSUME NEW t \in Tiles, NEW a \in TileEpas, NEW v \in Nat, a = EPA_FREEZE => v \in {0, 1}
  PROVE  /\ Write(t, a, v) \in Packet
         /\ Write(t, a, v).to = t /\ Write(t, a, v).epa = a /\ Write(t, a, v).val = v
<1>1. t \in Nodes /\ Epas(t) = TileEpas
  BY Addresses
<1>2. Write(t, a, v) \in PacketTo(t)
  BY <1>1 DEF Write, PacketTo, IsFreeze
<1> QED
  BY <1>1, <1>2 DEF Packet, Write

LEMMA CacheWrite ==
  ASSUME NEW a \in CacheEpas, NEW v \in Nat
  PROVE  /\ Write(Cache, a, v) \in Packet
         /\ Write(Cache, a, v).to = Cache
<1>1. Cache \in Nodes /\ Epas(Cache) = CacheEpas
  BY Addresses
<1>2. Write(Cache, a, v) \in PacketTo(Cache)
  BY <1>1, Addresses DEF Write, PacketTo
<1> QED
  BY <1>1, <1>2 DEF Packet, Write

LEMMA ShortLists ==
  ASSUME NEW W
  PROVE  /\ \A a \in W : <<a>> \in Seq(W) /\ Elems(<<a>>) = {a}
         /\ \A a, b \in W : <<a, b>> \in Seq(W) /\ Elems(<<a, b>>) = {a, b}
BY DEF Elems

LEMMA RegisterAddresses ==
  /\ EPA_FREEZE \in Registers /\ EPA_ORIGIN_X \in Registers /\ EPA_ORIGIN_Y \in Registers
  /\ EPA_DRAM_ENABLE \in Registers
  /\ EPA_ORIGIN_X # EPA_FREEZE /\ EPA_ORIGIN_Y # EPA_FREEZE /\ EPA_DRAM_ENABLE # EPA_FREEZE
  /\ EPA_ORIGIN_X \in TileEpas /\ EPA_ORIGIN_Y \in TileEpas /\ EPA_DRAM_ENABLE \in TileEpas
BY MemoryAssumption, Addresses
   DEF Registers, EPA_FREEZE, EPA_ORIGIN_X, EPA_ORIGIN_Y, EPA_DRAM_ENABLE

\* Coordinates of tiles are numbers, not before the origin.
LEMMA TilesAt ==
  ASSUME NEW t \in Tiles
  PROVE  /\ Origin[1] \in Nat /\ Origin[2] \in Nat
         /\ t[1] \in Nat /\ t[2] \in Nat /\ t[1] - Origin[1] \in Nat /\ t[2] - Origin[2] \in Nat
<1> DEFINE W == ArrayDim[1]
           H == ArrayDim[2]
           ox == Origin[1]
           oy == Origin[2]
<1>1. W \in Nat \ {0} /\ H \in Nat \ {0} /\ ox \in Nat /\ oy \in Nat
  BY ArrayAssumption
<1>2. PICK i \in 1 .. W * H : t = <<ox + ((i - 1) % W), oy + ((i - 1) \div W)>>
  BY DEF Tiles, Array, MeshTiles
<1> HIDE DEF W, H, ox, oy
<1> DEFINE c == (i - 1) % W
           d == (i - 1) \div W
<1>3. t = <<ox + c, oy + d>>
  BY <1>2
<1>4. c \in 0 .. W - 1 /\ d \in 0 .. H - 1
  BY <1>1, PlaceInMesh
<1> HIDE DEF c, d
<1>5. t[1] = ox + c /\ t[2] = oy + d /\ c \in Nat /\ d \in Nat
  BY <1>1, <1>3, <1>4
<1>6. t[1] \in Nat /\ t[2] \in Nat /\ t[1] - ox \in Nat /\ t[2] - oy \in Nat
  <2>1. ox + c \in Nat /\ (ox + c) - ox \in Nat
    BY <1>1, <1>5
  <2>2. oy + d \in Nat /\ (oy + d) - oy \in Nat
    BY <1>1, <1>5
  <2> QED
    BY <1>5, <2>1, <2>2
<1> QED
  BY <1>1, <1>6 DEF ox, oy

\* The whole array.
LEMMA ArrayOfTiles == Array \in Seq(Tiles)
<1>1. ArrayDim \in Nat \X Nat /\ ValidDim(ArrayDim)
  <2>1. ArrayDim[1] \in Nat \ {0} /\ ArrayDim[2] \in Nat \ {0} /\ ArrayDim \in Nat \X Nat
    BY ArrayAssumption
  <2> DEFINE a == ArrayDim[1]
             b == ArrayDim[2]
  <2> HIDE DEF a, b
  <2>2. a \in Nat \ {0} /\ b \in Nat \ {0} => a \in 1 .. a /\ b \in 1 .. b
    OBVIOUS
  <2> QED
    BY <2>1, <2>2 DEF ValidDim, a, b
<1> QED
  BY <1>1, MeshOfTiles DEF Array

\* hb_mc_device_tiles_freeze freezes the mesh and nothing else.
LEMMA FreezeList ==
  ASSUME mesh \in Seq(Tiles)
  PROVE  /\ Control(FreezeWrites)
         /\ \A t \in Tiles : Freezing(FreezeWrites, t)
         /\ \A t \in Tiles : t \in Elems(mesh) => Freezes(FreezeWrites, t)
         /\ \A t \in Tiles : t \notin Elems(mesh) => Calm(FreezeWrites, t)
<1> DEFINE lists == [t \in Tiles |-> FreezeTile(t)]
           W == ForEach(mesh, lists)
<1>1. ASSUME NEW t \in Tiles
      PROVE  /\ lists[t] \in Seq(Packet) /\ Elems(lists[t]) = {Write(t, EPA_FREEZE, 1)}
             /\ Write(t, EPA_FREEZE, 1) \in Packet
  BY TileWrite, ShortLists, Addresses DEF FreezeTile
<1>2. lists \in [Tiles -> Seq(Packet)]
  BY <1>1
<1> HIDE DEF lists
<1>3. W \in Seq(Packet) /\ \A w : w \in Elems(W) <=> \E t \in Elems(mesh) : w \in Elems(lists[t])
  BY <1>2, ForEachWrites
<1>4. Elems(mesh) \subseteq Tiles
  BY DEF Elems
<1>5. FreezeWrites = W
  BY DEF FreezeWrites, lists
<1> HIDE DEF W
<1>6. \A t \in Tiles : LET w == Write(t, EPA_FREEZE, 1) IN w.to = t /\ w.epa = EPA_FREEZE /\ w.val = 1
  BY DEF Write
<1>7. ASSUME NEW w \in Elems(W) PROVE w.to \in Elems(mesh) /\ w.epa = EPA_FREEZE /\ w.val = 1
  <2>1. PICK t \in Elems(mesh) : w \in Elems(lists[t])
    BY <1>3
  <2>2. t \in Tiles
    BY <1>4
  <2>3. w = Write(t, EPA_FREEZE, 1)
    BY <1>1, <2>1, <2>2
  <2> QED
    BY <1>6, <2>2, <2>3
<1>8. ASSUME NEW t \in Elems(mesh) PROVE \E w \in Elems(W) : w.to = t /\ w.epa = EPA_FREEZE
  <2>1. t \in Tiles
    BY <1>4
  <2>2. Write(t, EPA_FREEZE, 1) \in Elems(lists[t])
    BY <1>1, <2>1
  <2>3. Write(t, EPA_FREEZE, 1) \in Elems(W)
    BY <1>3, <2>2
  <2> QED
    BY <1>6, <2>1, <2>3
<1>9. Control(W)
  BY <1>3, <1>7, RegisterAddresses DEF Control, OnlyRegisters
<1>10. \A t \in Tiles : Freezing(W, t)
  BY <1>7 DEF Freezing
<1>11. \A t \in Tiles : t \in Elems(mesh) => Freezes(W, t)
  BY <1>8 DEF Freezes, IsFreeze
<1>12. \A t \in Tiles : t \notin Elems(mesh) => Calm(W, t)
  BY <1>7 DEF Calm
<1> QED
  BY <1>5, <1>9, <1>10, <1>11, <1>12

\* Enabling and disabling DRAM, in the whole array.
LEMMA DramList ==
  ASSUME NEW v \in Nat, NEW lists,
         lists = [t \in Tiles |-> <<Write(t, EPA_DRAM_ENABLE, v)>>]
  PROVE  Control(ForEach(Array, lists)) /\ \A t \in Tiles : Calm(ForEach(Array, lists), t)
<1> DEFINE W == ForEach(Array, lists)
<1>1. ASSUME NEW t \in Tiles
      PROVE  /\ lists[t] \in Seq(Packet) /\ Elems(lists[t]) = {Write(t, EPA_DRAM_ENABLE, v)}
             /\ Write(t, EPA_DRAM_ENABLE, v) \in Packet
  BY TileWrite, ShortLists, RegisterAddresses
<1>2. lists \in [Tiles -> Seq(Packet)]
  BY <1>1
<1>3. W \in Seq(Packet) /\ \A w : w \in Elems(W) <=> \E t \in Elems(Array) : w \in Elems(lists[t])
  BY <1>2, ArrayOfTiles, ForEachWrites
<1>4. Elems(Array) \subseteq Tiles
  BY ArrayOfTiles DEF Elems
<1> HIDE DEF W
<1>5. ASSUME NEW w \in Elems(W) PROVE w.epa = EPA_DRAM_ENABLE
  <2>1. PICK t \in Elems(Array) : w \in Elems(lists[t])
    BY <1>3
  <2>2. t \in Tiles
    BY <1>4
  <2>3. w = Write(t, EPA_DRAM_ENABLE, v)
    BY <1>1, <2>1, <2>2
  <2> QED
    BY <2>3 DEF Write
<1>6. Control(W) /\ \A t \in Tiles : Calm(W, t)
  BY <1>3, <1>5, RegisterAddresses DEF Control, OnlyRegisters, Calm, IsFreeze
<1> QED
  BY <1>6 DEF W

LEMMA OriginList ==
  ASSUME NEW t \in Tiles, NEW o \in Nat \X Nat
  PROVE  /\ SetOrigin(t, o) \in Seq(Packet)
         /\ \A w \in Elems(SetOrigin(t, o)) :
               w.to = t /\ w.epa \in Registers /\ w.epa # EPA_FREEZE
<1>1. o[1] \in Nat /\ o[2] \in Nat
  OBVIOUS
<1> DEFINE a == Write(t, EPA_ORIGIN_X, o[1])
           b == Write(t, EPA_ORIGIN_Y, o[2])
<1>2. /\ a \in Packet /\ a.to = t /\ a.epa = EPA_ORIGIN_X
      /\ b \in Packet /\ b.to = t /\ b.epa = EPA_ORIGIN_Y
  BY <1>1, TileWrite, RegisterAddresses
<1>3. SetOrigin(t, o) = <<a, b>>
  BY DEF SetOrigin
<1> HIDE DEF a, b
<1>4. <<a, b>> \in Seq(Packet) /\ Elems(<<a, b>>) = {a, b}
  BY <1>2, ShortLists
<1> QED
  BY <1>2, <1>3, <1>4, RegisterAddresses

\* hb_mc_loader_tile_set_registers of each tile freezes it again.
LEMMA RegistersList ==
  ASSUME mesh \in Seq(Tiles), mesh # <<>>,
         NEW lists, lists = [t \in Tiles |-> tile_set_registers(t)]
  PROVE  /\ Control(ForEach(mesh, lists))
         /\ \A t \in Tiles : Freezing(ForEach(mesh, lists), t)
         /\ \A t \in Tiles : t \notin Elems(mesh) => Calm(ForEach(mesh, lists), t)
<1> DEFINE W == ForEach(mesh, lists)
<1>1. mesh[1] \in Nat \X Nat
  <2>1. mesh[1] \in Tiles
    OBVIOUS
  <2>2. \A t \in Tiles : t \in Nat \X Nat
    <3> TAKE t \in Tiles
    <3>1. t[1] \in Nat /\ t[2] \in Nat
      BY TilesAt
    <3>2. t = <<t[1], t[2]>>
      BY DEF Tiles, Array, MeshTiles
    <3> QED
      BY <3>1, <3>2
  <2> QED
    BY <2>1, <2>2
<1>2. ASSUME NEW t \in Tiles
      PROVE  /\ lists[t] \in Seq(Packet)
             /\ \A w \in Elems(lists[t]) :
                   w.to = t /\ w.epa \in Registers /\ (IsFreeze(w) => w.val = 1)
  <2> DEFINE f == Write(t, EPA_FREEZE, 1)
             a == <<f>>
             b == SetOrigin(t, mesh[1])
             d == Write(t, EPA_DRAM_ENABLE, IF dram_enabled THEN 1 ELSE 0)
             c == <<d>>
  <2>1. f \in Packet /\ f.to = t /\ f.epa = EPA_FREEZE /\ f.val = 1
    BY TileWrite, Addresses
  <2>2. d \in Packet /\ d.to = t /\ d.epa = EPA_DRAM_ENABLE
    BY TileWrite, RegisterAddresses
  <2>3. /\ b \in Seq(Packet)
        /\ \A w \in Elems(b) : w.to = t /\ w.epa \in Registers /\ w.epa # EPA_FREEZE
    BY <1>1, OriginList
  <2>4. lists[t] = (a \o b) \o c
    BY DEF tile_set_registers, FreezeTile, SetDramEnabled, ClearDramEnabled
  <2> HIDE DEF f, b, d
  <2>5. /\ a \in Seq(Packet) /\ Elems(a) = {f} /\ c \in Seq(Packet) /\ Elems(c) = {d}
    BY <2>1, <2>2, ShortLists
  <2> HIDE DEF a, c
  <2>6. a \o b \in Seq(Packet) /\ Elems(a \o b) = Elems(a) \cup Elems(b)
    BY <2>3, <2>5, ElemsOfConcatenation
  <2> DEFINE ab == a \o b
  <2>7. ab \in Seq(Packet) /\ Elems(ab) = Elems(a) \cup Elems(b) /\ lists[t] = ab \o c
    BY <2>4, <2>6
  <2> HIDE DEF ab
  <2>8. ab \o c \in Seq(Packet) /\ Elems(ab \o c) = Elems(ab) \cup Elems(c)
    BY <2>5, <2>7, ElemsOfConcatenation
  <2>9. lists[t] \in Seq(Packet) /\ Elems(lists[t]) = {f} \cup Elems(b) \cup {d}
    BY <2>5, <2>7, <2>8
  <2> QED
    BY <2>1, <2>2, <2>3, <2>9, RegisterAddresses DEF IsFreeze
<1>3. lists \in [Tiles -> Seq(Packet)]
  BY <1>2
<1>4. W \in Seq(Packet) /\ \A w : w \in Elems(W) <=> \E t \in Elems(mesh) : w \in Elems(lists[t])
  BY <1>3, ForEachWrites
<1>5. Elems(mesh) \subseteq Tiles
  BY DEF Elems
<1> HIDE DEF W
<1>6. \A w \in Elems(W) : w.to \in Elems(mesh) /\ w.epa \in Registers /\ (IsFreeze(w) => w.val = 1)
  BY <1>2, <1>4, <1>5
<1>7. Control(W)
  BY <1>4, <1>6 DEF Control, OnlyRegisters
<1>8. \A t \in Tiles : Freezing(W, t)
  BY <1>6 DEF Freezing
<1>9. \A t \in Tiles : t \notin Elems(mesh) => Calm(W, t)
  BY <1>6 DEF Calm
<1> QED
  BY <1>7, <1>8, <1>9 DEF W

\* Words written to EVAs of a tile that name its memory or DRAM.
LEMMA EvaList ==
  ASSUME NEW t \in Tiles, NEW vals \in Seq(Nat), NEW eva \in Nat,
         \A i \in 1 .. Len(vals) :
            \/ eva + i - 1 >= DramEva /\ (eva + i - 1) - DramEva <= DramWords
            \/ ~(eva + i - 1 >= DramEva) /\ eva + i - 1 < DmemWords
  PROVE  Content(EvaWrites(t, eva, vals), t)
<1> DEFINE N == Len(vals)
           W == EvaWrites(t, eva, vals)
<1>1. N \in Nat /\ \A i \in 1 .. N : vals[i] \in Nat
  OBVIOUS
<1>2. ASSUME NEW i \in 1 .. N
      PROVE  /\ W[i] \in Packet /\ (W[i].to = t \/ W[i].to = Cache)
             /\ (W[i].to = t => ~IsFreeze(W[i]))
  <2> DEFINE e == eva + i - 1
             v == vals[i]
  <2>1. /\ e \in Nat /\ v \in Nat /\ DramEva \in Nat
        /\ \/ e >= DramEva /\ e - DramEva <= DramWords
           \/ ~(e >= DramEva) /\ e < DmemWords
    BY <1>1, BinariesAssumption
  <2>2. W[i] = Write(Place(t, e).node, Place(t, e).epa, v)
    BY DEF EvaWrites
  <2> HIDE DEF e, v
  <2>3. CASE e >= DramEva /\ e - DramEva <= DramWords
    <3>1. Place(t, e).node = Cache /\ Place(t, e).epa = e - DramEva
      BY <2>3 DEF Place, is_dram
    <3>2. e - DramEva \in CacheEpas
      BY <2>1, <2>3, Addresses DEF CacheEpas
    <3>3. W[i] \in Packet /\ W[i].to = Cache
      BY <2>1, <2>2, <3>1, <3>2, CacheWrite
    <3> QED
      BY <3>3, Addresses
  <2>4. CASE ~(e >= DramEva) /\ e < DmemWords
    <3>1. Place(t, e).node = t /\ Place(t, e).epa = e
      BY <2>4 DEF Place, is_dram
    <3>2. e \in TileEpas /\ e # EPA_FREEZE
      BY <2>1, <2>4, Addresses DEF TileEpas
    <3>3. W[i] \in Packet /\ W[i].to = t /\ W[i].epa = e
      BY <2>1, <2>2, <3>1, <3>2, TileWrite
    <3> QED
      BY <3>2, <3>3 DEF IsFreeze
  <2> QED
    BY <2>1, <2>3, <2>4
<1>3. W = [i \in 1 .. N |-> W[i]] /\ DOMAIN W = 1 .. N
  BY DEF EvaWrites
<1> HIDE DEF W, N
<1>4. W \in [1 .. N -> Packet]
  BY <1>2, <1>3
<1>5. W \in Seq(Packet)
  BY <1>1, <1>4
<1>6. Content(W, t)
  BY <1>2, <1>3, <1>5 DEF Content, Elems
<1> QED
  BY <1>6 DEF W

LEMMA Least ==
  ASSUME NEW S, S \subseteq Nat, S # {}
  PROVE  \E m \in S : \A n \in S : m <= n
<1> DEFINE R == OpToRel(<, Nat)
<1>1. IsWellFoundedOn(R, Nat)
  BY NatLessThanWellFounded
<1>2. \A a, b \in Nat : a < b => <<a, b>> \in R
  BY DEF OpToRel
<1> HIDE DEF R
<1>3. PICK m \in S : \A n \in S : ~ (<<n, m>> \in R)
  BY <1>1, WFMin
<1>4. ASSUME NEW n \in S PROVE m <= n
  <2>1. m \in Nat /\ n \in Nat
    OBVIOUS
  <2>2. ~(n < m)
    BY <1>2, <1>3, <2>1
  <2> QED
    BY <2>1, <2>2
<1> QED
  BY <1>4

LEMMA Greatest ==
  ASSUME NEW N \in Nat, NEW S, S \subseteq 1 .. N, S # {}
  PROVE  \E m \in S : \A n \in S : n <= m
<1> DEFINE D == {d \in Nat : N - d \in S}
<1>1. D # {}
  <2>1. PICK n \in S : TRUE
    OBVIOUS
  <2>2. N - n \in Nat /\ N - (N - n) = n
    BY <2>1
  <2> QED
    BY <2>1, <2>2
<1>2. PICK d \in D : \A e \in D : d <= e
  BY <1>1, Least
<1>3. ASSUME NEW n \in S PROVE n <= N - d
  <2>1. N - n \in Nat /\ N - (N - n) = n
    OBVIOUS
  <2>2. N - n \in D
    BY <2>1
  <2>3. d <= N - n
    BY <1>2, <2>2
  <2> QED
    BY <2>1, <2>3
<1> QED
  BY <1>3

\* A segment stays in its memory.
LEMMA SegmentLists ==
  ASSUME NEW t \in Tiles, NEW b \in Binaries, NEW i \in DOMAIN b.segments,
         NEW s, s = b.segments[i], Loadable(s), s.load
  PROVE  Content(EvaWrites(t, s.paddr, s.data), t) /\ Content(ZeroWrites(t, s), t)
<1> DEFINE p == s.paddr
           m == s.memsz
           n == Len(s.data)
<1>1. /\ b.segments \in Seq(ProgramHeader)
      /\ n <= m /\ (s.load /\ m <= Capacity(s) => Place(Origin, p).epa + m <= Capacity(s))
      /\ DramEva \in Nat /\ DramEva >= DmemWords
  BY BinariesAssumption
<1>2. s \in ProgramHeader
  BY <1>1
<1>3. p \in Nat /\ m \in Nat /\ s.data \in Seq(Nat)
  BY <1>2 DEF ProgramHeader
<1>4. n \in Nat
  BY <1>3
<1>5. Place(Origin, p).epa + m <= Capacity(s)
  BY <1>1 DEF Loadable
<1>6. /\ p >= DramEva => (p - DramEva) + m <= DramWords
      /\ ~(p >= DramEva) => p + m <= DmemWords
  BY <1>5 DEF Place, Capacity, is_dram
<1> HIDE DEF p, m, n
<1>7. ASSUME NEW e \in Nat, p <= e, e < p + m
      PROVE  \/ e >= DramEva /\ e - DramEva <= DramWords
             \/ ~(e >= DramEva) /\ e < DmemWords
  BY <1>1, <1>3, <1>6, <1>7, MemoryAssumption
<1>8. \A k \in 1 .. n : p + k - 1 \in Nat /\ p <= p + k - 1 /\ p + k - 1 < p + m
  BY <1>1, <1>3, <1>4
<1>9. \A k \in 1 .. m - n : /\ (p + n) + k - 1 \in Nat
                            /\ p <= (p + n) + k - 1 /\ (p + n) + k - 1 < p + m
  BY <1>1, <1>3, <1>4
<1>10. Content(EvaWrites(t, s.paddr, s.data), t)
  <2>1. \A k \in 1 .. Len(s.data) :
           \/ p + k - 1 >= DramEva /\ (p + k - 1) - DramEva <= DramWords
           \/ ~(p + k - 1 >= DramEva) /\ p + k - 1 < DmemWords
    BY <1>7, <1>8 DEF n
  <2>2. Content(EvaWrites(t, p, s.data), t)
    BY <1>3, <2>1, EvaList
  <2> QED
    BY <2>2 DEF p
<1>11. Content(ZeroWrites(t, s), t)
  <2> DEFINE z == Zeros(s)
             e == p + n
  <2>1. z = [k \in 1 .. m - n |-> 0] /\ m - n \in Nat
    BY <1>1, <1>3, <1>4 DEF Zeros, m, n
  <2>2. z \in Seq(Nat) /\ Len(z) = m - n
    <3> HIDE DEF z
    <3> DEFINE l == m - n
    <3>1. z = [k \in 1 .. l |-> 0] /\ l \in Nat
      BY <2>1
    <3> HIDE DEF l
    <3>2. z \in Seq(Nat) /\ Len(z) = l
      BY <3>1
    <3> QED
      BY <3>2 DEF l
  <2>3. e \in Nat
    BY <1>3, <1>4
  <2>4. ZeroWrites(t, s) = EvaWrites(t, e, z)
    BY DEF ZeroWrites, p, n
  <2> HIDE DEF z
  <2>5. \A k \in 1 .. Len(z) :
           \/ e + k - 1 >= DramEva /\ (e + k - 1) - DramEva <= DramWords
           \/ ~(e + k - 1 >= DramEva) /\ e + k - 1 < DmemWords
    BY <1>7, <1>9, <2>2
  <2> HIDE DEF e
  <2>6. Content(EvaWrites(t, e, z), t)
    BY <2>2, <2>3, <2>5, EvaList
  <2> QED
    BY <2>4, <2>6
<1> QED
  BY <1>10, <1>11

\* A symbol is in a tile's memory.
LEMMA SymbolList ==
  ASSUME NEW t \in Tiles, bin \in Binaries, NEW name \in TileSymbols, HasSymbol(bin, name),
         NEW val \in Nat
  PROVE  Content(SymbolWrite(t, name, val), t)
<1> DEFINE T == TablesWith(bin, name)
           first == CHOOSE i \in T : \A j \in T : i <= j
<1>1. T # {} /\ T \subseteq DOMAIN bin.sections
  BY DEF HasSymbol, TablesWith
<1>2. T \subseteq Nat
  BY <1>1, SymbolsAssumption
<1>3. \E i \in T : \A j \in T : i <= j
  <2> HIDE DEF T
  <2> QED
    BY <1>1, <1>2, Least
<1>4. first \in T
  BY <1>3
<1>5. symbol_to_eva(bin, name) = bin.sections[first].symbols[name]
  BY DEF symbol_to_eva
<1>6. first \in DOMAIN bin.sections /\ name \in DOMAIN bin.sections[first].symbols
  BY <1>4 DEF TablesWith
<1> HIDE DEF T, first
<1> DEFINE e == symbol_to_eva(bin, name)
<1>7. e \in 0 .. DmemWords - 1
  BY <1>5, <1>6, SymbolsAssumption
<1> HIDE DEF e
<1>8. /\ <<val>> \in Seq(Nat) /\ Len(<<val>>) = 1 /\ e \in Nat /\ DramEva \in Nat
      /\ e < DmemWords /\ DmemWords \in Nat /\ DramEva >= DmemWords
  BY <1>7, BinariesAssumption, MemoryAssumption
<1>9. \A i \in 1 .. Len(<<val>>) : ~(e + i - 1 >= DramEva) /\ e + i - 1 < DmemWords
  BY <1>8
<1>10. Content(EvaWrites(t, e, <<val>>), t)
  BY <1>8, <1>9, EvaList
<1> QED
  BY <1>10 DEF SymbolWrite, e

\* What fits of the text goes into the instruction cache.
LEMMA IcacheList ==
  ASSUME NEW t \in Tiles, NEW b \in Binaries, b.elf
  PROVE  Content(IcacheWrites(t, b), t)
<1> DEFINE X == ExecSegments(b)
           last == CHOOSE i \in X : \A j \in X : j <= i
           N == Len(b.segments)
<1>1. b.segments \in Seq(ProgramHeader) /\ X # {}
  BY BinariesAssumption
<1>2. N \in Nat /\ X \subseteq 1 .. N
  BY <1>1 DEF ExecSegments
<1>3. last \in X
  <2>1. \E i \in X : \A j \in X : j <= i
    <3> HIDE DEF X, N
    <3> QED
      BY <1>1, <1>2, Greatest
  <2> QED
    BY <2>1
<1>4. Text(b) = b.segments[last].data
  BY DEF Text
<1> HIDE DEF last
<1>5. b.segments[last] \in ProgramHeader
  BY <1>1, <1>2, <1>3
<1>6. Text(b) \in Seq(Nat)
  BY <1>4, <1>5 DEF ProgramHeader
<1> DEFINE x == Text(b)
           k == IF Len(x) < IcacheWords THEN Len(x) ELSE IcacheWords
           c == IcacheText(b)
           W == IcacheWrites(t, b)
<1>7. x \in Seq(Nat) /\ k \in 0 .. Len(x) /\ k <= IcacheWords /\ Len(x) \in Nat
  BY <1>6, MemoryAssumption
<1>8. c = SubSeq(x, 1, k)
  BY DEF IcacheText
<1>9. W = [i \in 1 .. Len(c) |-> Write(t, EPA_ICACHE + i - 1, c[i])]
  BY DEF IcacheWrites
<1> HIDE DEF x, k, W, c
<1>10. c \in Seq(Nat) /\ Len(c) = k
  BY <1>7, <1>8
<1> DEFINE n == Len(c)
<1>11. n \in Nat /\ n <= IcacheWords /\ \A i \in 1 .. n : c[i] \in Nat
  BY <1>7, <1>10
<1>12. W = [i \in 1 .. n |-> Write(t, EPA_ICACHE + i - 1, c[i])]
  BY <1>9
<1> HIDE DEF n
<1>13. ASSUME NEW i \in 1 .. n PROVE W[i] \in Packet /\ W[i].to = t /\ ~IsFreeze(W[i])
  <2> DEFINE a == EPA_ICACHE + i - 1
  <2>1. a \in TileEpas /\ a # EPA_FREEZE
    BY <1>11, Addresses DEF TileEpas
  <2>2. W[i] = Write(t, a, c[i])
    BY <1>12
  <2> HIDE DEF a
  <2>3. W[i] \in Packet /\ W[i].to = t /\ W[i].epa = a
    BY <1>11, <2>1, <2>2, TileWrite
  <2> QED
    BY <2>1, <2>3 DEF IsFreeze
<1>14. W = [i \in 1 .. n |-> W[i]] /\ DOMAIN W = 1 .. n
  BY <1>12
<1>15. W \in Seq(Packet)
  <2>1. W \in [1 .. n -> Packet]
    BY <1>13, <1>14
  <2> QED
    BY <1>11, <2>1
<1>16. Content(W, t)
  BY <1>13, <1>14, <1>15 DEF Content, Elems
<1> QED
  BY <1>16 DEF W

LEMMA ConfigValues ==
  ASSUME NEW t \in Tiles, NEW name
  PROVE  ConfigValue(name, t) \in Nat /\ HB_MC_CUDA_KERNEL_NOT_LOADED_VAL \in Nat
<1> DEFINE x == t[1] - Origin[1]
           y == t[2] - Origin[2]
<1>1. Origin[1] \in Nat /\ Origin[2] \in Nat /\ x \in Nat /\ y \in Nat
  BY TilesAt
<1> HIDE DEF x, y
<1>2. PlaceValue(name, t) = CASE name = "__bsg_grp_org_x" -> Origin[1]
         [] name = "__bsg_grp_org_y" -> Origin[2]
         [] name = "__bsg_x" -> x
         [] name = "__bsg_y" -> y
         [] name = "__bsg_id" -> y + x
         [] OTHER -> 0
  BY DEF PlaceValue, x, y
<1>3. PlaceValue(name, t) \in Nat
  BY <1>1, <1>2
<1>4. ConfigValue(name, t) \in Nat
  BY <1>3 DEF ConfigValue, HB_MC_CUDA_FINISH_SIGNAL_VAL, HB_MC_CUDA_KERNEL_NOT_LOADED_VAL
<1> QED
  BY <1>4 DEF HB_MC_CUDA_KERNEL_NOT_LOADED_VAL

-----------------------------------------------------------------------------
(* The inductive invariant.                                                *)

\* Where the host thread is, or will be when the fence of a block write is through.
Stage == IF pc = "fence" THEN after ELSE pc

WriteStages  == {"segment", "zeros", "icache", "config_symbols"}
SetupStages  == {"tiles_initialize", "validate_vcache"}
FrozenStages == {"load"} \cup SetupStages \cup WriteStages
StartStages  == {"unfreeze", "unfreeze_tile"}

\* The mesh names each of its tiles once, and there are some to load.
MeshInv ==
  /\ mesh \in Seq(Tiles)
  /\ \A i, j \in DOMAIN mesh : mesh[i] = mesh[j] => i = j
  /\ session = "open" => mesh # <<>>

\* How far program_init is: its walks through tiles, segments and symbols stay inside these lists.
LoadInv ==
  /\ seg \in Nat \ {0} /\ sym \in 0 .. Len(ConfigSymbols)
  /\ pc \in LoadPcs => bin \in Binaries
  /\ Stage \in {"freeze", "load"} \cup SetupStages => it = 1
  /\ Stage \in SetupStages \cup WriteStages \cup StartStages => bin.elf
  /\ Stage \in {"segment", "zeros"} \cup StartStages => it <= Len(mesh)
  /\ Stage = "config_symbols" /\ sym # 0 => it <= Len(mesh)
  /\ Stage = "zeros" => /\ seg <= Len(bin.segments)
                        /\ Loadable(bin.segments[seg]) /\ bin.segments[seg].load

\* While it loads, the last that tiles of the mesh hear is that they are frozen; the first of
\* them are started when the others, which come later in the list, still are.
FreezeInv ==
  /\ Stage \in FrozenStages => \A i \in DOMAIN mesh : Last(mesh[i]) = 1
  /\ Stage \in StartStages => \A i \in DOMAIN mesh : i >= it => Last(mesh[i]) = 1

\* Tiles outside the mesh are never started, and between sessions none is.
StopInv ==
  "died" \notin mishaps =>
    /\ \A t \in Tiles : t \notin Elems(mesh) => Last(t) = 1
    /\ session = "none" \/ (session = "closing" /\ pc # "idle") => \A t \in Tiles : Last(t) = 1

MemoryInv == MemInv /\ MeshInv /\ LoadInv /\ FreezeInv /\ StopInv /\ FrozenWhileWritten

LEMMA InitMemoryInv == Init => MemoryInv
<1> SUFFICES ASSUME Init PROVE MemoryInv
  OBVIOUS
<1>1. /\ pc = "idle" /\ session = "none" /\ mishaps = {} /\ it = 1
      /\ posted = [n \in Nodes |-> <<>>]
      /\ mem = [n \in Nodes |-> [a \in Epas(n) |-> IF n \in Tiles /\ a = EPA_FREEZE THEN 1 ELSE Junk]]
      /\ mesh = <<>> /\ seg = 1 /\ sym = 0
  BY DEF Init, ManycoreInit, LoaderInit
<1>2. MemInv
  <2>1. \A n \in Nodes : posted[n] \in Seq(PacketTo(n)) /\ mem[n] \in [Epas(n) -> Nat]
    BY <1>1, MemoryAssumption
  <2> QED
    BY <1>1, <2>1 DEF MemInv
<1>3. MeshInv
  BY <1>1 DEF MeshInv
<1>4. LoadInv
  BY <1>1 DEF LoadInv, Stage, LoadPcs, SetupStages, WriteStages, StartStages, ConfigSymbols
<1>5. FreezeInv
  BY <1>1 DEF FreezeInv, Stage, FrozenStages, SetupStages, WriteStages, StartStages
<1>6. StopInv
  <2>1. ASSUME NEW t \in Tiles PROVE Last(t) = 1
    <3>1. posted[t] = <<>> /\ mem[t][EPA_FREEZE] = 1
      BY <1>1, Addresses
    <3>2. Len(posted[t]) = 0 /\ NoFreeze(posted[t], 0)
      BY <3>1 DEF NoFreeze
    <3>3. FreezeIn(posted[t], mem[t][EPA_FREEZE], 0) = mem[t][EPA_FREEZE]
      BY <3>2, FreezeInIs
    <3> QED
      BY <3>1, <3>2, <3>3, FreezeAfterIs DEF Last
  <2> QED
    BY <2>1 DEF StopInv
<1>7. FrozenWhileWritten
  <2>1. \A t \in Tiles : posted[t] = <<>>
    BY <1>1, Addresses
  <2> QED
    BY <2>1 DEF FrozenWhileWritten
<1> QED
  BY <1>2, <1>3, <1>4, <1>5, <1>6, <1>7 DEF MemoryInv

\* Steps that send nothing.
LEMMA NothingSent ==
  ASSUME MemInv, FrozenWhileWritten, UNCHANGED <<posted, mem>>
  PROVE  MemInv' /\ FrozenWhileWritten' /\ \A t \in Tiles : Last(t)' = Last(t)
<1>1. MemInv'
  BY DEF MemInv, PacketTo, IsFreeze, EPA_FREEZE, Epas, Nodes, TileEpas, CacheEpas, EPA_ICACHE
<1>2. \A t, k : FreezeAfter(t, k)' = FreezeAfter(t, k)
  BY DEF FreezeAfter, EPA_FREEZE
<1>3. FrozenWhileWritten'
  BY <1>2 DEF FrozenWhileWritten, EPA_FREEZE, EPA_ORIGIN_X, EPA_ORIGIN_Y, EPA_DRAM_ENABLE
<1>4. ASSUME NEW t \in Tiles PROVE Last(t)' = Last(t)
  <2>1. FreezeAfter(t, Len(posted[t]))' = FreezeIn(posted'[t], mem'[t][EPA_FREEZE], Len(posted'[t]))
    BY DEF FreezeAfter, FreezeIn, EPA_FREEZE
  <2> QED
    BY <2>1, FreezeAfterIs DEF Last
<1> QED
  BY <1>1, <1>3, <1>4

\* Steps outside program_init that leave freeze registers alone.
LEMMA OutsideLoad ==
  ASSUME MemoryInv, MemInv', FrozenWhileWritten', \A t \in Tiles : Last(t)' = Last(t),
         UNCHANGED <<mesh, seg, sym, session>>, pc' \notin LoadPcs,
         "died" \in mishaps => "died" \in mishaps',
         session = "closing" /\ pc' # "idle" => pc # "idle"
  PROVE  MemoryInv'
<1>1. MeshInv'
  BY DEF MemoryInv, MeshInv
<1>2. LoadInv'
  BY DEF MemoryInv, LoadInv, Stage, LoadPcs, SetupStages, WriteStages, StartStages
<1>3. FreezeInv'
  BY DEF FreezeInv, Stage, LoadPcs, FrozenStages, SetupStages, WriteStages, StartStages
<1>4. StopInv'
  <2> SUFFICES ASSUME "died" \notin mishaps'
               PROVE  /\ \A t \in Tiles : t \notin Elems(mesh) => Last(t)' = 1
                      /\ session = "none" \/ (session = "closing" /\ pc' # "idle") =>
                           \A t \in Tiles : Last(t)' = 1
    BY DEF StopInv, Elems
  <2> QED
    BY DEF MemoryInv, StopInv
<1> QED
  BY <1>1, <1>2, <1>3, <1>4 DEF MemoryInv

\* Steps of the network and of programs of tiles.
LEMMA InsideAndOutside ==
  ASSUME MemoryInv, MemInv', FrozenWhileWritten', \A t \in Tiles : Last(t)' = Last(t),
         UNCHANGED <<pc, it, mishaps, loaderVars, deviceVars>>
  PROVE  MemoryInv'
<1> USE DEF loaderVars, loadVars, deviceVars
<1>1. MeshInv'
  BY DEF MemoryInv, MeshInv
<1>2. LoadInv'
  BY DEF MemoryInv, LoadInv, Stage, Loadable, Capacity, is_dram
<1>3. FreezeInv'
  <2> SUFFICES /\ Stage \in FrozenStages => \A i \in DOMAIN mesh : Last(mesh[i])' = 1
               /\ Stage \in StartStages => \A i \in DOMAIN mesh : i >= it => Last(mesh[i])' = 1
    BY DEF FreezeInv, Stage
  <2>1. \A i \in DOMAIN mesh : Last(mesh[i])' = Last(mesh[i])
    <3> TAKE i \in DOMAIN mesh
    <3>1. PICK t \in Tiles : t = mesh[i]
      BY DEF MemoryInv, MeshInv
    <3>2. Last(t)' = Last(t)
      OBVIOUS
    <3> QED
      BY <3>1, <3>2, SMTT(20) DEF Last, FreezeAfter, LastFreeze, EPA_FREEZE
  <2> QED
    BY <2>1 DEF MemoryInv, FreezeInv
<1>4. StopInv'
  <2> SUFFICES ASSUME "died" \notin mishaps
               PROVE  /\ \A t \in Tiles : t \notin Elems(mesh) => Last(t)' = 1
                      /\ session = "none" \/ (session = "closing" /\ pc # "idle") =>
                           \A t \in Tiles : Last(t)' = 1
    BY DEF StopInv, Elems
  <2> QED
    BY DEF MemoryInv, StopInv
<1> QED
  BY <1>1, <1>2, <1>3, <1>4 DEF MemoryInv

-----------------------------------------------------------------------------
(* The steps.                                                              *)

\* hb_mc_manycore_init, hb_mc_manycore_exit and request_rx.
LEMMA ManycoreSteps ==
  ASSUME HostInv, MemoryInv, ManycoreStep, UNCHANGED <<loaderVars, deviceVars>>
  PROVE  MemoryInv'
<1> USE DEF loaderVars, loadVars, deviceVars
<1>1. ASSUME UNCHANGED <<posted, mem>>, pc # "idle", pc' \notin LoadPcs,
             "died" \in mishaps => "died" \in mishaps'
      PROVE  MemoryInv'
  BY <1>1, NothingSent, OutsideLoad DEF MemoryInv
<1>2. CASE EnableDram
  <2> DEFINE lists == [t \in Tiles |-> SetDramEnabled(t)]
             W == ForEach(Array, lists)
  <2>1. /\ pc = "enable_dram" /\ pc' \in {"initialized", "drain"}
        /\ Post(W) \/ PostSome(W)
        /\ mem' = mem /\ mishaps' = mishaps
    BY <1>2 DEF EnableDram, InitFails, StartDrain, historyVars
  <2>2. lists = [t \in Tiles |-> <<Write(t, EPA_DRAM_ENABLE, 1)>>]
    BY DEF SetDramEnabled
  <2> HIDE DEF lists
  <2>3. Control(W) /\ \A t \in Tiles : Calm(W, t)
    BY <2>2, DramList
  <2> HIDE DEF W
  <2>4. MemInv' /\ FrozenWhileWritten' /\ \A t \in Tiles : Last(t)' = Last(t)
    BY <2>1, <2>3, SendEffect DEF MemoryInv, Control, Harmless
  <2> QED
    BY <2>1, <2>4, OutsideLoad DEF LoadPcs
<1>3. CASE Attach \/ MapBar \/ InitConfig \/ RespondersInit \/ DrainOccupancy \/ DrainCheck
  <2>1. UNCHANGED <<posted, mem>> /\ pc # "idle" /\ mishaps' = mishaps
    BY <1>3 DEF Attach, MapBar, InitConfig, RespondersInit, DrainOccupancy, DrainCheck,
                nodeVars, historyVars
  <2>2. pc' \notin LoadPcs
    BY <1>3 DEF Attach, MapBar, InitConfig, RespondersInit, DrainOccupancy, DrainCheck,
                DrainReturns, InitFails, StartDrain, LoadPcs
  <2> QED
    BY <1>1, <2>1, <2>2
<1>4. CASE DrainWord \/ ReceiveWord
  <2>1. UNCHANGED <<posted, mem>> /\ pc # "idle" /\ ("died" \in mishaps => "died" \in mishaps')
    BY <1>4 DEF DrainWord, ReceiveWord, nodeVars, Torn
  <2>2. pc' \notin LoadPcs
    BY <1>4 DEF DrainWord, ReceiveWord, EndRound, DrainReturns, InitFails, StartDrain, LoadPcs
  <2> QED
    BY <1>1, <2>1, <2>2
<1>5. CASE Respond \/ RespondersQuit \/ CleanupMmio
  <2>1. UNCHANGED <<posted, mem>> /\ pc # "idle" /\ mishaps' = mishaps
    BY <1>5 DEF Respond, RespondersQuit, CleanupMmio, nodeVars, historyVars
  <2>2. pc' \notin LoadPcs
    BY <1>5 DEF Respond, RespondersQuit, CleanupMmio, Return, StartDrain, LoadPcs
  <2> QED
    BY <1>1, <2>1, <2>2
<1> QED
  BY <1>2, <1>3, <1>4, <1>5 DEF ManycoreStep

\* Calls of the program that do not load one, and finish. Only finish touches freeze registers.
LEMMA CallSteps ==
  ASSUME HostInv, MemoryInv, DeviceInit \/ RequestRx \/ ProgramCalls \/ FreeDevice
  PROVE  MemoryInv'
<1> USE DEF loaderVars, loadVars, deviceVars, hostUnchanged, historyVars, nodeVars
<1>1. CASE DeviceInit
  <2>1. /\ UNCHANGED <<posted, mem, mesh, seg, sym, session, mishaps>>
        /\ pc' = "attach" /\ session = "none"
    BY <1>1 DEF DeviceInit, StartInit
  <2> QED
    BY <2>1, NothingSent, OutsideLoad DEF MemoryInv, LoadPcs
<1>2. CASE RequestRx
  <2>1. /\ UNCHANGED <<posted, mem, mesh, seg, sym, session, mishaps>>
        /\ pc' = "rx" /\ session = "loaded"
    BY <1>2 DEF RequestRx
  <2> QED
    BY <2>1, NothingSent, OutsideLoad DEF MemoryInv, LoadPcs
<1>3. CASE ProgramCalls
  <2>1. /\ UNCHANGED <<pc, mem, mesh, seg, sym, session>> /\ mishaps' = mishaps /\ pc = "idle"
    BY <1>3 DEF ProgramCalls, ResponderAdd, ResponderDel, DisableDram
  <2>2. CASE UNCHANGED posted
    BY <2>1, <2>2, NothingSent, OutsideLoad DEF MemoryInv, LoadPcs
  <2>3. CASE DisableDram
    <3> DEFINE lists == [t \in Tiles |-> ClearDramEnabled(t)]
               W == ForEach(Array, lists)
    <3>1. Post(W) \/ PostSome(W)
      BY <2>3 DEF DisableDram
    <3>2. lists = [t \in Tiles |-> <<Write(t, EPA_DRAM_ENABLE, 0)>>]
      BY DEF ClearDramEnabled
    <3> HIDE DEF lists
    <3>3. Control(W) /\ \A t \in Tiles : Calm(W, t)
      BY <3>2, DramList
    <3> HIDE DEF W
    <3>4. MemInv' /\ FrozenWhileWritten' /\ \A t \in Tiles : Last(t)' = Last(t)
      BY <2>1, <3>1, <3>3, SendEffect DEF MemoryInv, Control, Harmless
    <3> QED
      BY <2>1, <3>4, OutsideLoad DEF LoadPcs
  <2> QED
    BY <1>3, <2>2, <2>3 DEF ProgramCalls, ResponderAdd, ResponderDel
<1>4. CASE FreeDevice
  <2>1. /\ UNCHANGED <<posted, mem, mesh, seg, sym, mishaps>>
        /\ pc = "exited" /\ pc' = "idle" /\ session' = "none" /\ session = "closing"
    BY <1>4 DEF FreeDevice, HostInv, PlaceInv
  <2>2. MemInv' /\ FrozenWhileWritten' /\ \A t \in Tiles : Last(t)' = Last(t)
    BY <2>1, NothingSent DEF MemoryInv
  <2>3. MeshInv' /\ LoadInv' /\ FreezeInv'
    BY <2>1 DEF MemoryInv, MeshInv, LoadInv, FreezeInv, Stage, LoadPcs, FrozenStages, SetupStages,
                WriteStages, StartStages
  <2>4. StopInv'
    <3>1. "died" \notin mishaps => \A t \in Tiles : Last(t)' = 1
      BY <2>1, <2>2 DEF MemoryInv, StopInv
    <3> QED
      BY <2>1, <3>1 DEF StopInv
  <2> QED
    BY <2>2, <2>3, <2>4 DEF MemoryInv
<1> QED
  BY <1>1, <1>2, <1>3, <1>4

\* A new mesh: no tile runs then.
LEMMA MeshStep ==
  ASSUME HostInv, MemoryInv, MeshInit
  PROVE  MemoryInv'
<1> USE DEF loadVars, hostUnchanged, historyVars, nodeVars
<1>1. /\ UNCHANGED <<posted, mem, seg, sym, mishaps>>
      /\ pc = "initialized" /\ pc' = "idle" /\ session' \in {"open", "broken"}
      /\ session \in {"none", "closing"}
  BY DEF MeshInit, HostInv, PlaceInv, InitPcs
<1>2. MemInv' /\ FrozenWhileWritten' /\ \A t \in Tiles : Last(t)' = Last(t)
  BY <1>1, NothingSent DEF MemoryInv
<1>3. LoadInv' /\ FreezeInv'
  BY <1>1 DEF MemoryInv, LoadInv, FreezeInv, Stage, LoadPcs, FrozenStages, SetupStages,
              WriteStages, StartStages
<1>4. MeshInv'
  <2>1. PICK dim \in {Requested(d) : d \in Dims} :
           \/ ValidDim(dim) /\ mesh' = MeshTiles(dim) /\ session' = "open"
           \/ session' = "broken" /\ mesh' = mesh
    BY DEF MeshInit
  <2>2. dim \in Nat \X Nat
    <3>1. ArrayDim \in Nat \X Nat
      BY ArrayAssumption
    <3> QED
      BY <2>1, <3>1, DeviceAssumption DEF Requested
  <2>3. CASE ValidDim(dim) /\ mesh' = MeshTiles(dim) /\ session' = "open"
    <3>1. /\ mesh' \in Seq(Tiles) /\ Len(mesh') \in Nat \ {0}
          /\ \A i, j \in DOMAIN mesh' : mesh'[i] = mesh'[j] => i = j
      BY <2>2, <2>3, MeshOfTiles
    <3>2. mesh' # <<>>
      BY <3>1
    <3> QED
      BY <3>1, <3>2 DEF MeshInv, Tiles, Array, MeshTiles
  <2>4. CASE session' = "broken" /\ mesh' = mesh
    BY <2>4 DEF MemoryInv, MeshInv
  <2> QED
    BY <2>1, <2>3, <2>4
<1>5. StopInv'
  <2>1. "died" \notin mishaps => \A t \in Tiles : Last(t)' = 1
    BY <1>1, <1>2 DEF MemoryInv, StopInv
  <2> QED
    BY <1>1, <2>1 DEF StopInv
<1> QED
  BY <1>2, <1>3, <1>4, <1>5 DEF MemoryInv

LEMMA FinishStep ==
  ASSUME HostInv, MemoryInv, DeviceFinish
  PROVE  MemoryInv'
<1> USE DEF hostUnchanged, programUnchanged, historyVars
<1>1. /\ UNCHANGED <<mem, mesh, seg, sym, mishaps>>
      /\ pc = "idle" /\ session' = "closing" /\ pc' \in {"idle", "responders_quit"}
      /\ Post(FreezeWrites) \/ PostSome(FreezeWrites)
      /\ pc' # "idle" => Post(FreezeWrites)
  BY DEF DeviceFinish, StartExit
<1>2. /\ mesh \in Seq(Tiles) /\ MemInv /\ FrozenWhileWritten
  BY DEF MemoryInv, MeshInv
<1>3. /\ Control(FreezeWrites)
      /\ \A t \in Tiles : Freezing(FreezeWrites, t)
      /\ \A t \in Tiles : t \in Elems(mesh) => Freezes(FreezeWrites, t)
      /\ \A t \in Tiles : t \notin Elems(mesh) => Calm(FreezeWrites, t)
  BY <1>2, FreezeList
<1> DEFINE W == FreezeWrites
<1> HIDE DEF W
<1>4. W \in Seq(Packet) /\ Harmless(W)
  BY <1>3 DEF W, Control, Harmless
<1>5. /\ MemInv' /\ FrozenWhileWritten'
      /\ \A t \in Tiles : Calm(W, t) => Last(t)' = Last(t)
  BY <1>1, <1>2, <1>4, SendEffect DEF W
<1>6. MeshInv' /\ LoadInv' /\ FreezeInv'
  BY <1>1 DEF MemoryInv, MeshInv, LoadInv, FreezeInv, Stage, LoadPcs, FrozenStages, SetupStages,
              WriteStages, StartStages
<1>7. ASSUME Post(W), NEW t \in Tiles, t \in Elems(mesh) PROVE Last(t)' = 1
  BY <1>1, <1>2, <1>3, <1>4, <1>7, LastAfterPost DEF W
<1>8. StopInv'
  <2>1. \A t \in Tiles : t \notin Elems(mesh) => Last(t)' = Last(t)
    BY <1>3, <1>5 DEF W
  <2>2. "died" \notin mishaps => \A t \in Tiles : t \notin Elems(mesh) => Last(t)' = 1
    BY <2>1 DEF MemoryInv, StopInv
  <2>3. pc' # "idle" => \A t \in Tiles : t \in Elems(mesh) => Last(t)' = 1
    BY <1>1, <1>7 DEF W
  <2> SUFFICES ASSUME "died" \notin mishaps
               PROVE  /\ \A t \in Tiles : t \notin Elems(mesh) => Last(t)' = 1
                      /\ pc' # "idle" => \A t \in Tiles : Last(t)' = 1
    BY <1>1 DEF StopInv, Elems
  <2> QED
    BY <2>2, <2>3
<1> QED
  BY <1>5, <1>6, <1>8 DEF MemoryInv

LEMMA DieStep ==
  ASSUME HostInv, MemoryInv, Die
  PROVE  MemoryInv'
<1>1. /\ UNCHANGED <<posted, mem, mesh>> /\ seg' = 1 /\ sym' = 0 /\ "died" \in mishaps'
      /\ pc' = "idle" /\ session' = "none"
  BY DEF Die, Return, nodeVars
<1>2. MemInv' /\ FrozenWhileWritten'
  BY <1>1, NothingSent DEF MemoryInv
<1>3. MeshInv' /\ LoadInv' /\ FreezeInv' /\ StopInv'
  BY <1>1 DEF MemoryInv, MeshInv, LoadInv, FreezeInv, StopInv, Stage, LoadPcs, FrozenStages,
              SetupStages, WriteStages, StartStages, ConfigSymbols
<1> QED
  BY <1>2, <1>3 DEF MemoryInv

-----------------------------------------------------------------------------
(* The steps of program_init.                                              *)

FrozenStay == \A t \in Tiles : Last(t) = 1 => Last(t)' = 1
LoadUnchanged == UNCHANGED <<mesh, mishaps, session>>

LEMMA ControlEffect ==
  ASSUME MemoryInv, NEW W, Control(W), \A t \in Tiles : Freezing(W, t),
         Post(W) \/ PostSome(W), mem' = mem
  PROVE  MemInv' /\ FrozenWhileWritten' /\ FrozenStay
<1>1. W \in Seq(Packet) /\ Harmless(W)
  BY DEF Control, Harmless
<1> QED
  BY <1>1, SendEffect DEF MemoryInv, FrozenStay

LEMMA ContentEffect ==
  ASSUME MemoryInv, NEW t \in Tiles, Last(t) = 1, NEW W, Content(W, t),
         Post(W) \/ PostSome(W), mem' = mem
  PROVE  MemInv' /\ FrozenWhileWritten' /\ FrozenStay
<1>1. \A u \in Tiles : Calm(W, u)
  BY Addresses DEF Content, Calm
<1>2. \A u \in Tiles : u # t => OnlyRegisters(W, u)
  BY Addresses DEF Content, OnlyRegisters
<1>3. W \in Seq(Packet) /\ Harmless(W)
  BY <1>1, <1>2 DEF Harmless, Content
<1> QED
  BY <1>1, <1>3, SendEffect DEF MemoryInv, FrozenStay

LEMMA NothingEffect ==
  ASSUME MemoryInv, UNCHANGED <<posted, mem>>
  PROVE  MemInv' /\ FrozenWhileWritten' /\ FrozenStay
BY NothingSent DEF MemoryInv, FrozenStay

\* The tiles of the mesh stay frozen.
LEMMA LoadGoesOn ==
  ASSUME MemoryInv, MemInv', FrozenWhileWritten', FrozenStay, LoadUnchanged,
         session = "open", Stage \in FrozenStages, LoadInv'
  PROVE  MemoryInv'
<1>1. MeshInv'
  BY DEF MemoryInv, MeshInv, LoadUnchanged
<1>2. FreezeInv'
  <2>1. \A i \in DOMAIN mesh : Last(mesh[i]) = 1 /\ mesh[i] \in Tiles
    BY DEF MemoryInv, MeshInv, FreezeInv
  <2>2. \A i \in DOMAIN mesh : Last(mesh[i])' = 1
    <3> TAKE i \in DOMAIN mesh
    <3>1. PICK t \in Tiles : t = mesh[i] /\ Last(t) = 1
      BY <2>1
    <3>2. Last(t)' = 1
      BY <3>1 DEF FrozenStay
    <3> QED
      BY <3>1, <3>2 DEF Last, FreezeAfter, LastFreeze, EPA_FREEZE, LoadUnchanged
  <2>3. mesh' = mesh
    BY DEF LoadUnchanged
  <2> QED
    BY <2>2, <2>3 DEF FreezeInv
<1>3. StopInv'
  <2> SUFFICES ASSUME "died" \notin mishaps
               PROVE  \A t \in Tiles : t \notin Elems(mesh) => Last(t)' = 1
    BY DEF StopInv, Elems, LoadUnchanged
  <2> QED
    BY DEF MemoryInv, StopInv, FrozenStay
<1> QED
  BY <1>1, <1>2, <1>3 DEF MemoryInv

\* The load has failed.
LEMMA LoadEnds ==
  ASSUME MemoryInv, MemInv', FrozenWhileWritten', FrozenStay, LoadUnchanged,
         session = "open", LoadFails, sym' \in {sym, 0}
  PROVE  MemoryInv'
<1>1. MeshInv'
  BY DEF MemoryInv, MeshInv, LoadUnchanged
<1>2. LoadInv' /\ FreezeInv'
  BY DEF MemoryInv, LoadInv, FreezeInv, LoadFails, Return, Stage, LoadPcs, FrozenStages,
         SetupStages, WriteStages, StartStages, ConfigSymbols
<1>3. StopInv'
  <2> SUFFICES ASSUME "died" \notin mishaps
               PROVE  \A t \in Tiles : t \notin Elems(mesh) => Last(t)' = 1
    BY DEF StopInv, Elems, LoadUnchanged
  <2> QED
    BY DEF MemoryInv, StopInv, FrozenStay
<1> QED
  BY <1>1, <1>2, <1>3 DEF MemoryInv

\* A block write goes on at next when its fence is through.
LEMMA BlockIsSent ==
  ASSUME NEW W, NEW next \in LoadPcs \ {"fence"}, SendBlock(W, next)
  PROVE  Post(W) /\ Stage' = next /\ pc' \in LoadPcs
BY DEF SendBlock, Stage, LoadPcs

LEMMA LoadPlace ==
  ASSUME HostInv, MemoryInv, pc \in LoadPcs \ {"fence"}
  PROVE  /\ session = "open" /\ Stage = pc /\ bin \in Binaries /\ it \in Nat \ {0}
         /\ mesh \in Seq(Tiles) /\ mesh # <<>>
         /\ Len(mesh) \in Nat \ {0}
         /\ it <= Len(mesh) => /\ it \in DOMAIN mesh /\ mesh[it] \in Tiles
                               /\ pc \in FrozenStages \cup StartStages => Last(mesh[it]) = 1
<1>1. /\ session = "open" /\ Stage = pc /\ bin \in Binaries /\ it \in Nat \ {0}
      /\ mesh \in Seq(Tiles) /\ mesh # <<>>
  BY DEF HostInv, PlaceInv, ListInv, MemoryInv, LoadInv, MeshInv, Stage
<1>2. Len(mesh) \in Nat \ {0}
  BY <1>1
<1>3. it <= Len(mesh) => it \in DOMAIN mesh /\ mesh[it] \in Tiles
  BY <1>1, <1>2
<1>4. it \in DOMAIN mesh /\ pc \in FrozenStages \cup StartStages => Last(mesh[it]) = 1
  BY <1>1 DEF MemoryInv, FreezeInv
<1> QED
  BY <1>1, <1>2, <1>3, <1>4

LEMMA FenceStep ==
  ASSUME HostInv, MemoryInv, Fence, UNCHANGED deviceVars
  PROVE  MemoryInv'
<1> USE DEF deviceVars, nodeVars, historyVars
<1>1. /\ UNCHANGED <<posted, mem, mesh, seg, sym, session, mishaps, it, bin>>
      /\ pc = "fence" /\ pc' = after /\ after \in LoadPcs \ {"fence"} /\ session = "open"
  BY DEF Fence, HostInv, PlaceInv, LoadPcs
<1>2. Stage' = Stage
  BY <1>1 DEF Stage
<1>3. MemInv' /\ FrozenWhileWritten' /\ \A t \in Tiles : Last(t)' = Last(t)
  BY <1>1, NothingSent DEF MemoryInv
<1>4. MeshInv'
  BY <1>1 DEF MemoryInv, MeshInv
<1>5. LoadInv'
  BY <1>1, <1>2 DEF MemoryInv, LoadInv, LoadPcs, Loadable, Capacity, is_dram
<1>6. FreezeInv'
  <2>1. \A i \in DOMAIN mesh : Last(mesh[i])' = Last(mesh[i])
    <3> TAKE i \in DOMAIN mesh
    <3>1. PICK t \in Tiles : t = mesh[i]
      BY DEF MemoryInv, MeshInv
    <3>2. Last(t)' = Last(t)
      BY <1>3
    <3> QED
      BY <1>1, <3>1, <3>2 DEF Last, FreezeAfter, LastFreeze, EPA_FREEZE
  <2> QED
    BY <1>1, <1>2, <2>1 DEF MemoryInv, FreezeInv
<1>7. StopInv'
  <2> SUFFICES ASSUME "died" \notin mishaps
               PROVE  \A t \in Tiles : t \notin Elems(mesh) => Last(t)' = 1
    BY <1>1 DEF StopInv, Elems
  <2> QED
    BY <1>3 DEF MemoryInv, StopInv
<1> QED
  BY <1>3, <1>4, <1>5, <1>6, <1>7 DEF MemoryInv

\* The registers of tiles, and the caches' tags.
LEMMA SetupSteps ==
  ASSUME HostInv, MemoryInv, ElfValidate \/ TilesInitialize \/ ValidateVcache,
         UNCHANGED deviceVars
  PROVE  MemoryInv'
<1> USE DEF deviceVars, loaderUnchanged, historyVars, LoadPcs
<1>1. pc \in {"load", "tiles_initialize", "validate_vcache"} /\ LoadUnchanged
      /\ UNCHANGED <<mem, bin, sym>> /\ sym' \in {sym, 0}
  BY DEF ElfValidate, TilesInitialize, ValidateVcache, LoadUnchanged
<1>2. /\ session = "open" /\ Stage = pc /\ bin \in Binaries /\ mesh \in Seq(Tiles) /\ mesh # <<>>
      /\ Len(mesh) \in Nat \ {0} /\ Stage \in FrozenStages
  BY <1>1, LoadPlace DEF FrozenStages, SetupStages
<1>3. it = 1 /\ 1 <= Len(mesh) /\ seg \in Nat \ {0} /\ sym \in 0 .. Len(ConfigSymbols)
  BY <1>1, <1>2 DEF MemoryInv, LoadInv, SetupStages
<1>4. ASSUME MemInv', FrozenWhileWritten', FrozenStay, UNCHANGED <<it, seg>>, bin.elf,
             pc' \in {"tiles_initialize", "validate_vcache", "segment"}
      PROVE  MemoryInv'
  <2>1. LoadInv'
    BY <1>1, <1>2, <1>3, <1>4
       DEF LoadInv, Stage, SetupStages, WriteStages, StartStages, LoadUnchanged
  <2> QED
    BY <1>1, <1>2, <1>4, <2>1, LoadGoesOn
<1>5. ASSUME MemInv', FrozenWhileWritten', FrozenStay, LoadFails PROVE MemoryInv'
  BY <1>1, <1>2, <1>5, LoadEnds
<1>6. CASE ElfValidate
  <2>1. MemInv' /\ FrozenWhileWritten' /\ FrozenStay
    BY <1>1, <1>6, NothingEffect DEF ElfValidate
  <2> QED
    BY <1>4, <1>5, <1>6, <2>1 DEF ElfValidate
<1>7. CASE TilesInitialize
  <2> DEFINE lists == [t \in Tiles |-> tile_set_registers(t)]
             W == ForEach(mesh, lists)
  <2>1. \/ /\ Post(W) /\ UNCHANGED <<it, seg>> /\ pc' \in {"segment", "validate_vcache"}
        \/ PostSome(W) /\ LoadFails
    BY <1>7 DEF TilesInitialize, SendFails
  <2> HIDE DEF lists
  <2>2. Control(W) /\ \A t \in Tiles : Freezing(W, t)
    BY <1>2, RegistersList DEF lists
  <2> HIDE DEF W
  <2>3. MemInv' /\ FrozenWhileWritten' /\ FrozenStay
    BY <1>1, <2>1, <2>2, ControlEffect
  <2>4. bin.elf
    BY <1>7, <1>2 DEF TilesInitialize, MemoryInv, LoadInv, SetupStages
  <2> QED
    BY <1>4, <1>5, <2>1, <2>3, <2>4
<1>8. CASE ValidateVcache
  <2> DEFINE w == Write(Cache, EPA_TAGS, 1)
             W == <<w>>
  <2>1. \/ Post(W) /\ UNCHANGED <<it, seg>> /\ pc' = "segment"
        \/ PostSome(W) /\ LoadFails
    BY <1>8 DEF ValidateVcache, SendFails
  <2>2. w \in Packet /\ w.to = Cache
    <3>1. EPA_TAGS \in CacheEpas
      BY MemoryAssumption DEF EPA_TAGS, CacheEpas
    <3> QED
      BY <3>1, CacheWrite
  <2> HIDE DEF w
  <2>3. W \in Seq(Packet) /\ Elems(W) = {w}
    BY <2>2, ShortLists
  <2> HIDE DEF W
  <2>4. Control(W) /\ \A t \in Tiles : Freezing(W, t)
    BY <2>2, <2>3, Addresses DEF Control, OnlyRegisters, Freezing
  <2>5. MemInv' /\ FrozenWhileWritten' /\ FrozenStay
    BY <1>1, <2>1, <2>4, ControlEffect
  <2>6. bin.elf
    BY <1>8, <1>2 DEF ValidateVcache, MemoryInv, LoadInv, SetupStages
  <2> QED
    BY <1>4, <1>5, <2>1, <2>5, <2>6
<1> QED
  BY <1>6, <1>7, <1>8

\* The segments.
LEMMA SegmentSteps ==
  ASSUME HostInv, MemoryInv, LoadSegment \/ ZeroSegment \/ SegmentsDone, UNCHANGED deviceVars
  PROVE  MemoryInv'
<1> USE DEF deviceVars, loaderUnchanged, historyVars, LoadPcs
<1>1. pc \in {"segment", "zeros"} /\ LoadUnchanged
      /\ UNCHANGED <<mem, bin, sym>> /\ sym' \in {sym, 0}
  BY DEF LoadSegment, ZeroSegment, SegmentsDone, LoadUnchanged
<1>2. /\ session = "open" /\ Stage = pc /\ bin \in Binaries /\ it \in Nat \ {0}
      /\ mesh \in Seq(Tiles) /\ Len(mesh) \in Nat \ {0} /\ Stage \in FrozenStages
      /\ it <= Len(mesh) => mesh[it] \in Tiles /\ Last(mesh[it]) = 1
  BY <1>1, LoadPlace DEF FrozenStages, WriteStages
<1>3. /\ it <= Len(mesh) /\ mesh[it] \in Tiles /\ Last(mesh[it]) = 1
      /\ seg \in Nat \ {0} /\ sym \in 0 .. Len(ConfigSymbols) /\ bin.elf
  BY <1>1, <1>2 DEF MemoryInv, LoadInv, WriteStages
<1>4. bin.segments \in Seq(ProgramHeader)
  BY <1>2, BinariesAssumption
<1> DEFINE t == mesh[it]
           s == bin.segments[seg]
           n == Len(bin.segments)
<1>5. n \in Nat /\ (seg <= n => seg \in DOMAIN bin.segments)
  BY <1>3, <1>4
<1>6. seg <= n /\ Loadable(s) /\ s.load =>
         Content(EvaWrites(t, s.paddr, s.data), t) /\ Content(ZeroWrites(t, s), t)
  BY <1>2, <1>3, <1>5, SegmentLists
<1> HIDE DEF t
<1>7. ASSUME MemInv', FrozenWhileWritten', FrozenStay, LoadInv' PROVE MemoryInv'
  BY <1>1, <1>2, <1>7, LoadGoesOn
<1>8. ASSUME MemInv', FrozenWhileWritten', FrozenStay, LoadFails PROVE MemoryInv'
  BY <1>1, <1>2, <1>8, LoadEnds
<1>9. ASSUME NEW W, Content(W, t), Post(W) \/ PostSome(W)
      PROVE  MemInv' /\ FrozenWhileWritten' /\ FrozenStay
  BY <1>1, <1>3, <1>9, ContentEffect DEF t
<1>10. ASSUME Stage' \in {"segment", "icache"}, pc' \in LoadPcs, seg' \in Nat \ {0},
              it' <= Len(mesh)
       PROVE  LoadInv'
  BY <1>1, <1>2, <1>3, <1>10
     DEF LoadInv, SetupStages, WriteStages, StartStages, ConfigSymbols, LoadUnchanged
<1>11. CASE SegmentsDone
  <2>1. UNCHANGED <<posted, it>> /\ pc' = "icache" /\ seg' = 1
    BY <1>11 DEF SegmentsDone
  <2>2. MemInv' /\ FrozenWhileWritten' /\ FrozenStay
    BY <1>1, <2>1, NothingEffect
  <2>3. LoadInv'
    BY <1>3, <1>10, <2>1 DEF Stage
  <2> QED
    BY <1>7, <2>2, <2>3
<1>12. CASE LoadSegment
  <2> DEFINE W == EvaWrites(t, s.paddr, s.data)
  <2>1. /\ pc = "segment" /\ seg <= n
        /\ \/ LoadFails /\ UNCHANGED posted
           \/ seg' = seg + 1 /\ UNCHANGED <<pc, it, posted>>
           \/ Loadable(s) /\ s.load /\ SendBlock(W, "zeros") /\ UNCHANGED <<it, seg>>
           \/ Loadable(s) /\ s.load /\ PostSome(W) /\ LoadFails
    BY <1>12 DEF LoadSegment, SendFails, t
  <2>2. CASE LoadFails /\ UNCHANGED posted
    BY <1>1, <1>8, <2>2, NothingEffect
  <2>3. CASE seg' = seg + 1 /\ UNCHANGED <<pc, it, posted>>
    <3>1. MemInv' /\ FrozenWhileWritten' /\ FrozenStay
      BY <1>1, <2>3, NothingEffect
    <3>2. LoadInv'
      BY <1>3, <1>10, <2>1, <2>3 DEF Stage
    <3> QED
      BY <1>7, <3>1, <3>2
  <2>4. CASE Loadable(s) /\ s.load /\ SendBlock(W, "zeros") /\ UNCHANGED <<it, seg>>
    <3>1. Post(W) /\ Stage' = "zeros" /\ pc' \in LoadPcs
      BY <2>4, BlockIsSent
    <3>2. MemInv' /\ FrozenWhileWritten' /\ FrozenStay
      BY <1>6, <1>9, <2>1, <2>4, <3>1
    <3>3. (Loadable(s) /\ s.load /\ seg <= n)'
      BY <1>1, <2>1, <2>4 DEF Loadable, Capacity, is_dram
    <3>4. LoadInv'
      BY <1>1, <1>2, <1>3, <2>4, <3>1, <3>3
         DEF LoadInv, SetupStages, WriteStages, StartStages, ConfigSymbols, LoadUnchanged
    <3> QED
      BY <1>7, <3>2, <3>4
  <2>5. CASE Loadable(s) /\ s.load /\ PostSome(W) /\ LoadFails
    BY <1>6, <1>8, <1>9, <2>1, <2>5
  <2> QED
    BY <2>1, <2>2, <2>3, <2>4, <2>5
<1>13. CASE ZeroSegment
  <2> DEFINE W == ZeroWrites(t, s)
  <2>1. /\ pc = "zeros"
        /\ \/ SendBlock(W, "segment") /\ NextSegmentOrTile(s)
           \/ PostSome(W) /\ LoadFails
    BY <1>13 DEF ZeroSegment, SendFails, t
  <2>2. Content(W, t)
    BY <1>2, <1>6, <2>1 DEF MemoryInv, LoadInv
  <2> HIDE DEF W, s
  <2>3. CASE SendBlock(W, "segment") /\ NextSegmentOrTile(s)
    <3>1. Post(W) /\ Stage' = "segment" /\ pc' \in LoadPcs
      BY <2>3, BlockIsSent
    <3>2. MemInv' /\ FrozenWhileWritten' /\ FrozenStay
      BY <1>9, <2>2, <3>1
    <3>3. seg' \in Nat \ {0} /\ it' <= Len(mesh)
      BY <1>2, <1>3, <2>3 DEF NextSegmentOrTile
    <3>4. LoadInv'
      BY <1>10, <3>1, <3>3
    <3> QED
      BY <1>7, <3>2, <3>4
  <2>4. CASE PostSome(W) /\ LoadFails
    BY <1>8, <1>9, <2>2, <2>4
  <2> QED
    BY <2>1, <2>3, <2>4
<1> QED
  BY <1>11, <1>12, <1>13

\* The instruction caches.
LEMMA IcacheSteps ==
  ASSUME HostInv, MemoryInv, LoadIcache \/ IcachesDone, UNCHANGED deviceVars
  PROVE  MemoryInv'
<1> USE DEF deviceVars, loaderUnchanged, historyVars, LoadPcs
<1>1. pc = "icache" /\ LoadUnchanged /\ UNCHANGED <<mem, bin, sym>> /\ sym' \in {sym, 0}
  BY DEF LoadIcache, IcachesDone, LoadUnchanged
<1>2. /\ session = "open" /\ Stage = pc /\ bin \in Binaries
      /\ Len(mesh) \in Nat \ {0} /\ Stage \in FrozenStages
      /\ it <= Len(mesh) => mesh[it] \in Tiles /\ Last(mesh[it]) = 1
  BY <1>1, LoadPlace DEF FrozenStages, WriteStages
<1>3. seg \in Nat \ {0} /\ sym \in 0 .. Len(ConfigSymbols) /\ bin.elf
  BY <1>1, <1>2 DEF MemoryInv, LoadInv, WriteStages
<1>4. CASE IcachesDone
  <2>1. UNCHANGED <<posted, seg>> /\ pc' = "config_symbols" /\ it' = 1
    BY <1>4 DEF IcachesDone
  <2>2. MemInv' /\ FrozenWhileWritten' /\ FrozenStay
    BY <1>1, <2>1, NothingEffect
  <2>3. LoadInv'
    BY <1>1, <1>2, <1>3, <2>1
       DEF LoadInv, Stage, SetupStages, WriteStages, StartStages, LoadUnchanged
  <2> QED
    BY <1>1, <1>2, <2>2, <2>3, LoadGoesOn
<1>5. CASE LoadIcache
  <2> DEFINE t == mesh[it]
             W == IcacheWrites(t, bin)
  <2>1. /\ it <= Len(mesh)
        /\ \/ LoadFails /\ UNCHANGED posted
           \/ SendBlock(W, "icache") /\ UNCHANGED seg
           \/ PostSome(W) /\ LoadFails
    BY <1>5 DEF LoadIcache, SendFails
  <2>2. Content(W, t)
    BY <1>2, <1>3, <2>1, IcacheList
  <2>3. Post(W) \/ PostSome(W) => MemInv' /\ FrozenWhileWritten' /\ FrozenStay
    BY <1>1, <1>2, <2>1, <2>2, ContentEffect
  <2> HIDE DEF W
  <2>4. CASE LoadFails /\ UNCHANGED posted
    <3>1. MemInv' /\ FrozenWhileWritten' /\ FrozenStay
      BY <1>1, <2>4, NothingEffect
    <3> QED
      BY <1>1, <1>2, <2>4, <3>1, LoadEnds
  <2>5. CASE SendBlock(W, "icache") /\ UNCHANGED seg
    <3>1. Post(W) /\ Stage' = "icache" /\ pc' \in LoadPcs
      BY <2>5, BlockIsSent
    <3>2. LoadInv'
      BY <1>1, <1>2, <1>3, <2>5, <3>1
         DEF LoadInv, SetupStages, WriteStages, StartStages, LoadUnchanged
    <3> QED
      BY <1>1, <1>2, <2>3, <3>1, <3>2, LoadGoesOn
  <2>6. CASE PostSome(W) /\ LoadFails
    BY <1>1, <1>2, <2>3, <2>6, LoadEnds
  <2> QED
    BY <2>1, <2>4, <2>5, <2>6
<1> QED
  BY <1>4, <1>5

\* The origin registers and the configuration symbols.
LEMMA ConfigSteps ==
  ASSUME HostInv, MemoryInv, SetOriginRegisters \/ SetConfigSymbol \/ ConfigDone
  PROVE  MemoryInv'
<1> USE DEF programUnchanged, hostUnchanged, historyVars, LoadPcs
<1>1. pc = "config_symbols" /\ LoadUnchanged /\ UNCHANGED <<mem, bin>>
  BY DEF SetOriginRegisters, SetConfigSymbol, ConfigDone, LoadUnchanged
<1>2. /\ session = "open" /\ Stage = pc /\ bin \in Binaries /\ it \in Nat \ {0}
      /\ Len(mesh) \in Nat \ {0} /\ Stage \in FrozenStages
      /\ it <= Len(mesh) => mesh[it] \in Tiles /\ Last(mesh[it]) = 1
  BY <1>1, LoadPlace DEF FrozenStages, WriteStages
<1>3. /\ seg \in Nat \ {0} /\ sym \in 0 .. Len(ConfigSymbols) /\ bin.elf
      /\ sym # 0 => it <= Len(mesh)
  BY <1>1, <1>2 DEF MemoryInv, LoadInv, WriteStages
<1>4. Len(ConfigSymbols) = 12 /\ DOMAIN ConfigSymbols = 1 .. 12
  BY DEF ConfigSymbols
<1> DEFINE t == mesh[it]
<1>5. ASSUME Stage' = "config_symbols", pc' \in LoadPcs, seg' \in Nat \ {0},
             sym' \in 0 .. 12, sym' # 0 => it' <= Len(mesh)
      PROVE  LoadInv'
  BY <1>1, <1>2, <1>3, <1>4, <1>5
     DEF LoadInv, SetupStages, WriteStages, StartStages, LoadUnchanged
<1> HIDE DEF t
<1>6. CASE ConfigDone
  <2>1. UNCHANGED <<posted, seg, sym>> /\ pc' = "unfreeze" /\ it' = 1
    BY <1>6 DEF ConfigDone
  <2>2. MemInv' /\ FrozenWhileWritten' /\ FrozenStay
    BY <1>1, <2>1, NothingEffect
  <2>3. LoadInv'
    BY <1>1, <1>2, <1>3, <1>4, <2>1
       DEF LoadInv, Stage, SetupStages, WriteStages, StartStages, LoadUnchanged
  <2> QED
    BY <1>1, <1>2, <2>2, <2>3, LoadGoesOn
<1>7. CASE SetOriginRegisters
  <2> DEFINE W == SetOrigin(t, Origin)
  <2>1. /\ it <= Len(mesh)
        /\ \/ Post(W) /\ sym' = 1 /\ UNCHANGED <<pc, it, seg>>
           \/ PostSome(W) /\ LoadFails /\ sym' = sym
    BY <1>7 DEF SetOriginRegisters, SendFails, t
  <2>2. t \in Tiles /\ Origin \in Nat \X Nat
    BY <1>2, <2>1, ArrayAssumption DEF t
  <2>3. /\ W \in Seq(Packet)
        /\ \A w \in Elems(W) : w.to = t /\ w.epa \in Registers /\ w.epa # EPA_FREEZE
    BY <2>2, OriginList
  <2> HIDE DEF W
  <2>4. Control(W) /\ \A u \in Tiles : Freezing(W, u)
    BY <2>3 DEF Control, OnlyRegisters, Freezing, IsFreeze
  <2>5. MemInv' /\ FrozenWhileWritten' /\ FrozenStay
    BY <1>1, <2>1, <2>4, ControlEffect
  <2>6. CASE Post(W) /\ sym' = 1 /\ UNCHANGED <<pc, it, seg>>
    <3>1. LoadInv'
      BY <1>1, <1>3, <1>5, <2>1, <2>6 DEF Stage
    <3> QED
      BY <1>1, <1>2, <2>5, <3>1, LoadGoesOn
  <2>7. CASE PostSome(W) /\ LoadFails /\ sym' = sym
    BY <1>1, <1>2, <2>5, <2>7, LoadEnds
  <2> QED
    BY <2>1, <2>6, <2>7
<1>8. CASE SetConfigSymbol
  <2> DEFINE name == ConfigSymbols[sym]
             val == ConfigValue(name, t)
             W == SymbolWrite(t, name, val)
  <2>1. /\ sym # 0
        /\ \/ /\ HasSymbol(bin, name) /\ SendBlock(W, "config_symbols") /\ UNCHANGED seg
              /\ \/ sym = 12 /\ sym' = 0
                 \/ sym # 12 /\ sym' = sym + 1 /\ it' = it
           \/ LoadFails /\ UNCHANGED posted /\ sym' = 0
           \/ HasSymbol(bin, name) /\ PostSome(W) /\ LoadFails /\ sym' = 0
    BY <1>4, <1>8 DEF SetConfigSymbol, SymbolFails, SendFails, t
  <2>2. it <= Len(mesh) /\ t \in Tiles /\ Last(t) = 1
    BY <1>2, <1>3, <2>1 DEF t
  <2>3. name \in TileSymbols
    BY <1>3, <1>4, <2>1 DEF TileSymbols
  <2> HIDE DEF name
  <2>4. val \in Nat
    BY <2>2, ConfigValues
  <2> HIDE DEF val
  <2>5. HasSymbol(bin, name) => Content(W, t)
    BY <1>2, <2>2, <2>3, <2>4, SymbolList
  <2> HIDE DEF W
  <2>6. CASE /\ HasSymbol(bin, name) /\ SendBlock(W, "config_symbols") /\ UNCHANGED seg
             /\ \/ sym = 12 /\ sym' = 0
                \/ sym # 12 /\ sym' = sym + 1 /\ it' = it
    <3>1. Post(W) /\ Stage' = "config_symbols" /\ pc' \in LoadPcs
      BY <2>6, BlockIsSent
    <3>2. MemInv' /\ FrozenWhileWritten' /\ FrozenStay
      BY <1>1, <2>2, <2>5, <2>6, <3>1, ContentEffect
    <3>3. sym' \in 0 .. 12 /\ (sym' # 0 => it' <= Len(mesh))
      BY <1>3, <1>4, <2>1, <2>2, <2>6
    <3>4. LoadInv'
      BY <1>3, <1>5, <2>6, <3>1, <3>3
    <3> QED
      BY <1>1, <1>2, <3>2, <3>4, LoadGoesOn
  <2>7. CASE LoadFails /\ UNCHANGED posted /\ sym' = 0
    <3>1. MemInv' /\ FrozenWhileWritten' /\ FrozenStay
      BY <1>1, <2>7, NothingEffect
    <3> QED
      BY <1>1, <1>2, <2>7, <3>1, LoadEnds
  <2>8. CASE HasSymbol(bin, name) /\ PostSome(W) /\ LoadFails /\ sym' = 0
    <3>1. MemInv' /\ FrozenWhileWritten' /\ FrozenStay
      BY <1>1, <2>2, <2>5, <2>8, ContentEffect
    <3> QED
      BY <1>1, <1>2, <2>8, <3>1, LoadEnds
  <2> QED
    BY <2>1, <2>6, <2>7, <2>8
<1> QED
  BY <1>6, <1>7, <1>8

\* Reading the program, and freezing the mesh for it.
LEMMA FreezeSteps ==
  ASSUME HostInv, MemoryInv, ProgramInit \/ ProgramFreeze
  PROVE  MemoryInv'
<1> USE DEF programUnchanged, hostUnchanged, historyVars, nodeVars
<1>1. CASE ProgramInit
  <2>1. /\ pc = "idle" /\ session = "open" /\ LoadUnchanged
        /\ UNCHANGED <<posted, mem, it, seg, sym>>
        /\ \/ pc' = "idle"
           \/ pc' = "freeze" /\ bin' \in Binaries
    BY <1>1 DEF ProgramInit, LoadUnchanged
  <2>2. it = 1
    BY <2>1 DEF HostInv, ListInv, LoadPcs
  <2>3. MemInv' /\ FrozenWhileWritten' /\ FrozenStay
    BY <2>1, NothingEffect
  <2>4. MeshInv' /\ LoadInv' /\ FreezeInv'
    BY <2>1, <2>2 DEF MemoryInv, MeshInv, LoadInv, FreezeInv, Stage, LoadPcs, FrozenStages,
       SetupStages, WriteStages, StartStages, LoadUnchanged
  <2>5. StopInv'
    <3> SUFFICES ASSUME "died" \notin mishaps
                 PROVE  \A t \in Tiles : t \notin Elems(mesh) => Last(t)' = 1
      BY <2>1 DEF StopInv, Elems, LoadUnchanged
    <3> QED
      BY <2>3 DEF MemoryInv, StopInv, FrozenStay
  <2> QED
    BY <2>3, <2>4, <2>5 DEF MemoryInv
<1>2. CASE ProgramFreeze
  <2> DEFINE W == FreezeWrites
  <2>1. /\ pc = "freeze" /\ LoadUnchanged /\ UNCHANGED <<mem, bin, sym>>
        /\ \/ Post(W) /\ pc' = "load" /\ UNCHANGED <<it, seg>>
           \/ PostSome(W) /\ LoadFails
    BY <1>2 DEF ProgramFreeze, SendFails, LoadUnchanged
  <2>2. /\ session = "open" /\ Stage = pc /\ bin \in Binaries /\ mesh \in Seq(Tiles)
    BY <2>1, LoadPlace DEF LoadPcs
  <2>3. /\ Control(W)
        /\ \A t \in Tiles : Freezing(W, t)
        /\ \A t \in Tiles : t \in Elems(mesh) => Freezes(W, t)
    BY <2>2, FreezeList
  <2> HIDE DEF W
  <2>4. MemInv' /\ FrozenWhileWritten' /\ FrozenStay
    BY <2>1, <2>3, ControlEffect
  <2>5. CASE Post(W) /\ pc' = "load" /\ UNCHANGED <<it, seg>>
    <3>1. ASSUME NEW t \in Tiles, t \in Elems(mesh) PROVE Last(t)' = 1
      <4>1. W \in Seq(Packet) /\ MemInv
        BY <2>3 DEF Control, MemoryInv
      <4> QED
        BY <2>1, <2>3, <2>5, <3>1, <4>1, LastAfterPost
    <3>2. \A i \in DOMAIN mesh : Last(mesh[i])' = 1
      <4> TAKE i \in DOMAIN mesh
      <4>1. PICK t \in Tiles : t = mesh[i] /\ t \in Elems(mesh)
        BY <2>2 DEF Elems
      <4>2. Last(t)' = 1
        BY <3>1, <4>1
      <4> QED
        BY <2>1, <4>1, <4>2 DEF Last, FreezeAfter, LastFreeze, EPA_FREEZE, LoadUnchanged
    <3>3. FreezeInv'
      BY <2>1, <2>5, <3>2 DEF FreezeInv, Stage, StartStages, LoadUnchanged
    <3>4. MeshInv' /\ LoadInv'
      BY <2>1, <2>2, <2>5 DEF MemoryInv, MeshInv, LoadInv, Stage, LoadPcs,
         SetupStages, WriteStages, StartStages, LoadUnchanged
    <3>5. StopInv'
      <4> SUFFICES ASSUME "died" \notin mishaps
                   PROVE  \A t \in Tiles : t \notin Elems(mesh) => Last(t)' = 1
        BY <2>1, <2>2 DEF StopInv, Elems, LoadUnchanged
      <4> QED
        BY <2>4 DEF MemoryInv, StopInv, FrozenStay
    <3> QED
      BY <2>4, <3>3, <3>4, <3>5 DEF MemoryInv
  <2>6. CASE PostSome(W) /\ LoadFails
    BY <2>1, <2>2, <2>4, <2>6, LoadEnds
  <2> QED
    BY <2>1, <2>5, <2>6
<1> QED
  BY <1>1, <1>2

\* Tiles are started one after the other; those that come later in the mesh stay frozen.
LEMMA StartSteps ==
  ASSUME HostInv, MemoryInv, SetKernelPointer \/ Unfreeze
  PROVE  MemoryInv'
<1> USE DEF programUnchanged, hostUnchanged, historyVars, LoadPcs
<1>1. pc \in StartStages /\ UNCHANGED <<mem, bin, mesh, mishaps, sym>> /\ sym' \in {sym, 0}
  BY DEF SetKernelPointer, Unfreeze, StartStages
<1>2. /\ session = "open" /\ Stage = pc /\ bin \in Binaries /\ it \in Nat \ {0}
      /\ mesh \in Seq(Tiles) /\ Len(mesh) \in Nat \ {0}
      /\ it <= Len(mesh) => it \in DOMAIN mesh /\ mesh[it] \in Tiles /\ Last(mesh[it]) = 1
  BY <1>1, LoadPlace DEF StartStages
<1>3. /\ seg \in Nat \ {0} /\ sym \in 0 .. Len(ConfigSymbols) /\ bin.elf
      /\ it <= Len(mesh)
  BY <1>1, <1>2 DEF MemoryInv, LoadInv
<1> DEFINE t == mesh[it]
<1>4. t \in Tiles /\ Last(t) = 1 /\ it \in DOMAIN mesh /\ t \in Elems(mesh)
  BY <1>2, <1>3 DEF Elems
<1>5. \A i \in DOMAIN mesh : i >= it => Last(mesh[i]) = 1 /\ mesh[i] \in Tiles
  BY <1>1, <1>2 DEF MemoryInv, FreezeInv
<1>6. \A i \in DOMAIN mesh : mesh[i] = t => i = it
  BY <1>4 DEF MemoryInv, MeshInv
<1> HIDE DEF t
<1>7. CASE SetKernelPointer
  <2> DEFINE name == "cuda_kernel_ptr"
             val == HB_MC_CUDA_KERNEL_NOT_LOADED_VAL
             W == SymbolWrite(t, name, val)
  <2>1. /\ LoadUnchanged
        /\ \/ HasSymbol(bin, name) /\ SendBlock(W, "unfreeze_tile") /\ UNCHANGED <<it, seg>>
           \/ LoadFails /\ UNCHANGED posted
           \/ HasSymbol(bin, name) /\ PostSome(W) /\ LoadFails
    BY <1>7 DEF SetKernelPointer, SymbolFails, SendFails, LoadUnchanged, t
  <2>2. name \in TileSymbols /\ val \in Nat
    BY DEF TileSymbols, HB_MC_CUDA_KERNEL_NOT_LOADED_VAL
  <2> HIDE DEF name, val
  <2>3. HasSymbol(bin, name) => Content(W, t)
    BY <1>2, <1>4, <2>2, SymbolList
  <2> HIDE DEF W
  <2>4. CASE HasSymbol(bin, name) /\ SendBlock(W, "unfreeze_tile") /\ UNCHANGED <<it, seg>>
    <3>1. Post(W) /\ Stage' = "unfreeze_tile" /\ pc' \in LoadPcs
      BY <2>4, BlockIsSent
    <3>2. MemInv' /\ FrozenWhileWritten' /\ FrozenStay
      BY <1>1, <1>4, <2>3, <2>4, <3>1, ContentEffect
    <3>3. LoadInv'
      BY <1>1, <1>2, <1>3, <2>4, <3>1 DEF LoadInv, SetupStages, WriteStages, StartStages
    <3>4. \A i \in DOMAIN mesh : i >= it => Last(mesh[i])' = 1
      <4> TAKE i \in DOMAIN mesh
      <4> HAVE i >= it
      <4>1. PICK u \in Tiles : u = mesh[i] /\ Last(u) = 1
        BY <1>5
      <4>2. Last(u)' = 1
        BY <3>2, <4>1 DEF FrozenStay
      <4> QED
        BY <1>1, <4>1, <4>2 DEF Last, FreezeAfter, LastFreeze, EPA_FREEZE
    <3>5. FreezeInv'
      BY <1>1, <2>4, <3>1, <3>4
         DEF FreezeInv, FrozenStages, SetupStages, WriteStages, StartStages
    <3>6. MeshInv'
      BY <1>1, <2>1 DEF MemoryInv, MeshInv, LoadUnchanged
    <3>7. StopInv'
      <4> SUFFICES ASSUME "died" \notin mishaps
                   PROVE  \A u \in Tiles : u \notin Elems(mesh) => Last(u)' = 1
        BY <1>1, <1>2, <2>1 DEF StopInv, Elems, LoadUnchanged
      <4> QED
        BY <3>2 DEF MemoryInv, StopInv, FrozenStay
    <3> QED
      BY <3>2, <3>3, <3>5, <3>6, <3>7 DEF MemoryInv
  <2>5. CASE LoadFails /\ UNCHANGED posted
    <3>1. MemInv' /\ FrozenWhileWritten' /\ FrozenStay
      BY <1>1, <2>5, NothingEffect
    <3> QED
      BY <1>1, <1>2, <2>1, <2>5, <3>1, LoadEnds
  <2>6. CASE HasSymbol(bin, name) /\ PostSome(W) /\ LoadFails
    <3>1. MemInv' /\ FrozenWhileWritten' /\ FrozenStay
      BY <1>1, <1>4, <2>3, <2>6, ContentEffect
    <3> QED
      BY <1>1, <1>2, <2>1, <2>6, <3>1, LoadEnds
  <2> QED
    BY <2>1, <2>4, <2>5, <2>6
<1>8. CASE Unfreeze
  <2> DEFINE w == Write(t, EPA_FREEZE, 0)
             W == <<w>>
  <2>1. \/ /\ Post(W) /\ seg' = seg
           /\ \/ pc' = "idle" /\ session' = "loaded"
              \/ pc' = "unfreeze" /\ it # Len(mesh) /\ it' = it + 1 /\ session' = session
        \/ PostSome(W) /\ LoadFails /\ session' = session
    BY <1>8 DEF Unfreeze, SendFails, UnfreezeTile, Return, t
  <2>2. w \in Packet /\ w.to = t /\ w.epa = EPA_FREEZE
    BY <1>4, TileWrite, Addresses
  <2> HIDE DEF w
  <2>3. W \in Seq(Packet) /\ Elems(W) = {w}
    BY <2>2, ShortLists
  <2> HIDE DEF W
  <2>4. Control(W) /\ \A u \in Tiles : u # t => Calm(W, u)
    BY <2>2, <2>3, RegisterAddresses DEF Control, OnlyRegisters, Calm
  <2>5. /\ MemInv' /\ FrozenWhileWritten'
        /\ \A u \in Tiles : u # t => Last(u)' = Last(u)
    BY <1>1, <2>1, <2>4, SendEffect DEF MemoryInv, Control, Harmless
  <2>6. MeshInv'
    BY <1>1, <1>2, <2>1 DEF MemoryInv, MeshInv
  <2>7. StopInv'
    <3>1. session' \in {"open", "loaded"}
      BY <1>2, <2>1
    <3> SUFFICES ASSUME "died" \notin mishaps
                 PROVE  \A u \in Tiles : u \notin Elems(mesh) => Last(u)' = 1
      BY <1>1, <3>1 DEF StopInv, Elems
    <3> QED
      BY <1>4, <2>5 DEF MemoryInv, StopInv
  <2>8. CASE pc' = "idle"
    <3>1. seg' \in Nat \ {0}
      BY <1>3, <2>1 DEF LoadFails
    <3>2. LoadInv' /\ FreezeInv'
      BY <1>1, <1>3, <2>8, <3>1
         DEF LoadInv, FreezeInv, Stage, FrozenStages, SetupStages, WriteStages, StartStages
    <3> QED
      BY <2>5, <2>6, <2>7, <3>2 DEF MemoryInv
  <2>9. CASE pc' = "unfreeze" /\ it # Len(mesh) /\ it' = it + 1 /\ seg' = seg
    <3>1. LoadInv'
      BY <1>1, <1>2, <1>3, <2>9
         DEF LoadInv, Stage, SetupStages, WriteStages, StartStages
    <3>2. \A i \in DOMAIN mesh : i >= it + 1 => Last(mesh[i])' = 1
      <4> TAKE i \in DOMAIN mesh
      <4> HAVE i >= it + 1
      <4>1. i >= it /\ i # it
        BY <1>2
      <4>2. PICK u \in Tiles : u = mesh[i] /\ Last(u) = 1
        BY <1>5, <4>1
      <4>3. u # t
        BY <1>6, <4>1, <4>2
      <4>4. Last(u)' = 1
        BY <2>5, <4>2, <4>3
      <4> QED
        BY <1>1, <4>2, <4>4 DEF Last, FreezeAfter, LastFreeze, EPA_FREEZE
    <3>3. FreezeInv'
      BY <1>1, <2>9, <3>2
         DEF FreezeInv, Stage, FrozenStages, SetupStages, WriteStages, StartStages
    <3> QED
      BY <2>5, <2>6, <2>7, <3>1, <3>3 DEF MemoryInv
  <2> QED
    BY <2>1, <2>8, <2>9 DEF LoadFails, Return
<1> QED
  BY <1>7, <1>8

LEMMA NextMemoryInv == HostInv /\ MemoryInv /\ [Next]_vars => MemoryInv'
<1> SUFFICES ASSUME HostInv, MemoryInv, [Next]_vars PROVE MemoryInv'
  OBVIOUS
<1>1. CASE HostStep
  <2>1. CASE ManycoreStep /\ UNCHANGED <<loaderVars, deviceVars>>
    BY <2>1, ManycoreSteps
  <2>2. CASE LoaderStep /\ UNCHANGED deviceVars
    BY <2>2, FenceStep, SetupSteps, SegmentSteps, IcacheSteps DEF LoaderStep
  <2>3. CASE MeshInit \/ ProgramFreeze \/ FreeDevice
    BY <2>3, MeshStep, FreezeSteps, CallSteps
  <2>4. CASE \/ SetOriginRegisters \/ SetConfigSymbol \/ ConfigDone
             \/ SetKernelPointer \/ Unfreeze
    BY <2>4, ConfigSteps, StartSteps
  <2> QED
    BY <1>1, <2>1, <2>2, <2>3, <2>4 DEF HostStep
<1>2. CASE Call
  BY <1>2, CallSteps, FreezeSteps, FinishStep DEF Call
<1>3. CASE Die
  BY <1>3, DieStep
<1>4. ASSUME NEW n \in Nodes, Delivery(n) PROVE MemoryInv'
  <2>1. Deliver(n) /\ UNCHANGED <<pc, it, mishaps, loaderVars, deviceVars>>
    BY <1>4 DEF Delivery, Deliver, historyVars
  <2>2. MemInv' /\ FrozenWhileWritten' /\ \A t \in Tiles : Last(t)' = Last(t)
    BY <2>1, DeliverEffect DEF MemoryInv
  <2> QED
    BY <2>1, <2>2, InsideAndOutside
<1>5. ASSUME NEW t \in Tiles, TileStep(t) PROVE MemoryInv'
  <2>1. UNCHANGED <<pc, it, mishaps, loaderVars, deviceVars>>
    BY <1>5 DEF TileStep, Store, Send, historyVars, hostUnchanged
  <2>2. CASE Store(t)
    <3>1. MemInv' /\ FrozenWhileWritten' /\ \A u \in Tiles : Last(u)' = Last(u)
      BY <2>2, StoreEffect DEF MemoryInv
    <3> QED
      BY <2>1, <3>1, InsideAndOutside
  <2>3. CASE Send(t)
    <3>1. MemInv' /\ FrozenWhileWritten' /\ \A u \in Tiles : Last(u)' = Last(u)
      BY <2>3, NothingSent DEF MemoryInv, Send, nodeVars
    <3> QED
      BY <2>1, <3>1, InsideAndOutside
  <2> QED
    BY <1>5, <2>2, <2>3 DEF TileStep
<1>6. CASE UNCHANGED vars
  <2>1. UNCHANGED <<posted, mem, pc, it, mishaps, loaderVars, deviceVars>>
    BY <1>6 DEF vars, manycoreVars, nodeVars, historyVars
  <2>2. MemInv' /\ FrozenWhileWritten' /\ \A t \in Tiles : Last(t)' = Last(t)
    BY <2>1, NothingSent DEF MemoryInv
  <2> QED
    BY <2>1, <2>2, InsideAndOutside
<1> QED
  BY <1>1, <1>2, <1>3, <1>4, <1>5, <1>6 DEF Next

THEOREM MemoryInvariant == Spec => []MemoryInv
BY InitMemoryInv, NextMemoryInv, HostInvariant, PTL DEF Spec

\* A tile's memory and instruction cache are written only behind a write that freezes it, although
\* nobody waits for that one, and a load may follow one that failed with some tiles running.
THEOREM WritesFindTilesFrozen == Spec => []FrozenWhileWritten
<1>1. MemoryInv => FrozenWhileWritten
  BY DEF MemoryInv
<1> QED
  BY <1>1, MemoryInvariant, PTL

\* After an init that failed anywhere, and after a finish, the last that any tile's freeze
\* register hears is that it is frozen, unless a process was killed.
THEOREM TilesAreStopped == Spec => []TilesStopped
<1>1. MemoryInv => TilesStopped
  BY DEF MemoryInv, StopInv, TilesStopped, Last
<1> QED
  BY <1>1, MemoryInvariant, PTL

-----------------------------------------------------------------------------
(* Types and bounds of everything else.                                    *)

\* Devices opened and failures are counted together; before the first nothing is under way.
EventsInv ==
  /\ epoch \in Nat /\ faults \in Nat /\ epoch + faults <= MaxEvents
  /\ epoch = 0 => pc = "idle" /\ session = "none" /\ Quiet

\* Tiles that run have been started, in this session unless a process was killed.
RunsInv ==
  /\ runs \in [Tiles -> 0 .. MaxEvents]
  /\ \A t \in Tiles : ~Frozen(t) => runs[t] # 0
  /\ "died" \notin mishaps => \A t \in Tiles : ~Frozen(t) => runs[t] = epoch

PartsInv ==
  /\ pc \in Pcs /\ after \in Pcs /\ why \in {"init", "cleanup", "exit"}
  /\ private_data \in BOOLEAN /\ dram_enabled \in BOOLEAN /\ ready \subseteq Responders
  /\ mishaps \subseteq {"died", "torn"}
  /\ bin \in Binaries \cup {NoBinary} /\ image \in Binaries \cup {NoBinary}
  /\ session \in {"none", "open", "loaded", "closing", "broken"}
  /\ made \subseteq {"mc", "mesh", "tile_groups", "program"}

\* What steps of a procedure do to the counters.
StepFrame ==
  /\ pc # "idle" /\ epoch' = epoch /\ runs' = runs
  /\ faults' = faults \/ Fault
  /\ mishaps' = mishaps \/ mishaps' = mishaps \cup {"torn"}

LEMMA StepFrames == HostStep => StepFrame
<1> SUFFICES ASSUME HostStep PROVE StepFrame
  OBVIOUS
<1> USE DEF StepFrame, nodeVars, historyVars, NoFault
<1>1. CASE Attach \/ MapBar \/ InitConfig \/ RespondersInit \/ EnableDram
  BY <1>1 DEF Attach, MapBar, InitConfig, RespondersInit, EnableDram
<1>2. CASE DrainOccupancy \/ DrainCheck \/ RespondersQuit \/ CleanupMmio \/ Respond
  BY <1>2 DEF DrainOccupancy, DrainCheck, RespondersQuit, CleanupMmio, Respond
<1>3. CASE DrainWord \/ ReceiveWord
  BY <1>3 DEF DrainWord, ReceiveWord, Torn
<1>4. CASE LoaderStep
  <2>1. CASE Fence
    BY <2>1 DEF Fence
  <2>2. CASE ElfValidate \/ TilesInitialize \/ ValidateVcache \/ SegmentsDone \/ IcachesDone
    BY <2>2 DEF ElfValidate, TilesInitialize, ValidateVcache, SegmentsDone, IcachesDone,
                loaderUnchanged, SendFails
  <2>3. CASE LoadSegment \/ ZeroSegment \/ LoadIcache
    BY <2>3 DEF LoadSegment, ZeroSegment, LoadIcache, loaderUnchanged, SendFails, SendBlock
  <2> QED
    BY <1>4, <2>1, <2>2, <2>3 DEF LoaderStep
<1>5. CASE MeshInit \/ FreeDevice \/ ProgramFreeze \/ ConfigDone
  BY <1>5 DEF MeshInit, FreeDevice, ProgramFreeze, ConfigDone, hostUnchanged, programUnchanged,
              SendFails
<1>6. CASE SetOriginRegisters \/ SetConfigSymbol \/ SetKernelPointer \/ Unfreeze
  BY <1>6 DEF SetOriginRegisters, SetConfigSymbol, SetKernelPointer, Unfreeze, hostUnchanged,
              programUnchanged, SendFails, SendBlock, SymbolFails
<1> QED
  BY <1>1, <1>2, <1>3, <1>4, <1>5, <1>6 DEF HostStep, ManycoreStep

LEMMA EventsKept ==
  ASSUME EventsInv, [Next]_vars
  PROVE  EventsInv'
<1> USE DEF nodeVars, historyVars, NoFault
<1>1. MaxEvents \in Nat
  BY ManycoreBounds
<1>2. ASSUME epoch' = epoch, faults' = faults \/ Fault, epoch # 0
      PROVE  EventsInv'
  BY <1>1, <1>2 DEF EventsInv, Fault
<1>3. ASSUME epoch' = epoch, faults' = faults \/ Fault, UNCHANGED <<pc, session, posted>>
      PROVE  EventsInv'
  BY <1>1, <1>3 DEF EventsInv, Fault, Quiet, Nodes
<1>4. CASE HostStep
  BY <1>2, <1>4, StepFrames DEF StepFrame, EventsInv
<1>5. CASE DeviceInit
  <2>1. epoch + faults < MaxEvents /\ epoch' = epoch + 1 /\ faults' = faults
    BY <1>5 DEF DeviceInit
  <2>2. epoch' \in Nat /\ epoch' # 0 /\ epoch' + faults' <= MaxEvents
    BY <1>1, <2>1 DEF EventsInv
  <2> QED
    BY <2>1, <2>2 DEF EventsInv
<1>6. CASE ProgramInit \/ RequestRx \/ DeviceFinish
  <2>1. epoch # 0
    BY <1>6 DEF EventsInv, ProgramInit, RequestRx, DeviceFinish
  <2>2. epoch' = epoch /\ (faults' = faults \/ Fault)
    BY <1>6 DEF ProgramInit, RequestRx, DeviceFinish, hostUnchanged, programUnchanged
  <2> QED
    BY <1>2, <2>1, <2>2
<1>7. CASE ProgramCalls
  <2>1. CASE session = "open" /\ dram_enabled /\ DisableDram
    <3>1. epoch # 0
      BY <2>1 DEF EventsInv
    <3>2. epoch' = epoch /\ (faults' = faults \/ Fault)
      BY <2>1 DEF DisableDram
    <3> QED
      BY <1>2, <3>1, <3>2
  <2>2. CASE \E r \in Responders \ LinkedResponders : ResponderAdd(r) \/ ResponderDel(r)
    <3>1. epoch' = epoch /\ (faults' = faults \/ Fault) /\ UNCHANGED <<pc, session, posted>>
      BY <1>7, <2>2 DEF ProgramCalls, ResponderAdd, ResponderDel, deviceVars
    <3> QED
      BY <1>3, <3>1
  <2> QED
    BY <1>7, <2>1, <2>2 DEF ProgramCalls
<1>8. CASE Die
  <2>1. epoch # 0
    BY <1>8 DEF EventsInv, Die
  <2> QED
    BY <1>2, <1>8, <2>1 DEF Die
<1>9. ASSUME NEW n \in Nodes, Delivery(n) PROVE EventsInv'
  <2>1. epoch # 0
    BY <1>9 DEF EventsInv, Quiet, Delivery, Deliver
  <2> QED
    BY <1>2, <1>9, <2>1 DEF Delivery, Deliver
<1>10. ASSUME NEW t \in Tiles, TileStep(t) PROVE EventsInv'
  <2>1. epoch' = epoch /\ faults' = faults /\ UNCHANGED <<pc, session, posted>>
    BY <1>10 DEF TileStep, Store, Send, hostUnchanged, deviceVars
  <2> QED
    BY <1>3, <2>1
<1>11. CASE UNCHANGED vars
  <2>1. epoch' = epoch /\ faults' = faults /\ UNCHANGED <<pc, session, posted>>
    BY <1>11 DEF vars, manycoreVars, deviceVars
  <2> QED
    BY <1>3, <2>1
<1> QED
  BY <1>4, <1>5, <1>6, <1>7, <1>8, <1>9, <1>10, <1>11 DEF Next, Call

\* Nothing but a write that arrives changes a freeze register.
LEMMA RegistersKept ==
  ASSUME MemInv, [Next]_vars, \A n \in Nodes : ~Delivery(n)
  PROVE  runs' = runs /\ \A t \in Tiles : Frozen(t)' = Frozen(t)
<1> USE DEF nodeVars, Frozen, EPA_FREEZE
<1>1. CASE HostStep
  <2>1. mem' = mem
    <3>1. CASE ManycoreStep
      BY <3>1 DEF ManycoreStep, Attach, MapBar, InitConfig, RespondersInit, EnableDram,
         DrainOccupancy, DrainWord, DrainCheck, ReceiveWord, Respond, RespondersQuit, CleanupMmio
    <3>2. CASE LoaderStep
      BY <3>2 DEF LoaderStep, Fence, ElfValidate, TilesInitialize, ValidateVcache, LoadSegment,
         ZeroSegment, SegmentsDone, LoadIcache, IcachesDone, loaderUnchanged
    <3>3. CASE /\ ~ManycoreStep
               /\ ~LoaderStep
      BY <1>1, <3>3 DEF HostStep, MeshInit, ProgramFreeze, SetOriginRegisters, SetConfigSymbol,
         ConfigDone, SetKernelPointer, Unfreeze, FreeDevice, programUnchanged
    <3> QED
      BY <3>1, <3>2, <3>3
  <2> QED
    BY <1>1, <2>1, StepFrames DEF StepFrame
<1>2. CASE Call
  BY <1>2 DEF Call, DeviceInit, ProgramInit, RequestRx, ProgramCalls, ResponderAdd, ResponderDel,
     DisableDram, DeviceFinish, programUnchanged
<1>3. CASE Die
  BY <1>3 DEF Die
<1>4. ASSUME NEW u \in Tiles, TileStep(u) PROVE runs' = runs /\ \A t \in Tiles : Frozen(t)' = Frozen(t)
  <2>1. CASE Send(u)
    BY <2>1 DEF Send
  <2>2. CASE Store(u)
    <3>1. \A t \in Tiles : mem'[t][EPA_FREEZE] = mem[t][EPA_FREEZE]
      BY <2>2, StoreEffect
    <3> QED
      BY <2>2, <3>1 DEF Store
  <2> QED
    BY <1>4, <2>1, <2>2 DEF TileStep
<1>5. CASE UNCHANGED vars
  BY <1>5 DEF vars, manycoreVars
<1> QED
  BY <1>1, <1>2, <1>3, <1>4, <1>5 DEF Next

LEMMA RunsKept ==
  ASSUME MemoryInv, EventsInv, RunsInv, [Next]_vars
  PROVE  RunsInv'
<1>0. MaxEvents \in Nat /\ epoch \in 0 .. MaxEvents
  BY ManycoreBounds DEF EventsInv
<1>1. CASE \E n \in Nodes : Delivery(n)
  <2>1. PICK n \in Nodes : Deliver(n) /\ UNCHANGED <<epoch, mishaps>>
    BY <1>1 DEF Delivery, Deliver, historyVars
  <2>2. posted[n] \in Seq(PacketTo(n)) /\ posted[n] # <<>>
    BY <2>1 DEF MemoryInv, MemInv, Deliver
  <2>3. epoch # 0
    BY <2>1, <2>2 DEF EventsInv, Quiet
  <2>4. PICK w \in PacketTo(n) : w = Head(posted[n])
    BY <2>2
  <2>5. /\ mem' = [mem EXCEPT ![n][w.epa] = w.val]
        /\ runs' = IF n \in Tiles /\ IsFreeze(w) /\ w.val = 0
                   THEN [runs EXCEPT ![n] = epoch] ELSE runs
    BY <2>1, <2>4 DEF Deliver, IsFreeze
  <2>6. ASSUME NEW t \in Tiles
        PROVE  \/ Frozen(t)' = Frozen(t) /\ runs'[t] = runs[t]
               \/ Frozen(t)'
               \/ runs'[t] = epoch
    <3>1. t \in DOMAIN mem /\ n \in DOMAIN mem /\ mem[t] \in [TileEpas -> Nat]
          /\ EPA_FREEZE \in TileEpas
      BY Addresses DEF MemoryInv, MemInv
    <3>2. Frozen(t)' <=> mem'[t][EPA_FREEZE] = 1
      BY DEF Frozen, EPA_FREEZE
    <3>3. runs \in [Tiles -> 0 .. MaxEvents]
      BY DEF RunsInv
    <3>4. CASE t = n /\ IsFreeze(w)
      <4>1. mem'[t][EPA_FREEZE] = w.val /\ w.val \in {0, 1}
        BY <2>5, <3>1, <3>4 DEF IsFreeze, PacketTo
      <4> QED
        BY <2>5, <3>2, <3>3, <3>4, <4>1
    <3>5. CASE ~(t = n /\ IsFreeze(w))
      <4>1. mem'[t][EPA_FREEZE] = mem[t][EPA_FREEZE]
        BY <2>5, <3>1, <3>5 DEF IsFreeze
      <4>2. runs'[t] = runs[t]
        BY <2>5, <3>3, <3>5
      <4> QED
        BY <3>2, <4>1, <4>2 DEF Frozen
    <3> QED
      BY <3>4, <3>5
  <2>7. runs' \in [Tiles -> 0 .. MaxEvents]
    BY <1>0, <2>5 DEF RunsInv
  <2>8. \A t \in Tiles : ~Frozen(t)' =>
           runs'[t] # 0 /\ ("died" \notin mishaps => runs'[t] = epoch)
    BY <2>3, <2>6 DEF RunsInv
  <2> QED
    BY <2>1, <2>7, <2>8 DEF RunsInv
<1>2. CASE \A n \in Nodes : ~Delivery(n)
  <2>1. runs' = runs /\ \A t \in Tiles : Frozen(t)' = Frozen(t)
    BY <1>2, RegistersKept DEF MemoryInv
  <2>2. CASE epoch' = epoch /\ mishaps \subseteq mishaps'
    BY <2>1, <2>2 DEF RunsInv
  <2>3. CASE DeviceInit
    <3>1. pc = "idle" /\ session = "none" /\ Quiet /\ mishaps' = mishaps
      BY <2>3 DEF DeviceInit
    <3>2. ASSUME "died" \notin mishaps, NEW t \in Tiles PROVE Frozen(t)
      <4>1. Last(t) = 1
        BY <3>1, <3>2 DEF MemoryInv, StopInv
      <4>2. posted[t] = <<>>
        BY <3>1 DEF Quiet, Nodes
      <4>3. Len(posted[t]) = 0 /\ NoFreeze(posted[t], 0)
        BY <4>2 DEF NoFreeze
      <4>4. FreezeIn(posted[t], mem[t][EPA_FREEZE], 0) = mem[t][EPA_FREEZE]
        BY <4>3, FreezeInIs
      <4> QED
        BY <4>1, <4>3, <4>4, FreezeAfterIs DEF Last, Frozen
    <3> QED
      BY <2>1, <3>1, <3>2 DEF RunsInv
  <2>4. CASE ~DeviceInit
    <3>1. epoch' = epoch /\ mishaps \subseteq mishaps'
      <4>1. CASE HostStep
        BY <4>1, StepFrames DEF StepFrame
      <4>2. CASE Call
        BY <2>4, <4>2 DEF Call, ProgramInit, RequestRx, ProgramCalls, ResponderAdd, ResponderDel,
           DisableDram, DeviceFinish, programUnchanged, hostUnchanged, historyVars
      <4>3. CASE Die
        BY <4>3 DEF Die
      <4>4. CASE \E t \in Tiles : TileStep(t)
        BY <4>4 DEF TileStep, Store, Send, hostUnchanged, historyVars
      <4>5. CASE UNCHANGED vars
        BY <4>5 DEF vars, manycoreVars, historyVars
      <4> QED
        BY <1>2, <4>1, <4>2, <4>3, <4>4, <4>5 DEF Next
    <3> QED
      BY <2>2, <3>1
  <2> QED
    BY <2>3, <2>4
<1> QED
  BY <1>1, <1>2

LEMMA PartsKept ==
  ASSUME HostInv, PartsInv, [Next]_vars
  PROVE  PartsInv'
<1> USE DEF PartsInv, Pcs, barVars, listVars, drainVars, historyVars, loaderVars, loadVars,
            deviceVars
<1>0. responders \in Seq(Responders) /\ it \in Nat \ {0}
  BY DEF HostInv, ListInv
<1>1. ASSUME ManycoreStep, UNCHANGED <<loaderVars, deviceVars>> PROVE PartsInv'
  <2>1. CASE Attach \/ MapBar \/ InitConfig \/ EnableDram
    <3>1. pc' \in Pcs /\ why' \in {"init", "cleanup", "exit"}
      BY <2>1 DEF Attach, MapBar, InitConfig, EnableDram, InitFails, StartDrain
    <3>2. UNCHANGED <<private_data, ready, mishaps>>
      BY <2>1 DEF Attach, MapBar, InitConfig, EnableDram
    <3>3. dram_enabled' = dram_enabled \/ dram_enabled' = TRUE
      BY <2>1 DEF Attach, MapBar, InitConfig, EnableDram
    <3> QED
      BY <1>1, <3>1, <3>2, <3>3, ZenonT(30)
  <2>2. CASE RespondersInit \/ RespondersQuit
    <3>1. ready' \subseteq Responders
      BY <1>0, <2>2 DEF RespondersInit, RespondersQuit, SetUp, ShutDown, Walked
    <3>2. pc' \in Pcs /\ why' \in {"init", "cleanup", "exit"}
      BY <2>2 DEF RespondersInit, RespondersQuit, InitFails, StartDrain, Return
    <3>3. UNCHANGED <<private_data, dram_enabled, mishaps>>
      BY <2>2 DEF RespondersInit, RespondersQuit
    <3> QED
      BY <1>1, <3>1, <3>2, <3>3
  <2>3. CASE DrainOccupancy \/ DrainWord \/ DrainCheck
    <3>1. pc' \in Pcs /\ why' \in {"init", "cleanup", "exit"}
      BY <2>3 DEF DrainOccupancy, DrainWord, DrainCheck, DrainReturns, InitFails, StartDrain,
         EndRound
    <3>2. UNCHANGED <<private_data, dram_enabled, ready>>
      BY <2>3 DEF DrainOccupancy, DrainWord, DrainCheck
    <3>3. mishaps' \subseteq {"died", "torn"}
      BY <2>3 DEF DrainOccupancy, DrainWord, DrainCheck, Torn
    <3> QED
      BY <1>1, <3>1, <3>2, <3>3
  <2>4. CASE ReceiveWord \/ Respond \/ CleanupMmio
    <3>1. pc' \in Pcs /\ why' \in {"init", "cleanup", "exit"}
      BY <2>4 DEF ReceiveWord, Respond, CleanupMmio, Return
    <3>2. UNCHANGED <<dram_enabled, ready>> /\ (private_data' = private_data \/ private_data' = FALSE)
      BY <2>4 DEF ReceiveWord, Respond, CleanupMmio
    <3>3. mishaps' \subseteq {"died", "torn"}
      BY <2>4 DEF ReceiveWord, Respond, CleanupMmio, Torn
    <3> QED
      BY <1>1, <3>1, <3>2, <3>3, ZenonT(30)
  <2> QED
    BY <1>1, <2>1, <2>2, <2>3, <2>4 DEF ManycoreStep
<1>2. ASSUME LoaderStep, UNCHANGED deviceVars PROVE PartsInv'
  <2>1. pc' \in Pcs /\ after' \in Pcs
    BY <1>2 DEF LoaderStep, Fence, ElfValidate, TilesInitialize, ValidateVcache, LoadSegment,
       ZeroSegment, SegmentsDone, LoadIcache, IcachesDone, SendFails, SendBlock, LoadFails, Return
  <2>2. UNCHANGED <<private_data, dram_enabled, ready, mishaps, bin, why>>
    BY <1>2 DEF LoaderStep, Fence, ElfValidate, TilesInitialize, ValidateVcache, LoadSegment,
       ZeroSegment, SegmentsDone, LoadIcache, IcachesDone, loaderUnchanged
  <2> QED
    BY <1>2, <2>1, <2>2
<1>3. ASSUME ProgramFreeze \/ SetOriginRegisters \/ SetConfigSymbol \/ ConfigDone
               \/ SetKernelPointer \/ Unfreeze
      PROVE  PartsInv'
  <2>1. pc' \in Pcs /\ after' \in Pcs
    BY <1>3 DEF ProgramFreeze, SetOriginRegisters, SetConfigSymbol, ConfigDone,
       SetKernelPointer, Unfreeze, SendFails, SendBlock, SymbolFails, LoadFails, Return
  <2>2. /\ UNCHANGED <<private_data, dram_enabled, ready, mishaps, bin, why, made>>
        /\ image' = image \/ image' = bin
        /\ session' = session \/ session' = "loaded"
    BY <1>3 DEF ProgramFreeze, SetOriginRegisters, SetConfigSymbol, ConfigDone,
       SetKernelPointer, Unfreeze, programUnchanged, hostUnchanged
  <2> QED
    BY <2>1, <2>2
<1>4. CASE MeshInit \/ FreeDevice
  <2>1. /\ pc' = "idle"
        /\ UNCHANGED <<after, why, private_data, dram_enabled, ready, mishaps, bin, image>>
    BY <1>4 DEF MeshInit, FreeDevice, hostUnchanged
  <2>2. session' \in {"none", "open", "broken"}
    BY <1>4 DEF MeshInit, FreeDevice
  <2>3. made' \subseteq {"mc", "mesh", "tile_groups", "program"}
    BY <1>4 DEF MeshInit, FreeDevice, TileGroupsExit, MeshExit, ProgramExit, ManycoreExit
  <2> QED
    BY <2>1, <2>2, <2>3
<1>5. CASE DeviceInit \/ ProgramInit \/ RequestRx \/ DeviceFinish
  <2>1. CASE DeviceInit \/ RequestRx
    BY <2>1, ZenonT(30) DEF DeviceInit, StartInit, RequestRx, hostUnchanged
  <2>2. CASE ProgramInit
    <3>1. /\ pc' = pc \/ pc' = "freeze"
          /\ UNCHANGED <<after, why, private_data, dram_enabled, ready, mishaps, session, image>>
      BY <2>2 DEF ProgramInit, hostUnchanged
    <3>2. bin' \in Binaries \cup {NoBinary}
      BY <2>2 DEF ProgramInit
    <3>3. made' \subseteq {"mc", "mesh", "tile_groups", "program"}
      BY <2>2 DEF ProgramInit
    <3> QED
      BY <3>1, <3>2, <3>3
  <2>3. CASE DeviceFinish
    BY <2>3 DEF DeviceFinish, StartExit, hostUnchanged, programUnchanged
  <2> QED
    BY <1>5, <2>1, <2>2, <2>3
<1>6. CASE ProgramCalls
  <2>1. UNCHANGED <<pc, private_data, why, mishaps, loaderVars, deviceVars>>
    BY <1>6 DEF ProgramCalls, ResponderAdd, ResponderDel, DisableDram
  <2>2. ready' \subseteq Responders
    BY <1>6 DEF ProgramCalls, ResponderAdd, ResponderDel, DisableDram, SetUp, ShutDown
  <2>3. dram_enabled' \in BOOLEAN
    BY <1>6 DEF ProgramCalls, ResponderAdd, ResponderDel, DisableDram
  <2> QED
    BY <2>1, <2>2, <2>3
<1>7. CASE Die
  BY <1>7 DEF Die, Return
<1>8. CASE (\E n \in Nodes : Delivery(n)) \/ (\E t \in Tiles : TileStep(t)) \/ UNCHANGED vars
  BY <1>8 DEF Delivery, Deliver, TileStep, Store, Send, hostUnchanged, vars, manycoreVars
<1> QED
  BY <1>1, <1>2, <1>3, <1>4, <1>5, <1>6, <1>7, <1>8 DEF Next, HostStep, Call

-----------------------------------------------------------------------------
(* The request FIFO.                                                       *)

\* Rounds of a drain; it reads packets only while there are some left in its round.
DrainInv ==
  /\ drains \in 0 .. DrainRounds /\ occupancy \in 0 .. RxCapacity
  /\ pc \in {"drain", "drain_packet"} => drains < DrainRounds
  /\ pc = "drain_packet" => occupancy >= 1

ReceivePcs == {"drain_packet", "rx", "respond"}

\* Words are held back only while a packet is received: all of them when responders see it.
FifoInv ==
  /\ got \in Seq(Word) /\ rxq \in Seq(Word) /\ Len(rxq) <= RxCapacity * PacketWords
  /\ pc \notin ReceivePcs => got = <<>>
  /\ IF pc = "respond" THEN Len(got) = PacketWords ELSE Len(got) < PacketWords

LEMMA InitFifoInv == Init => DrainInv /\ FifoInv
<1> SUFFICES ASSUME Init PROVE DrainInv /\ FifoInv
  OBVIOUS
<1>1. pc = "idle" /\ drains = 0 /\ occupancy = 0 /\ got = <<>> /\ rxq = <<>>
  BY DEF Init, ManycoreInit
<1>2. RxCapacity * PacketWords \in Nat
  BY ManycoreBounds
<1> QED
  BY <1>1, <1>2, ManycoreBounds DEF DrainInv, FifoInv, ReceivePcs

\* Steps that neither read the FIFO nor begin a round of a drain.
FifoFrame ==
  /\ UNCHANGED <<got, rxq>>
  /\ pc' = pc \/ (pc \notin ReceivePcs /\ pc' \notin {"drain_packet", "respond"})
  /\ \/ UNCHANGED <<drains, occupancy>> /\ (pc' = pc \/ pc' # "drain")
     \/ drains' = 0 /\ occupancy' = 0 /\ pc' # "drain_packet"

FifoReads == DrainOccupancy \/ DrainWord \/ ReceiveWord \/ Respond

LEMMA FifoFrameKept ==
  ASSUME DrainInv, FifoInv, FifoFrame
  PROVE  DrainInv' /\ FifoInv'
<1>1. DrainInv'
  BY ManycoreBounds DEF DrainInv, FifoFrame
<1>2. FifoInv'
  BY DEF FifoInv, FifoFrame, Word, ReceivePcs
<1> QED
  BY <1>1, <1>2

LEMMA FifoFrames ==
  ASSUME HostInv, [Next]_vars, ~FifoReads, ~Die, \A t \in Tiles : ~Send(t)
  PROVE  FifoFrame
<1> USE DEF FifoFrame, FifoReads, ReceivePcs, fifoVars, drainVars
<1>1. CASE ManycoreStep
  <2>1. CASE Attach \/ MapBar \/ InitConfig
    BY <2>1 DEF Attach, MapBar, InitConfig, InitFails, StartDrain
  <2>2. CASE RespondersInit \/ EnableDram
    BY <2>2 DEF RespondersInit, EnableDram, InitFails, StartDrain
  <2>3. CASE DrainCheck
    BY <2>3 DEF DrainCheck, DrainReturns, InitFails, StartDrain
  <2>4. CASE RespondersQuit \/ CleanupMmio
    BY <2>4 DEF RespondersQuit, CleanupMmio, StartDrain, Return
  <2> QED
    BY <1>1, <2>1, <2>2, <2>3, <2>4 DEF ManycoreStep
<1>2. CASE LoaderStep
  <2>1. CASE Fence
    <3>1. pc = "fence" /\ pc' \in LoadPcs \ {"fence"}
      BY <2>1 DEF Fence, HostInv, PlaceInv
    <3> QED
      BY <2>1, <3>1 DEF Fence, LoadPcs
  <2>2. CASE ~Fence
    <3>1. pc' = pc \/ (pc \notin ReceivePcs /\ pc' \notin {"drain_packet", "respond", "drain"})
      BY <1>2, <2>2 DEF LoaderStep, ElfValidate, TilesInitialize, ValidateVcache, LoadSegment,
         ZeroSegment, SegmentsDone, LoadIcache, IcachesDone, SendFails, SendBlock, LoadFails, Return
    <3>2. UNCHANGED <<got, rxq, drains, occupancy>>
      BY <1>2, <2>2 DEF LoaderStep, ElfValidate, TilesInitialize, ValidateVcache, LoadSegment,
         ZeroSegment, SegmentsDone, LoadIcache, IcachesDone, loaderUnchanged
    <3> QED
      BY <3>1, <3>2
  <2> QED
    BY <2>1, <2>2
<1>3. CASE ProgramFreeze \/ SetOriginRegisters \/ SetConfigSymbol \/ ConfigDone
             \/ SetKernelPointer \/ Unfreeze
  <2>1. pc' = pc \/ (pc \notin ReceivePcs /\ pc' \notin {"drain_packet", "respond", "drain"})
    BY <1>3 DEF ProgramFreeze, SetOriginRegisters, SetConfigSymbol, ConfigDone,
       SetKernelPointer, Unfreeze, SendFails, SendBlock, SymbolFails, LoadFails, Return
  <2>2. UNCHANGED <<got, rxq, drains, occupancy>>
    BY <1>3 DEF ProgramFreeze, SetOriginRegisters, SetConfigSymbol, ConfigDone,
       SetKernelPointer, Unfreeze, programUnchanged, hostUnchanged
  <2> QED
    BY <2>1, <2>2
<1>4. CASE MeshInit \/ FreeDevice \/ Call
  <2>1. CASE MeshInit \/ FreeDevice \/ RequestRx
    BY <2>1 DEF MeshInit, FreeDevice, RequestRx, hostUnchanged
  <2>2. CASE DeviceInit \/ ProgramInit
    BY <2>2 DEF DeviceInit, StartInit, ProgramInit, hostUnchanged
  <2>3. CASE DeviceFinish
    BY <2>3 DEF DeviceFinish, StartExit, hostUnchanged, programUnchanged
  <2>4. CASE ProgramCalls
    BY <2>4 DEF ProgramCalls, ResponderAdd, ResponderDel, DisableDram
  <2> QED
    BY <1>4, <2>1, <2>2, <2>3, <2>4 DEF Call
<1>5. CASE (\E n \in Nodes : Delivery(n)) \/ (\E t \in Tiles : Store(t)) \/ UNCHANGED vars
  BY <1>5 DEF Delivery, Deliver, Store, hostUnchanged, vars, manycoreVars
<1> QED
  BY <1>1, <1>2, <1>3, <1>4, <1>5 DEF Next, HostStep, TileStep

\* How many packets the FIFO says it holds.
LEMMA PacketsIn ==
  ASSUME FifoInv
  PROVE  /\ Packets \in 0 .. RxCapacity
         /\ Packets = 0 => Len(rxq) < PacketWords
<1> DEFINE n == Len(rxq)
           w == PacketWords
           r == RxCapacity
           q == n \div w
<1>1. n \in Nat /\ w \in Nat \ {0} /\ r \in Nat /\ n <= r * w
  BY ManycoreBounds DEF FifoInv
<1> HIDE DEF n, w, r
<1>2. q \in Nat /\ n % w \in 0 .. w - 1 /\ n = w * q + (n % w)
  BY <1>1, Division
<1> HIDE DEF q
<1>3. ~(r < q)
  <2> SUFFICES ASSUME r < q PROVE FALSE
    OBVIOUS
  <2>1. w * r + w <= w * q
    BY <1>1, <1>2, ProductOrder
  <2>2. w * r \in Nat /\ w * q \in Nat /\ r * w = w * r
    BY <1>1, <1>2
  <2> QED
    BY <1>1, <1>2, <2>1, <2>2
<1>4. q = 0 => n < w
  <2>1. w * 0 = 0
    BY <1>1
  <2> QED
    BY <1>1, <1>2, <2>1
<1> QED
  BY <1>1, <1>2, <1>3, <1>4 DEF Packets, n, w, r, q

LEMMA PacketIs ==
  ASSUME RunsInv, NEW t \in Tiles, ~Frozen(t), NEW r \in Responders
  PROVE  /\ PacketOf(t, r) \in Seq(Word) /\ Len(PacketOf(t, r)) = PacketWords
         /\ \A i \in 1 .. PacketWords :
               PacketOf(t, r)[i] = [epoch |-> runs[t], kind |-> r, word |-> i]
<1>1. runs[t] \in 1 .. MaxEvents /\ PacketWords \in Nat \ {0} /\ MaxEvents \in Nat
  BY ManycoreBounds DEF RunsInv
<1>2. PacketOf(t, r) \in [1 .. PacketWords -> Word]
  BY <1>1 DEF PacketOf, Word
<1>3. PacketOf(t, r) \in Seq(Word) /\ Len(PacketOf(t, r)) = PacketWords
  BY <1>1, <1>2
<1>4. \A i \in 1 .. PacketWords :
         PacketOf(t, r)[i] = [epoch |-> runs[t], kind |-> r, word |-> i]
  BY DEF PacketOf
<1> QED
  BY <1>3, <1>4

\* Tail and Head of words in the FIFO.
LEMMA NextWord ==
  ASSUME FifoInv, rxq # <<>>
  PROVE  /\ Head(rxq) \in Word /\ Tail(rxq) \in Seq(Word)
         /\ Len(Tail(rxq)) = Len(rxq) - 1 /\ Len(rxq) \in Nat \ {0}
         /\ Append(got, Head(rxq)) \in Seq(Word)
         /\ Len(Append(got, Head(rxq))) = Len(got) + 1 /\ Len(got) \in Nat
<1>1. got \in Seq(Word) /\ rxq \in Seq(Word)
  BY DEF FifoInv
<1>2. Head(rxq) \in Word /\ Tail(rxq) \in Seq(Word) /\ Len(Tail(rxq)) = Len(rxq) - 1
  BY <1>1
<1>3. Len(rxq) \in Nat \ {0}
  BY <1>1
<1>4. Append(got, Head(rxq)) \in Seq(Word) /\ Len(Append(got, Head(rxq))) = Len(got) + 1
      /\ Len(got) \in Nat
  BY <1>1, <1>2
<1> QED
  BY <1>2, <1>3, <1>4

LEMMA DrainRound ==
  ASSUME DrainInv, FifoInv, DrainOccupancy
  PROVE  DrainInv' /\ FifoInv'
<1>1. /\ pc = "drain" /\ UNCHANGED <<got, rxq>>
      /\ \/ pc' = "drain_check" /\ occupancy' = Packets /\ drains' = drains
         \/ pc' = "drain_packet" /\ occupancy' = Packets /\ Packets # 0 /\ drains' = drains
         \/ drains' = 0 /\ occupancy' = 0 /\ pc' \in {"cleanup", "drain"}
  BY DEF DrainOccupancy, DrainReturns, InitFails, StartDrain, fifoVars
<1>2. Packets \in 0 .. RxCapacity
  BY PacketsIn
<1>3. DrainInv'
  BY <1>1, <1>2, ManycoreBounds DEF DrainInv
<1>4. FifoInv'
  BY <1>1 DEF FifoInv, ReceivePcs, Word
<1> QED
  BY <1>3, <1>4

LEMMA WordIsRead ==
  ASSUME DrainInv, FifoInv, DrainWord \/ ReceiveWord
  PROVE  DrainInv' /\ FifoInv'
<1> DEFINE a == Append(got, Head(rxq))
           b == Tail(rxq)
           m == RxCapacity * PacketWords
<1>1. ASSUME rxq # <<>>, rxq' = b
      PROVE  rxq' \in Seq(Word) /\ Len(rxq') <= m
  <2>1. m \in Nat
    BY ManycoreBounds
  <2> HIDE DEF m
  <2>2. Len(rxq) <= m
    BY DEF FifoInv, m
  <2> QED
    BY <1>1, <2>1, <2>2, NextWord
<1>2. ASSUME rxq' = rxq PROVE rxq' \in Seq(Word) /\ Len(rxq') <= m
  BY <1>2 DEF FifoInv
<1>3. PacketWords \in Nat \ {0} /\ Len(<<>>) = 0 /\ <<>> \in Seq(Word)
  BY ManycoreBounds
<1>4. Word' = Word
  BY DEF Word
<1>5. rxq # <<>> => a \in Seq(Word) /\ Len(a) = Len(got) + 1 /\ Len(got) \in Nat
  BY NextWord
<1> HIDE DEF a, b, m
<1>6. ASSUME got' \in Seq(Word), rxq' \in Seq(Word), Len(rxq') <= m,
             pc' \notin ReceivePcs => got' = <<>>,
             IF pc' = "respond" THEN Len(got') = PacketWords ELSE Len(got') < PacketWords
      PROVE  FifoInv'
  BY <1>4, <1>6 DEF FifoInv, m, ReceivePcs
<1>7. CASE DrainWord
  <2>1. \/ /\ rxq # <<>> /\ rxq' = b
           /\ \/ /\ Len(got) + 1 < PacketWords /\ got' = a
                 /\ UNCHANGED <<pc, drains, occupancy>>
              \/ got' = <<>> /\ occupancy' = occupancy - 1 /\ occupancy > 1 /\ UNCHANGED <<pc, drains>>
              \/ /\ got' = <<>> /\ occupancy' = occupancy - 1 /\ ~(occupancy > 1)
                 /\ drains' = drains + 1
                 /\ pc' = IF drains + 1 < DrainRounds THEN "drain" ELSE "drain_check"
        \/ /\ got' = <<>> /\ rxq' = rxq /\ pc' \in {"cleanup", "drain"}
           /\ drains' = 0 /\ occupancy' = 0
    BY <1>7 DEF DrainWord, ReadWord, EndRound, DrainReturns, InitFails, StartDrain, a, b
  <2>2. pc = "drain_packet"
    BY <1>7 DEF DrainWord
  <2>3. rxq' \in Seq(Word) /\ Len(rxq') <= m
    BY <1>1, <1>2, <2>1
  <2>4. got' \in Seq(Word) /\ Len(got') < PacketWords /\ pc' # "respond"
        /\ (got' = <<>> \/ pc' = "drain_packet")
    <3>1. CASE got' = <<>>
      <4>1. got' \in Seq(Word) /\ Len(got') < PacketWords
        BY <1>3, <3>1
      <4> QED
        BY <2>1, <2>2, <3>1, <4>1
    <3>2. CASE rxq # <<>> /\ Len(got) + 1 < PacketWords /\ got' = a /\ pc' = pc
      <4>1. got' \in Seq(Word) /\ Len(got') < PacketWords
        BY <1>3, <1>5, <3>2
      <4> QED
        BY <2>2, <3>2, <4>1
    <3> QED
      BY <2>1, <3>1, <3>2
  <2>5. FifoInv'
    BY <1>6, <2>3, <2>4 DEF ReceivePcs
  <2>6. DrainInv'
    BY <2>1, <2>2, ManycoreBounds DEF DrainInv
  <2> QED
    BY <2>5, <2>6
<1>8. CASE ReceiveWord
  <2>1. /\ pc = "rx" /\ UNCHANGED <<drains, occupancy>>
        /\ \/ /\ rxq # <<>> /\ rxq' = b /\ got' = a
              /\ pc' = IF Len(got) + 1 < PacketWords THEN "rx" ELSE "respond"
           \/ got' = <<>> /\ rxq' = rxq /\ pc' = "idle"
    BY <1>8 DEF ReceiveWord, ReadWord, drainVars, a, b
  <2>2. rxq' \in Seq(Word) /\ Len(rxq') <= m
    BY <1>1, <1>2, <2>1
  <2>3. Len(got) < PacketWords
    BY <2>1 DEF FifoInv
  <2>4. FifoInv'
    <3>1. CASE rxq # <<>> /\ got' = a /\ Len(got) + 1 < PacketWords /\ pc' = "rx"
      BY <1>5, <1>6, <2>2, <3>1 DEF ReceivePcs
    <3>2. CASE rxq # <<>> /\ got' = a /\ ~(Len(got) + 1 < PacketWords) /\ pc' = "respond"
      <4>1. Len(got') = PacketWords /\ got' \in Seq(Word)
        BY <1>3, <1>5, <2>3, <3>2
      <4> QED
        BY <1>6, <2>2, <3>2, <4>1 DEF ReceivePcs
    <3>3. CASE got' = <<>> /\ pc' = "idle"
      BY <1>3, <1>6, <2>2, <3>3 DEF ReceivePcs
    <3> QED
      BY <2>1, <3>1, <3>2, <3>3
  <2>5. DrainInv'
    BY <2>1 DEF DrainInv
  <2> QED
    BY <2>4, <2>5
<1> QED
  BY <1>7, <1>8

LEMMA PacketIsShown ==
  ASSUME DrainInv, FifoInv, Respond
  PROVE  DrainInv' /\ FifoInv'
<1>1. /\ pc = "respond" /\ UNCHANGED <<drains, occupancy, rxq>>
      /\ \/ pc' = "respond" /\ got' = got
         \/ pc' = "idle" /\ got' = <<>>
  BY DEF Respond, Return, drainVars
<1>2. PacketWords \in Nat \ {0} /\ Len(<<>>) = 0 /\ <<>> \in Seq(Word) /\ Word' = Word
  BY ManycoreBounds DEF Word
<1>3. FifoInv'
  <2>1. CASE pc' = "respond" /\ got' = got
    BY <1>1, <1>2, <2>1 DEF FifoInv, ReceivePcs
  <2>2. CASE pc' = "idle" /\ got' = <<>>
    <3>1. got' \in Seq(Word) /\ Len(got') < PacketWords
      BY <1>2, <2>2
    <3>2. rxq' \in Seq(Word) /\ Len(rxq') <= RxCapacity * PacketWords
      BY <1>1 DEF FifoInv
    <3> QED
      BY <1>2, <2>2, <3>1, <3>2 DEF FifoInv
  <2> QED
    BY <1>1, <2>1, <2>2
<1>4. DrainInv'
  BY <1>1 DEF DrainInv
<1> QED
  BY <1>3, <1>4

LEMMA PacketIsSent ==
  ASSUME DrainInv, FifoInv, RunsInv, NEW t \in Tiles, Send(t)
  PROVE  DrainInv' /\ FifoInv'
<1>1. /\ ~Frozen(t) /\ UNCHANGED <<pc, drains, occupancy, got>>
      /\ Len(rxq) + PacketWords <= RxCapacity * PacketWords
  BY DEF Send, drainVars
<1>2. PICK r \in Responders : rxq' = rxq \o PacketOf(t, r)
  BY DEF Send
<1>3. PacketOf(t, r) \in Seq(Word) /\ Len(PacketOf(t, r)) = PacketWords
  BY <1>1, PacketIs
<1>4. rxq' \in Seq(Word) /\ Len(rxq') = Len(rxq) + PacketWords
  <2> DEFINE p == PacketOf(t, r)
  <2>1. p \in Seq(Word) /\ rxq \in Seq(Word)
    BY <1>3 DEF FifoInv
  <2> HIDE DEF p
  <2>2. rxq \o p \in Seq(Word) /\ Len(rxq \o p) = Len(rxq) + Len(p)
    BY <2>1, Concatenation
  <2> QED
    BY <1>2, <1>3, <2>2 DEF p
<1>5. FifoInv'
  BY <1>1, <1>4 DEF FifoInv, ReceivePcs, Word
<1>6. DrainInv'
  BY <1>1 DEF DrainInv
<1> QED
  BY <1>5, <1>6

LEMMA FifoKept ==
  ASSUME HostInv, RunsInv, DrainInv, FifoInv, [Next]_vars
  PROVE  DrainInv' /\ FifoInv'
<1>1. CASE FifoReads
  BY <1>1, DrainRound, WordIsRead, PacketIsShown DEF FifoReads
<1>2. CASE Die
  <2>1. pc' = "idle" /\ got' = <<>> /\ rxq' = rxq /\ drains' = 0 /\ occupancy' = 0
    BY <1>2 DEF Die, Return
  <2>2. PacketWords \in Nat \ {0} /\ Len(<<>>) = 0 /\ <<>> \in Seq(Word) /\ Word' = Word
    BY ManycoreBounds DEF Word
  <2>3. FifoInv'
    BY <2>1, <2>2 DEF FifoInv, ReceivePcs
  <2>4. DrainInv'
    BY <2>1, ManycoreBounds DEF DrainInv
  <2> QED
    BY <2>3, <2>4
<1>3. CASE \E t \in Tiles : Send(t)
  BY <1>3, PacketIsSent
<1>4. CASE ~FifoReads /\ ~Die /\ \A t \in Tiles : ~Send(t)
  BY <1>4, FifoFrames, FifoFrameKept
<1> QED
  BY <1>1, <1>2, <1>3, <1>4

LinkInv == EventsInv /\ RunsInv /\ PartsInv /\ DrainInv /\ FifoInv

LEMMA InitLinkInv == Init => LinkInv
<1> SUFFICES ASSUME Init PROVE LinkInv
  OBVIOUS
<1>1. /\ pc = "idle" /\ session = "none" /\ epoch = 0 /\ faults = 0 /\ mishaps = {}
      /\ posted = [n \in Nodes |-> <<>>] /\ runs = [t \in Tiles |-> 0]
      /\ mem = [n \in Nodes |-> [a \in Epas(n) |-> IF n \in Tiles /\ a = EPA_FREEZE THEN 1 ELSE Junk]]
  BY DEF Init, ManycoreInit
<1>2. EventsInv
  BY <1>1, ManycoreBounds DEF EventsInv, Quiet
<1>3. RunsInv
  <2>1. \A t \in Tiles : Frozen(t)
    BY <1>1, Addresses DEF Frozen
  <2> QED
    BY <1>1, <2>1, ManycoreBounds DEF RunsInv
<1>4. PartsInv
  BY DEF Init, ManycoreInit, LoaderInit, PartsInv, Pcs
<1> QED
  BY <1>2, <1>3, <1>4, InitFifoInv DEF LinkInv

LEMMA NextLinkInv == HostInv /\ MemoryInv /\ LinkInv /\ [Next]_vars => LinkInv'
BY EventsKept, RunsKept, PartsKept, FifoKept DEF LinkInv

THEOREM LinkInvariant == Spec => []LinkInv
BY InitLinkInv, NextLinkInv, HostInvariant, MemoryInvariant, PTL DEF Spec

\* Types and bounds: what is received fits into a packet and into the FIFO, walks through lists
\* start at their front, and each write under way is one to an address of its node.
THEOREM TypeCorrect == Spec => []TypeOK
<1>1. ASSUME HostInv, MemoryInv, LinkInv PROVE TypeOK
  <2>1. /\ {private_data, handle, mmio, dram_enabled} \subseteq BOOLEAN
        /\ attached \in Nat
    BY <1>1 DEF HostInv, BarInv, LinkInv, PartsInv
  <2>2. \A n \in Nodes : posted[n] \in Seq([to : {n}, epa : Epas(n), val : Nat])
    <3> TAKE n \in Nodes
    <3>1. posted[n] \in Seq(PacketTo(n))
      BY <1>1 DEF MemoryInv, MemInv
    <3> DEFINE S == [to : {n}, epa : Epas(n), val : Nat]
               P == PacketTo(n)
    <3>2. P \subseteq S
      BY DEF PacketTo
    <3>3. posted[n] \in Seq(P)
      BY <3>1
    <3> HIDE DEF S, P
    <3>4. posted[n] \in Seq(S)
      BY <3>2, <3>3
    <3> QED
      BY <3>4 DEF S
  <2>3. DOMAIN mem = Nodes /\ \A n \in Nodes : mem[n] \in [Epas(n) -> Nat]
    BY <1>1 DEF MemoryInv, MemInv
  <2>4. runs \in [Tiles -> 0 .. MaxEvents] /\ epoch \in 0 .. MaxEvents /\ faults \in 0 .. MaxEvents
    BY <1>1, ManycoreBounds DEF LinkInv, RunsInv, EventsInv
  <2>5. /\ responders \in Seq(Responders) /\ it \in Nat \ {0}
        /\ \A i, j \in DOMAIN responders : responders[i] = responders[j] => i = j
    BY <1>1 DEF HostInv, ListInv
  <2>6. got \in Seq(Word) /\ Len(got) <= PacketWords
    <3>1. got \in Seq(Word) /\ (Len(got) < PacketWords \/ Len(got) = PacketWords)
      BY <1>1 DEF LinkInv, FifoInv
    <3> QED
      BY <3>1, ManycoreBounds
  <2>7. rxq \in Seq(Word) /\ Len(rxq) <= RxCapacity * PacketWords
    BY <1>1 DEF LinkInv, FifoInv
  <2>8. drains \in 0 .. DrainRounds /\ occupancy \in 0 .. RxCapacity
    BY <1>1 DEF LinkInv, DrainInv
  <2>9. mesh \in Seq(Tiles) /\ seg \in Nat \ {0} /\ sym \in 0 .. Len(ConfigSymbols)
    BY <1>1 DEF MemoryInv, MeshInv, LoadInv
  <2> QED
    BY <1>1, <2>1, <2>2, <2>3, <2>4, <2>5, <2>6, <2>7, <2>8, <2>9 DEF TypeOK, LinkInv, PartsInv
<1> QED
  BY <1>1, HostInvariant, MemoryInvariant, LinkInvariant, PTL

-----------------------------------------------------------------------------
(* Packets in the FIFO.                                                    *)

\* A list of words that consists of whole packets.
Framed(s) ==
  /\ s # <<>> => s[1].word = 1 /\ s[Len(s)].word = PacketWords
  /\ \A j \in 1 .. Len(s) - 1 :
        IF s[j].word < PacketWords
        THEN s[j + 1] = [epoch |-> s[j].epoch, kind |-> s[j].kind, word |-> s[j].word + 1]
        ELSE s[j + 1].word = 1

LEMMA FirstPacket ==
  ASSUME NEW s \in Seq(Word), Framed(s), s # <<>>
  PROVE  \A i \in 1 .. PacketWords :
           i <= Len(s) /\ s[i] = [epoch |-> s[1].epoch, kind |-> s[1].kind, word |-> i]
<1> DEFINE e == s[1].epoch
           c == s[1].kind
           S == {k \in Nat : k + 1 <= PacketWords =>
                   k + 1 <= Len(s) /\ s[k + 1] = [epoch |-> e, kind |-> c, word |-> k + 1]}
<1>0. PacketWords \in Nat \ {0} /\ Len(s) \in Nat \ {0}
  BY ManycoreBounds
<1>1. 0 \in S
  <2>1. s[1] \in Word /\ s[1].word = 1
    BY <1>0 DEF Framed
  <2>2. s[1] = [epoch |-> e, kind |-> c, word |-> 1]
    BY <2>1 DEF Word
  <2> QED
    BY <1>0, <2>2
<1>2. ASSUME NEW k \in Nat, k \in S PROVE k + 1 \in S
  <2> SUFFICES ASSUME (k + 1) + 1 <= PacketWords
               PROVE  (k + 1) + 1 <= Len(s)
                      /\ s[(k + 1) + 1] = [epoch |-> e, kind |-> c, word |-> (k + 1) + 1]
    OBVIOUS
  <2>1. k + 1 <= Len(s) /\ s[k + 1] = [epoch |-> e, kind |-> c, word |-> k + 1]
    BY <1>0, <1>2
  <2>2. k + 1 # Len(s)
    BY <1>0, <2>1 DEF Framed
  <2>3. k + 1 \in 1 .. Len(s) - 1 /\ s[k + 1].word < PacketWords
    BY <1>0, <2>1, <2>2
  <2> HIDE DEF e, c
  <2> QED
    BY <1>0, <2>1, <2>3 DEF Framed
<1>3. Nat \subseteq S
  <2> HIDE DEF S
  <2> QED
    BY <1>1, <1>2, SetInduction
<1> HIDE DEF e, c
<1>4. \A i \in 1 .. PacketWords : i - 1 \in Nat /\ (i - 1) + 1 = i
  BY <1>0
<1>5. \A k \in Nat : k + 1 <= PacketWords =>
        k + 1 <= Len(s) /\ s[k + 1] = [epoch |-> e, kind |-> c, word |-> k + 1]
  BY <1>3
<1> HIDE DEF S
<1>6. \A i \in 1 .. PacketWords :
        i <= Len(s) /\ s[i] = [epoch |-> e, kind |-> c, word |-> i]
  <2> TAKE i \in 1 .. PacketWords
  <2>1. PICK k \in Nat : k + 1 = i /\ k + 1 <= PacketWords
    BY <1>0, <1>4
  <2> QED
    BY <1>5, <2>1
<1> QED
  BY <1>6 DEF e, c

\* Whole packets remain when the first is taken away.
LEMMA RestOfStream ==
  ASSUME NEW s \in Seq(Word), Framed(s), NEW r \in Seq(Word),
         Len(s) = PacketWords + Len(r), \A j \in 1 .. Len(r) : r[j] = s[PacketWords + j]
  PROVE  Framed(r)
<1> DEFINE w == PacketWords
           m == Len(r)
<1>0. w \in Nat \ {0} /\ m \in Nat /\ Len(s) = w + m /\ s # <<>>
  BY ManycoreBounds
<1>1. s[w].word = w
  <2>1. \A i \in 1 .. w : s[i] = [epoch |-> s[1].epoch, kind |-> s[1].kind, word |-> i]
    BY <1>0, FirstPacket
  <2>2. w \in 1 .. w
    BY <1>0
  <2>3. s[w] = [epoch |-> s[1].epoch, kind |-> s[1].kind, word |-> w]
    BY <2>1, <2>2
  <2> QED
    BY <2>3
<1> HIDE DEF m
<1>2. ASSUME r # <<>> PROVE r[1].word = 1 /\ r[m].word = w
  <2>1. m # 0
    BY <1>2 DEF m
  <2>2. w \in 1 .. Len(s) - 1 /\ r[1] = s[w + 1] /\ r[m] = s[Len(s)]
    BY <1>0, <2>1 DEF m
  <2>3. s[w + 1].word = 1
    <3>1. ~(s[w].word < w)
      BY <1>0, <1>1
    <3> QED
      BY <2>2, <3>1 DEF Framed
  <2> QED
    BY <1>0, <2>2, <2>3 DEF Framed
<1>3. ASSUME NEW j \in 1 .. m - 1
      PROVE  IF r[j].word < w
             THEN r[j + 1] = [epoch |-> r[j].epoch, kind |-> r[j].kind, word |-> r[j].word + 1]
             ELSE r[j + 1].word = 1
  <2>1. w + j \in 1 .. Len(s) - 1 /\ j \in 1 .. m /\ j + 1 \in 1 .. m
    BY <1>0
  <2>2. r[j] = s[w + j] /\ r[j + 1] = s[w + (j + 1)] /\ w + (j + 1) = (w + j) + 1
    BY <1>0, <2>1 DEF m
  <2> QED
    BY <2>1, <2>2 DEF Framed
<1> QED
  BY <1>2, <1>3 DEF Framed, m

LEMMA StreamAndPacket ==
  \A s, p \in Seq(Word) :
    /\ s \o p \in Seq(Word) /\ Len(s) \in Nat /\ Len(s \o p) = Len(s) + Len(p)
    /\ \A i \in 1 .. Len(s) : (s \o p)[i] = s[i]
    /\ \A i \in 1 .. Len(p) : (s \o p)[Len(s) + i] = p[i]
BY Concatenation

\* And when one is added.
LEMMA LongerStream ==
  ASSUME NEW s \in Seq(Word), Framed(s), NEW p \in Seq(Word), NEW e, NEW c,
         Len(p) = PacketWords,
         \A i \in 1 .. PacketWords : p[i] = [epoch |-> e, kind |-> c, word |-> i]
  PROVE  Framed(s \o p)
<1> DEFINE w == PacketWords
           n == Len(s)
           q == s \o p
<1>0. /\ w \in Nat \ {0} /\ n \in Nat
      /\ q \in Seq(Word) /\ Len(q) = n + w /\ q # <<>>
      /\ \A i \in 1 .. n : q[i] = s[i]
      /\ \A i \in 1 .. w : q[n + i] = [epoch |-> e, kind |-> c, word |-> i]
  <2>1. /\ q \in Seq(Word) /\ n \in Nat /\ Len(q) = n + Len(p)
        /\ \A i \in 1 .. n : q[i] = s[i]
        /\ \A i \in 1 .. Len(p) : q[n + i] = p[i]
    BY StreamAndPacket
  <2> HIDE DEF q, n
  <2>2. q # <<>>
    <3>1. Len(q) # 0
      BY <2>1, ManycoreBounds
    <3> QED
      BY <3>1
  <2> QED
    BY <2>1, <2>2, ManycoreBounds
<1> HIDE DEF q
<1>1. q[1].word = 1
  <2>1. CASE n = 0
    BY <1>0, <2>1
  <2>2. CASE n # 0
    BY <1>0, <2>2, SMTT(20) DEF Framed
  <2> QED
    BY <2>1, <2>2
<1>2. q[Len(q)].word = w
  <2>1. q[n + w] = [epoch |-> e, kind |-> c, word |-> w] /\ Len(q) = n + w
    <3>1. w \in 1 .. w
      BY <1>0
    <3> QED
      BY <1>0, <3>1
  <2> QED
    BY <2>1
<1>3. ASSUME NEW j \in 1 .. Len(q) - 1
      PROVE  IF q[j].word < w
             THEN q[j + 1] = [epoch |-> q[j].epoch, kind |-> q[j].kind, word |-> q[j].word + 1]
             ELSE q[j + 1].word = 1
  <2>1. CASE j < n
    <3>1. j \in 1 .. Len(s) - 1 /\ q[j] = s[j] /\ q[j + 1] = s[j + 1]
      BY <1>0, <2>1
    <3> QED
      BY <3>1 DEF Framed
  <2>2. CASE j = n
    <3>1. n \in 1 .. n /\ 1 \in 1 .. w /\ s # <<>>
      BY <1>0, <2>2
    <3>2. q[n] = s[n] /\ s[n].word = w
      BY <1>0, <3>1 DEF Framed
    <3>3. q[n + 1] = [epoch |-> e, kind |-> c, word |-> 1]
      BY <1>0, <3>1
    <3> QED
      BY <1>0, <2>2, <3>2, <3>3
  <2>3. CASE j > n
    <3>1. PICK i \in 1 .. w - 1 : j = n + i
      <4>1. j - n \in 1 .. w - 1 /\ j = n + (j - n)
        BY <1>0, <2>3
      <4> QED
        BY <4>1
    <3>2. q[j] = [epoch |-> e, kind |-> c, word |-> i] /\ j + 1 = n + (i + 1)
          /\ i \in 1 .. w /\ i + 1 \in 1 .. w
      BY <1>0, <3>1
    <3>3. q[j + 1] = [epoch |-> e, kind |-> c, word |-> i + 1]
      BY <1>0, <3>2
    <3> QED
      BY <1>0, <3>1, <3>2, <3>3
  <2> QED
    BY <1>0, <2>1, <2>2, <2>3
<1> QED
  BY <1>1, <1>2, <1>3 DEF Framed, q

\* From the drain of init to finish the FIFO holds packets of this session only.
Drained == session \in {"open", "loaded"} \/ pc \in {"responders_init", "enable_dram", "initialized"}

\* The words that the host has still to look at: of the packet it is receiving, and behind it.
Stream == got \o rxq
StreamInv ==
  mishaps = {} =>
    /\ Framed(Stream)
    /\ Drained => \A i \in 1 .. Len(Stream) : Stream[i].epoch = epoch

LEMMA DrainedKept ==
  ASSUME HostInv, [Next]_vars, ~DrainCheck, Drained'
  PROVE  Drained /\ epoch' = epoch
<1> USE DEF Drained, historyVars, deviceVars, drainVars
<1>1. CASE ManycoreStep /\ UNCHANGED <<loaderVars, deviceVars>>
  <2>1. CASE Attach \/ MapBar \/ InitConfig \/ RespondersInit \/ EnableDram
    BY <1>1, <2>1 DEF Attach, MapBar, InitConfig, RespondersInit, EnableDram, InitFails, StartDrain
  <2>2. CASE DrainOccupancy \/ DrainWord
    BY <1>1, <2>2 DEF DrainOccupancy, DrainWord, EndRound, DrainReturns, InitFails, StartDrain
  <2>3. CASE ReceiveWord \/ Respond \/ RespondersQuit \/ CleanupMmio
    BY <1>1, <2>3 DEF ReceiveWord, Respond, RespondersQuit, CleanupMmio, Return, StartDrain
  <2> QED
    BY <1>1, <2>1, <2>2, <2>3 DEF ManycoreStep
<1>2. CASE \/ LoaderStep /\ UNCHANGED deviceVars
           \/ ProgramFreeze \/ SetOriginRegisters \/ SetConfigSymbol \/ ConfigDone
           \/ SetKernelPointer \/ Unfreeze
  <2>1. pc \in LoadPcs
    BY <1>2 DEF LoaderStep, Fence, ElfValidate, TilesInitialize, ValidateVcache, LoadSegment,
       ZeroSegment, SegmentsDone, LoadIcache, IcachesDone, ProgramFreeze, SetOriginRegisters,
       SetConfigSymbol, ConfigDone, SetKernelPointer, Unfreeze, LoadPcs
  <2>2. session = "open"
    BY <2>1 DEF HostInv, PlaceInv
  <2>3. HostStep
    BY <1>2 DEF HostStep
  <2> QED
    BY <2>2, <2>3, StepFrames DEF StepFrame
<1>3. CASE MeshInit \/ FreeDevice
  BY <1>3 DEF MeshInit, FreeDevice, hostUnchanged
<1>4. CASE Call
  <2>1. CASE DeviceInit \/ DeviceFinish
    BY <2>1 DEF DeviceInit, StartInit, DeviceFinish, StartExit
  <2>2. CASE ProgramInit \/ RequestRx
    BY <2>2 DEF ProgramInit, RequestRx, hostUnchanged
  <2>3. CASE ProgramCalls
    BY <2>3 DEF ProgramCalls, ResponderAdd, ResponderDel, DisableDram
  <2> QED
    BY <1>4, <2>1, <2>2, <2>3 DEF Call
<1>5. CASE Die
  BY <1>5 DEF Die, Return
<1>6. CASE (\E n \in Nodes : Delivery(n)) \/ (\E t \in Tiles : TileStep(t)) \/ UNCHANGED vars
  BY <1>6 DEF Delivery, Deliver, TileStep, Store, Send, hostUnchanged, vars, manycoreVars
<1> QED
  BY <1>1, <1>2, <1>3, <1>4, <1>5, <1>6 DEF Next, HostStep

\* mishaps are not forgotten.
LEMMA MishapsKept == [Next]_vars => mishaps \subseteq mishaps'
<1> SUFFICES ASSUME [Next]_vars PROVE mishaps \subseteq mishaps'
  OBVIOUS
<1>1. CASE HostStep
  BY <1>1, StepFrames DEF StepFrame
<1>2. CASE Call
  BY <1>2 DEF Call, DeviceInit, ProgramInit, RequestRx, ProgramCalls, ResponderAdd, ResponderDel,
     DisableDram, DeviceFinish, programUnchanged, hostUnchanged, historyVars
<1>3. CASE Die
  BY <1>3 DEF Die
<1>4. CASE (\E n \in Nodes : Delivery(n)) \/ (\E t \in Tiles : TileStep(t)) \/ UNCHANGED vars
  BY <1>4 DEF Delivery, Deliver, TileStep, Store, Send, hostUnchanged, vars, manycoreVars,
     historyVars
<1> QED
  BY <1>1, <1>2, <1>3, <1>4 DEF Next

\* The stream stays as it is, or loses words at its front.
LEMMA StreamShrinks ==
  ASSUME StreamInv, got \in Seq(Word), rxq \in Seq(Word), got' \in Seq(Word), rxq' \in Seq(Word),
         mishaps \subseteq mishaps', Drained' => Drained /\ epoch' = epoch,
         NEW k \in {0, PacketWords}, Len(Stream) = k + Len(Stream'),
         \A i \in 1 .. Len(Stream') : Stream'[i] = Stream[k + i]
  PROVE  StreamInv'
<1> SUFFICES ASSUME mishaps' = {}
             PROVE  /\ Framed(Stream)'
                    /\ Drained' => \A i \in 1 .. Len(Stream') : Stream'[i].epoch = epoch'
  BY DEF StreamInv
<1> DEFINE s == Stream
           r == Stream'
<1>1. s \in Seq(Word) /\ r \in Seq(Word) /\ Len(s) \in Nat /\ Len(r) \in Nat
  BY StreamAndPacket DEF Stream
<1>2. Framed(s) /\ (Drained => \A i \in 1 .. Len(s) : s[i].epoch = epoch)
  BY DEF StreamInv
<1>3. Framed(Stream)' <=> Framed(r)
  BY DEF Framed
<1>4. Len(s) = k + Len(r) /\ \A i \in 1 .. Len(r) : r[i] = s[k + i]
  OBVIOUS
<1> HIDE DEF s, r
<1>5. Framed(r)
  <2>1. CASE k = PacketWords
    BY <1>1, <1>2, <1>4, <2>1, RestOfStream
  <2>2. CASE k = 0
    <3>1. Len(r) = Len(s) /\ \A i \in 1 .. Len(r) : r[i] = s[i]
      BY <1>1, <1>4, <2>2
    <3>2. r # <<>> => s # <<>> /\ 1 \in 1 .. Len(r) /\ Len(r) \in 1 .. Len(r)
      BY <1>1, <3>1
    <3>3. \A j \in 1 .. Len(r) - 1 : j \in 1 .. Len(r) /\ j + 1 \in 1 .. Len(r)
      BY <1>1
    <3> QED
      BY <1>2, <3>1, <3>2, <3>3 DEF Framed
  <2> QED
    BY <2>1, <2>2
<1>6. ASSUME Drained' PROVE \A i \in 1 .. Len(r) : r[i].epoch = epoch'
  <2> TAKE i \in 1 .. Len(r)
  <2>1. k \in Nat
    BY ManycoreBounds
  <2>2. k + i \in 1 .. Len(s)
    BY <1>1, <1>4, <2>1
  <2> QED
    BY <1>2, <1>4, <1>6, <2>2
<1> QED
  BY <1>3, <1>5, <1>6 DEF r

\* A word goes from the FIFO to the packet that is being received, or ends it.
LEMMA WordMoves ==
  ASSUME NEW a \in Seq(Word), NEW b \in Seq(Word), b # <<>>
  PROVE  /\ Len(Append(a, Head(b)) \o Tail(b)) = Len(a \o b)
         /\ \A i \in 1 .. Len(a \o b) : (Append(a, Head(b)) \o Tail(b))[i] = (a \o b)[i]
         /\ Len(a \o b) = (Len(a) + 1) + Len(<<>> \o Tail(b))
         /\ \A i \in 1 .. Len(<<>> \o Tail(b)) : (<<>> \o Tail(b))[i] = (a \o b)[(Len(a) + 1) + i]
<1> DEFINE h == Append(a, Head(b))
           t == Tail(b)
           m == Len(a)
           n == Len(t)
           q == a \o b
           r == h \o t
           e == <<>> \o t
<1>1. /\ m \in Nat /\ n \in Nat /\ Len(b) = n + 1 /\ t \in Seq(Word) /\ Head(b) \in Word
      /\ \A i \in 1 .. n : t[i] = b[i + 1]
      /\ Head(b) = b[1]
  OBVIOUS
<1>2. /\ h \in Seq(Word) /\ Len(h) = m + 1 /\ h[m + 1] = b[1]
      /\ \A i \in 1 .. m : h[i] = a[i]
  BY <1>1
<1> HIDE DEF h, t
<1>3. /\ Len(q) = m + Len(b)
      /\ \A i \in 1 .. m : q[i] = a[i]
      /\ \A i \in 1 .. Len(b) : q[m + i] = b[i]
  BY StreamAndPacket
<1>4. /\ Len(r) = Len(h) + n
      /\ \A i \in 1 .. Len(h) : r[i] = h[i]
      /\ \A i \in 1 .. n : r[Len(h) + i] = t[i]
  BY <1>1, <1>2, StreamAndPacket
<1>5. Len(e) = n /\ \A i \in 1 .. n : e[i] = t[i]
  <2>1. <<>> \in Seq(Word) /\ Len(<<>>) = 0 /\ t \in Seq(Word)
    BY <1>1
  <2>2. /\ Len(<<>> \o t) = Len(<<>>) + Len(t)
        /\ \A i \in 1 .. Len(t) : (<<>> \o t)[Len(<<>>) + i] = t[i]
    BY <2>1, StreamAndPacket
  <2>3. \A i \in 1 .. n : 0 + i = i
    OBVIOUS
  <2> QED
    BY <1>1, <2>1, <2>2, <2>3
<1> HIDE DEF q, r, e, m, n
<1>6. \A i \in 1 .. m + (n + 1) : r[i] = q[i]
  <2> TAKE i \in 1 .. m + (n + 1)
  <2>1. CASE i <= m
    <3>1. i \in 1 .. m /\ i \in 1 .. m + 1
      BY <1>1, <2>1
    <3> QED
      BY <1>2, <1>3, <1>4, <3>1
  <2>2. CASE i = m + 1
    <3>1. r[m + 1] = h[m + 1]
      BY <1>1, <1>2, <1>4
    <3>2. q[m + 1] = b[1]
      BY <1>1, <1>3
    <3> QED
      BY <1>2, <2>2, <3>1, <3>2
  <2>3. CASE i > m + 1
    <3>1. PICK j \in 1 .. n : i = (m + 1) + j
      <4>1. i - (m + 1) \in 1 .. n /\ i = (m + 1) + (i - (m + 1))
        BY <1>1, <2>3
      <4> QED
        BY <4>1
    <3>2. r[i] = t[j]
      BY <1>2, <1>4, <3>1
    <3>3. j + 1 \in 1 .. Len(b) /\ i = m + (j + 1)
      BY <1>1, <3>1
    <3>4. q[i] = b[j + 1]
      BY <1>3, <3>3
    <3> QED
      BY <1>1, <3>2, <3>4
  <2> QED
    BY <1>1, <2>1, <2>2, <2>3
<1>7. \A i \in 1 .. n : e[i] = q[(m + 1) + i]
  <2> TAKE i \in 1 .. n
  <2>1. i + 1 \in 1 .. Len(b) /\ (m + 1) + i = m + (i + 1)
    BY <1>1
  <2>2. q[m + (i + 1)] = b[i + 1]
    BY <1>3, <2>1
  <2> QED
    BY <1>1, <1>5, <2>1, <2>2
<1>8. Len(q) = m + (n + 1) /\ Len(r) = m + (n + 1) /\ Len(q) = (m + 1) + n
  BY <1>1, <1>2, <1>3, <1>4
<1> QED
  BY <1>5, <1>6, <1>7, <1>8 DEF q, r, e, h, t, m, n

\* A packet that has been looked at is forgotten.
LEMMA PacketEnds ==
  ASSUME NEW a \in Seq(Word), NEW b \in Seq(Word)
  PROVE  /\ Len(a \o b) = Len(a) + Len(<<>> \o b)
         /\ \A i \in 1 .. Len(<<>> \o b) : (<<>> \o b)[i] = (a \o b)[Len(a) + i]
<1>1. <<>> \in Seq(Word) /\ Len(<<>>) = 0
  OBVIOUS
<1>2. /\ Len(<<>> \o b) = Len(<<>>) + Len(b)
      /\ \A i \in 1 .. Len(b) : (<<>> \o b)[Len(<<>>) + i] = b[i]
  BY <1>1, StreamAndPacket
<1>3. /\ Len(a \o b) = Len(a) + Len(b) /\ Len(b) \in Nat
      /\ \A i \in 1 .. Len(b) : (a \o b)[Len(a) + i] = b[i]
  BY StreamAndPacket
<1>4. \A i \in 1 .. Len(b) : 0 + i = i
  OBVIOUS
<1> QED
  BY <1>1, <1>2, <1>3, <1>4

LEMMA StreamKept ==
  ASSUME HostInv, LinkInv, LinkInv', StreamInv, [Next]_vars
  PROVE  StreamInv'
<1>0. /\ got \in Seq(Word) /\ rxq \in Seq(Word) /\ got' \in Seq(Word) /\ rxq' \in Seq(Word)
      /\ mishaps \subseteq mishaps' /\ PacketWords \in Nat \ {0}
      /\ Len(got) \in Nat /\ Len(rxq) \in Nat /\ Len(Stream) \in Nat
  <2>1. got \in Seq(Word) /\ rxq \in Seq(Word) /\ got' \in Seq(Word) /\ rxq' \in Seq(Word)
    BY DEF LinkInv, FifoInv, Word
  <2> QED
    BY <2>1, MishapsKept, ManycoreBounds, StreamAndPacket DEF Stream
<1>1. ~DrainCheck => (Drained' => Drained /\ epoch' = epoch)
  BY DrainedKept
<1>2. ASSUME UNCHANGED <<got, rxq>>, Drained' => Drained /\ epoch' = epoch PROVE StreamInv'
  <2>1. Stream' = Stream
    BY <1>2 DEF Stream
  <2>2. Len(Stream) = 0 + Len(Stream') /\ \A i \in 1 .. Len(Stream') : Stream'[i] = Stream[0 + i]
    BY <1>0, <2>1
  <2> QED
    BY <1>0, <1>2, <2>2, StreamShrinks
<1>3. CASE DrainCheck
  <2>1. /\ pc = "drain_check" /\ UNCHANGED <<got, rxq, session, epoch, mishaps>>
        /\ pc' = "responders_init" => Packets = 0
        /\ pc' \in {"cleanup", "responders_init", "drain"}
    <3>1. pc = "drain_check" /\ pc' \in {"cleanup", "responders_init", "drain"}
          /\ (pc' = "responders_init" => Packets = 0)
      BY <1>3 DEF DrainCheck, DrainReturns, InitFails, StartDrain
    <3>2. UNCHANGED session
      BY <1>3, <3>1 DEF Next, HostStep, Call, Die, Delivery, TileStep, Store, Send, Deliver,
         hostUnchanged, deviceVars, vars, MeshInit, FreeDevice, Unfreeze, ProgramFreeze,
         SetOriginRegisters, SetConfigSymbol, ConfigDone, SetKernelPointer, DeviceInit,
         ProgramInit, RequestRx, ProgramCalls, DeviceFinish, Return
    <3> QED
      BY <1>3, <3>1, <3>2 DEF DrainCheck, fifoVars, historyVars
  <2>2. CASE Drained' => Drained
    BY <1>2, <2>1, <2>2
  <2>3. CASE Drained' /\ ~Drained
    <3>1. got = <<>> /\ Len(rxq) < PacketWords
      <4>1. pc' = "responders_init"
        BY <2>1, <2>3 DEF Drained
      <4> QED
        BY <2>1, <4>1, PacketsIn DEF LinkInv, FifoInv, ReceivePcs
    <3>2. ASSUME mishaps = {} PROVE Framed(Stream) /\ Len(Stream) = 0
      <4>1. Framed(Stream) /\ Stream \in Seq(Word)
        BY <1>0, <3>2, StreamAndPacket DEF StreamInv, Stream
      <4>2. Len(Stream) < PacketWords
        BY <1>0, <3>1, StreamAndPacket DEF Stream
      <4> DEFINE s == Stream
      <4>3. s \in Seq(Word) /\ Framed(s) /\ Len(s) < PacketWords
        BY <4>1, <4>2
      <4> HIDE DEF s
      <4>4. s = <<>>
        <5> SUFFICES ASSUME s # <<>> PROVE FALSE
          OBVIOUS
        <5>1. PacketWords \in 1 .. PacketWords /\ Len(s) \in Nat
          BY <1>0, <4>3
        <5>2. PacketWords <= Len(s)
          BY <4>3, <5>1, FirstPacket
        <5> QED
          BY <1>0, <4>3, <5>1, <5>2
      <4>5. Len(s) = 0
        BY <4>4
      <4> QED
        BY <4>1, <4>5 DEF s
    <3>3. Stream' = Stream
      BY <2>1 DEF Stream
    <3> QED
      BY <2>1, <3>2, <3>3 DEF StreamInv, Framed
  <2> QED
    BY <2>2, <2>3
<1>4. CASE DrainWord \/ ReceiveWord
  <2>1. Drained' => Drained /\ epoch' = epoch
    BY <1>1, <1>4 DEF DrainWord, ReceiveWord, DrainCheck
  <2>2. \/ rxq # <<>> /\ got' = Append(got, Head(rxq)) /\ rxq' = Tail(rxq)
        \/ rxq # <<>> /\ got' = <<>> /\ rxq' = Tail(rxq) /\ ~(Len(got) + 1 < PacketWords)
        \/ got' = <<>> /\ rxq' = rxq /\ (got = <<>> \/ mishaps' # {})
    BY <1>4 DEF DrainWord, ReceiveWord, ReadWord, Torn
  <2>3. CASE rxq # <<>> /\ got' = Append(got, Head(rxq)) /\ rxq' = Tail(rxq)
    <3>1. Stream' = Append(got, Head(rxq)) \o Tail(rxq)
      BY <2>3 DEF Stream
    <3>2. Len(Stream') = Len(Stream) /\ \A i \in 1 .. Len(Stream) : Stream'[i] = Stream[i]
      BY <1>0, <2>3, <3>1, WordMoves DEF Stream
    <3>3. Len(Stream) = 0 + Len(Stream') /\ \A i \in 1 .. Len(Stream') : Stream'[i] = Stream[0 + i]
      BY <1>0, <3>2
    <3> QED
      BY <1>0, <2>1, <3>3, StreamShrinks
  <2>4. CASE /\ rxq # <<>> /\ got' = <<>> /\ rxq' = Tail(rxq)
             /\ ~(Len(got) + 1 < PacketWords)
    <3>1. Len(got) + 1 = PacketWords
      <4>1. pc = "drain_packet" \/ pc = "rx"
        BY <1>4 DEF DrainWord, ReceiveWord
      <4>2. Len(got) < PacketWords
        BY <4>1 DEF LinkInv, FifoInv
      <4> QED
        BY <1>0, <2>4, <4>2
    <3>2. Stream' = <<>> \o Tail(rxq)
      BY <2>4 DEF Stream
    <3>3. /\ Len(Stream) = PacketWords + Len(Stream')
          /\ \A i \in 1 .. Len(Stream') : Stream'[i] = Stream[PacketWords + i]
      <4>1. /\ Len(Stream) = (Len(got) + 1) + Len(<<>> \o Tail(rxq))
            /\ \A i \in 1 .. Len(<<>> \o Tail(rxq)) :
                  (<<>> \o Tail(rxq))[i] = Stream[(Len(got) + 1) + i]
        BY <1>0, <2>4, WordMoves DEF Stream
      <4> QED
        BY <3>1, <3>2, <4>1
    <3> QED
      BY <1>0, <2>1, <3>3, StreamShrinks
  <2>5. CASE got' = <<>> /\ rxq' = rxq /\ got = <<>>
    BY <1>2, <2>1, <2>5
  <2>6. CASE mishaps' # {}
    BY <2>6 DEF StreamInv
  <2> QED
    BY <2>2, <2>3, <2>4, <2>5, <2>6
<1>5. CASE Respond
  <2>1. Drained' => Drained /\ epoch' = epoch
    BY <1>1, <1>5 DEF Respond, DrainCheck
  <2>2. pc = "respond" /\ rxq' = rxq /\ (got' = got \/ got' = <<>>)
    BY <1>5 DEF Respond
  <2>3. CASE got' = <<>>
    <3>1. Len(got) = PacketWords
      BY <2>2 DEF LinkInv, FifoInv
    <3>2. Stream' = <<>> \o rxq
      BY <2>2, <2>3 DEF Stream
    <3>3. /\ Len(Stream) = PacketWords + Len(Stream')
          /\ \A i \in 1 .. Len(Stream') : Stream'[i] = Stream[PacketWords + i]
      <4>1. /\ Len(got \o rxq) = Len(got) + Len(<<>> \o rxq)
            /\ \A i \in 1 .. Len(<<>> \o rxq) : (<<>> \o rxq)[i] = (got \o rxq)[Len(got) + i]
        BY <1>0, PacketEnds
      <4> QED
        BY <3>1, <3>2, <4>1 DEF Stream
    <3> QED
      BY <1>0, <2>1, <3>3, StreamShrinks
  <2> QED
    BY <1>2, <2>1, <2>2, <2>3
<1>6. ASSUME NEW t \in Tiles, Send(t) PROVE StreamInv'
  <2>1. ~Frozen(t) /\ UNCHANGED <<pc, got, mishaps, epoch>>
    BY <1>6 DEF Send, historyVars
  <2>2. PICK r \in Responders : rxq' = rxq \o PacketOf(t, r)
    BY <1>6 DEF Send
  <2> DEFINE p == PacketOf(t, r)
             s == Stream
  <2>3. /\ p \in Seq(Word) /\ Len(p) = PacketWords
        /\ \A i \in 1 .. PacketWords : p[i] = [epoch |-> runs[t], kind |-> r, word |-> i]
    BY <2>1, PacketIs DEF LinkInv
  <2>4. Stream' = got \o (rxq \o p)
    BY <2>1, <2>2 DEF Stream
  <2> HIDE DEF p
  <2>5. Stream' = s \o p
    <3>1. got \o (rxq \o p) = (got \o rxq) \o p
      BY <1>0, <2>3
    <3> QED
      BY <2>4, <3>1 DEF Stream
  <2>6. s \in Seq(Word)
    BY <1>0, StreamAndPacket DEF Stream
  <2>7. StreamInv' <=> (mishaps' = {} =>
                          /\ Framed(Stream')
                          /\ Drained' => \A i \in 1 .. Len(Stream') : Stream'[i].epoch = epoch')
    BY DEF StreamInv, Framed
  <2> SUFFICES ASSUME mishaps = {}
               PROVE  /\ Framed(s \o p)
                      /\ Drained' => \A i \in 1 .. Len(s \o p) : (s \o p)[i].epoch = epoch
    BY <2>1, <2>5, <2>7
  <2>8. Framed(s) /\ (Drained => \A i \in 1 .. Len(s) : s[i].epoch = epoch)
    BY DEF StreamInv
  <2> HIDE DEF s
  <2>9. Framed(s \o p)
    BY <2>3, <2>6, <2>8, LongerStream
  <2>10. ASSUME Drained', NEW i \in 1 .. Len(s \o p) PROVE (s \o p)[i].epoch = epoch
    <3>1. runs[t] = epoch
      BY <2>1 DEF LinkInv, RunsInv
    <3>2. Drained
      <4>1. ~DrainCheck
        BY <2>1 DEF DrainCheck, DrainReturns, InitFails, StartDrain
      <4> QED
        BY <1>1, <2>10, <4>1
    <3>3. /\ Len(s) \in Nat /\ Len(s \o p) = Len(s) + PacketWords
          /\ \A j \in 1 .. Len(s) : (s \o p)[j] = s[j]
          /\ \A j \in 1 .. PacketWords : (s \o p)[Len(s) + j] = p[j]
      BY <2>3, <2>6, StreamAndPacket
    <3>4. CASE i <= Len(s)
      <4>1. i \in 1 .. Len(s)
        BY <3>3, <3>4
      <4> QED
        BY <2>8, <3>2, <3>3, <4>1
    <3>5. CASE i > Len(s)
      <4>1. i - Len(s) \in 1 .. PacketWords /\ i = Len(s) + (i - Len(s))
        BY <1>0, <3>3, <3>5
      <4>2. PICK j \in 1 .. PacketWords : i = Len(s) + j
        BY <4>1
      <4> QED
        BY <2>3, <3>1, <3>3, <4>2
    <3> QED
      BY <3>3, <3>4, <3>5
  <2> QED
    BY <2>9, <2>10
<1>7. CASE Die
  BY <1>7 DEF Die, StreamInv
<1>8. CASE DrainOccupancy
  BY <1>1, <1>2, <1>8 DEF DrainOccupancy, DrainCheck, fifoVars
<1>9. CASE ~FifoReads /\ ~Die /\ ~DrainCheck /\ \A t \in Tiles : ~Send(t)
  BY <1>1, <1>2, <1>9, FifoFrames DEF FifoFrame
<1> QED
  BY <1>3, <1>4, <1>5, <1>6, <1>7, <1>8, <1>9 DEF FifoReads

LEMMA InitStreamInv == Init => StreamInv
<1> SUFFICES ASSUME Init PROVE StreamInv
  OBVIOUS
<1>1. got = <<>> /\ rxq = <<>>
  BY DEF Init, ManycoreInit
<1>2. Stream = <<>> /\ Len(<<>>) = 0
  BY <1>1 DEF Stream
<1>3. 1 .. 0 - 1 = {} /\ 1 .. 0 = {}
  OBVIOUS
<1> QED
  BY <1>2, <1>3 DEF StreamInv, Framed

\* What responders see of the FIFO are whole packets that tiles sent in this session, unless a
\* process was killed or a receive failed in the middle of a packet: packets enter whole and are
\* read whole, init drains until none is left, and tiles were stopped before that.
THEOREM PacketsAreOwn == Spec => []OwnPackets
<1>1. ASSUME HostInv, LinkInv, StreamInv PROVE OwnPackets
  <2> SUFFICES ASSUME pc = "respond", mishaps = {}
               PROVE  \A i \in 1 .. PacketWords :
                        got[i] = [epoch |-> epoch, kind |-> got[1].kind, word |-> i]
    BY DEF OwnPackets
  <2>1. /\ got \in Seq(Word) /\ rxq \in Seq(Word) /\ Len(got) = PacketWords
        /\ session = "loaded" /\ PacketWords \in Nat \ {0}
    BY <1>1, ManycoreBounds DEF LinkInv, FifoInv, HostInv, PlaceInv
  <2> DEFINE s == Stream
  <2>2. /\ s \in Seq(Word) /\ Len(s) = PacketWords + Len(rxq) /\ Len(rxq) \in Nat
        /\ \A i \in 1 .. PacketWords : s[i] = got[i]
    BY <2>1, StreamAndPacket DEF Stream
  <2>3. Framed(s) /\ \A i \in 1 .. Len(s) : s[i].epoch = epoch
    BY <1>1, <2>1 DEF StreamInv, Drained
  <2> HIDE DEF s
  <2>4. s # <<>> /\ 1 \in 1 .. PacketWords /\ 1 \in 1 .. Len(s)
    <3>1. Len(s) # 0 /\ 1 \in 1 .. PacketWords /\ 1 \in 1 .. Len(s)
      BY <2>1, <2>2
    <3> QED
      BY <3>1
  <2>5. s[1].epoch = epoch /\ s[1] = got[1]
    BY <2>2, <2>3, <2>4
  <2>6. \A i \in 1 .. PacketWords :
           s[i] = [epoch |-> s[1].epoch, kind |-> s[1].kind, word |-> i]
    BY <2>2, <2>3, <2>4, FirstPacket
  <2> QED
    BY <2>2, <2>5, <2>6
<1>2. HostInv /\ LinkInv /\ StreamInv /\ LinkInv' /\ [Next]_vars => StreamInv'
  BY StreamKept
<1> QED
  BY <1>1, <1>2, InitStreamInv, HostInvariant, LinkInvariant, PTL DEF Spec
=============================================================================
