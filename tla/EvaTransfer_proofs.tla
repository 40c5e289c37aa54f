------------------------- MODULE EvaTransfer_proofs -------------------------
(***************************************************************************)
(* Theorems about the EVA map and the transfers that use it, for every     *)
(* number of columns and rows, every width of the fields of an EVA, every  *)
(* stripe and cache size, and any set of calls.                            *)
(***************************************************************************)
EXTENDS EvaTransfer, WellFoundedInduction, TLAPS

-----------------------------------------------------------------------------
(* Powers of two.                                                          *)

\* Induction over the numbers in a set.
LEMMA SetInduction ==
  ASSUME NEW S, 0 \in S, \A n \in Nat : n \in S => n + 1 \in S
  PROVE  Nat \subseteq S
<1> DEFINE R == OpToRel(<, Nat)
           T == Nat \ S
<1>1. IsWellFoundedOn(R, Nat)
  BY NatLessThanWellFounded
<1>2. \A a, b \in Nat : a < b => <<a, b>> \in R
  BY DEF OpToRel
<1> HIDE DEF R
<1>3. SUFFICES ASSUME T # {} PROVE FALSE
  OBVIOUS
<1>4. PICK m \in T : \A y \in T : ~ (<<y, m>> \in R)
  BY <1>1, <1>3, WFMin
<1>5. m - 1 \in Nat /\ m - 1 < m
  OBVIOUS
<1>6. m - 1 \in S
  BY <1>2, <1>4, <1>5
<1> QED
  BY <1>5, <1>6

\* f has the first n + 1 powers of two.
Doubles(f, n) ==
  f \in [0 .. n -> Nat] /\ f[0] = 1 /\ \A i \in 0 .. n - 1 : f[i + 1] = 2 * f[i]

LEMMA DoublesExist ==
  ASSUME NEW n \in Nat
  PROVE  \E f : Doubles(f, n)
<1> DEFINE S == {k \in Nat : \E f : Doubles(f, k)}
<1>1. 0 \in S
  <2>1. Doubles([i \in 0 .. 0 |-> 1], 0)
    BY DEF Doubles
  <2> QED
    BY <2>1
<1>2. ASSUME NEW k \in Nat, k \in S PROVE k + 1 \in S
  <2>1. PICK f : Doubles(f, k)
    BY <1>2
  <2> DEFINE h == [i \in 0 .. k + 1 |-> IF i = k + 1 THEN 2 * f[k] ELSE f[i]]
  <2>2. \A i \in 0 .. k : f[i] \in Nat
    BY <2>1 DEF Doubles
  <2>3. h \in [0 .. k + 1 -> Nat]
    BY <2>2
  <2>4. h[0] = 1
    BY <2>1 DEF Doubles
  <2>5. ASSUME NEW i \in 0 .. k PROVE h[i + 1] = 2 * h[i]
    <3>1. CASE i = k
      BY <3>1
    <3>2. CASE i # k
      <4>1. i \in 0 .. k - 1 /\ i + 1 \in 0 .. k + 1 /\ i + 1 # k + 1
        BY <3>2
      <4> QED
        BY <2>1, <4>1 DEF Doubles
    <3> QED
      BY <3>1, <3>2
  <2> HIDE DEF h
  <2>6. Doubles(h, k + 1)
    BY <2>3, <2>4, <2>5 DEF Doubles
  <2> QED
    BY <2>6
<1> HIDE DEF S
<1>3. n \in S
  BY <1>1, <1>2, SetInduction
<1> QED
  BY <1>3 DEF S

LEMMA DoublesAgree ==
  ASSUME NEW m \in Nat, NEW n \in Nat, NEW f, NEW g, Doubles(f, m), Doubles(g, n)
  PROVE  \A i \in Nat : i <= m /\ i <= n => f[i] = g[i]
<1> DEFINE S == {i \in Nat : i <= m /\ i <= n => f[i] = g[i]}
<1>1. 0 \in S
  BY DEF Doubles
<1>2. ASSUME NEW k \in Nat, k \in S PROVE k + 1 \in S
  <2> SUFFICES ASSUME k + 1 <= m, k + 1 <= n PROVE f[k + 1] = g[k + 1]
    OBVIOUS
  <2>1. k \in 0 .. m - 1 /\ k \in 0 .. n - 1 /\ f[k] = g[k]
    BY <1>2
  <2> QED
    BY <2>1 DEF Doubles
<1> HIDE DEF S
<1>3. Nat \subseteq S
  BY <1>1, <1>2, SetInduction
<1> QED
  BY <1>3 DEF S

\* pow2 is what its recursive definition says.
LEMMA Pow2Is ==
  /\ pow2 \in [Nat -> Nat \ {0}]
  /\ pow2[0] = 1
  /\ \A k \in Nat : pow2[k + 1] = 2 * pow2[k]
<1> DEFINE Is(p) == p = [k \in Nat |-> IF k = 0 THEN 1 ELSE 2 * p[k - 1]]
           First(n) == CHOOSE f : Doubles(f, n)
           q == [n \in Nat |-> First(n)[n]]
<1>1. \A n \in Nat : Doubles(First(n), n)
  BY DoublesExist
<1> HIDE DEF First
<1>2. q[0] = 1
  BY <1>1 DEF Doubles
<1>3. ASSUME NEW k \in Nat PROVE q[k + 1] = 2 * q[k]
  <2>1. First(k + 1)[k] = First(k)[k]
    BY <1>1, DoublesAgree
  <2>2. First(k + 1)[k + 1] = 2 * First(k + 1)[k]
    BY <1>1 DEF Doubles
  <2> QED
    BY <2>1, <2>2
<1>4. Is(q)
  <2>1. \A k \in Nat : q[k] = IF k = 0 THEN 1 ELSE 2 * q[k - 1]
    <3> TAKE k \in Nat
    <3>1. CASE k # 0
      <4>1. k - 1 \in Nat /\ (k - 1) + 1 = k
        BY <3>1
      <4> HIDE DEF q
      <4> QED
        BY <1>3, <3>1, <4>1
    <3> QED
      BY <1>2, <3>1
  <2> QED
    BY <2>1
<1>5. Is(pow2)
  <2> HIDE DEF q, Is
  <2>1. pow2 = CHOOSE p : Is(p)
    BY DEF pow2, Is
  <2> QED
    BY <1>4, <2>1
<1>6. \A k \in Nat : pow2[k] = IF k = 0 THEN 1 ELSE 2 * pow2[k - 1]
  <2> HIDE DEF pow2
  <2> QED
    BY <1>5
<1>7. pow2[0] = 1 /\ \A k \in Nat : pow2[k + 1] = 2 * pow2[k]
  BY <1>6
<1> DEFINE S == {k \in Nat : pow2[k] \in Nat \ {0}}
<1>8. 0 \in S /\ \A k \in Nat : k \in S => k + 1 \in S
  BY <1>7
<1> HIDE DEF S
<1>9. Nat \subseteq S
  BY <1>8, SetInduction
<1>10. \A k \in Nat : pow2[k] \in Nat \ {0}
  BY <1>9 DEF S
<1>11. pow2 = [k \in Nat |-> pow2[k]]
  <2>1. pow2 = [k \in Nat |-> IF k = 0 THEN 1 ELSE 2 * pow2[k - 1]]
    BY <1>5
  <2> HIDE DEF pow2
  <2> QED
    BY <2>1
<1> HIDE DEF pow2
<1> QED
  BY <1>7, <1>10, <1>11

\* Shifting by a sum is shifting twice.
LEMMA Pow2Sum ==
  ASSUME NEW j \in Nat, NEW k \in Nat
  PROVE  pow2[j + k] = pow2[j] * pow2[k]
<1> DEFINE S == {i \in Nat : pow2[j + i] = pow2[j] * pow2[i]}
<1> USE Pow2Is
<1> HIDE DEF pow2
<1>1. 0 \in S
  OBVIOUS
<1>2. ASSUME NEW i \in Nat, i \in S PROVE i + 1 \in S
  <2>1. pow2[j + (i + 1)] = 2 * pow2[j + i]
    <3>1. j + (i + 1) = (j + i) + 1 /\ j + i \in Nat
      OBVIOUS
    <3> QED
      BY <3>1
  <2>2. pow2[i + 1] = 2 * pow2[i]
    OBVIOUS
  <2>3. pow2[j] * (2 * pow2[i]) = 2 * (pow2[j] * pow2[i])
    OBVIOUS
  <2> QED
    BY <1>2, <2>1, <2>2, <2>3
<1> HIDE DEF S
<1>3. Nat \subseteq S
  BY <1>1, <1>2, SetInduction
<1> QED
  BY <1>3 DEF S

-----------------------------------------------------------------------------
(* Division.                                                               *)

LEMMA Division ==
  ASSUME NEW m \in Nat \ {0}, NEW n \in Nat
  PROVE  /\ n % m \in 0 .. m - 1 /\ n \div m \in Nat
         /\ n = m * (n \div m) + (n % m)
<1>1. n % m \in 0 .. m - 1
  OBVIOUS
<1>2. n \div m \in Nat
  OBVIOUS
<1>3. n = m * (n \div m) + (n % m)
  OBVIOUS
<1> QED
  BY <1>1, <1>2, <1>3

LEMMA ProductOrder ==
  ASSUME NEW m \in Nat \ {0}, NEW b \in Nat, NEW c \in Nat, b < c
  PROVE  m * b + m <= m * c
<1>1. c - b - 1 \in Nat
  OBVIOUS
<1> DEFINE d == c - b - 1
<1>2. c = b + 1 + d /\ d \in Nat
  BY <1>1
<1> HIDE DEF d
<1>3. m * c = m * b + m + m * d
  BY <1>2
<1>4. m * d \in Nat
  BY <1>2
<1> QED
  BY <1>3, <1>4

LEMMA Quotient ==
  ASSUME NEW m \in Nat \ {0}, NEW q \in Nat, NEW r \in 0 .. m - 1, NEW n, n = m * q + r
  PROVE  n \in Nat /\ n \div m = q /\ n % m = r
<1>1. m * q \in Nat
  OBVIOUS
<1>2. n \in Nat
  BY <1>1
<1> DEFINE b == n \div m
           a == n % m
<1>3. a \in 0 .. m - 1 /\ b \in Nat /\ n = m * b + a
  BY <1>2, Division
<1> HIDE DEF a, b
<1>4. m * b \in Nat
  BY <1>3
<1>5. ~(b < q)
  <2> SUFFICES ASSUME b < q PROVE FALSE
    OBVIOUS
  <2>1. m * b + m <= m * q
    BY <1>3, ProductOrder
  <2> QED
    BY <1>1, <1>3, <1>4, <2>1
<1>6. ~(q < b)
  <2> SUFFICES ASSUME q < b PROVE FALSE
    OBVIOUS
  <2>1. m * q + m <= m * b
    BY <1>3, ProductOrder
  <2> QED
    BY <1>1, <1>3, <1>4, <2>1
<1>7. b = q
  BY <1>3, <1>5, <1>6
<1>8. a = r
  BY <1>1, <1>3, <1>7
<1> QED
  BY <1>2, <1>7, <1>8 DEF a, b

LEMMA Remainder ==
  ASSUME NEW m \in Nat \ {0}, NEW n \in 0 .. m - 1
  PROVE  n % m = n
<1>1. n = m * 0 + n /\ 0 \in Nat
  OBVIOUS
<1> QED
  BY <1>1, Quotient

\* A number below m * k has a quotient below k.
LEMMA QuotientBound ==
  ASSUME NEW m \in Nat \ {0}, NEW k \in Nat \ {0}, NEW n \in Nat
  PROVE  n < m * k <=> n \div m < k
<1> DEFINE b == n \div m
           a == n % m
<1>1. a \in 0 .. m - 1 /\ b \in Nat /\ n = m * b + a
  BY Division
<1> HIDE DEF a, b
<1>2. m * b \in Nat /\ m * k \in Nat
  BY <1>1
<1>3. b < k => n < m * k
  <2> HAVE b < k
  <2>1. m * b + m <= m * k
    BY <1>1, ProductOrder
  <2> QED
    BY <1>1, <1>2, <2>1
<1>4. ASSUME ~(b < k) PROVE ~(n < m * k)
  <2>1. CASE b = k
    BY <1>1, <1>2, <2>1
  <2>2. CASE k < b
    <3>1. m * k + m <= m * b
      BY <1>1, <2>2, ProductOrder
    <3> QED
      BY <1>1, <1>2, <3>1
  <2> QED
    BY <1>1, <1>4, <2>1, <2>2
<1>5. b < k <=> n < m * k
  BY <1>3, <1>4
<1> QED
  BY <1>5 DEF b

\* Dividing twice is dividing by the product.
LEMMA QuotientOfQuotient ==
  ASSUME NEW m \in Nat \ {0}, NEW k \in Nat \ {0}, NEW n \in Nat
  PROVE  m * k \in Nat \ {0} /\ n \div (m * k) = (n \div m) \div k
<1> DEFINE b == n \div m
           a == n % m
           d == b \div k
           c == b % k
<1>1. a \in 0 .. m - 1 /\ b \in Nat /\ n = m * b + a
  BY Division
<1> HIDE DEF a, b
<1>2. c \in 0 .. k - 1 /\ d \in Nat /\ b = k * d + c
  BY <1>1, Division
<1> HIDE DEF c, d
<1>3. m * k \in Nat \ {0}
  OBVIOUS
<1>4. n = (m * k) * d + (m * c + a)
  <2>1. m * (k * d + c) = (m * k) * d + m * c
    BY <1>2
  <2>2. m * c \in Nat /\ (m * k) * d \in Nat
    BY <1>2, <1>3
  <2> QED
    BY <1>1, <1>2, <2>1, <2>2
<1>5. m * c + a \in 0 .. (m * k) - 1
  <2>1. m * c + m <= m * k
    BY <1>2, ProductOrder
  <2>2. m * c \in Nat /\ m * k \in Nat
    BY <1>2
  <2> QED
    BY <1>1, <2>1, <2>2
<1> DEFINE M == m * k
           r == m * c + a
<1>6. M \in Nat \ {0} /\ r \in 0 .. M - 1 /\ n = M * d + r
  BY <1>3, <1>4, <1>5
<1> HIDE DEF M, r
<1>7. n \div M = d
  BY <1>2, <1>6, Quotient
<1> QED
  BY <1>3, <1>7 DEF M, b, d

\* Inside of a block of m numbers the quotient stays the same.
LEMMA SameBlock ==
  ASSUME NEW m \in Nat \ {0}, NEW n \in Nat, NEW d \in Nat, (n % m) + d < m
  PROVE  /\ (n + d) \div m = n \div m /\ (n + d) % m = (n % m) + d
         /\ \A k \in Nat \ {0} : (n + d) \div (m * k) = n \div (m * k)
<1> DEFINE b == n \div m
           a == n % m
<1>1. a \in 0 .. m - 1 /\ b \in Nat /\ n = m * b + a /\ a + d < m
  BY Division
<1>2. a + d \in 0 .. m - 1 /\ n + d = m * b + (a + d) /\ n + d \in Nat
  <2> HIDE DEF a, b
  <2>1. m * b \in Nat
    BY <1>1
  <2> QED
    BY <1>1, <2>1
<1>3. (n + d) \div m = b /\ (n + d) % m = a + d
  <2> DEFINE e == n + d
             r == a + d
  <2>1. b \in Nat /\ r \in 0 .. m - 1 /\ e = m * b + r
    BY <1>1, <1>2
  <2> HIDE DEF a, b, e, r
  <2>2. e \div m = b /\ e % m = r
    BY <2>1, Quotient
  <2> QED
    BY <2>2 DEF e, r
<1>4. ASSUME NEW k \in Nat \ {0} PROVE (n + d) \div (m * k) = n \div (m * k)
  <2>1. n \div (m * k) = (n \div m) \div k
    BY QuotientOfQuotient
  <2>2. (n + d) \div (m * k) = ((n + d) \div m) \div k
    BY <1>2, QuotientOfQuotient
  <2> QED
    BY <1>3, <2>1, <2>2
<1> QED
  BY <1>3, <1>4

\* A multiple of four times something, and the remainders by four.
LEMMA Fours ==
  ASSUME NEW m \in Nat \ {0}, m % 4 = 0, NEW n \in Nat
  PROVE  (n % m) % 4 = n % 4
<1> DEFINE b == n \div m
           a == n % m
           f == m \div 4
<1>1. a \in 0 .. m - 1 /\ b \in Nat /\ n = m * b + a
  BY Division
<1>2. f \in Nat /\ m = 4 * f
  OBVIOUS
<1> HIDE DEF a, b, f
<1>3. m * b = 4 * (f * b) /\ f * b \in Nat
  BY <1>1, <1>2
<1> DEFINE g == f * b
<1>4. n = 4 * g + a /\ g \in Nat
  BY <1>1, <1>3
<1> HIDE DEF g
<1>5. n % 4 = a % 4
  BY <1>1, <1>4
<1> QED
  BY <1>5 DEF a

-----------------------------------------------------------------------------
(* The sizes that the widths of the fields stand for.                      *)

P == pow2[EpaLog]
X == pow2[GlobalXLog]
Y == pow2[GroupYLog]
S == pow2[StripeLog]
W == pow2[XDimLog]
A == pow2[ReachBits]
GroupBase  == pow2[GroupBit]
GlobalBase == pow2[GlobalBit]
DramBase   == pow2[DramBit]
\* The blocks of a stripe's size that EVAs reach behind one cache, and as many as an EVA can tell apart.
BankStripes == pow2[ReachBits - StripeLog]
EvaStripes  == pow2[DramBit - (StripeLog + XDimLog + 1)]
Unused      == pow2[DramBit - (ReachBits + XDimLog + 1)]

LEMMA Pow2Values ==
  pow2[0] = 1 /\ pow2[1] = 2 /\ pow2[2] = 4 /\ \A k \in Nat : pow2[k] \in Nat \ {0} /\ pow2[k + 1] = 2 * pow2[k]
<1>1. pow2[0] = 1 /\ pow2[0 + 1] = 2 * pow2[0] /\ pow2[1 + 1] = 2 * pow2[1]
  BY Pow2Is
<1> QED
  BY <1>1, Pow2Is

LEMMA ColumnsLog ==
  XDimLog \in Nat /\ DimX <= W
<1> DEFINE Q == {k \in Nat : k <= pow2[k]}
           B == {k \in 0 .. DimX : DimX <= pow2[k]}
           R == OpToRel(<, Nat)
<1> HIDE DEF pow2
<1>1. 0 \in Q /\ \A k \in Nat : k \in Q => k + 1 \in Q
  BY Pow2Values
<1> HIDE DEF Q
<1>2. Nat \subseteq Q
  BY <1>1, SetInduction
<1>3. DimX <= pow2[DimX] /\ DimX \in Nat
  <2>1. DimX \in Nat
    BY EvaAssumption
  <2> QED
    BY <1>2, <2>1 DEF Q
<1>4. B # {} /\ B \subseteq Nat
  BY <1>3
<1>5. IsWellFoundedOn(R, Nat)
  BY NatLessThanWellFounded
<1>a. \A a, b \in Nat : a < b => <<a, b>> \in R
  BY DEF OpToRel
<1> HIDE DEF R, B
<1>6. PICK k \in B : \A j \in B : ~ (<<j, k>> \in R)
  BY <1>4, <1>5, WFMin
<1>7. ASSUME NEW j \in B PROVE ~(j < k)
  <2>1. j \in Nat /\ k \in Nat /\ ~ (<<j, k>> \in R)
    BY <1>4, <1>6
  <2> QED
    BY <1>a, <2>1
<1>8. k \in 0 .. DimX /\ pow2[k] >= DimX /\ \A j \in 0 .. k - 1 : pow2[j] < DimX
  <2>1. k \in 0 .. DimX /\ DimX <= pow2[k] /\ DimX \in Nat /\ pow2[k] \in Nat
    BY <1>3, <1>6, Pow2Values DEF B
  <2>2. ASSUME NEW j \in 0 .. k - 1 PROVE pow2[j] < DimX
    <3>1. j \in 0 .. DimX /\ j < k /\ j \in Nat /\ pow2[j] \in Nat
      BY <2>1, Pow2Values
    <3> QED
      BY <1>7, <2>1, <3>1 DEF B
  <2> QED
    BY <2>1, <2>2
<1>9. XDimLog \in 0 .. DimX /\ pow2[XDimLog] >= DimX
  BY <1>8 DEF XDimLog
<1>10. XDimLog \in Nat /\ W \in Nat
  BY <1>3, <1>9, Pow2Values DEF W
<1> QED
  BY <1>3, <1>9, <1>10 DEF W

LEMMA Widths ==
  /\ {DimX, DimY, EpaLog, GlobalXLog, GroupYLog, GlobalYLog, StripeLog, XDimLog, AddrBits, ReachBits,
      GlobalBit, DramBit, GroupBit, DataAddrBits, VcacheLog} \subseteq Nat
  /\ GroupBit = EpaLog + GlobalXLog + GroupYLog /\ GlobalBit = GroupBit + 1 /\ DramBit = GlobalBit + 1
  /\ GlobalYLog = GroupYLog + 1
  /\ StripeLog >= 2 /\ ReachBits >= StripeLog /\ ReachBits + XDimLog + 1 <= DramBit
  /\ ReachBits <= AddrBits
  /\ ReachBits - StripeLog \in Nat /\ DramBit - (StripeLog + XDimLog + 1) \in Nat
  /\ DramBit - (ReachBits + XDimLog + 1) \in Nat
<1>1. AddrBits \in Nat
  BY EvaAssumption DEF AddrBits
<1>2. /\ DramBit \in Nat /\ XDimLog \in Nat /\ StripeLog \in Nat
      /\ AddrBits >= StripeLog /\ StripeLog + XDimLog + 1 <= DramBit
  BY EvaAssumption, ColumnsLog DEF GlobalBit, DramBit
<1>3. /\ ReachBits \in Nat /\ ReachBits >= StripeLog /\ ReachBits <= AddrBits
      /\ ReachBits + XDimLog + 1 <= DramBit
  BY <1>1, <1>2 DEF ReachBits
<1> QED
  BY <1>1, <1>2, <1>3, EvaAssumption, ColumnsLog DEF GroupBit, GlobalBit, DramBit

LEMMA Sizes ==
  /\ {P, X, Y, S, W, A, GroupBase, GlobalBase, DramBase, EvaSpace, BankStripes, EvaStripes, Unused}
       \subseteq Nat \ {0}
  /\ pow2[EpaLog + GlobalXLog] = P * X
  /\ GroupBase = (P * X) * Y /\ GlobalBase = 2 * GroupBase /\ DramBase = 2 * GlobalBase
  /\ EvaSpace = 2 * DramBase
  /\ pow2[GlobalYLog] = 2 * Y
  /\ pow2[StripeLog + XDimLog] = S * W /\ pow2[StripeLog + XDimLog + 1] = (S * W) * 2
  /\ A = S * BankStripes /\ EvaStripes = BankStripes * Unused
  /\ DramBase = ((S * W) * 2) * EvaStripes
  /\ S % 4 = 0
<1> USE Widths
<1>1. \A k \in Nat : pow2[k] \in Nat \ {0} /\ pow2[k + 1] = 2 * pow2[k]
  BY Pow2Values
<1> HIDE DEF pow2
<1>2. /\ {P, X, Y, S, W, A, GroupBase, GlobalBase, DramBase, BankStripes, EvaStripes, Unused}
            \subseteq Nat \ {0}
      /\ EvaSpace = 2 * DramBase
      /\ DramBase = 2 * GlobalBase /\ GlobalBase = 2 * GroupBase /\ pow2[GlobalYLog] = 2 * Y
  BY <1>1 DEF P, X, Y, S, W, A, GroupBase, GlobalBase, DramBase, BankStripes, EvaStripes, Unused, EvaSpace
<1>3. pow2[EpaLog + GlobalXLog] = P * X
  BY Pow2Sum DEF P, X
<1>4. GroupBase = (P * X) * Y
  <2> DEFINE j == EpaLog + GlobalXLog
  <2>1. j \in Nat /\ GroupBit = j + GroupYLog
    OBVIOUS
  <2> HIDE DEF j
  <2>2. pow2[GroupBit] = pow2[j] * pow2[GroupYLog]
    BY <2>1, Pow2Sum
  <2> QED
    BY <1>3, <2>2 DEF GroupBase, Y, j
<1>5. pow2[StripeLog + XDimLog] = S * W
  BY Pow2Sum DEF S, W
<1>6. pow2[StripeLog + XDimLog + 1] = (S * W) * 2
  <2>1. StripeLog + XDimLog \in Nat
    OBVIOUS
  <2>2. pow2[(StripeLog + XDimLog) + 1] = 2 * pow2[StripeLog + XDimLog]
    BY <1>1, <2>1
  <2> DEFINE m == S * W
  <2>3. m \in Nat /\ pow2[StripeLog + XDimLog + 1] = 2 * m
    BY <1>2, <1>5, <2>2
  <2> HIDE DEF m
  <2>4. pow2[StripeLog + XDimLog + 1] = m * 2
    BY <2>3
  <2> QED
    BY <2>4 DEF m
<1>7. A = S * BankStripes
  <2> DEFINE k == ReachBits - StripeLog
  <2>1. k \in Nat /\ ReachBits = StripeLog + k
    OBVIOUS
  <2> HIDE DEF k
  <2>2. pow2[ReachBits] = pow2[StripeLog] * pow2[k]
    BY <2>1, Pow2Sum
  <2> QED
    BY <2>2 DEF A, S, BankStripes, k
<1>8. EvaStripes = BankStripes * Unused
  <2> DEFINE j == ReachBits - StripeLog
             k == DramBit - (ReachBits + XDimLog + 1)
             n == DramBit - (StripeLog + XDimLog + 1)
  <2>1. j \in Nat /\ k \in Nat /\ n = j + k
    OBVIOUS
  <2> HIDE DEF j, k, n
  <2>2. pow2[n] = pow2[j] * pow2[k]
    BY <2>1, Pow2Sum
  <2> QED
    BY <2>2 DEF EvaStripes, BankStripes, Unused, j, k, n
<1>9. DramBase = ((S * W) * 2) * EvaStripes
  <2> DEFINE j == StripeLog + XDimLog + 1
             k == DramBit - (StripeLog + XDimLog + 1)
  <2>1. j \in Nat /\ k \in Nat /\ DramBit = j + k
    OBVIOUS
  <2>2. pow2[j] = (S * W) * 2
    BY <1>6
  <2> HIDE DEF j, k
  <2>3. pow2[DramBit] = pow2[j] * pow2[k]
    BY <2>1, Pow2Sum
  <2> QED
    BY <2>2, <2>3 DEF DramBase, EvaStripes, k
<1>10. S % 4 = 0
  <2> DEFINE k == StripeLog - 2
  <2>1. k \in Nat /\ StripeLog = 2 + k
    OBVIOUS
  <2> HIDE DEF k
  <2>2. pow2[2 + k] = pow2[2] * pow2[k] /\ pow2[k] \in Nat
    BY <1>1, <2>1, Pow2Sum
  <2> DEFINE m == pow2[k]
  <2>3. S = 4 * m /\ m \in Nat
    BY <2>1, <2>2, Pow2Values DEF S
  <2> HIDE DEF m
  <2> QED
    BY <2>3
<1>11. EvaSpace \in Nat \ {0}
  BY <1>2
<1> QED
  BY <1>2, <1>3, <1>4, <1>5, <1>6, <1>7, <1>8, <1>9, <1>10, <1>11

-----------------------------------------------------------------------------
(* The zones of the EVAs: local, group, global, DRAM.                      *)

Eva == 0 .. EvaSpace - 1

LEMMA TopBit ==
  ASSUME NEW m \in Nat \ {0}, NEW n \in Nat, n < 2 * m
  PROVE  (n \div m) % 2 = 1 <=> n >= m
<1>1. 2 * m = m * 2
  OBVIOUS
<1>2. n \div m < 2
  BY <1>1, QuotientBound
<1>3. n < m * 1 <=> n \div m < 1
  BY QuotientBound
<1>4. m * 1 = m
  OBVIOUS
<1> DEFINE q == n \div m
<1>5. q \in Nat /\ q < 2 /\ (n < m <=> q < 1)
  BY <1>2, <1>3, <1>4, Division
<1> HIDE DEF q
<1>6. q % 2 = 1 <=> ~(q < 1)
  BY <1>5
<1> QED
  BY <1>5, <1>6 DEF q

LEMMA Fields ==
  ASSUME NEW eva \in Eva
  PROVE  /\ eva \in Nat
         /\ Field(eva, 0, EpaLog) = eva % P
         /\ Field(eva, EpaLog, GlobalXLog) = (eva \div P) % X
         /\ Field(eva, EpaLog + GlobalXLog, GlobalYLog) = (eva \div (P * X)) % (2 * Y)
         /\ Field(eva, EpaLog + GlobalXLog, GroupYLog) = (eva \div (P * X)) % Y
<1>1. eva \in Nat
  BY Sizes DEF Eva
<1>2. eva \div 1 = eva
  BY <1>1
<1>3. pow2[0] = 1
  BY Pow2Values
<1> QED
  BY <1>1, <1>2, <1>3, Sizes DEF Field, P, X, Y

LEMMA Zones ==
  ASSUME NEW eva \in Eva
  PROVE  /\ IsDram(eva) <=> eva >= DramBase
         /\ eva < DramBase => (IsGlobal(eva) <=> eva >= GlobalBase)
         /\ eva < GlobalBase => (IsGroup(eva) <=> eva >= GroupBase)
         /\ IsLocal(eva) <=> eva < P
         /\ P <= GroupBase /\ GroupBase < GlobalBase /\ GlobalBase < DramBase /\ DramBase < EvaSpace
<1>1. /\ eva \in Nat /\ eva < 2 * DramBase /\ DramBase \in Nat \ {0}
      /\ GlobalBase \in Nat \ {0} /\ GroupBase \in Nat \ {0} /\ P \in Nat \ {0}
      /\ DramBase = 2 * GlobalBase /\ GlobalBase = 2 * GroupBase /\ EvaSpace = 2 * DramBase
  BY Sizes DEF Eva
<1>2. pow2[1] = 2
  BY Pow2Values
<1>3. IsDram(eva) <=> eva >= DramBase
  BY <1>1, <1>2, TopBit DEF IsDram, Field, DramBase
<1>4. ASSUME eva < DramBase PROVE IsGlobal(eva) <=> eva >= GlobalBase
  BY <1>1, <1>2, <1>4, TopBit DEF IsGlobal, Field, GlobalBase
<1>5. ASSUME eva < GlobalBase PROVE IsGroup(eva) <=> eva >= GroupBase
  BY <1>1, <1>2, <1>5, TopBit DEF IsGroup, Field, GroupBase
<1>6. P <= GroupBase
  <2> DEFINE k == X * Y
  <2>1. X \in Nat \ {0} /\ Y \in Nat \ {0} /\ GroupBase = (P * X) * Y
    BY Sizes
  <2>2. k \in Nat \ {0} /\ GroupBase = P * k
    BY <1>1, <2>1
  <2> HIDE DEF k
  <2>3. 0 < k
    BY <2>2
  <2>4. P * 0 + P <= P * k
    BY <1>1, <2>2, <2>3, ProductOrder
  <2>5. P * 0 = 0
    BY <1>1
  <2> QED
    BY <1>1, <2>2, <2>4, <2>5
<1> QED
  BY <1>1, <1>3, <1>4, <1>5, <1>6 DEF IsLocal, P

\* The map goes by the zone.
LEMMA MapByZone ==
  ASSUME NEW origin, NEW src, NEW eva \in Eva
  PROVE  /\ eva >= DramBase => default_eva_to_npa(origin, src, eva) = default_eva_to_npa_dram(eva)
         /\ eva < DramBase /\ eva >= GlobalBase
              => default_eva_to_npa(origin, src, eva) = default_eva_to_npa_global(eva)
         /\ eva < GlobalBase /\ eva >= GroupBase
              => default_eva_to_npa(origin, src, eva) = default_eva_to_npa_group(origin, eva)
         /\ eva < GroupBase /\ eva < P
              => default_eva_to_npa(origin, src, eva) = default_eva_to_npa_local(src, eva)
         /\ eva < GroupBase /\ eva >= P => default_eva_to_npa(origin, src, eva) = Fails
<1> DEFINE d == IsDram(eva)
           g == IsGlobal(eva)
           r == IsGroup(eva)
           l == IsLocal(eva)
<1>1. /\ d <=> eva >= DramBase
      /\ eva < DramBase => (g <=> eva >= GlobalBase)
      /\ eva < GlobalBase => (r <=> eva >= GroupBase)
      /\ l <=> eva < P
      /\ P <= GroupBase /\ GroupBase < GlobalBase /\ GlobalBase < DramBase
      /\ {eva, P, GroupBase, GlobalBase, DramBase} \subseteq Nat
  BY Zones, Sizes DEF Eva
<1>2. /\ eva >= DramBase => d
      /\ eva < DramBase /\ eva >= GlobalBase => ~d /\ g /\ ~l
      /\ eva < GlobalBase /\ eva >= GroupBase => ~d /\ ~g /\ r /\ ~l
      /\ eva < GroupBase => ~d /\ ~g /\ ~r
      /\ l <=> eva < P
      /\ eva >= P => ~l
      /\ eva >= DramBase => ~l
  <2> HIDE DEF d, g, r, l
  <2> QED
    BY <1>1
<1> DEFINE value == CASE d -> default_eva_to_npa_dram(eva)
                      [] ~d /\ g -> default_eva_to_npa_global(eva)
                      [] ~d /\ ~g /\ r -> default_eva_to_npa_group(origin, eva)
                      [] l -> default_eva_to_npa_local(src, eva)
                      [] OTHER -> Fails
<1>3. default_eva_to_npa(origin, src, eva) = value
  BY DEF default_eva_to_npa
<1> HIDE DEF d, g, r, l
<1>4. d /\ ~l => value = default_eva_to_npa_dram(eva)
  OBVIOUS
<1>5. ~d /\ g /\ ~l => value = default_eva_to_npa_global(eva)
  OBVIOUS
<1>6. ~d /\ ~g /\ r /\ ~l => value = default_eva_to_npa_group(origin, eva)
  OBVIOUS
<1>7. ~d /\ ~g /\ ~r /\ l => value = default_eva_to_npa_local(src, eva)
  OBVIOUS
<1>8. ~d /\ ~g /\ ~r /\ ~l => value = Fails
  OBVIOUS
<1> HIDE DEF value
<1> QED
  BY <1>2, <1>3, <1>4, <1>5, <1>6, <1>7, <1>8

\* What an EVA of a tile names there.
LEMMA TileMap ==
  ASSUME NEW eva \in Eva, NEW x, NEW y, NEW off, off = eva % P
  PROVE  /\ off \in 0 .. P - 1
         /\ off \in DmemBase .. DmemBase + DmemSize - 1
              => default_eva_to_epa_tile(eva, x, y) = To(x, y, off, DmemBase + DmemSize - off)
         /\ off \in Csrs => default_eva_to_epa_tile(eva, x, y) = To(x, y, off, 4)
         /\ off \notin DmemBase .. DmemBase + DmemSize - 1 /\ off \notin Csrs
              => default_eva_to_epa_tile(eva, x, y) = Fails
<1>1. eva \in Nat /\ P \in Nat \ {0} /\ Field(eva, 0, EpaLog) = off /\ off \in 0 .. P - 1
  BY Fields, Sizes, Division
<1>2. DmemBase \in Nat /\ DmemSize \in Nat \ {0} /\ DmemBase + DmemSize <= P
  BY EvaAssumption DEF P
<1>3. EvaSpace \in Nat \ {0} /\ P < EvaSpace
  BY <1>1, Zones, Sizes
<1> DEFINE at == (off - DmemBase) % EvaSpace
<1>4. CASE off >= DmemBase
  <2>1. off - DmemBase \in 0 .. EvaSpace - 1
    BY <1>1, <1>2, <1>3, <1>4
  <2> DEFINE n == off - DmemBase
  <2>2. n % EvaSpace = n
    <3>1. n = EvaSpace * 0 + n
      BY <1>3, <2>1
    <3> HIDE DEF n
    <3> QED
      BY <1>3, <2>1, <3>1, Quotient DEF n
  <2>3. at = off - DmemBase
    BY <2>2
  <2> HIDE DEF at
  <2>4. at < DmemSize <=> off \in DmemBase .. DmemBase + DmemSize - 1
    BY <1>1, <1>2, <1>4, <2>3
  <2>5. at + DmemBase = off /\ DmemSize - at = DmemBase + DmemSize - off
    BY <1>1, <1>2, <2>3
  <2>6. default_eva_to_epa_tile(eva, x, y) =
          IF at < DmemSize THEN To(x, y, at + DmemBase, DmemSize - at)
          ELSE IF off \in Csrs THEN To(x, y, off, 4) ELSE Fails
    BY <1>1 DEF default_eva_to_epa_tile, at
  <2>7. off \in Csrs => ~(at < DmemSize)
    BY <2>4, EvaAssumption
  <2> QED
    BY <1>1, <2>4, <2>5, <2>6, <2>7
<1>5. CASE off < DmemBase
  <2>1. EvaSpace + off - DmemBase \in DmemSize .. EvaSpace - 1
    BY <1>1, <1>2, <1>3, <1>5
  <2>2. at = EvaSpace + off - DmemBase
    <3> DEFINE n == off - DmemBase
    <3>1. n \in -EvaSpace .. -1
      BY <1>1, <1>2, <1>3, <1>5
    <3> HIDE DEF n
    <3>2. n % EvaSpace = EvaSpace + n
      BY <1>3, <3>1
    <3> QED
      BY <1>1, <1>2, <1>3, <3>2 DEF n
  <2> HIDE DEF at
  <2>3. ~(at < DmemSize)
    BY <1>2, <1>3, <2>1, <2>2
  <2>4. default_eva_to_epa_tile(eva, x, y) =
          IF at < DmemSize THEN To(x, y, at + DmemBase, DmemSize - at)
          ELSE IF off \in Csrs THEN To(x, y, off, 4) ELSE Fails
    BY <1>1 DEF default_eva_to_epa_tile, at
  <2>5. off \notin DmemBase .. DmemBase + DmemSize - 1
    BY <1>1, <1>2, <1>5
  <2> QED
    BY <1>1, <2>3, <2>4, <2>5
<1> QED
  BY <1>1, <1>2, <1>4, <1>5

-----------------------------------------------------------------------------
(* The zones of tiles.                                                     *)

\* The tile whose memory an EVA below DRAM names in a call, if it is one.
TileOf(c, eva) ==
  IF eva >= GlobalBase THEN <<(eva \div P) % X, (eva \div (P * X)) % (2 * Y)>>
  ELSE IF eva >= GroupBase
       THEN <<((eva \div P) % X) + c.origin[1], ((eva \div (P * X)) % Y) + c.origin[2]>>
       ELSE IF eva < P THEN c.tgt ELSE <<DimX, LowY>>

LEMMA TilesAre ==
  /\ \A x, y : <<x, y>> \in Tiles <=> x \in 0 .. DimX - 1 /\ y \in 2 .. DimY + 1
  /\ \A t \in Tiles : t = <<t[1], t[2]>> /\ t[1] \in 0 .. DimX - 1 /\ t[2] \in 2 .. DimY + 1
BY EvaAssumption DEF Tiles, BaseX, BaseY

LEMMA TileZoneParts ==
  ASSUME NEW eva \in Eva
  PROVE  /\ eva \in Nat /\ eva % P \in 0 .. P - 1 /\ eva \div P \in Nat /\ eva \div (P * X) \in Nat
         /\ (eva \div P) % X \in 0 .. X - 1
         /\ (eva \div (P * X)) % (2 * Y) \in Nat /\ (eva \div (P * X)) % Y \in Nat
<1>1. eva \in Nat /\ P \in Nat \ {0} /\ X \in Nat \ {0} /\ Y \in Nat \ {0} /\ P * X \in Nat \ {0}
  BY Sizes DEF Eva
<1>2. 2 * Y \in Nat \ {0}
  BY <1>1
<1>3. eva \div P \in Nat /\ eva \div (P * X) \in Nat /\ eva % P \in 0 .. P - 1
  BY <1>1, Division
<1> DEFINE h == eva \div P
           r == eva \div (P * X)
<1>4. h \in Nat /\ r \in Nat
  BY <1>3
<1> HIDE DEF h, r
<1>5. h % X \in 0 .. X - 1 /\ r % (2 * Y) \in Nat /\ r % Y \in Nat
  BY <1>1, <1>2, <1>4, Division
<1> QED
  BY <1>1, <1>3, <1>5 DEF h, r

LEMMA TileZoneMap ==
  ASSUME NEW c \in Call, NEW eva \in Eva, eva < DramBase
  PROVE  LET seg == default_eva_to_npa(c.origin, c.tgt, eva)
             t   == TileOf(c, eva)
         IN  /\ seg = Fails \/ seg = default_eva_to_epa_tile(eva, t[1], t[2])
             /\ t \in Tiles => seg = default_eva_to_epa_tile(eva, t[1], t[2])
             /\ t = <<t[1], t[2]>> /\ t[1] \in Nat /\ t[2] \in Nat
             /\ eva < GlobalBase /\ seg # Fails => t[2] <= DimY + 2
<1> DEFINE seg == default_eva_to_npa(c.origin, c.tgt, eva)
           t   == TileOf(c, eva)
<1>1. /\ {eva, P, GroupBase, GlobalBase, DramBase} \subseteq Nat
      /\ P <= GroupBase /\ GroupBase < GlobalBase /\ GlobalBase < DramBase
  BY Zones, Sizes DEF Eva
<1>2. /\ (eva \div P) % X \in Nat
      /\ (eva \div (P * X)) % (2 * Y) \in Nat /\ (eva \div (P * X)) % Y \in Nat
  BY TileZoneParts
<1>3. c.origin \in Tiles /\ c.tgt \in Tiles
  BY DEF Call
<1>4. c.origin[1] \in Nat /\ c.origin[2] \in Nat
  BY <1>3, TilesAre
<1>5. CASE eva >= GlobalBase
  <2>1. t = <<(eva \div P) % X, (eva \div (P * X)) % (2 * Y)>>
    BY <1>5 DEF TileOf
  <2>2. seg = default_eva_to_npa_global(eva)
    BY <1>5, MapByZone
  <2>3. default_eva_to_npa_global(eva) = default_eva_to_epa_tile(eva, t[1], t[2])
    BY <2>1, Fields DEF default_eva_to_npa_global
  <2> QED
    BY <1>1, <1>2, <1>5, <2>1, <2>2, <2>3
<1>6. CASE eva < GlobalBase /\ eva >= GroupBase
  <2>1. t = <<((eva \div P) % X) + c.origin[1], ((eva \div (P * X)) % Y) + c.origin[2]>>
    BY <1>1, <1>6 DEF TileOf
  <2>2. seg = default_eva_to_npa_group(c.origin, eva)
    BY <1>6, MapByZone
  <2>3. default_eva_to_npa_group(c.origin, eva) =
          IF DimX + BaseX < t[1] \/ DimY + BaseY < t[2] THEN Fails
          ELSE default_eva_to_epa_tile(eva, t[1], t[2])
    BY <2>1, Fields DEF default_eva_to_npa_group
  <2>4. t[1] \in Nat /\ t[2] \in Nat /\ t = <<t[1], t[2]>> /\ DimX \in Nat /\ DimY \in Nat
    BY <1>2, <1>4, <2>1, EvaAssumption
  <2>5. t \in Tiles => ~(DimX + BaseX < t[1] \/ DimY + BaseY < t[2])
    BY <2>4, TilesAre DEF BaseX, BaseY
  <2>6. seg # Fails => t[2] <= DimY + 2
    <3> HIDE DEF seg, t
    <3> QED
      BY <2>2, <2>3, <2>4 DEF BaseY
  <2> HIDE DEF seg, t
  <2>7. QED
    <3>1. seg = Fails \/ seg = default_eva_to_epa_tile(eva, t[1], t[2])
      BY <2>2, <2>3
    <3>2. t \in Tiles => seg = default_eva_to_epa_tile(eva, t[1], t[2])
      BY <2>2, <2>3, <2>5
    <3> QED
      BY <2>4, <2>6, <3>1, <3>2 DEF seg, t
<1>7. CASE eva < GroupBase /\ eva < P
  <2>1. t = c.tgt
    BY <1>1, <1>7 DEF TileOf
  <2>2. seg = default_eva_to_npa_local(c.tgt, eva)
    BY <1>7, MapByZone
  <2>3. default_eva_to_npa_local(c.tgt, eva) = default_eva_to_epa_tile(eva, t[1], t[2])
    BY <2>1 DEF default_eva_to_npa_local
  <2>4. t = <<t[1], t[2]>> /\ t[1] \in Nat /\ t[2] \in Nat /\ t[2] <= DimY + 2
    BY <1>3, <2>1, TilesAre, EvaAssumption
  <2> QED
    BY <2>2, <2>3, <2>4
<1>8. CASE eva < GroupBase /\ eva >= P
  <2>1. t = <<DimX, 0>>
    BY <1>1, <1>8 DEF TileOf, LowY
  <2>2. t \notin Tiles
    BY <2>1, TilesAre
  <2>3. seg = Fails
    BY <1>8, MapByZone
  <2> QED
    BY <2>1, <2>2, <2>3, EvaAssumption
<1> QED
  BY <1>1, <1>5, <1>6, <1>7, <1>8

LEMMA TileZoneNamed ==
  ASSUME NEW c \in Call, NEW eva \in Eva, eva < DramBase
  PROVE  Named(c, eva) =
           IF eva % 4 # 0 \/ c.kind \in DmaKinds THEN Nowhere
           ELSE InTile(TileOf(c, eva)[1], TileOf(c, eva)[2], eva % P)
<1>1. /\ {eva, P, GroupBase, GlobalBase, DramBase} \subseteq Nat
      /\ P <= GroupBase /\ GroupBase < GlobalBase /\ GlobalBase < DramBase
  BY Zones, Sizes DEF Eva
<1>2. pow2[EpaLog] = P /\ pow2[GlobalXLog] = X /\ pow2[EpaLog + GlobalXLog] = P * X
      /\ pow2[GlobalYLog] = 2 * Y /\ pow2[GroupYLog] = Y
      /\ pow2[DramBit] = DramBase /\ pow2[GlobalBit] = GlobalBase /\ pow2[GroupBit] = GroupBase
  BY Sizes DEF P, X, Y, DramBase, GlobalBase, GroupBase
<1> DEFINE off == eva % P
           x == (eva \div P) % X
           row == eva \div (P * X)
<1>3. Named(c, eva) =
        IF eva % 4 # 0 \/ (c.kind \in DmaKinds /\ ~SupportsDma) THEN Nowhere
        ELSE IF eva >= DramBase
        THEN IF eva - DramBase < DramBytes THEN Dram(eva - DramBase) ELSE Nowhere
        ELSE IF c.kind \in DmaKinds THEN Nowhere
        ELSE IF eva >= GlobalBase THEN InTile(x, row % (2 * Y), off)
        ELSE IF eva >= GroupBase THEN InTile(x + c.origin[1], (row % Y) + c.origin[2], off)
        ELSE IF eva = off THEN InTile(c.tgt[1], c.tgt[2], off)
        ELSE Nowhere
  BY <1>2 DEF Named
<1>4. eva = off <=> eva < P
  <2>1. off \in 0 .. P - 1
    BY TileZoneParts
  <2>2. ASSUME eva < P PROVE eva = off
    <3>1. eva = P * 0 + eva /\ eva \in 0 .. P - 1 /\ P \in Nat \ {0}
      BY <1>1, <2>2, Sizes
    <3> QED
      BY <3>1, Quotient
  <2> QED
    BY <1>1, <2>1, <2>2
<1>5. InTile(DimX, LowY, off) = Nowhere
  BY TilesAre, EvaAssumption DEF InTile
<1>6. CASE eva >= GlobalBase
  <2>1. TileOf(c, eva)[1] = x /\ TileOf(c, eva)[2] = row % (2 * Y)
    BY <1>6 DEF TileOf
  <2> HIDE DEF x, row, off
  <2> QED
    BY <1>1, <1>3, <1>6, <2>1 DEF off
<1>7. CASE eva < GlobalBase /\ eva >= GroupBase
  <2>1. TileOf(c, eva)[1] = x + c.origin[1] /\ TileOf(c, eva)[2] = (row % Y) + c.origin[2]
    BY <1>1, <1>7 DEF TileOf
  <2> HIDE DEF x, row, off
  <2> QED
    BY <1>1, <1>3, <1>7, <2>1 DEF off
<1>8. CASE eva < GroupBase /\ eva < P
  <2>1. TileOf(c, eva)[1] = c.tgt[1] /\ TileOf(c, eva)[2] = c.tgt[2]
    BY <1>1, <1>8 DEF TileOf
  <2> HIDE DEF x, row, off
  <2> QED
    BY <1>1, <1>3, <1>4, <1>8, <2>1 DEF off
<1>9. CASE eva < GroupBase /\ eva >= P
  <2>1. TileOf(c, eva)[1] = DimX /\ TileOf(c, eva)[2] = LowY
    BY <1>1, <1>9 DEF TileOf
  <2> HIDE DEF x, row, off
  <2> QED
    BY <1>1, <1>3, <1>4, <1>5, <1>9, <2>1 DEF off
<1> QED
  BY <1>1, <1>6, <1>7, <1>8, <1>9

LEMMA TileZoneSame ==
  ASSUME NEW c, NEW eva \in Eva, eva < DramBase, NEW d \in Nat, (eva % P) + d < P
  PROVE  /\ eva + d \in Eva /\ eva + d < DramBase
         /\ (eva + d) % EvaSpace = eva + d
         /\ (eva + d) % P = (eva % P) + d
         /\ TileOf(c, eva + d) = TileOf(c, eva)
<1>1. /\ {P, X, Y, GroupBase, GlobalBase, DramBase, EvaSpace} \subseteq Nat \ {0} /\ eva \in Nat
      /\ P * X \in Nat \ {0} /\ GroupBase < GlobalBase /\ GlobalBase < DramBase /\ DramBase < EvaSpace
  BY Zones, Sizes DEF Eva
<1>2. /\ (eva + d) \div P = eva \div P /\ (eva + d) % P = (eva % P) + d
      /\ \A k \in Nat \ {0} : (eva + d) \div (P * k) = eva \div (P * k)
  <2> DEFINE m == P
             n == eva
  <2>1. m \in Nat \ {0} /\ n \in Nat /\ (n % m) + d < m
    BY <1>1
  <2> HIDE DEF m, n
  <2>2. /\ (n + d) \div m = n \div m /\ (n + d) % m = (n % m) + d
        /\ \A k \in Nat \ {0} : (n + d) \div (m * k) = n \div (m * k)
    BY <2>1, SameBlock
  <2> QED
    BY <2>2 DEF m, n
<1> DEFINE e == eva + d
           r == X * Y
           g == 2 * r
           s == 4 * r
<1>3. /\ e \in Nat /\ r \in Nat \ {0} /\ g \in Nat \ {0} /\ s \in Nat \ {0}
      /\ GroupBase = P * r /\ GlobalBase = P * g /\ DramBase = P * s
  <2>1. r \in Nat \ {0} /\ GroupBase = P * r
    BY <1>1, Sizes
  <2>2. GlobalBase = 2 * (P * r) /\ DramBase = 2 * GlobalBase
    BY <2>1, Sizes
  <2>3. P * (2 * r) = 2 * (P * r) /\ P * (4 * r) = 2 * (2 * (P * r))
    BY <1>1, <2>1
  <2> HIDE DEF r
  <2> QED
    BY <1>1, <2>1, <2>2, <2>3
<1>4. e \div P = eva \div P
  BY <1>2
<1> HIDE DEF r, g, s, e
<1>5. e < GroupBase <=> eva < GroupBase
  BY <1>1, <1>3, <1>4, QuotientBound
<1>6. e < GlobalBase <=> eva < GlobalBase
  BY <1>1, <1>3, <1>4, QuotientBound
<1>7. e < DramBase <=> eva < DramBase
  BY <1>1, <1>3, <1>4, QuotientBound
<1>8. e < P <=> eva < P
  <2>1. P * 1 = P
    BY <1>1
  <2> QED
    BY <1>1, <1>3, <1>4, <2>1, QuotientBound
<1>9. e \div (P * X) = eva \div (P * X)
  BY <1>1, <1>2 DEF e
<1>10. TileOf(c, e) = TileOf(c, eva)
  <2>1. /\ e >= GlobalBase <=> eva >= GlobalBase
        /\ e >= GroupBase <=> eva >= GroupBase
    BY <1>1, <1>3, <1>5, <1>6
  <2> QED
    BY <1>4, <1>8, <1>9, <2>1 DEF TileOf
<1>11. e % EvaSpace = e
  <2>1. e = EvaSpace * 0 + e /\ e \in 0 .. EvaSpace - 1
    BY <1>1, <1>3, <1>7
  <2> QED
    BY <1>1, <2>1, Quotient
<1>12. e \in Eva
  BY <1>1, <1>3, <1>7 DEF Eva
<1> QED
  BY <1>2, <1>7, <1>10, <1>11, <1>12 DEF e

-----------------------------------------------------------------------------
(* The zone of DRAM.                                                       *)

LEMMA Multiple ==
  ASSUME NEW m \in Nat \ {0}, NEW k \in Nat, NEW n \in Nat
  PROVE  (m * k + n) \div m = k + (n \div m) /\ (m * k + n) % m = n % m
<1> DEFINE b == n \div m
           a == n % m
<1>1. a \in 0 .. m - 1 /\ b \in Nat /\ n = m * b + a
  BY Division
<1> HIDE DEF a, b
<1> DEFINE e == m * k + n
           q == k + b
<1>2. q \in Nat /\ e = m * q + a
  <2>1. m * (k + b) = m * k + m * b
    BY <1>1
  <2>2. m * k \in Nat /\ m * b \in Nat
    BY <1>1
  <2> QED
    BY <1>1, <2>1, <2>2
<1> HIDE DEF e, q
<1>3. e \div m = q /\ e % m = a
  BY <1>1, <1>2, Quotient
<1> QED
  BY <1>3 DEF e, q, a, b

\* The offset in DRAM decides on the bank and the address there.
BankX(n) == (n \div S) % W
BankY(n) == IF ((n \div (S * W)) % 2) = 1 THEN HighY ELSE LowY
BankEpa(n) == S * (n \div ((S * W) * 2)) + (n % S)
Bank(n) == [x |-> BankX(n), y |-> BankY(n), epa |-> BankEpa(n)]

LEMMA DramFields ==
  ASSUME NEW n \in 0 .. DramBase - 1
  PROVE  /\ DramBase + n \in Eva /\ n \in Nat
         /\ DramX(DramBase + n) = BankX(n) /\ DramY(DramBase + n) = BankY(n)
         /\ DramEpa(DramBase + n) = BankEpa(n) /\ DramSegment(DramBase + n) = S - (n % S)
<1>1. /\ {S, W, EvaStripes, DramBase, EvaSpace} \subseteq Nat \ {0} /\ n \in Nat
      /\ DramBase = ((S * W) * 2) * EvaStripes /\ EvaSpace = 2 * DramBase
      /\ S * W \in Nat \ {0} /\ (S * W) * 2 \in Nat \ {0}
  BY Sizes
<1>2. /\ pow2[0] = 1 /\ pow2[1] = 2 /\ pow2[StripeLog] = S /\ pow2[XDimLog] = W
      /\ pow2[StripeLog + XDimLog] = S * W /\ pow2[StripeLog + XDimLog + 1] = (S * W) * 2
      /\ pow2[DramBit - (StripeLog + XDimLog + 1)] = EvaStripes
  BY Sizes, Pow2Values DEF S, W, EvaStripes
<1> DEFINE eva == DramBase + n
           M == S * W
           N == M * 2
<1>3. eva \in Nat /\ eva \in Eva
  BY <1>1 DEF Eva
<1>4. M \in Nat \ {0} /\ N \in Nat \ {0} /\ DramBase = N * EvaStripes /\ M = S * W /\ N = M * 2
  BY <1>1
<1> HIDE DEF M, N
<1>5. eva \div N = EvaStripes + (n \div N) /\ n \div N \in 0 .. EvaStripes - 1
  <2>1. eva = N * EvaStripes + n
    BY <1>4
  <2>2. eva \div N = EvaStripes + (n \div N)
    <3> HIDE DEF eva
    <3>1. EvaStripes \in Nat
      BY <1>1
    <3>2. (N * EvaStripes + n) \div N = EvaStripes + (n \div N)
      BY <1>1, <1>4, <3>1, Multiple, ZenonT(30)
    <3> QED
      BY <2>1, <3>2
  <2>3. n < N * EvaStripes
    BY <1>1, <1>4
  <2>4. n \div N < EvaStripes
    BY <1>1, <1>4, <2>3, QuotientBound
  <2>5. n \div N \in Nat
    BY <1>1, <1>4, Division
  <2> QED
    BY <1>1, <2>2, <2>4, <2>5
<1>6. (eva \div N) % EvaStripes = n \div N
  <2> DEFINE q == n \div N
             e == eva \div N
  <2>1. e = EvaStripes * 1 + q /\ q \in 0 .. EvaStripes - 1
    BY <1>1, <1>5
  <2> HIDE DEF q, e
  <2>2. e % EvaStripes = q
    BY <1>1, <2>1, Quotient
  <2> QED
    BY <2>2 DEF q, e
<1>7. (eva \div M) % 2 = (n \div M) % 2
  <2> DEFINE k == 2 * EvaStripes
             q == n \div M
  <2>1. k \in Nat /\ eva = M * k + n
    <3>1. (M * 2) * EvaStripes = M * (2 * EvaStripes)
      BY <1>1, <1>4
    <3> QED
      BY <1>1, <1>4, <3>1
  <2>2. eva \div M = k + q
    <3> HIDE DEF k, eva
    <3> QED
      BY <1>1, <1>4, <2>1, Multiple
  <2>3. q \in Nat
    BY <1>1, <1>4, Division
  <2> HIDE DEF q
  <2>4. (2 * EvaStripes + q) % 2 = q % 2
    BY <1>1, <2>3
  <2> QED
    BY <2>2, <2>4 DEF q
<1>8. (eva \div S) % W = (n \div S) % W
  <2> DEFINE j == 2 * EvaStripes
             k == W * j
             q == n \div S
  <2>1. j \in Nat /\ k \in Nat /\ eva = S * k + n
    <3>1. ((S * W) * 2) * EvaStripes = S * (W * (2 * EvaStripes))
      BY <1>1
    <3> QED
      BY <1>1, <3>1
  <2>2. eva \div S = k + q /\ eva % S = n % S
    <3> HIDE DEF k, eva
    <3> QED
      BY <1>1, <2>1, Multiple
  <2>3. q \in Nat
    BY <1>1, Division
  <2> HIDE DEF q, j
  <2>4. (W * j + q) % W = q % W
    BY <1>1, <2>1, <2>3, Multiple, ZenonT(30)
  <2> QED
    BY <2>2, <2>4 DEF q
<1>9. eva % S = n % S
  <2> DEFINE k == W * (2 * EvaStripes)
  <2>1. k \in Nat /\ eva = S * k + n
    <3>1. ((S * W) * 2) * EvaStripes = S * (W * (2 * EvaStripes))
      BY <1>1
    <3> QED
      BY <1>1, <3>1
  <2> HIDE DEF k, eva
  <2> QED
    BY <1>1, <2>1, Multiple
<1>10. Field(eva, 0, StripeLog) = n % S
  <2>1. eva \div 1 = eva
    BY <1>3
  <2> HIDE DEF eva
  <2> QED
    BY <1>2, <1>9, <2>1 DEF Field
<1>11. DramX(eva) = BankX(n)
  BY <1>2, <1>8 DEF DramX, Field, BankX
<1>12. DramY(eva) = BankY(n)
  BY <1>2, <1>7 DEF DramY, Field, BankY, M
<1>13. DramEpa(eva) = BankEpa(n)
  <2>1. Field(eva, StripeLog + XDimLog + 1, DramBit - (StripeLog + XDimLog + 1)) = n \div N
    <3> HIDE DEF eva
    <3> QED
      BY <1>2, <1>4, <1>6 DEF Field
  <2>2. DramEpa(eva) = (n % S) + (n \div N) * S
    BY <1>2, <1>10, <2>1 DEF DramEpa
  <2>3. n % S \in Nat /\ n \div N \in Nat
    <3>1. S \in Nat \ {0}
      BY <1>1
    <3>2. n % S \in Nat
      BY <1>1, <3>1, Division
    <3>3. n \div N \in Nat
      BY <1>1, <1>4, Division
    <3> QED
      BY <3>2, <3>3
  <2>4. (n % S) + (n \div N) * S = S * (n \div N) + (n % S)
    <3> DEFINE b == n \div N
               a == n % S
    <3> HIDE DEF a, b
    <3>1. a + b * S = S * b + a
      BY <1>1, <2>3 DEF a, b
    <3> QED
      BY <3>1 DEF a, b
  <2> QED
    BY <1>4, <2>2, <2>4 DEF BankEpa
<1>14. DramSegment(eva) = S - (n % S)
  BY <1>2, <1>10 DEF DramSegment
<1> QED
  BY <1>1, <1>3, <1>11, <1>12, <1>13, <1>14

-----------------------------------------------------------------------------
(* The words of DRAM and where they are.                                   *)

LEMMA HereDramBytes ==
  /\ DramBytes \in Nat \ {0} /\ DramBytes <= DramBase
  /\ DramBytes = ((S * W) * 2) * BankStripes
  /\ DramBytes = S * (W * (2 * BankStripes))
<1>1. /\ {S, W, A, DramBase, BankStripes, EvaStripes, Unused} \subseteq Nat \ {0}
      /\ S * W \in Nat \ {0} /\ (S * W) * 2 \in Nat \ {0}
      /\ A = S * BankStripes /\ EvaStripes = BankStripes * Unused
      /\ DramBase = ((S * W) * 2) * EvaStripes
  BY Sizes
<1>2. DramBytes = 2 * W * (S * BankStripes)
  BY <1>1 DEF DramBytes, W, A
<1> DEFINE N == (S * W) * 2
<1>3. 2 * W * (S * BankStripes) = N * BankStripes
  BY <1>1
<1>4. N * BankStripes = S * (W * (2 * BankStripes))
  BY <1>1
<1>5. N \in Nat \ {0} /\ DramBase = N * EvaStripes
  BY <1>1
<1> HIDE DEF N
<1>6. N * BankStripes <= N * (BankStripes * Unused)
  <2>1. PICK u \in Nat : Unused = u + 1
    <3>1. Unused - 1 \in Nat /\ Unused = (Unused - 1) + 1
      BY <1>1
    <3> QED
      BY <3>1
  <2>2. N * (BankStripes * (u + 1)) = N * BankStripes + N * (BankStripes * u)
    BY <1>1, <1>5, <2>1
  <2>3. BankStripes * u \in Nat
    BY <1>1, <2>1
  <2>4. N * (BankStripes * u) \in Nat /\ N * BankStripes \in Nat
    BY <1>1, <1>5, <2>3
  <2> QED
    BY <2>1, <2>2, <2>4
<1>7. N * BankStripes \in Nat \ {0}
  BY <1>1, <1>5
<1> QED
  BY <1>1, <1>2, <1>3, <1>4, <1>5, <1>6, <1>7 DEF N

\* The offset is its parts: the stripe behind a cache, the row of caches, the column, the byte.
LEMMA BankParts ==
  ASSUME NEW n \in Nat
  PROVE  /\ BankX(n) \in 0 .. W - 1 /\ BankEpa(n) \in Nat
         /\ (n \div (S * W)) % 2 \in 0 .. 1
         /\ BankEpa(n) % S = n % S /\ BankEpa(n) \div S = n \div ((S * W) * 2)
         /\ n = S * (W * (2 * (n \div ((S * W) * 2)) + ((n \div (S * W)) % 2)) + BankX(n)) + (n % S)
<1>1. S \in Nat \ {0} /\ W \in Nat \ {0} /\ S * W \in Nat \ {0} /\ (S * W) * 2 \in Nat \ {0}
  BY Sizes
<1> DEFINE h == n \div S
           r == n % S
           g == n \div (S * W)
           b == g % 2
           q == n \div ((S * W) * 2)
<1>2. h \in Nat /\ r \in 0 .. S - 1 /\ n = S * h + r
  <2>1. S \in Nat \ {0}
    BY <1>1
  <2> QED
    BY <2>1, Division
<1>3. g = h \div W
  BY <1>1, QuotientOfQuotient
<1>4. g \in Nat /\ h % W \in 0 .. W - 1 /\ h = W * g + (h % W)
  <2> HIDE DEF h
  <2>1. W \in Nat \ {0}
    BY <1>1
  <2> QED
    BY <1>2, <1>3, <2>1, Division
<1>5. q = g \div 2
  <2> DEFINE M == S * W
  <2>1. M \in Nat \ {0}
    BY <1>1
  <2> HIDE DEF M
  <2>2. n \div (M * 2) = (n \div M) \div 2
    BY <2>1, QuotientOfQuotient
  <2> QED
    BY <2>2 DEF M
<1>6. q \in Nat /\ b \in 0 .. 1 /\ g = 2 * q + b
  <2> HIDE DEF g, q
  <2> QED
    BY <1>4, <1>5
<1>7. BankX(n) = h % W /\ BankEpa(n) = S * q + r
  BY DEF BankX, BankEpa
<1> HIDE DEF h, r, g, b, q
<1>8. BankEpa(n) \in Nat /\ BankEpa(n) % S = r /\ BankEpa(n) \div S = q
  <2> DEFINE e == BankEpa(n)
  <2>1. e = S * q + r
    BY <1>7
  <2> HIDE DEF e
  <2>2. e \in Nat /\ e \div S = q /\ e % S = r
    BY <1>1, <1>2, <1>6, <2>1, Quotient
  <2> QED
    BY <2>2 DEF e
<1>9. n = S * (W * (2 * q + b) + BankX(n)) + r
  BY <1>2, <1>4, <1>6, <1>7
<1> QED
  BY <1>4, <1>6, <1>7, <1>8, <1>9 DEF b, g, q, r

\* One of the banks' words for each offset.
LEMMA BankAgain ==
  ASSUME NEW m \in Nat, NEW n \in Nat, Bank(m) = Bank(n)
  PROVE  m = n
<1>1. BankX(m) = BankX(n) /\ BankY(m) = BankY(n) /\ BankEpa(m) = BankEpa(n)
  <2>1. Bank(m).x = Bank(n).x /\ Bank(m).y = Bank(n).y /\ Bank(m).epa = Bank(n).epa
    OBVIOUS
  <2> QED
    BY <2>1 DEF Bank
<1> DEFINE b(k) == (k \div (S * W)) % 2
           q(k) == k \div ((S * W) * 2)
<1>2. \A k \in Nat : b(k) \in 0 .. 1 /\ BankY(k) = IF b(k) = 1 THEN HighY ELSE LowY
  BY BankParts DEF BankY
<1>3. LowY # HighY
  BY EvaAssumption DEF LowY, HighY, NetY
<1>4. \A k \in Nat : k = S * (W * (2 * q(k) + b(k)) + BankX(k)) + (k % S)
  BY BankParts
<1>5. m % S = n % S /\ q(m) = q(n)
  BY <1>1, BankParts
<1> HIDE DEF b, q
<1>6. b(m) = b(n)
  BY <1>1, <1>2, <1>3
<1> QED
  BY <1>1, <1>4, <1>5, <1>6

\* Behind a cache is what lies below the end of DRAM.
LEMMA DramReached ==
  ASSUME NEW n \in 0 .. DramBase - 1
  PROVE  BankEpa(n) < A <=> n < DramBytes
<1>1. /\ {S, A, BankStripes, DramBase} \subseteq Nat \ {0} /\ A = S * BankStripes
      /\ (S * W) * 2 \in Nat \ {0} /\ DramBytes = ((S * W) * 2) * BankStripes
  BY Sizes, HereDramBytes
<1>2. n \in Nat
  BY <1>1
<1> DEFINE e == BankEpa(n)
           N == (S * W) * 2
<1>3. e \in Nat /\ e \div S = n \div N
  BY <1>2, BankParts
<1>4. N \in Nat \ {0} /\ DramBytes = N * BankStripes
  BY <1>1
<1> HIDE DEF e, N
<1>5. e < S * BankStripes <=> e \div S < BankStripes
  BY <1>1, <1>3, QuotientBound
<1>6. n < N * BankStripes <=> n \div N < BankStripes
  BY <1>1, <1>2, <1>4, QuotientBound
<1> QED
  BY <1>1, <1>3, <1>4, <1>5, <1>6 DEF e

LEMMA ReachWithin ==
  pow2[AddrBits] \in Nat /\ A \in Nat /\ A <= pow2[AddrBits]
<1> DEFINE k == AddrBits - ReachBits
<1>1. k \in Nat /\ ReachBits \in Nat /\ AddrBits = ReachBits + k
  BY Widths
<1> HIDE DEF k
<1>2. pow2[AddrBits] = A * pow2[k]
  BY <1>1, Pow2Sum DEF A
<1>3. A \in Nat /\ pow2[k] \in Nat \ {0}
  BY <1>1, Pow2Values DEF A
<1> DEFINE m == pow2[k]
<1>4. m - 1 \in Nat /\ m = (m - 1) + 1
  BY <1>3
<1> HIDE DEF m
<1>5. PICK u \in Nat : m = u + 1
  BY <1>4
<1>6. A * (u + 1) = A * u + A /\ A * u \in Nat
  BY <1>3
<1> QED
  BY <1>2, <1>3, <1>5, <1>6 DEF m

LEMMA AllReached ==
  ASSUME ReachBits # AddrBits
  PROVE  EvaStripes = BankStripes /\ DramBytes = DramBase
<1>1. ReachBits = DramBit - XDimLog - 1
  BY DEF ReachBits
<1>2. ReachBits - StripeLog = DramBit - (StripeLog + XDimLog + 1)
  BY <1>1, Widths
<1>3. EvaStripes = BankStripes
  BY <1>2 DEF EvaStripes, BankStripes
<1> QED
  BY <1>3, Sizes, HereDramBytes

\* The map tests the EPA against the address bits of a cache. Where these do not fit, every EVA passes.
LEMMA DramTested ==
  ASSUME NEW n \in 0 .. DramBase - 1
  PROVE  BankEpa(n) < pow2[AddrBits] <=> n < DramBytes
<1>1. n \in Nat /\ BankEpa(n) \in Nat /\ DramBase \in Nat
  BY Sizes, BankParts
<1>2. BankEpa(n) < A <=> n < DramBytes
  BY DramReached
<1>3. CASE ReachBits = AddrBits
  BY <1>2, <1>3 DEF A
<1>4. CASE ReachBits # AddrBits
  <2>1. n < DramBytes
    BY <1>1, <1>4, AllReached
  <2> QED
    BY <1>1, <1>2, <2>1, ReachWithin
<1> QED
  BY <1>3, <1>4

\* The rest of a stripe is behind the same cache, at the next addresses.
LEMMA DramSame ==
  ASSUME NEW n \in 0 .. DramBytes - 1, NEW d \in Nat, (n % S) + d < S
  PROVE  /\ n + d \in 0 .. DramBytes - 1
         /\ BankX(n + d) = BankX(n) /\ BankY(n + d) = BankY(n) /\ BankEpa(n + d) = BankEpa(n) + d
<1>1. /\ {S, W, BankStripes, DramBytes} \subseteq Nat \ {0} /\ DramBytes = S * (W * (2 * BankStripes))
      /\ n \in Nat
  BY Sizes, HereDramBytes
<1> DEFINE e == n + d
           k == W * (2 * BankStripes)
<1>2. k \in Nat \ {0} /\ W * 2 \in Nat \ {0} /\ e \in Nat
  BY <1>1
<1>3. /\ e \div S = n \div S /\ e % S = (n % S) + d
      /\ \A j \in Nat \ {0} : e \div (S * j) = n \div (S * j)
  <2> DEFINE m == S
  <2>1. m \in Nat \ {0} /\ (n % m) + d < m /\ n \in Nat /\ d \in Nat
    BY <1>1
  <2> HIDE DEF m
  <2>2. /\ (n + d) \div m = n \div m /\ (n + d) % m = (n % m) + d
        /\ \A j \in Nat \ {0} : (n + d) \div (m * j) = n \div (m * j)
    BY <2>1, SameBlock
  <2> QED
    BY <2>2 DEF m
<1>4. DramBytes = S * k
  BY <1>1
<1> HIDE DEF e, k
<1>5. e < DramBytes
  <2>1. n < S * k <=> n \div S < k
    BY <1>1, <1>2, QuotientBound
  <2>2. e < S * k <=> e \div S < k
    BY <1>1, <1>2, QuotientBound
  <2> QED
    BY <1>1, <1>3, <1>4, <2>1, <2>2
<1>6. e \div (S * W) = n \div (S * W)
  BY <1>1, <1>3
<1>7. e \div ((S * W) * 2) = n \div ((S * W) * 2)
  <2>1. (S * W) * 2 = S * (W * 2)
    BY <1>1
  <2> QED
    BY <1>2, <1>3, <2>1
<1>8. BankX(e) = BankX(n) /\ BankY(e) = BankY(n)
  BY <1>3, <1>6 DEF BankX, BankY
<1>9. BankEpa(e) = BankEpa(n) + d
  <2> DEFINE f == S * (n \div ((S * W) * 2))
             r == n % S
  <2>1. BankEpa(e) = f + (r + d) /\ BankEpa(n) = f + r
    BY <1>3, <1>7 DEF BankEpa
  <2>2. r \in Nat /\ f \in Nat
    <3>1. (S * W) * 2 \in Nat \ {0}
      BY <1>1
    <3> DEFINE N == (S * W) * 2
    <3> HIDE DEF N
    <3>2. n \div N \in Nat
      BY <1>1, <3>1, Division DEF N
    <3>3. S \in Nat \ {0}
      BY <1>1
    <3>4. r \in Nat
      BY <1>1, <3>3, Division
    <3>5. \A u \in Nat : S * u \in Nat
      BY <3>3
    <3> QED
      BY <3>2, <3>4, <3>5 DEF N
  <2> HIDE DEF f, r
  <2> QED
    BY <2>1, <2>2
<1> QED
  BY <1>1, <1>2, <1>5, <1>8, <1>9 DEF e

LEMMA DramMap ==
  ASSUME ColumnsFillField, NEW n \in 0 .. DramBase - 1
  PROVE  default_eva_to_npa_dram(DramBase + n) =
           IF n < DramBytes THEN To(BankX(n), BankY(n), BankEpa(n), S - (n % S)) ELSE Fails
<1>1. W = DimX /\ DimX \in Nat
  BY EvaAssumption DEF ColumnsFillField, W
<1>2. n \in Nat /\ BankX(n) \in 0 .. W - 1 /\ BankEpa(n) \in Nat
  BY DramFields, BankParts
<1>3. ~(BankX(n) > DimX)
  BY <1>1, <1>2
<1>4. pow2[AddrBits] \in Nat
  BY ReachWithin
<1>5. BankEpa(n) >= pow2[AddrBits] <=> ~(n < DramBytes)
  BY <1>2, <1>4, DramTested
<1> QED
  BY <1>3, <1>4, <1>5, DramFields DEF default_eva_to_npa_dram

LEMMA HeldIs ==
  ASSUME ColumnsFillField
  PROVE  /\ \A n \in 0 .. DramBytes - 1 : HeldBy(Dram(n)) = Bank(n)
         /\ \A x, y, n : HeldBy(Dmem(x, y, n)) = [x |-> x, y |-> y, epa |-> DmemBase + n]
         /\ \A x, y, n : HeldBy(Csr(x, y, n)) = [x |-> x, y |-> y, epa |-> n]
<1>1. ASSUME NEW n \in 0 .. DramBytes - 1 PROVE HeldBy(Dram(n)) = Bank(n)
  <2>1. n \in 0 .. DramBase - 1 /\ n < DramBytes
    BY HereDramBytes, Sizes
  <2>2. default_eva_to_npa_dram(DramBase + n) = To(BankX(n), BankY(n), BankEpa(n), S - (n % S))
    BY <2>1, DramMap
  <2>3. default_eva_to_npa_dram(DramBase + n).npa = Bank(n)
    BY <2>2 DEF To, Bank
  <2> QED
    BY <2>3 DEF HeldBy, Dram, DramBase
<1>2. ASSUME NEW x, NEW y, NEW n PROVE HeldBy(Dmem(x, y, n)) = [x |-> x, y |-> y, epa |-> DmemBase + n]
  BY DEF HeldBy, Dmem
<1>3. ASSUME NEW x, NEW y, NEW n PROVE HeldBy(Csr(x, y, n)) = [x |-> x, y |-> y, epa |-> n]
  BY DEF HeldBy, Csr
<1> QED
  BY <1>1, <1>2, <1>3

LEMMA TilePages ==
  P % 4 = 0 /\ P \in Nat \ {0}
<1>1. P \in Nat \ {0}
  BY Sizes
<1>2. EpaLog \in Nat /\ EpaLog # 0 /\ EpaLog # 1
  <2>1. DmemSize \in Nat /\ DmemSize # 0 /\ DmemSize % 4 = 0 /\ DmemBase \in Nat /\ DmemBase + DmemSize <= P
    BY EvaAssumption DEF P
  <2>2. P >= 4
    BY <1>1, <2>1
  <2>3. pow2[1] = 2
    BY Pow2Values
  <2> QED
    BY <2>2, <2>3, EvaAssumption DEF P
<1> DEFINE k == EpaLog - 2
<1>3. k \in Nat /\ EpaLog = 2 + k
  BY <1>2
<1> HIDE DEF k
<1> DEFINE m == pow2[k]
<1>4. P = pow2[2] * m
  BY <1>3, Pow2Sum DEF P
<1>5. m \in Nat /\ pow2[2] = 4
  BY <1>3, Pow2Values
<1> HIDE DEF m
<1> QED
  BY <1>1, <1>4, <1>5

\* A place is a word of DRAM, of a tile's memory, or a register.
LEMMA PlaceCases ==
  ASSUME NEW p \in Place
  PROVE  \/ \E n \in 0 .. DramBytes - 1 : n % 4 = 0 /\ p = Dram(n)
         \/ \E t \in Tiles, n \in 0 .. DmemSize - 1 : n % 4 = 0 /\ p = Dmem(t[1], t[2], n)
         \/ \E t \in Tiles, n \in Csrs : p = Csr(t[1], t[2], n)
BY DEF Place

LEMMA HeldInCells ==
  ASSUME ColumnsFillField, NEW p \in Place
  PROVE  HeldBy(p) \in Cells
<1>1. W = DimX /\ DimX \in Nat \ {0} /\ BaseY = 2 /\ LowY = 0 /\ HighY = DimY + 2 /\ DimY \in Nat
  BY EvaAssumption DEF ColumnsFillField, W, BaseY, LowY, HighY, NetY
<1>2. ASSUME NEW n \in 0 .. DramBytes - 1, n % 4 = 0, p = Dram(n) PROVE HeldBy(p) \in Cells
  <2>1. HeldBy(p) = [x |-> BankX(n), y |-> BankY(n), epa |-> BankEpa(n)]
    BY <1>2, HeldIs DEF Bank
  <2>2. n \in 0 .. DramBase - 1 /\ n \in Nat /\ n < DramBytes /\ A \in Nat
    BY HereDramBytes, Sizes
  <2>3. BankX(n) \in 0 .. DimX - 1 /\ BankY(n) \in {LowY, HighY}
    BY <1>1, <2>2, BankParts DEF BankY
  <2>4. BankEpa(n) \in 0 .. A - 1
    <3>1. BankEpa(n) < A /\ BankEpa(n) \in Nat
      BY <2>2, DramReached, BankParts
    <3> QED
      BY <2>2, <3>1
  <2>5. BankEpa(n) % 4 = 0
    <3>1. S \in Nat \ {0} /\ S % 4 = 0 /\ BankEpa(n) \in Nat /\ BankEpa(n) % S = n % S
      BY <2>2, Sizes, BankParts
    <3>2. (n % S) % 4 = n % 4 /\ (BankEpa(n) % S) % 4 = BankEpa(n) % 4
      BY <2>2, <3>1, Fours
    <3> QED
      BY <1>2, <3>1, <3>2
  <2> QED
    BY <2>1, <2>3, <2>4, <2>5 DEF Cells, A
<1>3. ASSUME NEW t \in Tiles, NEW n \in 0 .. DmemSize - 1, n % 4 = 0, p = Dmem(t[1], t[2], n)
      PROVE HeldBy(p) \in Cells
  <2>1. HeldBy(p) = [x |-> t[1], y |-> t[2], epa |-> DmemBase + n]
    BY <1>3, HeldIs
  <2>2. t[1] \in 0 .. DimX - 1 /\ t[2] \in 2 .. DimY + 1
    BY TilesAre
  <2>3. DmemBase \in Nat /\ DmemSize \in Nat /\ DmemBase % 4 = 0 /\ DmemBase + DmemSize <= P /\ P \in Nat
    BY EvaAssumption, Sizes DEF P
  <2>4. DmemBase + n \in 0 .. P - 1 /\ (DmemBase + n) % 4 = 0 /\ InDmem(DmemBase + n)
    BY <1>3, <2>3 DEF InDmem
  <2>5. t[2] \in BaseY .. BaseY + DimY - 1
    BY <1>1, <2>2
  <2> QED
    BY <2>1, <2>2, <2>4, <2>5 DEF Cells, P
<1>4. ASSUME NEW t \in Tiles, NEW n \in Csrs, p = Csr(t[1], t[2], n) PROVE HeldBy(p) \in Cells
  <2>1. HeldBy(p) = [x |-> t[1], y |-> t[2], epa |-> n]
    BY <1>4, HeldIs
  <2>2. t[1] \in 0 .. DimX - 1 /\ t[2] \in 2 .. DimY + 1
    BY TilesAre
  <2>3. n \in 0 .. pow2[EpaLog] - 1 /\ n % 4 = 0
    BY EvaAssumption
  <2>4. t[2] \in BaseY .. BaseY + DimY - 1
    BY <1>1, <2>2
  <2> QED
    BY <2>1, <2>2, <2>3, <2>4 DEF Cells
<1> QED
  BY <1>2, <1>3, <1>4, PlaceCases

\* Two places share no cell.
LEMMA HeldApart ==
  ASSUME ColumnsFillField, NEW p \in Place, NEW q \in Place, HeldBy(p) = HeldBy(q)
  PROVE  p = q
<1> DEFINE IsD(r, n) == n \in 0 .. DramBytes - 1 /\ r = Dram(n)
           IsM(r, t, n) == t \in Tiles /\ n \in 0 .. DmemSize - 1 /\ r = Dmem(t[1], t[2], n)
           IsC(r, t, n) == t \in Tiles /\ n \in Csrs /\ r = Csr(t[1], t[2], n)
<1>1. \A r \in Place : \/ \E n : IsD(r, n)
                       \/ \E t, n : IsM(r, t, n)
                       \/ \E t, n : IsC(r, t, n)
  BY PlaceCases
<1>2. LowY = 0 /\ HighY = DimY + 2 /\ DimY \in Nat
  BY EvaAssumption DEF LowY, HighY, NetY
<1>3. ASSUME NEW r, NEW n, IsD(r, n) PROVE HeldBy(r) = Bank(n) /\ HeldBy(r).y \notin 2 .. DimY + 1
  <2>1. HeldBy(r) = [x |-> BankX(n), y |-> BankY(n), epa |-> BankEpa(n)]
    BY <1>3, HeldIs DEF Bank
  <2> QED
    BY <1>2, <2>1 DEF BankY, Bank
<1>4. ASSUME NEW r, NEW t, NEW n, IsM(r, t, n)
      PROVE  /\ HeldBy(r) = [x |-> t[1], y |-> t[2], epa |-> DmemBase + n] /\ t[2] \in 2 .. DimY + 1
             /\ DmemBase + n \in DmemBase .. DmemBase + DmemSize - 1
  BY <1>4, HeldIs, TilesAre, EvaAssumption
<1>5. ASSUME NEW r, NEW t, NEW n, IsC(r, t, n)
      PROVE  /\ HeldBy(r) = [x |-> t[1], y |-> t[2], epa |-> n] /\ t[2] \in 2 .. DimY + 1
             /\ n \notin DmemBase .. DmemBase + DmemSize - 1
  BY <1>5, HeldIs, TilesAre, EvaAssumption
<1>6. ASSUME NEW m, NEW n, IsD(p, m), IsD(q, n) PROVE p = q
  <2>1. Bank(m) = Bank(n) /\ m \in Nat /\ n \in Nat
    BY <1>3, <1>6, HereDramBytes
  <2>2. m = n
    BY <2>1, BankAgain
  <2> QED
    BY <1>6, <2>2
<1>7. ASSUME NEW s, NEW t, NEW m, NEW n, IsM(p, s, m), IsM(q, t, n) PROVE p = q
  <2>1. [x |-> s[1], y |-> s[2], epa |-> DmemBase + m] = [x |-> t[1], y |-> t[2], epa |-> DmemBase + n]
    BY <1>4, <1>7
  <2>2. s[1] = t[1] /\ s[2] = t[2] /\ DmemBase + m = DmemBase + n
    <3> DEFINE u == [x |-> s[1], y |-> s[2], epa |-> DmemBase + m]
               v == [x |-> t[1], y |-> t[2], epa |-> DmemBase + n]
    <3>1. u.x = v.x /\ u.y = v.y /\ u.epa = v.epa
      BY <2>1
    <3> QED
      BY <3>1
  <2>3. m = n
    BY <1>7, <2>2, EvaAssumption
  <2> QED
    BY <1>7, <2>2, <2>3
<1>8. ASSUME NEW s, NEW t, NEW m, NEW n, IsC(p, s, m), IsC(q, t, n) PROVE p = q
  <2>1. [x |-> s[1], y |-> s[2], epa |-> m] = [x |-> t[1], y |-> t[2], epa |-> n]
    BY <1>5, <1>8
  <2>2. s[1] = t[1] /\ s[2] = t[2] /\ m = n
    <3> DEFINE u == [x |-> s[1], y |-> s[2], epa |-> m]
               v == [x |-> t[1], y |-> t[2], epa |-> n]
    <3>1. u.x = v.x /\ u.y = v.y /\ u.epa = v.epa
      BY <2>1
    <3> QED
      BY <3>1
  <2> QED
    BY <1>8, <2>2
<1>9. ASSUME NEW a \in Place, NEW b \in Place, HeldBy(a) = HeldBy(b), NEW m, IsD(a, m)
       PROVE  \E n : IsD(b, n)
  <2>1. HeldBy(b).y \notin 2 .. DimY + 1
    BY <1>3, <1>9
  <2>2. ASSUME NEW t, NEW n, IsM(b, t, n) \/ IsC(b, t, n) PROVE HeldBy(b).y \in 2 .. DimY + 1
    BY <1>4, <1>5, <2>2
  <2> QED
    BY <1>1, <2>1, <2>2
<1>10. ASSUME NEW a \in Place, NEW b \in Place, HeldBy(a) = HeldBy(b), NEW s, NEW m, IsM(a, s, m)
       PROVE  ~ \E t, n : IsC(b, t, n)
  <2>1. HeldBy(a).epa \in DmemBase .. DmemBase + DmemSize - 1
    <3> HIDE DEF IsM
    <3>1. HeldBy(a) = [x |-> s[1], y |-> s[2], epa |-> DmemBase + m]
      BY <1>4, <1>10
    <3>2. DmemBase + m \in DmemBase .. DmemBase + DmemSize - 1
      BY <1>4, <1>10
    <3> QED
      BY <3>1, <3>2
  <2>2. ASSUME NEW t, NEW n, IsC(b, t, n) PROVE HeldBy(b).epa \notin DmemBase .. DmemBase + DmemSize - 1
    BY <1>5, <2>2
  <2> QED
    BY <1>10, <2>1, <2>2
<1> HIDE DEF IsD, IsM, IsC
<1>11. CASE \E m : IsD(p, m)
  BY <1>6, <1>9, <1>11
<1>12. CASE \E s, m : IsM(p, s, m)
  BY <1>1, <1>6, <1>7, <1>9, <1>10, <1>12
<1>13. CASE \E s, m : IsC(p, s, m)
  BY <1>1, <1>6, <1>8, <1>9, <1>10, <1>13
<1> QED
  BY <1>1, <1>11, <1>12, <1>13

-----------------------------------------------------------------------------
(* A segment is what the map says it is: from an EVA that the map and the  *)
(* transfer take, the words up to the end of the segment are places that   *)
(* follow each other in one node.                                          *)

SegmentAt(c, eva) == default_eva_to_npa(c.origin, c.tgt, eva)

Taken(c, seg) ==
  /\ seg.ok
  /\ IF c.kind \in DmaKinds THEN SupportsDma /\ IsDramRow(seg.npa)
     ELSE seg.npa.x < DimX /\ seg.npa.y < NetY /\ seg.npa.epa % 4 = 0

NamesTileRow(c, eva) ==
  ~IsDram(eva) /\ (IsGlobal(eva) \/ IsGroup(eva)) => RowNamed(c, eva) \notin {LowY, BaseY - 1, HighY}

Follows(c, eva, d) ==
  /\ Named(c, (eva + d) % EvaSpace) \in Place
  /\ HeldBy(Named(c, (eva + d) % EvaSpace)) = [SegmentAt(c, eva).npa EXCEPT !.epa = @ + d]

LEMMA DramFours ==
  DramBase % 4 = 0 /\ EvaSpace % 4 = 0
<1>1. GroupBase \in Nat /\ DramBase = 2 * (2 * GroupBase) /\ EvaSpace = 2 * DramBase
  BY Sizes
<1> QED
  BY <1>1

LEMMA DramNamed ==
  ASSUME NEW c \in Call, NEW n \in 0 .. DramBase - 1
  PROVE  /\ (DramBase + n) % EvaSpace = DramBase + n /\ (DramBase + n) % 4 = n % 4
         /\ Named(c, DramBase + n) =
              IF n % 4 # 0 \/ (c.kind \in DmaKinds /\ ~SupportsDma) THEN Nowhere
              ELSE IF n < DramBytes THEN Dram(n) ELSE Nowhere
<1>1. DramBase \in Nat \ {0} /\ EvaSpace \in Nat \ {0} /\ EvaSpace = 2 * DramBase /\ DramBase % 4 = 0
      /\ DramBytes \in Nat
  BY Sizes, DramFours, HereDramBytes
<1> DEFINE eva == DramBase + n
<1>2. eva \in Nat /\ eva < EvaSpace /\ eva >= DramBase /\ eva - DramBase = n
  BY <1>1
<1>3. eva % 4 = n % 4
  BY <1>1
<1>4. eva % EvaSpace = eva
  <2>1. eva = EvaSpace * 0 + eva /\ eva \in 0 .. EvaSpace - 1
    BY <1>1, <1>2
  <2> HIDE DEF eva
  <2> QED
    BY <1>1, <2>1, Quotient
<1>5. Named(c, eva) =
        IF n % 4 # 0 \/ (c.kind \in DmaKinds /\ ~SupportsDma) THEN Nowhere
        ELSE IF n < DramBytes THEN Dram(n) ELSE Nowhere
  <2>1. pow2[DramBit] = DramBase
    BY DEF DramBase
  <2> HIDE DEF eva
  <2> QED
    BY <1>2, <1>3, <2>1 DEF Named
<1> QED
  BY <1>3, <1>4, <1>5

LEMMA DramSegments ==
  ASSUME ColumnsFillField, NEW c \in Call, NEW eva \in Eva, eva >= DramBase
  PROVE  /\ Taken(c, SegmentAt(c, eva)) /\ (c.kind \in DmaKinds => eva % 4 = 0) =>
              /\ eva % 4 = 0 /\ SegmentAt(c, eva).sz \in Nat \ {0} /\ SegmentAt(c, eva).sz % 4 = 0
              /\ SegmentAt(c, eva).npa \in [x : Nat, y : Nat, epa : Nat]
              /\ \A d \in 0 .. SegmentAt(c, eva).sz - 1 : d % 4 = 0 => Follows(c, eva, d)
         /\ ~Taken(c, SegmentAt(c, eva)) => Named(c, eva) = Nowhere
<1> DEFINE n == eva - DramBase
           seg == SegmentAt(c, eva)
<1>1. /\ DramBase \in Nat \ {0} /\ EvaSpace = 2 * DramBase /\ DramBytes \in Nat /\ DramBytes <= DramBase
      /\ S \in Nat \ {0} /\ S % 4 = 0
  BY Sizes, HereDramBytes
<1>2. n \in 0 .. DramBase - 1 /\ eva = DramBase + n /\ n \in Nat
  BY <1>1 DEF Eva
<1> HIDE DEF n
<1>3. seg = IF n < DramBytes THEN To(BankX(n), BankY(n), BankEpa(n), S - (n % S)) ELSE Fails
  <2>1. default_eva_to_npa_dram(DramBase + n) =
          IF n < DramBytes THEN To(BankX(n), BankY(n), BankEpa(n), S - (n % S)) ELSE Fails
    BY <1>2, DramMap
  <2>2. seg = default_eva_to_npa_dram(eva)
    BY MapByZone DEF SegmentAt
  <2> QED
    BY <1>2, <2>1, <2>2
<1>4. /\ eva % 4 = n % 4
      /\ Named(c, eva) = IF n % 4 # 0 \/ (c.kind \in DmaKinds /\ ~SupportsDma) THEN Nowhere
                         ELSE IF n < DramBytes THEN Dram(n) ELSE Nowhere
  BY <1>2, DramNamed
<1>5. BankX(n) \in 0 .. DimX - 1 /\ BankY(n) \in {LowY, HighY} /\ BankY(n) < NetY
  <2>1. W = DimX /\ LowY < NetY /\ HighY < NetY
    BY EvaAssumption DEF ColumnsFillField, W, LowY, HighY, NetY
  <2>2. BankX(n) \in 0 .. W - 1
    BY <1>2, BankParts
  <2>3. BankY(n) \in {LowY, HighY}
    BY DEF BankY
  <2> QED
    BY <2>1, <2>2, <2>3
<1>6. BankEpa(n) \in Nat /\ BankEpa(n) % 4 = n % 4
  <2>1. BankEpa(n) \in Nat /\ BankEpa(n) % S = n % S
    BY <1>2, BankParts
  <2>2. (n % S) % 4 = n % 4 /\ (BankEpa(n) % S) % 4 = BankEpa(n) % 4
    BY <1>1, <1>2, <2>1, Fours
  <2> QED
    BY <2>1, <2>2
<1>7. n % S \in 0 .. S - 1 /\ (n % S) % 4 = n % 4
  BY <1>1, <1>2, Division, Fours
<1> DEFINE r == n % S
<1>8. Taken(c, seg) <=>
        n < DramBytes /\ IF c.kind \in DmaKinds THEN SupportsDma ELSE n % 4 = 0
  <2>1. CASE n < DramBytes
    <3>1. seg.ok /\ seg.npa = [x |-> BankX(n), y |-> BankY(n), epa |-> BankEpa(n)]
      BY <1>3, <2>1 DEF To
    <3>2. seg.npa.x < DimX /\ seg.npa.y < NetY /\ IsDramRow(seg.npa) /\ (seg.npa.epa % 4 = 0 <=> n % 4 = 0)
      <4>1. seg.npa.x = BankX(n) /\ seg.npa.y = BankY(n) /\ seg.npa.epa = BankEpa(n)
        BY <3>1
      <4> HIDE DEF seg
      <4>2. DimX \in Nat
        BY EvaAssumption
      <4> QED
        BY <1>5, <1>6, <4>1, <4>2 DEF IsDramRow
    <3> HIDE DEF seg
    <3> QED
      BY <2>1, <3>1, <3>2 DEF Taken
  <2>2. CASE ~(n < DramBytes)
    BY <1>3, <2>2 DEF Taken, Fails
  <2> QED
    BY <2>1, <2>2
<1>9. ASSUME Taken(c, seg), c.kind \in DmaKinds => eva % 4 = 0
      PROVE  /\ eva % 4 = 0 /\ seg.sz \in Nat \ {0} /\ seg.sz % 4 = 0
             /\ seg.npa \in [x : Nat, y : Nat, epa : Nat]
             /\ \A d \in 0 .. seg.sz - 1 : d % 4 = 0 => Follows(c, eva, d)
  <2>1. n < DramBytes /\ n % 4 = 0 /\ (c.kind \in DmaKinds => SupportsDma)
    BY <1>4, <1>8, <1>9
  <2>2. seg.sz = S - r /\ seg.npa = [x |-> BankX(n), y |-> BankY(n), epa |-> BankEpa(n)]
    BY <1>3, <2>1 DEF To
  <2>3. seg.sz \in Nat \ {0} /\ seg.sz % 4 = 0
    <3>1. r \in 0 .. S - 1 /\ r % 4 = 0
      BY <1>7, <2>1
    <3> HIDE DEF r, seg
    <3> QED
      BY <1>1, <2>2, <3>1
  <2>4. ASSUME NEW d \in 0 .. seg.sz - 1, d % 4 = 0 PROVE Follows(c, eva, d)
    <3>1. d \in Nat /\ r + d < S
      <4>1. r \in 0 .. S - 1
        BY <1>7
      <4> HIDE DEF r, seg
      <4> QED
        BY <1>1, <2>2, <2>3, <4>1
    <3>2. n \in 0 .. DramBytes - 1
      BY <1>1, <1>2, <2>1
    <3>3. /\ n + d \in 0 .. DramBytes - 1
          /\ BankX(n + d) = BankX(n) /\ BankY(n + d) = BankY(n) /\ BankEpa(n + d) = BankEpa(n) + d
      BY <3>1, <3>2, DramSame
    <3>4. n + d \in 0 .. DramBase - 1 /\ (n + d) % 4 = 0
      BY <1>1, <1>2, <2>1, <2>4, <3>1, <3>3
    <3>5. eva + d = DramBase + (n + d)
      BY <1>1, <1>2, <3>1
    <3>6. (eva + d) % EvaSpace = eva + d /\ Named(c, eva + d) = Dram(n + d)
      <4>1. (DramBase + (n + d)) % EvaSpace = DramBase + (n + d)
        BY <3>4, DramNamed
      <4>2. Named(c, DramBase + (n + d)) =
              IF (n + d) % 4 # 0 \/ (c.kind \in DmaKinds /\ ~SupportsDma) THEN Nowhere
              ELSE IF n + d < DramBytes THEN Dram(n + d) ELSE Nowhere
        BY <3>4, DramNamed
      <4>3. n + d < DramBytes
        BY <1>1, <3>3
      <4> QED
        BY <2>1, <3>4, <3>5, <4>1, <4>2, <4>3
    <3>7. Dram(n + d) \in Place
      BY <3>3, <3>4 DEF Place
    <3>8. HeldBy(Dram(n + d)) = [x |-> BankX(n), y |-> BankY(n), epa |-> BankEpa(n) + d]
      BY <3>3, HeldIs DEF Bank
    <3>9. [seg.npa EXCEPT !.epa = @ + d] = [x |-> BankX(n), y |-> BankY(n), epa |-> BankEpa(n) + d]
      BY <2>2
    <3> QED
      BY <3>6, <3>7, <3>8, <3>9 DEF Follows
  <2>5. seg.npa \in [x : Nat, y : Nat, epa : Nat]
    <3>1. BankX(n) \in Nat /\ BankY(n) \in Nat /\ BankEpa(n) \in Nat
      BY <1>5, <1>6, EvaAssumption DEF LowY, HighY, NetY
    <3> QED
      BY <2>2, <3>1
  <2> QED
    BY <1>4, <2>1, <2>3, <2>4, <2>5
<1>10. ASSUME ~Taken(c, seg) PROVE Named(c, eva) = Nowhere
  BY <1>4, <1>8, <1>10
<1> QED
  BY <1>9, <1>10

LEMMA TileSegments ==
  ASSUME ColumnsFillField, NEW c \in Call, NEW eva \in Eva, eva < DramBase, NamesTileRow(c, eva)
  PROVE  /\ Taken(c, SegmentAt(c, eva)) =>
              /\ eva % 4 = 0 /\ SegmentAt(c, eva).sz \in Nat \ {0} /\ SegmentAt(c, eva).sz % 4 = 0
              /\ SegmentAt(c, eva).npa \in [x : Nat, y : Nat, epa : Nat]
              /\ \A d \in 0 .. SegmentAt(c, eva).sz - 1 : d % 4 = 0 => Follows(c, eva, d)
         /\ ~Taken(c, SegmentAt(c, eva)) => Named(c, eva) = Nowhere
<1> DEFINE seg == SegmentAt(c, eva)
           t   == TileOf(c, eva)
           off == eva % P
           InD == off \in DmemBase .. DmemBase + DmemSize - 1
<1>1. /\ seg = Fails \/ seg = default_eva_to_epa_tile(eva, t[1], t[2])
      /\ t \in Tiles => seg = default_eva_to_epa_tile(eva, t[1], t[2])
      /\ t = <<t[1], t[2]>> /\ t[1] \in Nat /\ t[2] \in Nat
  BY TileZoneMap DEF SegmentAt
<1>2. /\ off \in 0 .. P - 1
      /\ InD => default_eva_to_epa_tile(eva, t[1], t[2]) = To(t[1], t[2], off, DmemBase + DmemSize - off)
      /\ off \in Csrs => default_eva_to_epa_tile(eva, t[1], t[2]) = To(t[1], t[2], off, 4)
      /\ ~InD /\ off \notin Csrs => default_eva_to_epa_tile(eva, t[1], t[2]) = Fails
  BY TileMap
<1>3. Named(c, eva) = IF eva % 4 # 0 \/ c.kind \in DmaKinds THEN Nowhere ELSE InTile(t[1], t[2], off)
  BY TileZoneNamed
<1>4. eva \in Nat /\ off % 4 = eva % 4
  <2>1. eva \in Nat
    BY Sizes DEF Eva
  <2> QED
    BY <2>1, TilePages, Fours
<1>5. t[2] \in {LowY, BaseY - 1, HighY} => seg = Fails
  <2>1. /\ {eva, P, GroupBase, GlobalBase, DramBase} \subseteq Nat
        /\ P <= GroupBase /\ GroupBase < GlobalBase /\ GlobalBase < DramBase
    BY Zones, Sizes DEF Eva
  <2>2. CASE eva >= GlobalBase
    <3>1. t[2] = RowNamed(c, eva) /\ IsGlobal(eva) /\ ~IsDram(eva)
      BY <2>1, <2>2, Zones, Fields DEF TileOf, RowNamed
    <3> QED
      BY <3>1 DEF NamesTileRow
  <2>3. CASE eva < GlobalBase /\ eva >= GroupBase
    <3>1. IsGroup(eva) /\ ~IsGlobal(eva) /\ ~IsDram(eva)
      BY <2>1, <2>3, Zones
    <3>2. t[2] = RowNamed(c, eva)
      BY <2>1, <2>3, <3>1, Fields DEF TileOf, RowNamed
    <3> QED
      BY <3>1, <3>2 DEF NamesTileRow
  <2>4. CASE eva < GroupBase /\ eva < P
    <3>1. t = c.tgt /\ c.tgt \in Tiles
      BY <2>1, <2>4 DEF TileOf, Call
    <3> QED
      BY <3>1, TilesAre, EvaAssumption DEF LowY, BaseY, HighY, NetY
  <2>5. CASE eva < GroupBase /\ eva >= P
    BY <2>5, MapByZone DEF SegmentAt
  <2> QED
    BY <2>1, <2>2, <2>3, <2>4, <2>5
<1>6. seg # Fails => (InD \/ off \in Csrs) /\ t[2] \notin {LowY, BaseY - 1, HighY}
                       /\ seg = To(t[1], t[2], off, IF InD THEN DmemBase + DmemSize - off ELSE 4)
  BY <1>1, <1>2, <1>5
<1>7. LowY = 0 /\ BaseY - 1 = 1 /\ HighY = DimY + 2 /\ NetY = DimY + 3 /\ DimX \in Nat /\ DimY \in Nat
  BY EvaAssumption DEF LowY, BaseY, HighY, NetY
<1>8. t \in Tiles <=> t[1] < DimX /\ t[2] \in 2 .. DimY + 1
  BY <1>1, <1>7, TilesAre
<1> HIDE DEF t, off
<1>9. ASSUME Taken(c, seg)
      PROVE  /\ seg # Fails /\ c.kind \notin DmaKinds /\ eva % 4 = 0 /\ t \in Tiles
             /\ seg.sz = (IF InD THEN DmemBase + DmemSize - off ELSE 4)
             /\ seg.npa = [x |-> t[1], y |-> t[2], epa |-> off]
  <2>1. seg # Fails
    BY <1>9 DEF Taken, Fails
  <2>2. /\ seg.sz = (IF InD THEN DmemBase + DmemSize - off ELSE 4)
        /\ seg.npa = [x |-> t[1], y |-> t[2], epa |-> off]
    BY <1>6, <2>1 DEF To
  <2> HIDE DEF seg, InD
  <2>3. seg.npa.x = t[1] /\ seg.npa.y = t[2] /\ seg.npa.epa = off
    BY <2>2
  <2>4. c.kind \notin DmaKinds
    BY <1>6, <1>9, <2>1, <2>3 DEF Taken, IsDramRow
  <2>5. t[1] < DimX /\ t[2] < NetY /\ off % 4 = 0
    BY <1>9, <2>3, <2>4 DEF Taken
  <2>6. t \in Tiles
    BY <1>1, <1>6, <1>7, <1>8, <2>1, <2>5
  <2> QED
    BY <1>4, <2>1, <2>2, <2>4, <2>5, <2>6
<1>10. ASSUME Taken(c, seg)
       PROVE  /\ eva % 4 = 0 /\ seg.sz \in Nat \ {0} /\ seg.sz % 4 = 0
              /\ seg.npa \in [x : Nat, y : Nat, epa : Nat]
              /\ \A d \in 0 .. seg.sz - 1 : d % 4 = 0 => Follows(c, eva, d)
  <2>1. /\ eva % 4 = 0 /\ t \in Tiles /\ c.kind \notin DmaKinds
        /\ seg.sz = (IF InD THEN DmemBase + DmemSize - off ELSE 4)
        /\ seg.npa = [x |-> t[1], y |-> t[2], epa |-> off] /\ (InD \/ off \in Csrs)
    BY <1>6, <1>9, <1>10
  <2>2. /\ DmemBase \in Nat /\ DmemSize \in Nat /\ DmemBase % 4 = 0 /\ DmemSize % 4 = 0
        /\ DmemBase + DmemSize <= P /\ P \in Nat
    BY EvaAssumption, Sizes DEF P
  <2>3. off \in 0 .. P - 1 /\ off % 4 = 0
    BY <1>2, <1>4, <2>1
  <2>4. seg.sz \in Nat \ {0} /\ seg.sz % 4 = 0
    <3> HIDE DEF seg
    <3>1. CASE InD
      <4>1. DmemBase + DmemSize - off \in Nat \ {0} /\ (DmemBase + DmemSize - off) % 4 = 0
        BY <2>2, <2>3, <3>1
      <4> QED
        BY <2>1, <3>1, <4>1
    <3>2. CASE ~InD
      BY <2>1, <3>2
    <3> QED
      BY <3>1, <3>2
  <2>5. ASSUME NEW d \in 0 .. seg.sz - 1, d % 4 = 0 PROVE Follows(c, eva, d)
    <3>1. d \in Nat /\ off + d < P /\ InTile(t[1], t[2], off + d) \in Place
          /\ HeldBy(InTile(t[1], t[2], off + d)) = [x |-> t[1], y |-> t[2], epa |-> off + d]
      <4>1. CASE InD
        <5> DEFINE m == (off + d) - DmemBase
        <5>1. d \in Nat /\ off + d < P /\ off + d \in DmemBase .. DmemBase + DmemSize - 1
              /\ m \in 0 .. DmemSize - 1 /\ m % 4 = 0 /\ DmemBase + m = off + d
          <6>1. d \in 0 .. (DmemBase + DmemSize - off) - 1
            BY <2>1, <4>1
          <6> HIDE DEF seg
          <6> QED
            BY <2>2, <2>3, <2>5, <4>1, <6>1
        <5> HIDE DEF m
        <5>2. off + d \notin Csrs
          BY <5>1, EvaAssumption
        <5>3. InTile(t[1], t[2], off + d) = Dmem(t[1], t[2], m)
          <6>1. <<t[1], t[2]>> \in Tiles /\ m = (off + d) - DmemBase
            <7>1. t \in Tiles /\ t = <<t[1], t[2]>>
              BY <1>1, <2>1
            <7>2. <<t[1], t[2]>> \in Tiles
              BY <7>1
            <7>3. m = (off + d) - DmemBase
              BY DEF m
            <7> QED
              BY <7>2, <7>3
          <6>2. off + d \in DmemBase .. DmemBase + DmemSize - 1
            BY <5>1
          <6> QED
            BY <5>2, <6>1, <6>2 DEF InTile
        <5>4. Dmem(t[1], t[2], m) \in Place
          BY <2>1, <5>1 DEF Place
        <5>5. HeldBy(Dmem(t[1], t[2], m)) = [x |-> t[1], y |-> t[2], epa |-> DmemBase + m]
          BY HeldIs
        <5> QED
          BY <5>1, <5>3, <5>4, <5>5
      <4>2. CASE ~InD
        <5>1. d = 0 /\ off + d = off /\ off \in Csrs
          <6>1. d \in 0 .. 4 - 1
            BY <2>1, <4>2
          <6> HIDE DEF seg
          <6>2. d = 0
            BY <2>5, <6>1
          <6>3. off \in Csrs /\ off \in Nat
            BY <2>1, <2>3, <4>2
          <6> QED
            BY <6>2, <6>3
        <5>2. InTile(t[1], t[2], off) = Csr(t[1], t[2], off)
          BY <1>1, <2>1, <5>1 DEF InTile
        <5>3. Csr(t[1], t[2], off) \in Place
          BY <2>1, <5>1 DEF Place
        <5>4. HeldBy(Csr(t[1], t[2], off)) = [x |-> t[1], y |-> t[2], epa |-> off]
          BY HeldIs
        <5> QED
          BY <2>2, <2>3, <5>1, <5>2, <5>3, <5>4
      <4> QED
        BY <4>1, <4>2
    <3>2. /\ eva + d \in Eva /\ eva + d < DramBase /\ (eva + d) % EvaSpace = eva + d
          /\ (eva + d) % P = off + d /\ TileOf(c, eva + d) = t
      BY <3>1, TileZoneSame DEF off, t
    <3>3. (eva + d) % 4 = 0
      <4>1. d \in Nat /\ d % 4 = 0 /\ eva \in Nat /\ eva % 4 = 0
        BY <1>4, <2>1, <2>5, <3>1
      <4> QED
        BY <4>1
    <3>4. Named(c, eva + d) = InTile(t[1], t[2], off + d)
      BY <2>1, <3>2, <3>3, TileZoneNamed
    <3>5. [seg.npa EXCEPT !.epa = @ + d] = [x |-> t[1], y |-> t[2], epa |-> off + d]
      <4>1. seg.npa = [x |-> t[1], y |-> t[2], epa |-> off]
        BY <2>1
      <4> HIDE DEF seg
      <4> QED
        BY <4>1
    <3> QED
      BY <3>1, <3>2, <3>4, <3>5 DEF Follows
  <2>6. seg.npa \in [x : Nat, y : Nat, epa : Nat]
    BY <1>1, <2>1, <2>2, <2>3
  <2> QED
    BY <2>1, <2>4, <2>5, <2>6
<1>11. ASSUME ~Taken(c, seg), eva % 4 = 0, c.kind \notin DmaKinds
       PROVE  InTile(t[1], t[2], off) = Nowhere
  <2>1. CASE t \notin Tiles
    BY <1>1, <2>1 DEF InTile
  <2>2. CASE t \in Tiles /\ ~InD /\ off \notin Csrs
    BY <2>2 DEF InTile
  <2>3. CASE t \in Tiles /\ (InD \/ off \in Csrs)
    <3>1. \E sz : seg = To(t[1], t[2], off, sz)
      BY <1>1, <1>2, <2>3
    <3>2. seg.ok /\ seg.npa = [x |-> t[1], y |-> t[2], epa |-> off]
      BY <3>1 DEF To
    <3>3. seg.npa.x = t[1] /\ seg.npa.y = t[2] /\ seg.npa.epa = off
      BY <3>2
    <3>4. t[1] < DimX /\ t[2] < NetY /\ off % 4 = 0
      BY <1>4, <1>7, <1>8, <1>11, <2>3
    <3> HIDE DEF seg
    <3> QED
      BY <1>11, <3>2, <3>3, <3>4 DEF Taken
  <2> QED
    BY <2>1, <2>2, <2>3
<1> QED
  BY <1>3, <1>10, <1>11

\* Both zones.
LEMMA Segments ==
  ASSUME ColumnsFillField, NEW c \in Call, NEW eva \in Eva, NamesTileRow(c, eva),
         c.kind \in DmaKinds => eva % 4 = 0
  PROVE  /\ Taken(c, SegmentAt(c, eva)) =>
              /\ eva % 4 = 0 /\ SegmentAt(c, eva).sz \in Nat \ {0} /\ SegmentAt(c, eva).sz % 4 = 0
              /\ SegmentAt(c, eva).npa \in [x : Nat, y : Nat, epa : Nat]
              /\ \A d \in 0 .. SegmentAt(c, eva).sz - 1 : d % 4 = 0 => Follows(c, eva, d)
         /\ ~Taken(c, SegmentAt(c, eva)) => Named(c, eva) = Nowhere
<1>1. eva \in Nat /\ DramBase \in Nat
  BY Sizes DEF Eva
<1>2. CASE eva < DramBase
  BY <1>2, TileSegments
<1>3. CASE eva >= DramBase
  BY <1>3, DramSegments
<1> QED
  BY <1>1, <1>2, <1>3

\* An EVA names a place or nothing.
LEMMA NamedIs ==
  ASSUME NEW c \in Call, NEW eva \in Eva
  PROVE  Named(c, eva) \in Place \cup {Nowhere}
<1>1. eva \in Nat /\ DramBase \in Nat /\ EvaSpace = 2 * DramBase
  BY Sizes DEF Eva
<1>2. CASE eva < DramBase
  <2> DEFINE t   == TileOf(c, eva)
             off == eva % P
  <2>1. t = <<t[1], t[2]>>
    BY <1>2, TileZoneMap
  <2>2. Named(c, eva) = Nowhere \/ (Named(c, eva) = InTile(t[1], t[2], off) /\ eva % 4 = 0)
    BY <1>2, TileZoneNamed
  <2>3. off \in 0 .. P - 1 /\ off % 4 = eva % 4
    BY <1>1, TilePages, Fours, Division
  <2> HIDE DEF t, off
  <2>4. ASSUME eva % 4 = 0 PROVE InTile(t[1], t[2], off) \in Place \cup {Nowhere}
    <3>1. CASE t \in Tiles /\ off \in Csrs
      BY <2>1, <3>1 DEF InTile, Place
    <3>2. CASE t \in Tiles /\ off \notin Csrs /\ off \in DmemBase .. DmemBase + DmemSize - 1
      <4> DEFINE m == off - DmemBase
      <4>1. m \in 0 .. DmemSize - 1 /\ m % 4 = 0
        BY <2>3, <2>4, <3>2, EvaAssumption
      <4>2. InTile(t[1], t[2], off) = Dmem(t[1], t[2], m)
        BY <2>1, <3>2 DEF InTile
      <4> HIDE DEF m
      <4> QED
        BY <3>2, <4>1, <4>2 DEF Place
    <3>3. CASE t \notin Tiles \/ (off \notin Csrs /\ off \notin DmemBase .. DmemBase + DmemSize - 1)
      BY <2>1, <3>3 DEF InTile
    <3> QED
      BY <3>1, <3>2, <3>3
  <2> QED
    BY <2>2, <2>4
<1>3. CASE eva >= DramBase
  <2> DEFINE n == eva - DramBase
  <2>1. n \in 0 .. DramBase - 1 /\ eva = DramBase + n
    BY <1>1, <1>3 DEF Eva
  <2> HIDE DEF n
  <2>2. Named(c, eva) = IF n % 4 # 0 \/ (c.kind \in DmaKinds /\ ~SupportsDma) THEN Nowhere
                        ELSE IF n < DramBytes THEN Dram(n) ELSE Nowhere
    BY <2>1, DramNamed
  <2>3. n % 4 = 0 /\ n < DramBytes => Dram(n) \in Place
    BY <2>1, HereDramBytes DEF Place
  <2> QED
    BY <2>2, <2>3
<1> QED
  BY <1>1, <1>2, <1>3

-----------------------------------------------------------------------------
(* The inductive invariant of the transfers: besides the types, where the  *)
(* loop is.  The address it is at follows from what is left, so that the   *)
(* words to come can be named from the call alone.                         *)

Entry == [call : 0 .. MaxCalls, word : Nat]

Answers == {[asked |-> TRUE, npa |-> q.npa, eva |-> default_npa_to_eva(q.tgt, q.npa)] : q \in Queries}

AtItsPlace ==
  /\ left \in 0 .. call.bytes /\ left % 4 = 0
  /\ curr_eva = (call.eva + (call.bytes - left)) % EvaSpace

AnswerOk == answer \in Answers \cup {NoAnswer}

TransferInv ==
  /\ memory \in [Cells -> Entry] /\ got \in Seq(Entry)
  /\ call \in Calls \cup {NoCall} /\ pc \in {"idle", "run"} /\ (pc = "run" => call \in Calls)
  /\ calls \in 0 .. MaxCalls
  /\ AtItsPlace

LEMMA CallIs ==
  ASSUME NEW c \in Calls \cup {NoCall}
  PROVE  c \in Call /\ c.eva \in Eva /\ c.eva \in Nat /\ c.bytes \in Nat /\ c.bytes % 4 = 0
         /\ (c.kind \in DmaKinds => c.eva % 4 = 0)
<1>1. NoCall \in Call
  <2>1. <<BaseX, BaseY>> \in Tiles
    BY TilesAre, EvaAssumption DEF BaseX, BaseY
  <2>2. 0 \in 0 .. EvaSpace - 1
    BY Sizes
  <2> QED
    BY <2>1, <2>2 DEF NoCall, Call, Kinds
<1>2. NoCall.bytes = 0 /\ NoCall.eva = 0 /\ NoCall.kind = "read"
  BY DEF NoCall
<1>3. c \in Call
  BY <1>1, TransferAssumption
<1>4. c.eva \in Eva /\ c.bytes \in Nat
  BY <1>3 DEF Call, Eva
<1>5. c.eva \in Nat
  BY <1>4, Sizes DEF Eva
<1>6. c.bytes % 4 = 0 /\ (c.kind \in DmaKinds => c.eva % 4 = 0)
  BY <1>2, TransferAssumption DEF DmaKinds
<1> QED
  BY <1>3, <1>4, <1>5, <1>6

LEMMA Wraps ==
  ASSUME NEW a \in Nat, NEW d \in Nat
  PROVE  ((a % EvaSpace) + d) % EvaSpace = (a + d) % EvaSpace /\ a % EvaSpace \in Eva
<1>1. EvaSpace \in Nat \ {0}
  BY Sizes
<1> DEFINE q == a \div EvaSpace
           r == a % EvaSpace
<1>2. q \in Nat /\ r \in 0 .. EvaSpace - 1 /\ a = EvaSpace * q + r
  BY <1>1, Division
<1> HIDE DEF q, r
<1> DEFINE n == r + d
           e == EvaSpace * q
<1>3. n \in Nat /\ a + d = e + n
  <2>1. e \in Nat
    BY <1>1, <1>2
  <2> HIDE DEF e
  <2> QED
    BY <1>1, <1>2, <2>1 DEF e
<1>4. (EvaSpace * q + n) % EvaSpace = n % EvaSpace
  <2> HIDE DEF n
  <2> QED
    BY <1>1, <1>2, <1>3, Multiple
<1> QED
  BY <1>2, <1>3, <1>4 DEF r, Eva

\* Where the loop is, the rows and the words are as the calls promise.
LEMMA LoopAt ==
  ASSUME RowsAreOfTiles, TransferInv, pc = "run", left > 0
  PROVE  /\ call \in Call /\ curr_eva \in Eva /\ NamesTileRow(call, curr_eva)
         /\ call.kind \in DmaKinds => curr_eva % 4 = 0
         /\ left \in Nat /\ left % 4 = 0 /\ call.bytes \in Nat /\ call.bytes - left \in Nat
         /\ (call.bytes - left) % 4 = 0
<1>1. call \in Calls /\ call \in Call /\ call.eva \in Nat /\ call.bytes \in Nat /\ call.bytes % 4 = 0
      /\ (call.kind \in DmaKinds => call.eva % 4 = 0)
  BY CallIs DEF TransferInv
<1> DEFINE i == call.bytes - left
<1>2. i \in 0 .. call.bytes - 1 /\ left \in Nat /\ left % 4 = 0 /\ i \in Nat /\ i % 4 = 0
  BY <1>1, SMTT(20) DEF TransferInv, AtItsPlace
<1>3. curr_eva = (call.eva + i) % EvaSpace
  BY DEF TransferInv, AtItsPlace
<1> HIDE DEF i
<1>4. NamesTileRow(call, curr_eva)
  BY <1>1, <1>2, <1>3 DEF RowsAreOfTiles, NamesTileRow
<1>5. curr_eva \in Eva
  BY <1>1, <1>2, <1>3, Wraps
<1>6. call.kind \in DmaKinds => curr_eva % 4 = 0
  <2> HAVE call.kind \in DmaKinds
  <2> DEFINE a == call.eva + i
  <2>1. a \in Nat /\ a % 4 = 0
    BY <1>1, <1>2
  <2> HIDE DEF a
  <2>2. (a % EvaSpace) % 4 = a % 4
    BY <2>1, Sizes, DramFours, Fours
  <2> QED
    BY <1>3, <2>1, <2>2 DEF a
<1> QED
  BY <1>1, <1>2, <1>4, <1>5, <1>6 DEF i

LEMMA AcceptedIsTaken ==
  Segment.ok /\ Accepted => Taken(call, Segment)
BY DEF Accepted, Taken

\* One turn of the loop: a whole number of words, each the next place of the call.
LEMMA Turn ==
  ASSUME ColumnsFillField, RowsAreOfTiles, TransferInv, Step
  PROVE  /\ XferSize \in 1 .. left /\ XferSize % 4 = 0
         /\ XferSize \div 4 \in Nat \ {0} /\ XferSize = 4 * (XferSize \div 4)
         /\ Segment.npa \in [x : Nat, y : Nat, epa : Nat]
         /\ \A i \in 1 .. XferSize \div 4 :
              /\ Named(call, (curr_eva + 4 * (i - 1)) % EvaSpace) \in Place
              /\ HeldBy(Named(call, (curr_eva + 4 * (i - 1)) % EvaSpace)) = CellOf(i)
<1>1. pc = "run" /\ left > 0 /\ Segment.ok /\ Accepted
  BY DEF Step
<1>2. /\ call \in Call /\ curr_eva \in Eva /\ NamesTileRow(call, curr_eva)
      /\ call.kind \in DmaKinds => curr_eva % 4 = 0
      /\ left \in Nat /\ left % 4 = 0
  BY <1>1, LoopAt
<1>3. Segment = SegmentAt(call, curr_eva) /\ Taken(call, Segment)
  BY <1>1, AcceptedIsTaken DEF Segment, SegmentAt
<1>4. /\ Segment.sz \in Nat \ {0} /\ Segment.sz % 4 = 0
      /\ Segment.npa \in [x : Nat, y : Nat, epa : Nat]
      /\ \A d \in 0 .. Segment.sz - 1 : d % 4 = 0 => Follows(call, curr_eva, d)
  BY <1>2, <1>3, Segments
<1>5. XferSize \in 1 .. left /\ XferSize % 4 = 0 /\ XferSize <= Segment.sz
  <2> DEFINE z == Segment.sz
  <2>1. z \in Nat \ {0} /\ z % 4 = 0
    BY <1>4
  <2>2. XferSize = IF left < z THEN left ELSE z
    BY DEF XferSize, min_size_t
  <2> HIDE DEF z
  <2>3. XferSize \in 1 .. left /\ XferSize % 4 = 0 /\ XferSize <= z
    BY <1>1, <1>2, <2>1, <2>2
  <2> QED
    BY <2>3 DEF z
<1>6. XferSize \div 4 \in Nat \ {0} /\ XferSize = 4 * (XferSize \div 4)
  <2> DEFINE z == XferSize
  <2>1. z \in Nat \ {0} /\ z % 4 = 0
    BY <1>2, <1>5
  <2> HIDE DEF z
  <2>2. z \div 4 \in Nat \ {0} /\ z = 4 * (z \div 4)
    BY <2>1
  <2> QED
    BY <2>2 DEF z
<1>7. ASSUME NEW i \in 1 .. XferSize \div 4
      PROVE  /\ Named(call, (curr_eva + 4 * (i - 1)) % EvaSpace) \in Place
             /\ HeldBy(Named(call, (curr_eva + 4 * (i - 1)) % EvaSpace)) = CellOf(i)
  <2> DEFINE d == 4 * (i - 1)
  <2>1. d \in 0 .. Segment.sz - 1 /\ d % 4 = 0
    <3> DEFINE w == XferSize \div 4
               z == Segment.sz
    <3>1. w \in Nat \ {0} /\ XferSize = 4 * w /\ i \in 1 .. w /\ z \in Nat /\ XferSize <= z
      BY <1>4, <1>5, <1>6
    <3> HIDE DEF w, z
    <3>2. d \in 0 .. z - 1 /\ d % 4 = 0
      BY <3>1
    <3> QED
      BY <3>2 DEF z
  <2>2. Follows(call, curr_eva, d)
    BY <1>4, <2>1
  <2> QED
    BY <1>3, <2>2 DEF Follows, CellOf
<1> QED
  BY <1>4, <1>5, <1>6, <1>7

\* A transfer that is refused stands before an EVA that names nothing.
LEMMA Nothing ==
  ASSUME ColumnsFillField, RowsAreOfTiles, TransferInv, Refused
  PROVE  Named(call, curr_eva) = Nowhere
<1>1. pc = "run" /\ left > 0 /\ ~(Segment.ok /\ Accepted)
  BY DEF Refused
<1>2. /\ call \in Call /\ curr_eva \in Eva /\ NamesTileRow(call, curr_eva)
      /\ call.kind \in DmaKinds => curr_eva % 4 = 0
      /\ left \in Nat /\ left % 4 = 0 /\ (call.bytes - left) % 4 = 0
  BY <1>1, LoopAt
<1>3. Segment = SegmentAt(call, curr_eva)
  BY DEF Segment, SegmentAt
<1>4. ASSUME Taken(call, Segment) PROVE FALSE
  <2>1. Segment.sz \in Nat \ {0} /\ Segment.sz % 4 = 0
    BY <1>2, <1>3, <1>4, Segments
  <2>2. XferSize % 4 = 0
    BY <1>2, <2>1 DEF XferSize, min_size_t
  <2> QED
    BY <1>1, <1>2, <1>4, <2>2 DEF Taken, Accepted
<1> QED
  BY <1>2, <1>3, <1>4, Segments

LEMMA DataIs ==
  ASSUME NEW c, NEW n \in 0 .. MaxCalls, NEW i \in Nat
  PROVE  Data(c, n, i) \in Entry
BY DEF Data, Word, Entry

LEMMA TransferInit ==
  Init => TransferInv
<1> SUFFICES ASSUME Init PROVE TransferInv
  OBVIOUS
<1>1. Zero \in Entry /\ 0 \in 0 .. MaxCalls
  BY TransferAssumption DEF Zero, Word, Entry
<1>2. NoCall.bytes = 0 /\ NoCall.eva = 0
  BY DEF NoCall
<1>3. (0 + (0 - 0)) % EvaSpace = 0
  <2>1. EvaSpace \in Nat \ {0} /\ 0 + (0 - 0) = EvaSpace * 0 + 0
    BY Sizes
  <2> QED
    BY <2>1, Quotient
<1>4. <<>> \in Seq(Entry)
  OBVIOUS
<1>5. AtItsPlace
  BY <1>2, <1>3 DEF Init, AtItsPlace
<1> QED
  BY <1>1, <1>4, <1>5 DEF Init, TransferInv

LEMMA TransferBegin ==
  ASSUME TransferInv, NEW c \in Calls, Begin(c)
  PROVE  TransferInv'
<1>1. c.eva \in Eva /\ c.eva \in Nat /\ c.bytes \in Nat /\ c.bytes % 4 = 0
  BY CallIs
<1>2. call' = c /\ pc' = "run" /\ curr_eva' = c.eva /\ left' = c.bytes /\ calls' = calls + 1
      /\ got' = <<>> /\ memory' = memory /\ calls < MaxCalls
  BY DEF Begin
<1>3. (c.eva + (c.bytes - c.bytes)) % EvaSpace = c.eva
  <2> DEFINE a == c.eva
             b == c.bytes
  <2>1. a \in 0 .. EvaSpace - 1 /\ a \in Nat /\ b \in Nat
    BY <1>1 DEF Eva
  <2> HIDE DEF a, b
  <2>2. EvaSpace \in Nat \ {0} /\ a + (b - b) = EvaSpace * 0 + a
    BY <2>1, Sizes
  <2>3. (a + (b - b)) % EvaSpace = a
    BY <2>1, <2>2, Quotient
  <2> QED
    BY <2>3 DEF a, b
<1>4. AtItsPlace'
  BY <1>1, <1>2, <1>3 DEF AtItsPlace
<1>5. calls' \in 0 .. MaxCalls
  BY <1>2, TransferAssumption DEF TransferInv
<1>6. <<>> \in Seq(Entry)
  OBVIOUS
<1> QED
  BY <1>2, <1>4, <1>5, <1>6 DEF TransferInv

LEMMA TransferStep ==
  ASSUME ColumnsFillField, RowsAreOfTiles, TransferInv, Step
  PROVE  TransferInv'
<1>1. /\ XferSize \in 1 .. left /\ XferSize % 4 = 0 /\ XferSize \div 4 \in Nat \ {0}
      /\ \A i \in 1 .. XferSize \div 4 : CellOf(i) \in Cells
  <2>1. /\ XferSize \in 1 .. left /\ XferSize % 4 = 0 /\ XferSize \div 4 \in Nat \ {0}
        /\ \A i \in 1 .. XferSize \div 4 :
             /\ Named(call, (curr_eva + 4 * (i - 1)) % EvaSpace) \in Place
             /\ HeldBy(Named(call, (curr_eva + 4 * (i - 1)) % EvaSpace)) = CellOf(i)
    BY Turn
  <2> QED
    BY <2>1, HeldInCells
<1>2. /\ call \in Calls /\ call.eva \in Nat /\ call.bytes \in Nat
      /\ left \in 0 .. call.bytes /\ left % 4 = 0
      /\ curr_eva = (call.eva + (call.bytes - left)) % EvaSpace
      /\ calls \in 0 .. MaxCalls
  BY CallIs DEF TransferInv, AtItsPlace, Step
<1>3. Transfer /\ left' = left - XferSize /\ curr_eva' = (curr_eva + XferSize) % EvaSpace
      /\ call' = call /\ pc' = pc /\ calls' = calls
  BY DEF Step
<1>4. AtItsPlace'
  <2> DEFINE x == XferSize
             e == call.eva
             b == call.bytes
  <2>1. x \in 1 .. left /\ x % 4 = 0 /\ e \in Nat /\ b \in Nat /\ left \in 0 .. b /\ left % 4 = 0
        /\ left' = left - x /\ curr_eva = (e + (b - left)) % EvaSpace
        /\ curr_eva' = (curr_eva + x) % EvaSpace
    BY <1>1, <1>2, <1>3
  <2> HIDE DEF x, e, b
  <2>2. left' \in 0 .. b /\ left' % 4 = 0
    BY <2>1
  <2> DEFINE a == e + (b - left)
  <2>3. a \in Nat /\ x \in Nat /\ a + x = e + (b - left')
    BY <2>1
  <2> HIDE DEF a
  <2>4. ((a % EvaSpace) + x) % EvaSpace = (a + x) % EvaSpace
    BY <2>3, Wraps
  <2>5. curr_eva' = (e + (b - left')) % EvaSpace
    BY <2>1, <2>3, <2>4 DEF a
  <2> QED
    BY <1>3, <2>2, <2>5 DEF AtItsPlace, b, e
<1>5. memory' \in [Cells -> Entry] /\ got' \in Seq(Entry)
  <2>1. CASE call.kind \in {"read", "read_dma"}
    <3> DEFINE w == XferSize \div 4
               new == [i \in 1 .. w |-> memory[CellOf(i)]]
    <3>1. memory' = memory /\ got' = got \o new
      BY <1>3, <2>1 DEF Transfer
    <3>2. w \in Nat /\ \A i \in 1 .. w : memory[CellOf(i)] \in Entry
      BY <1>1 DEF TransferInv
    <3> HIDE DEF w
    <3>3. new \in Seq(Entry)
      BY <3>2
    <3> HIDE DEF new
    <3> QED
      BY <3>1, <3>3 DEF TransferInv
  <2>2. CASE call.kind \notin {"read", "read_dma"}
    <3> DEFINE w == XferSize \div 4
               done == (call.bytes - left) \div 4
               Hit(c) == \E i \in 1 .. w : CellOf(i) = c
               Which(c) == CHOOSE i \in 1 .. w : CellOf(i) = c
    <3>1. /\ got' = got
          /\ memory' = [c \in Cells |-> IF Hit(c) THEN Data(call, calls, done + Which(c)) ELSE memory[c]]
      BY <1>3, <2>2 DEF Transfer
    <3>2. w \in Nat
      BY <1>1
    <3>3. done \in Nat
      <4> DEFINE n == call.bytes - left
      <4>1. n \in Nat
        BY <1>2
      <4> HIDE DEF n
      <4>2. n \div 4 \in Nat
        BY <4>1
      <4> QED
        BY <4>2 DEF n
    <3>4. ASSUME NEW c \in Cells PROVE (IF Hit(c) THEN Data(call, calls, done + Which(c)) ELSE memory[c]) \in Entry
      <4>1. CASE Hit(c)
        <5>1. Which(c) \in 1 .. w
          BY <4>1
        <5> HIDE DEF w, done, Which
        <5>2. done + Which(c) \in Nat
          BY <3>2, <3>3, <5>1
        <5> QED
          BY <1>2, <4>1, <5>2, DataIs
      <4>2. CASE ~Hit(c)
        BY <4>2 DEF TransferInv
      <4> QED
        BY <4>1, <4>2
    <3> HIDE DEF Hit, Which, done, w
    <3> QED
      BY <3>1, <3>4 DEF TransferInv
  <2> QED
    BY <2>1, <2>2
<1> QED
  BY <1>2, <1>3, <1>4, <1>5 DEF TransferInv

LEMMA TransferNext ==
  ASSUME ColumnsFillField, RowsAreOfTiles, TransferInv, [Next]_vars
  PROVE  TransferInv'
<1>1. CASE Step
  BY <1>1, TransferStep
<1>2. CASE Refused
  BY <1>2 DEF Refused, TransferInv, AtItsPlace
<1>3. CASE Return
  BY <1>3 DEF Return, TransferInv, AtItsPlace
<1>4. ASSUME NEW c \in Calls, Begin(c) PROVE TransferInv'
  BY <1>4, TransferBegin
<1>5. ASSUME NEW q \in Queries, hb_mc_npa_to_eva(q) PROVE TransferInv'
  BY <1>5, TransferAssumption DEF hb_mc_npa_to_eva, TransferInv, AtItsPlace
<1>6. CASE UNCHANGED vars
  BY <1>6 DEF vars, TransferInv, AtItsPlace
<1> QED
  BY <1>1, <1>2, <1>3, <1>4, <1>5, <1>6 DEF Next, Loop

LEMMA AnswerAlways ==
  Spec => []AnswerOk
<1>1. Init => AnswerOk
  BY DEF Init, AnswerOk
<1>2. AnswerOk /\ [Next]_vars => AnswerOk'
  BY DEF AnswerOk, Answers, Next, Loop, Step, Refused, Return, Begin, hb_mc_npa_to_eva, vars
<1> QED
  BY <1>1, <1>2, PTL DEF Spec

\* Provided no column is missing from its field (DimX is a power of two) and no EVA of a call names a
\* row of caches or of the I/O, the loops of eva_write, eva_read and eva_memset keep their state as it
\* should be: each word that is read is one there is, and no transfer takes a part of a word.
THEOREM TypeCorrect ==
  ColumnsFillField /\ RowsAreOfTiles => (Spec => []TypeOK)
<1> SUFFICES ASSUME ColumnsFillField, RowsAreOfTiles PROVE Spec => []TypeOK
  OBVIOUS
<1>1. TransferInv /\ [Next]_vars => TransferInv'
  BY TransferNext
<1>2. TransferInv /\ AnswerOk => TypeOK
  <2> SUFFICES ASSUME TransferInv, AnswerOk PROVE TypeOK
    OBVIOUS
  <2>1. curr_eva \in 0 .. EvaSpace - 1
    <3>1. call.eva + (call.bytes - left) \in Nat
      BY CallIs DEF TransferInv, AtItsPlace
    <3> QED
      BY <3>1, Wraps DEF TransferInv, AtItsPlace, Eva
  <2>2. answer.asked \in BOOLEAN
    <3>1. CASE answer = NoAnswer
      BY <3>1 DEF NoAnswer
    <3>2. ASSUME NEW q \in Queries,
                 answer = [asked |-> TRUE, npa |-> q.npa, eva |-> default_npa_to_eva(q.tgt, q.npa)]
          PROVE  answer.asked \in BOOLEAN
      BY <3>2
    <3> QED
      BY <3>1, <3>2 DEF AnswerOk, Answers
  <2> QED
    BY <2>1, <2>2 DEF TransferInv, AtItsPlace, TypeOK, Entry
<1> QED
  BY <1>1, <1>2, TransferInit, AnswerAlways, PTL DEF Spec

-----------------------------------------------------------------------------
(* The refinement: a turn of the loop is an advance of the linear memory   *)
(* by the words of the segment, a refusal is its giving up.                *)

Held == [p \in Place |-> memory[Cell[p]]]

LEMMA HeldAt ==
  /\ Held = [p \in Place |-> memory[HeldBy(p)]]
  /\ Held' = [p \in Place |-> memory'[HeldBy(p)]]
  /\ \A p \in Place : Held[p] = memory[HeldBy(p)] /\ Held'[p] = memory'[HeldBy(p)]
<1>1. \A p \in Place : Cell[p] = HeldBy(p)
  BY DEF Cell
<1>2. Held = [p \in Place |-> memory[HeldBy(p)]]
  BY <1>1 DEF Held
<1>3. Held' = [p \in Place |-> memory'[HeldBy(p)]]
  BY <1>1 DEF Held
<1> QED
  BY <1>2, <1>3

TodoOf(c, n, eva, sz) ==
  [i \in 1 .. sz \div 4 |-> [at  |-> Named(c, (eva + 4 * (i - 1)) % EvaSpace),
                             val |-> Data(c, n, (c.bytes - sz) \div 4 + i)]]

Todo == IF pc = "idle" THEN <<>> ELSE TodoOf(call, calls, curr_eva, left)

Writes == call.kind \notin {"read", "read_dma"}

LEMMA Words ==
  ASSUME NEW sz \in Nat, sz % 4 = 0
  PROVE  sz \div 4 \in Nat /\ sz = 4 * (sz \div 4)
OBVIOUS

LEMMA TodoTypes ==
  ASSUME NEW c \in Call, NEW n \in 0 .. MaxCalls, NEW eva \in Eva, NEW sz \in 0 .. c.bytes,
         sz % 4 = 0, c.bytes % 4 = 0
  PROVE  /\ TodoOf(c, n, eva, sz) \in Seq([at : Place \cup {Nowhere}, val : Entry])
         /\ Len(TodoOf(c, n, eva, sz)) = sz \div 4
<1> DEFINE w == sz \div 4
           done == (c.bytes - sz) \div 4
<1>1. c.bytes \in Nat /\ eva \in Nat
  BY Sizes DEF Call, Eva
<1>2. w \in Nat /\ done \in Nat
  <2> DEFINE r == c.bytes - sz
  <2>1. r \in Nat /\ r % 4 = 0 /\ sz \in Nat
    BY <1>1
  <2> HIDE DEF r
  <2>2. r \div 4 \in Nat /\ sz \div 4 \in Nat
    BY <2>1, Words
  <2> QED
    BY <2>2 DEF r
<1>3. ASSUME NEW i \in 1 .. w
      PROVE  [at |-> Named(c, (eva + 4 * (i - 1)) % EvaSpace), val |-> Data(c, n, done + i)]
               \in [at : Place \cup {Nowhere}, val : Entry]
  <2> HIDE DEF w, done
  <2>1. eva + 4 * (i - 1) \in Nat /\ done + i \in Nat
    BY <1>1, <1>2
  <2>2. (eva + 4 * (i - 1)) % EvaSpace \in Eva
    BY <2>1, Wraps
  <2>3. Named(c, (eva + 4 * (i - 1)) % EvaSpace) \in Place \cup {Nowhere}
    BY <2>2, NamedIs
  <2>4. Data(c, n, done + i) \in Entry
    BY <2>1, DataIs
  <2> QED
    BY <2>3, <2>4
<1>4. TodoOf(c, n, eva, sz) = [i \in 1 .. w |-> [at |-> Named(c, (eva + 4 * (i - 1)) % EvaSpace),
                                                 val |-> Data(c, n, done + i)]]
  BY DEF TodoOf
<1> HIDE DEF w, done
<1> QED
  BY <1>2, <1>3, <1>4 DEF w

LEMMA NoWords ==
  ASSUME NEW c, NEW n, NEW eva
  PROVE  TodoOf(c, n, eva, 0) = <<>>
<1>1. 0 \div 4 = 0 /\ 1 .. 0 = {}
  OBVIOUS
<1>2. TodoOf(c, n, eva, 0) = [i \in {} |-> [at  |-> Named(c, (eva + 4 * (i - 1)) % EvaSpace),
                                            val |-> Data(c, n, (c.bytes - 0) \div 4 + i)]]
  BY <1>1 DEF TodoOf
<1> QED
  BY <1>2

LEMMA MemoryHeld ==
  ASSUME ColumnsFillField, NEW m, NEW d, m = [c \in Cells |-> d]
  PROVE  [p \in Place |-> m[HeldBy(p)]] = [p \in Place |-> d]
BY HeldInCells

LEMMA LinearInit ==
  ASSUME ColumnsFillField, Init
  PROVE  Linear!Init
<1>1. Held = [p \in Place |-> Zero]
  <2>1. memory = [c \in Cells |-> Zero]
    BY DEF Init
  <2> QED
    BY <2>1, MemoryHeld, HeldAt
<1>2. Todo = <<>>
  BY DEF Todo, Init
<1>3. Writes = FALSE
  BY DEF Writes, Init, NoCall
<1>4. got = <<>>
  BY DEF Init
<1> QED
  BY <1>1, <1>2, <1>3, <1>4 DEF Linear!Init, Held, Todo, TodoOf, Writes

LEMMA LinearBegin ==
  ASSUME TransferInv, NEW c \in Calls, Begin(c)
  PROVE  Linear!Begin
<1>1. call' = c /\ pc' = "run" /\ curr_eva' = c.eva /\ left' = c.bytes /\ calls' = calls + 1
      /\ got' = <<>> /\ memory' = memory /\ pc = "idle"
  BY DEF Begin
<1>2. TransferInv'
  BY TransferBegin
<1>3. Todo = <<>>
  BY <1>1 DEF Todo
<1>4. Todo' = TodoOf(c, calls', c.eva, c.bytes)
  BY <1>1 DEF Todo
<1>5. Todo' \in Seq([at : Place \cup {Nowhere}, val : Entry])
  <2>1. c \in Call /\ c.eva \in Eva /\ c.bytes \in 0 .. c.bytes /\ c.bytes % 4 = 0
    BY CallIs
  <2>2. calls' \in 0 .. MaxCalls
    BY <1>2 DEF TransferInv
  <2> QED
    BY <1>4, <2>1, <2>2, TodoTypes
<1>6. Writes' \in BOOLEAN
  BY DEF Writes
<1>7. Held' = Held
  BY <1>1 DEF Held
<1> QED
  BY <1>1, <1>3, <1>5, <1>6, <1>7 DEF Linear!Begin, Linear!Item, Held, Todo, TodoOf, Writes, Entry

LEMMA LinearGiveUp ==
  ASSUME ColumnsFillField, RowsAreOfTiles, TransferInv, Refused
  PROVE  Linear!GiveUp
<1>1. pc = "run" /\ left > 0 /\ pc' = "idle"
      /\ memory' = memory /\ call' = call /\ got' = got
  BY DEF Refused
<1>2. Todo = TodoOf(call, calls, curr_eva, left) /\ Todo' = <<>>
  BY <1>1 DEF Todo
<1>3. left \in Nat /\ left % 4 = 0 /\ curr_eva \in Eva /\ curr_eva \in Nat
  BY <1>1, LoopAt, Sizes DEF Eva
<1>4. 1 \in 1 .. left \div 4
  <2>1. left \div 4 \in Nat /\ left = 4 * (left \div 4)
    BY <1>3, Words
  <2> DEFINE w == left \div 4
  <2>2. w \in Nat /\ left = 4 * w
    BY <2>1
  <2> HIDE DEF w
  <2>3. 1 \in 1 .. w
    BY <1>1, <2>2
  <2> QED
    BY <2>3 DEF w
<1>5. Todo[1].at = Named(call, (curr_eva + 4 * (1 - 1)) % EvaSpace)
  BY <1>2, <1>4 DEF TodoOf
<1>6. (curr_eva + 4 * (1 - 1)) % EvaSpace = curr_eva
  <2>1. curr_eva + 4 * (1 - 1) = EvaSpace * 0 + curr_eva /\ curr_eva \in 0 .. EvaSpace - 1
        /\ EvaSpace \in Nat \ {0}
    BY <1>3, Sizes DEF Eva
  <2> QED
    BY <2>1, Quotient
<1>7. Todo[1].at = Nowhere
  BY <1>5, <1>6, Nothing
<1>8. Todo # <<>>
  BY <1>2, <1>4 DEF TodoOf
<1>9. Held' = Held /\ Writes' = Writes
  BY <1>1 DEF Held, Writes
<1> QED
  BY <1>1, <1>2, <1>7, <1>8, <1>9 DEF Linear!GiveUp, Held, Todo, TodoOf, Writes

LEMMA LinearStutter ==
  ASSUME TransferInv, \/ Return \/ UNCHANGED vars \/ \E q \in Queries : hb_mc_npa_to_eva(q)
  PROVE  UNCHANGED Linear!vars
<1>1. memory' = memory /\ call' = call /\ got' = got
  BY DEF Return, vars, hb_mc_npa_to_eva
<1>2. Held' = Held /\ Writes' = Writes
  BY <1>1 DEF Held, Writes
<1>3. Todo' = Todo
  <2>1. CASE Return
    <3>1. Todo = TodoOf(call, calls, curr_eva, 0) /\ Todo' = <<>>
      BY <2>1 DEF Return, Todo
    <3> QED
      BY <3>1, NoWords
  <2>2. CASE UNCHANGED vars
    BY <2>2 DEF vars, Todo, TodoOf
  <2>3. CASE \E q \in Queries : hb_mc_npa_to_eva(q)
    BY <2>3 DEF hb_mc_npa_to_eva, Todo
  <2> QED
    BY <2>1, <2>2, <2>3
<1> QED
  BY <1>1, <1>2, <1>3 DEF Linear!vars, Held, Todo, TodoOf, Writes

\* A turn takes the words of the segment from the front of what is to do.
LEMMA TurnOfTodo ==
  ASSUME ColumnsFillField, RowsAreOfTiles, TransferInv, Step,
         NEW w, w = XferSize \div 4, NEW done, done = (call.bytes - left) \div 4
  PROVE  /\ Todo \in Seq([at : Place \cup {Nowhere}, val : Entry]) /\ w \in 1 .. Len(Todo)
         /\ done \in Nat
         /\ \A i \in 1 .. w : /\ Todo[i].at \in Place /\ HeldBy(Todo[i].at) = CellOf(i)
                              /\ Todo[i].val = Data(call, calls, done + i)
         /\ Todo' = SubSeq(Todo, w + 1, Len(Todo))
<1>1. pc = "run" /\ left > 0 /\ left' = left - XferSize /\ curr_eva' = (curr_eva + XferSize) % EvaSpace
      /\ call' = call /\ pc' = pc /\ calls' = calls
  BY DEF Step
<1>2. /\ call \in Call /\ curr_eva \in Eva /\ left \in Nat /\ left % 4 = 0 /\ call.bytes \in Nat
      /\ call.bytes - left \in Nat /\ (call.bytes - left) % 4 = 0 /\ curr_eva \in Nat
  BY <1>1, LoopAt, Sizes DEF Eva
<1>3. /\ XferSize \in 1 .. left /\ w \in Nat \ {0} /\ XferSize = 4 * w
      /\ \A i \in 1 .. w : /\ Named(call, (curr_eva + 4 * (i - 1)) % EvaSpace) \in Place
                           /\ HeldBy(Named(call, (curr_eva + 4 * (i - 1)) % EvaSpace)) = CellOf(i)
  BY Turn
<1>4. Todo = TodoOf(call, calls, curr_eva, left) /\ Todo' = TodoOf(call, calls, curr_eva', left')
  BY <1>1 DEF Todo
<1> DEFINE k == left \div 4
           b == call.bytes
           x == XferSize
<1>5. k \in Nat /\ left = 4 * k
  BY <1>2, Words
<1>6. done \in Nat /\ b - left = 4 * done
  <2> DEFINE r == b - left
  <2>1. r \in Nat /\ r % 4 = 0
    BY <1>2
  <2> HIDE DEF r
  <2>2. r \div 4 \in Nat /\ r = 4 * (r \div 4)
    BY <2>1, Words
  <2> QED
    BY <2>2 DEF r
<1>7. Todo \in Seq([at : Place \cup {Nowhere}, val : Entry]) /\ Len(Todo) = k
  <2>1. left \in 0 .. b /\ calls \in 0 .. MaxCalls /\ b % 4 = 0
    BY CallIs DEF TransferInv, AtItsPlace
  <2> QED
    BY <1>2, <1>4, <2>1, TodoTypes
<1> HIDE DEF k, b, x
<1>8. w \in 1 .. k /\ k - w \in Nat
  BY <1>2, <1>3, <1>5
<1>9. \A i \in 1 .. k : Todo[i] = [at  |-> Named(call, (curr_eva + 4 * (i - 1)) % EvaSpace),
                                   val |-> Data(call, calls, done + i)]
  BY <1>4 DEF TodoOf, k
<1>10. ASSUME NEW i \in 1 .. w
       PROVE  /\ Todo[i].at \in Place /\ HeldBy(Todo[i].at) = CellOf(i)
              /\ Todo[i].val = Data(call, calls, done + i)
  <2>1. i \in 1 .. k
    BY <1>5, <1>8
  <2>2. Todo[i] = [at  |-> Named(call, (curr_eva + 4 * (i - 1)) % EvaSpace),
                   val |-> Data(call, calls, done + i)]
    BY <1>9, <2>1
  <2>3. /\ Todo[i].at = Named(call, (curr_eva + 4 * (i - 1)) % EvaSpace)
        /\ Todo[i].val = Data(call, calls, done + i)
    BY <2>2
  <2> QED
    BY <1>3, <2>3
<1>11. left' \div 4 = k - w /\ (call.bytes - left') \div 4 = done + w
  <2>1. left' = 4 * (k - w) /\ left' \in Nat
    BY <1>1, <1>3, <1>5, <1>8
  <2>2. b - left' = 4 * (done + w)
    BY <1>1, <1>2, <1>3, <1>5, <1>6, <1>8 DEF b
  <2> DEFINE u == k - w
             v == done + w
  <2>3. u \in Nat /\ v \in Nat
    BY <1>3, <1>6, <1>8
  <2> HIDE DEF u, v
  <2>4. (4 * u) \div 4 = u /\ (4 * v) \div 4 = v
    BY <2>3
  <2> QED
    BY <2>1, <2>2, <2>4 DEF u, v, b
<1>12. Todo' = [i \in 1 .. k - w |-> Todo[i + w]]
  <2>1. ASSUME NEW i \in 1 .. k - w
        PROVE  [at  |-> Named(call, (curr_eva' + 4 * (i - 1)) % EvaSpace),
                val |-> Data(call, calls, (done + w) + i)] = Todo[i + w]
    <3>1. i + w \in 1 .. k /\ done + (i + w) = (done + w) + i /\ 4 * (i - 1) \in Nat
      <4>1. w \in Nat /\ k \in Nat /\ done \in Nat /\ i \in 1 .. k - w
        BY <1>3, <1>5, <1>6
      <4> QED
        BY <4>1
    <3>2. (curr_eva' + 4 * (i - 1)) % EvaSpace = (curr_eva + 4 * ((i + w) - 1)) % EvaSpace
      <4> DEFINE a == curr_eva + x
                 d == 4 * (i - 1)
      <4>1. a \in Nat /\ d \in Nat /\ curr_eva' = a % EvaSpace
        BY <1>1, <1>2, <1>3, <3>1 DEF x
      <4>2. a + d = curr_eva + 4 * ((i + w) - 1)
        BY <1>2, <1>3 DEF x
      <4> HIDE DEF a, d
      <4>3. ((a % EvaSpace) + d) % EvaSpace = (a + d) % EvaSpace
        BY <4>1, Wraps
      <4> QED
        BY <4>1, <4>2, <4>3 DEF d
    <3>3. Todo[i + w] = [at  |-> Named(call, (curr_eva + 4 * ((i + w) - 1)) % EvaSpace),
                         val |-> Data(call, calls, done + (i + w))]
      BY <1>9, <3>1
    <3> QED
      BY <3>1, <3>2, <3>3
  <2>2. Todo' = [i \in 1 .. k - w |->
                  [at  |-> Named(call, (curr_eva' + 4 * (i - 1)) % EvaSpace),
                   val |-> Data(call, calls, (done + w) + i)]]
    BY <1>4, <1>11 DEF TodoOf
  <2> QED
    BY <2>1, <2>2
<1>13. SubSeq(Todo, w + 1, Len(Todo)) = [i \in 1 .. k - w |-> Todo[i + w]]
  <2> DEFINE t == Todo
  <2>1. t \in Seq([at : Place \cup {Nowhere}, val : Entry]) /\ Len(t) = k
    BY <1>7
  <2> HIDE DEF t
  <2>2. SubSeq(t, w + 1, k) = [i \in 1 .. (k - (w + 1) + 1) |-> t[i + (w + 1) - 1]]
    BY <1>8, <2>1
  <2> QED
    BY <1>8, <2>1, <2>2 DEF t
<1> QED
  BY <1>6, <1>7, <1>8, <1>10, <1>12, <1>13

\* The words of a segment lie in cells of their own.
LEMMA CellsApart ==
  ASSUME Segment.npa \in [x : Nat, y : Nat, epa : Nat], NEW i \in Nat \ {0}, NEW j \in Nat \ {0},
         CellOf(i) = CellOf(j)
  PROVE  i = j
<1> DEFINE npa == Segment.npa
<1>1. npa \in [x : Nat, y : Nat, epa : Nat]
  OBVIOUS
<1>2. [npa EXCEPT !.epa = @ + 4 * (i - 1)] = [npa EXCEPT !.epa = @ + 4 * (j - 1)]
  BY DEF CellOf
<1> HIDE DEF npa
<1> DEFINE u == [npa EXCEPT !.epa = @ + 4 * (i - 1)]
           v == [npa EXCEPT !.epa = @ + 4 * (j - 1)]
<1>3. u.epa = npa.epa + 4 * (i - 1) /\ v.epa = npa.epa + 4 * (j - 1) /\ npa.epa \in Nat
  BY <1>1
<1>4. u.epa = v.epa
  BY <1>2
<1> HIDE DEF u, v
<1> QED
  BY <1>3, <1>4

\* What a turn of the loop writes and reads, place by place.
LEMMA TurnAtPlaces ==
  ASSUME ColumnsFillField, RowsAreOfTiles, TransferInv, Step,
         NEW w, w = XferSize \div 4, NEW done, done = (call.bytes - left) \div 4
  PROVE  /\ \A i, j \in 1 .. w : Todo[i].at = Todo[j].at => i = j
         /\ Writes => /\ got' = got
                      /\ \A i \in 1 .. w : Held'[Todo[i].at] = Todo[i].val
                      /\ \A p \in Place : (\A i \in 1 .. w : Todo[i].at # p) => Held'[p] = Held[p]
         /\ ~Writes => /\ memory' = memory
                       /\ got' = got \o [i \in 1 .. w |-> Held[Todo[i].at]]
<1>1. /\ w \in Nat /\ \A i \in 1 .. w : /\ Todo[i].at \in Place /\ HeldBy(Todo[i].at) = CellOf(i)
                                        /\ Todo[i].val = Data(call, calls, done + i)
      /\ Segment.npa \in [x : Nat, y : Nat, epa : Nat]
  BY Turn, TurnOfTodo
<1>2. \A i, j \in 1 .. w : CellOf(i) = CellOf(j) => i = j
  BY <1>1, CellsApart
<1>3. \A i, j \in 1 .. w : Todo[i].at = Todo[j].at => i = j
  BY <1>1, <1>2
<1>4. \A p \in Place : HeldBy(p) \in Cells
  BY HeldInCells
<1>5. ASSUME Writes
      PROVE  /\ got' = got
             /\ \A i \in 1 .. w : Held'[Todo[i].at] = Todo[i].val
             /\ \A p \in Place : (\A i \in 1 .. w : Todo[i].at # p) => Held'[p] = Held[p]
  <2> DEFINE Hit(c) == \E i \in 1 .. w : CellOf(i) = c
             Which(c) == CHOOSE i \in 1 .. w : CellOf(i) = c
  <2>1. /\ got' = got
        /\ memory' = [c \in Cells |-> IF Hit(c) THEN Data(call, calls, done + Which(c)) ELSE memory[c]]
    BY <1>5 DEF Step, Transfer, Writes
  <2>2. ASSUME NEW i \in 1 .. w PROVE Hit(CellOf(i)) /\ Which(CellOf(i)) = i
    BY <1>2
  <2> HIDE DEF Which, Hit
  <2>3. ASSUME NEW i \in 1 .. w PROVE Held'[Todo[i].at] = Todo[i].val
    <3>1. Todo[i].at \in Place /\ HeldBy(Todo[i].at) = CellOf(i) /\ CellOf(i) \in Cells
      BY <1>1, <1>4
    <3>2. memory'[CellOf(i)] = Data(call, calls, done + i)
      BY <2>1, <2>2, <3>1
    <3> DEFINE q == Todo[i].at
    <3>3. q \in Place
      BY <3>1
    <3> HIDE DEF q
    <3>4. Held'[q] = memory'[HeldBy(q)]
      BY <3>3, HeldAt
    <3> QED
      BY <1>1, <3>1, <3>2, <3>4 DEF q
  <2>4. ASSUME NEW p \in Place, \A i \in 1 .. w : Todo[i].at # p PROVE Held'[p] = Held[p]
    <3>1. ~Hit(HeldBy(p))
      <4> SUFFICES ASSUME NEW i \in 1 .. w, CellOf(i) = HeldBy(p) PROVE FALSE
        BY DEF Hit
      <4>1. HeldBy(Todo[i].at) = HeldBy(p) /\ Todo[i].at \in Place
        BY <1>1
      <4>2. Todo[i].at = p
        BY <4>1, HeldApart
      <4> QED
        BY <2>4, <4>2
    <3>2. memory'[HeldBy(p)] = memory[HeldBy(p)]
      BY <1>4, <2>1, <3>1
    <3>3. Held'[p] = memory'[HeldBy(p)] /\ Held[p] = memory[HeldBy(p)]
      BY HeldAt
    <3> QED
      BY <3>2, <3>3
  <2> QED
    BY <2>1, <2>3, <2>4
<1>6. ASSUME ~Writes
      PROVE  memory' = memory /\ got' = got \o [i \in 1 .. w |-> Held[Todo[i].at]]
  <2>1. memory' = memory /\ got' = got \o [i \in 1 .. w |-> memory[CellOf(i)]]
    BY <1>6 DEF Step, Transfer, Writes
  <2>2. ASSUME NEW i \in 1 .. w PROVE Held[Todo[i].at] = memory[CellOf(i)]
    <3> DEFINE q == Todo[i].at
    <3>1. q \in Place /\ HeldBy(q) = CellOf(i)
      BY <1>1
    <3> HIDE DEF q
    <3>2. Held[q] = memory[HeldBy(q)]
      BY <3>1, HeldAt
    <3> QED
      BY <3>1, <3>2 DEF q
  <2>3. [i \in 1 .. w |-> memory[CellOf(i)]] = [i \in 1 .. w |-> Held[Todo[i].at]]
    BY <2>2
  <2> QED
    BY <2>1, <2>3
<1> QED
  BY <1>3, <1>5, <1>6

LEMMA LinearAdvance ==
  ASSUME ColumnsFillField, RowsAreOfTiles, TransferInv, Step
  PROVE  Linear!Next
<1>0. PICK w : w = XferSize \div 4
  OBVIOUS
<1> DEFINE done == (call.bytes - left) \div 4
           todo == Todo
           head == SubSeq(todo, 1, w)
           Last(p) == CHOOSE i \in 1 .. w : head[i].at = p /\ \A j \in i + 1 .. w : head[j].at # p
<1>1. /\ todo \in Seq([at : Place \cup {Nowhere}, val : Entry]) /\ w \in 1 .. Len(todo)
      /\ \A i \in 1 .. w : todo[i].at \in Place
      /\ Todo' = SubSeq(todo, w + 1, Len(todo))
  BY <1>0, TurnOfTodo
<1>2. /\ \A i, j \in 1 .. w : todo[i].at = todo[j].at => i = j
      /\ Writes => /\ got' = got
                   /\ \A i \in 1 .. w : Held'[todo[i].at] = todo[i].val
                   /\ \A p \in Place : (\A i \in 1 .. w : todo[i].at # p) => Held'[p] = Held[p]
      /\ ~Writes => /\ memory' = memory
                    /\ got' = got \o [i \in 1 .. w |-> Held[todo[i].at]]
  BY <1>0, TurnAtPlaces
<1>3. Writes' = Writes
  BY DEF Step, Writes
<1> HIDE DEF done, todo
<1>4. \A i \in 1 .. w : head[i] = todo[i]
  BY <1>1
<1> HIDE DEF head
<1>5. ASSUME NEW i \in 1 .. w PROVE Last(head[i].at) = i
  <2>1. \A j \in 1 .. w : head[j].at = head[i].at => j = i
    BY <1>2, <1>4
  <2>2. \A j \in i + 1 .. w : j \in 1 .. w /\ j # i
    BY <1>1
  <2>3. head[i].at = head[i].at /\ \A j \in i + 1 .. w : head[j].at # head[i].at
    BY <2>1, <2>2
  <2> QED
    BY <2>1, <2>3
<1> HIDE DEF Last
<1>6. Writes => Held' = [p \in Place |-> IF \E i \in 1 .. w : head[i].at = p
                                         THEN head[Last(p)].val ELSE Held[p]]
  <2> SUFFICES ASSUME Writes
               PROVE  Held' = [p \in Place |-> IF \E i \in 1 .. w : head[i].at = p
                                               THEN head[Last(p)].val ELSE Held[p]]
    OBVIOUS
  <2>1. ASSUME NEW p \in Place
        PROVE  Held'[p] = IF \E i \in 1 .. w : head[i].at = p THEN head[Last(p)].val ELSE Held[p]
    <3>1. ASSUME NEW i \in 1 .. w, head[i].at = p PROVE Held'[p] = head[Last(p)].val
      <4>1. Last(p) = i
        BY <1>5, <3>1
      <4>2. Held'[todo[i].at] = todo[i].val
        BY <1>2
      <4> QED
        BY <1>4, <3>1, <4>1, <4>2
    <3>2. ASSUME ~ \E i \in 1 .. w : head[i].at = p PROVE Held'[p] = Held[p]
      BY <1>2, <1>4, <3>2
    <3> QED
      BY <3>1, <3>2
  <2>2. Held' = [p \in Place |-> Held'[p]]
    BY DEF Held
  <2> QED
    BY <2>1, <2>2
<1>7. ~Writes => Held' = Held /\ got' = got \o [i \in 1 .. w |-> Held[head[i].at]]
  <2> SUFFICES ASSUME ~Writes PROVE Held' = Held /\ got' = got \o [i \in 1 .. w |-> Held[head[i].at]]
    OBVIOUS
  <2>1. [i \in 1 .. w |-> Held[todo[i].at]] = [i \in 1 .. w |-> Held[head[i].at]]
    BY <1>4
  <2> QED
    BY <1>2, <2>1 DEF Held
<1>8. \A i \in 1 .. w : head[i].at \in Place
  BY <1>1, <1>4
<1>9. Linear!Advance(w)
  BY <1>1, <1>2, <1>3, <1>6, <1>7, <1>8
     DEF Linear!Advance, head, todo, Last, Held, Todo, TodoOf, Writes
<1> QED
  BY <1>1, <1>9 DEF Linear!Next, todo, Todo, TodoOf

\* Under the same two provisos, the loops of eva_write, eva_read, eva_memset and of the DMA calls work
\* through the addresses they are given as if memory were linear: whatever the stripes, the columns
\* and the width of an EVA, no word is skipped, done twice or done elsewhere, and a call that fails
\* has done what lies before the first address that names nothing.
THEOREM TransfersImplementLinearMemory ==
  ColumnsFillField /\ RowsAreOfTiles => (Spec => ImplementsLinearMemory)
<1> SUFFICES ASSUME ColumnsFillField, RowsAreOfTiles PROVE Spec => ImplementsLinearMemory
  OBVIOUS
<1>1. Init => Linear!Init
  BY LinearInit
<1>2. TransferInv /\ [Next]_vars => TransferInv'
  BY TransferNext
<1>3. TransferInv /\ [Next]_vars => [Linear!Next]_(Linear!vars)
  <2> SUFFICES ASSUME TransferInv, [Next]_vars PROVE [Linear!Next]_(Linear!vars)
    OBVIOUS
  <2>1. CASE Step
    BY <2>1, LinearAdvance
  <2>2. CASE Refused
    BY <2>2, LinearGiveUp DEF Linear!Next
  <2>3. CASE Return
    BY <2>3, LinearStutter
  <2>4. ASSUME NEW c \in Calls, Begin(c) PROVE Linear!Next
    BY <2>4, LinearBegin DEF Linear!Next
  <2>5. CASE \E q \in Queries : hb_mc_npa_to_eva(q)
    BY <2>5, LinearStutter
  <2>6. CASE UNCHANGED vars
    BY <2>6, LinearStutter
  <2> QED
    BY <2>1, <2>2, <2>3, <2>4, <2>5, <2>6 DEF Next, Loop
<1> QED
  BY <1>1, <1>2, <1>3, TransferInit, PTL DEF Spec, ImplementsLinearMemory, Linear!Spec

-----------------------------------------------------------------------------
(* From an NPA to an EVA and back.                                         *)

LEMMA CacheSizes ==
  {CacheEpas, DramEpas} \subseteq Nat /\ CacheEpas <= DramEpas
<1>1. /\ BankSize \in Nat \ {0} /\ DimX \in Nat \ {0}
      /\ VcacheLog \in Nat /\ DramEnabled \in BOOLEAN
  BY EvaAssumption
<1>2. pow2[VcacheLog] \in Nat
  BY <1>1, Pow2Values
<1>3. CASE DramEnabled
  <2>1. CacheEpas = BankSize /\ DramEpas = BankSize * DimX
    BY <1>3 DEF CacheEpas, DramEpas
  <2>2. PICK k \in Nat : DimX = k + 1
    <3>1. DimX - 1 \in Nat /\ DimX = (DimX - 1) + 1
      BY <1>1
    <3> QED
      BY <3>1
  <2>3. BankSize * (k + 1) = BankSize * k + BankSize /\ BankSize * k \in Nat
    BY <1>1, <2>2
  <2> QED
    BY <1>1, <1>2, <2>1, <2>2, <2>3
<1>4. CASE ~DramEnabled
  <2>1. CacheEpas = pow2[VcacheLog] /\ DramEpas = pow2[VcacheLog]
    BY <1>4 DEF CacheEpas, DramEpas
  <2> QED
    BY <1>2, <2>1
<1> QED
  BY <1>3, <1>4

\* The offset in DRAM of an address behind a cache.
Offset(npa) ==
  S * (W * (2 * (npa.epa \div S) + (IF npa.y = HighY THEN 1 ELSE 0)) + npa.x) + (npa.epa % S)

LEMMA OffsetIs ==
  ASSUME NEW x \in 0 .. DimX - 1, NEW y \in {LowY, HighY}, NEW epa \in 0 .. A - 1,
         NEW n, n = Offset([x |-> x, y |-> y, epa |-> epa])
  PROVE  /\ n \in 0 .. DramBase - 1 /\ BankX(n) = x /\ BankY(n) = y /\ BankEpa(n) = epa
         /\ default_npa_to_eva_dram([x |-> x, y |-> y, epa |-> epa]) = DramBase + n
<1>1. /\ {S, W, A, DramBase} \subseteq Nat \ {0} /\ S * W \in Nat \ {0} /\ (S * W) * 2 \in Nat \ {0}
      /\ DimX <= W /\ DimX \in Nat
  BY Sizes, ColumnsLog, EvaAssumption
<1> DEFINE q == epa \div S
           r == epa % S
           b == IF y = HighY THEN 1 ELSE 0
           g == 2 * q + b
           h == W * g + x
<1>2. epa \in Nat /\ q \in Nat /\ r \in 0 .. S - 1 /\ epa = S * q + r
  <2>1. epa \in Nat /\ S \in Nat \ {0}
    BY <1>1
  <2> QED
    BY <2>1, Division
<1>3. b \in 0 .. 1 /\ x \in 0 .. W - 1
  BY <1>1
<1>4. n = S * h + r
  BY DEF Offset
<1> HIDE DEF q, r, b
<1>5. g \in Nat /\ g \div 2 = q /\ g % 2 = b
  BY <1>2, <1>3
<1>6. h \in Nat /\ h \div W = g /\ h % W = x
  <2> HIDE DEF g
  <2>1. W \in Nat \ {0} /\ h = W * g + x
    BY <1>1
  <2> HIDE DEF h
  <2> QED
    BY <1>3, <1>5, <2>1, Quotient
<1>7. n \in Nat /\ n \div S = h /\ n % S = r
  <2> HIDE DEF h
  <2>1. S \in Nat \ {0}
    BY <1>1
  <2> QED
    BY <1>2, <1>4, <1>6, <2>1, Quotient, ZenonT(30)
<1>8. h = W * g + x /\ g = 2 * q + b
  OBVIOUS
<1> HIDE DEF g, h
<1>9. n \div (S * W) = g
  <2>1. S \in Nat \ {0} /\ W \in Nat \ {0}
    BY <1>1
  <2>2. n \div (S * W) = (n \div S) \div W
    BY <1>7, <2>1, QuotientOfQuotient
  <2> QED
    BY <1>6, <1>7, <2>2
<1>10. n \div ((S * W) * 2) = q
  <2> DEFINE M == S * W
  <2>1. M \in Nat \ {0}
    BY <1>1
  <2> HIDE DEF M
  <2>2. n \div (M * 2) = (n \div M) \div 2
    BY <1>7, <2>1, QuotientOfQuotient
  <2> QED
    BY <1>5, <1>9, <2>2 DEF M
<1>11. BankX(n) = x
  BY <1>6, <1>7 DEF BankX
<1>12. BankY(n) = y
  <2>1. LowY # HighY
    BY EvaAssumption DEF LowY, HighY, NetY
  <2> QED
    BY <1>5, <1>9, <2>1 DEF BankY, b
<1>13. BankEpa(n) = epa
  BY <1>2, <1>7, <1>10 DEF BankEpa
<1>14. n \in 0 .. DramBase - 1
  <2>1. epa < A /\ A = S * BankStripes /\ BankStripes \in Nat \ {0} /\ S \in Nat \ {0}
    BY <1>1, Sizes
  <2>2. q < BankStripes
    <3>1. epa < S * BankStripes <=> epa \div S < BankStripes
      BY <1>2, <2>1, QuotientBound
    <3> QED
      BY <2>1, <3>1 DEF q
  <2> DEFINE N == (S * W) * 2
  <2>3. N \in Nat \ {0} /\ n \div N < BankStripes /\ DramBytes = N * BankStripes
    BY <1>1, <1>10, <2>2, HereDramBytes
  <2> HIDE DEF N
  <2>4. n < DramBytes
    BY <1>7, <2>1, <2>3, QuotientBound
  <2> QED
    BY <1>1, <1>7, <2>4, HereDramBytes
<1>15. default_npa_to_eva_dram([x |-> x, y |-> y, epa |-> epa]) = DramBase + n
  <2>1. /\ pow2[StripeLog] = S /\ pow2[StripeLog + XDimLog] = S * W
        /\ pow2[StripeLog + XDimLog + 1] = (S * W) * 2 /\ pow2[DramBit] = DramBase
    BY Sizes DEF S, DramBase
  <2> DEFINE e1 == x * S
             e2 == (S * W) * b
             e3 == q * ((S * W) * 2)
  <2>2. default_npa_to_eva_dram([x |-> x, y |-> y, epa |-> epa]) =
          r + e1 + (IF y = HighY THEN S * W ELSE 0) + (e3 % DramBase) + DramBase
    BY <2>1 DEF default_npa_to_eva_dram, EpaTop, q, r
  <2>3. (IF y = HighY THEN S * W ELSE 0) = e2
    BY <1>1 DEF b
  <2>4. n = r + e1 + e2 + e3
    BY <1>1, <1>2, <1>3, <1>4, <1>8
  <2>5. e1 \in Nat /\ e2 \in Nat /\ e3 \in Nat /\ r \in Nat /\ DramBase \in Nat \ {0}
    BY <1>1, <1>2, <1>3
  <2> HIDE DEF e1, e2, e3
  <2>6. e3 \in 0 .. DramBase - 1
    BY <1>14, <2>4, <2>5
  <2>7. e3 % DramBase = e3
    BY <2>5, <2>6, Remainder
  <2> QED
    BY <2>2, <2>3, <2>4, <2>5, <2>7
<1> QED
  BY <1>11, <1>12, <1>13, <1>14, <1>15

LEMMA DramComesBack ==
  ASSUME NEW npa \in Npa, IsDramRow(npa), npa.epa < A, NEW t
  PROVE  LET to == default_eva_to_npa(t, t, default_npa_to_eva_dram(npa)) IN to.ok /\ to.npa = npa
<1>1. npa = [x |-> npa.x, y |-> npa.y, epa |-> npa.epa] /\ npa.x \in 0 .. DimX - 1 /\ npa.epa \in Nat
  BY DEF Npa
<1>2. npa.epa \in 0 .. A - 1 /\ npa.y \in {LowY, HighY}
  BY <1>1, ReachWithin DEF IsDramRow
<1> DEFINE n   == Offset(npa)
           eva == default_npa_to_eva_dram(npa)
<1>3. n \in 0 .. DramBase - 1 /\ BankX(n) = npa.x /\ BankY(n) = npa.y /\ BankEpa(n) = npa.epa
      /\ eva = DramBase + n
  BY <1>1, <1>2, OffsetIs
<1> HIDE DEF n, eva
<1>4. /\ eva \in Eva /\ eva >= DramBase
      /\ DramX(eva) = npa.x /\ DramY(eva) = npa.y /\ DramEpa(eva) = npa.epa
  <2>1. DramBase \in Nat /\ n \in Nat /\ DramBase + n >= DramBase
    BY <1>3, Sizes
  <2> QED
    BY <1>3, <2>1, DramFields
<1>5. default_eva_to_npa(t, t, eva) = default_eva_to_npa_dram(eva)
  BY <1>4, MapByZone
<1>6. ~(DramX(eva) > DimX) /\ ~(DramEpa(eva) >= pow2[AddrBits])
  <2>1. DimX \in Nat /\ A \in Nat /\ pow2[AddrBits] \in Nat /\ A <= pow2[AddrBits]
    BY EvaAssumption, ReachWithin
  <2> QED
    BY <1>1, <1>2, <1>4, <2>1
<1>7. default_eva_to_npa_dram(eva) = To(npa.x, npa.y, npa.epa, DramSegment(eva))
  BY <1>4, <1>6 DEF default_eva_to_npa_dram
<1>8. To(npa.x, npa.y, npa.epa, DramSegment(eva)).ok
      /\ To(npa.x, npa.y, npa.epa, DramSegment(eva)).npa = [x |-> npa.x, y |-> npa.y, epa |-> npa.epa]
  BY DEF To
<1> QED
  BY <1>1, <1>5, <1>7, <1>8 DEF eva

\* The remainder of a number by a product: of its quotient by the one, and of itself by the other.
LEMMA ProductRemainder ==
  ASSUME NEW m \in Nat \ {0}, NEW k \in Nat \ {0}, NEW n \in Nat
  PROVE  LET e == n % (m * k)
         IN  /\ e \in 0 .. (m * k) - 1 /\ e % m = n % m /\ e \div m = (n \div m) % k
             /\ \A u \in Nat \ {0} : ((n \div m) * u) % (u * k) = (e \div m) * u
<1> DEFINE q == n \div m
           r == n % m
           d == q \div k
           c == q % k
           M == m * k
<1>1. q \in Nat /\ r \in 0 .. m - 1 /\ n = m * q + r
  BY Division
<1> HIDE DEF q, r
<1>2. d \in Nat /\ c \in 0 .. k - 1 /\ q = k * d + c
  BY <1>1, Division
<1> HIDE DEF d, c
<1> DEFINE f == m * c + r
<1>3. f % m = r /\ f \div m = c /\ f \in Nat
  <2> HIDE DEF f
  <2>1. f = m * c + r
    BY DEF f
  <2> QED
    BY <1>1, <1>2, <2>1, Quotient
<1>4. \A u \in Nat \ {0} : u * k \in Nat \ {0} /\ u * c \in Nat /\ u * c + u <= u * k
  BY <1>2, ProductOrder
<1>5. M \in Nat \ {0} /\ f \in 0 .. M - 1
  BY <1>1, <1>3, <1>4
<1>6. n = M * d + f
  <2>1. m * (k * d + c) = (m * k) * d + m * c
    BY <1>2
  <2> QED
    BY <1>1, <1>2, <1>4, <2>1
<1> HIDE DEF M, f
<1>7. n % M = f
  BY <1>2, <1>5, <1>6, Quotient
<1>8. ASSUME NEW u \in Nat \ {0} PROVE (q * u) % (u * k) = c * u
  <2> DEFINE U == u * k
             g == c * u
             h == q * u
  <2>1. h = U * d + g
    <3>1. (k * d + c) * u = (u * k) * d + c * u
      BY <1>2
    <3> QED
      BY <1>2, <3>1
  <2>2. U \in Nat \ {0} /\ g \in 0 .. U - 1
    <3>1. u * c = c * u
      BY <1>2
    <3> QED
      BY <1>4, <3>1
  <2> HIDE DEF U, g, h
  <2>3. h % U = g
    BY <1>2, <2>1, <2>2, Quotient
  <2> QED
    BY <2>3 DEF h, U, g
<1> QED
  BY <1>3, <1>5, <1>7, <1>8 DEF M, q, r, c

\* hb_mc_npa_to_eva accepts an NPA it has no room for: the EVA it returns names an address lower behind
\* the same cache, that of the EPA without the bits that do not fit.
THEOREM BeyondRoomIsLower ==
  ASSUME NEW npa \in Npa, IsDramRow(npa), ~(AddrBits + XDimLog + 1 <= DramBit), NEW t
  PROVE  LET to == default_eva_to_npa(t, t, default_npa_to_eva_dram(npa))
         IN  to.ok /\ to.npa = [npa EXCEPT !.epa = @ % pow2[ReachBits]]
<1> DEFINE low == [npa EXCEPT !.epa = @ % A]
<1>1. npa.epa \in Nat /\ npa.x \in 0 .. DimX - 1 /\ npa.y \in 0 .. NetY - 1
      /\ npa = [x |-> npa.x, y |-> npa.y, epa |-> npa.epa]
  BY DEF Npa
<1>2. /\ {S, A, BankStripes, DramBase} \subseteq Nat \ {0} /\ A = S * BankStripes
      /\ (S * W) * 2 \in Nat \ {0} /\ DramBase = ((S * W) * 2) * EvaStripes
      /\ pow2[StripeLog] = S /\ pow2[StripeLog + XDimLog + 1] = (S * W) * 2 /\ pow2[DramBit] = DramBase
  BY Sizes DEF S, DramBase
<1>3. EvaStripes = BankStripes
  <2>1. ReachBits # AddrBits
    BY Widths
  <2> QED
    BY <2>1, AllReached
<1> DEFINE e == npa.epa % A
           N == (S * W) * 2
<1>4. /\ e \in 0 .. A - 1 /\ e % S = npa.epa % S /\ e \div S = (npa.epa \div S) % BankStripes
      /\ ((npa.epa \div S) * N) % (N * BankStripes) = (e \div S) * N
  <2> HIDE DEF N
  <2>1. N \in Nat \ {0}
    BY <1>2 DEF N
  <2> QED
    BY <1>1, <1>2, <2>1, ProductRemainder
<1>5. low = [x |-> npa.x, y |-> npa.y, epa |-> e]
  BY <1>1
<1>6. low \in Npa /\ low.epa < A /\ low.epa = e /\ low.x = npa.x /\ low.y = npa.y /\ IsDramRow(low)
  BY <1>1, <1>2, <1>4, <1>5 DEF Npa, IsDramRow
<1>7. EpaTop(npa, StripeLog + XDimLog + 1) = EpaTop(low, StripeLog + XDimLog + 1)
  <2>1. EpaTop(npa, StripeLog + XDimLog + 1) = (e \div S) * N
    BY <1>2, <1>3, <1>4 DEF EpaTop
  <2>2. (e \div S) * N \in 0 .. DramBase - 1
    <3> DEFINE v == (npa.epa \div S) * N
    <3>1. v \in Nat
      <4>1. npa.epa \div S \in Nat
        BY <1>1, <1>2, Division
      <4> QED
        BY <1>2, <4>1
    <3>2. v % DramBase \in 0 .. DramBase - 1
      <4> HIDE DEF v
      <4> QED
        BY <1>2, <3>1, Division
    <3> QED
      BY <1>2, <1>3, <1>4, <3>2
  <2>3. EpaTop(low, StripeLog + XDimLog + 1) = ((e \div S) * N) % DramBase
    BY <1>2, <1>6 DEF EpaTop
  <2> HIDE DEF e, N
  <2> QED
    BY <1>2, <2>1, <2>2, <2>3, Remainder
<1>8. default_npa_to_eva_dram(npa) = default_npa_to_eva_dram(low)
  BY <1>2, <1>4, <1>6, <1>7 DEF default_npa_to_eva_dram
<1> HIDE DEF low
<1>9. LET to == default_eva_to_npa(t, t, default_npa_to_eva_dram(low)) IN to.ok /\ to.npa = low
  BY <1>6, DramComesBack
<1> QED
  BY <1>8, <1>9 DEF low, A

LEMMA StoreComesBack ==
  ASSUME NEW npa \in Npa, npa.epa < P, NEW eva, eva = default_npa_to_eva_global_remote(npa)
  PROVE  ~IsDram(eva) /\ IsGlobal(eva) /\ StoreTarget(eva) = npa
<1> DEFINE x   == npa.x
           y   == npa.y
           epa == npa.epa
<1>1. npa = [x |-> x, y |-> y, epa |-> epa]
  BY DEF Npa
<1>2. /\ {P, X, Y, DramBase, GlobalBase, EvaSpace} \subseteq Nat \ {0} /\ P * X \in Nat \ {0}
      /\ GlobalBase = 2 * ((P * X) * Y) /\ DramBase = 2 * GlobalBase /\ EvaSpace = 2 * DramBase
      /\ pow2[EpaLog] = P /\ pow2[EpaLog + GlobalXLog] = P * X /\ pow2[GlobalBit] = GlobalBase
      /\ pow2[GlobalXLog] = X /\ pow2[GlobalYLog] = 2 * Y
  BY Sizes DEF P, X, GlobalBase
<1>3. x \in 0 .. X - 1 /\ y \in 0 .. (2 * Y) - 1 /\ epa \in 0 .. P - 1
  <2>1. x \in 0 .. DimX - 1 /\ y \in 0 .. NetY - 1 /\ epa \in Nat
    BY DEF Npa
  <2>2. DimX <= X /\ NetY <= 2 * Y /\ DimX \in Nat /\ NetY \in Nat
    BY <1>2, EvaAssumption DEF NetY
  <2> HIDE DEF x, y
  <2> QED
    BY <1>2, <2>1, <2>2
<1>4. eva = epa + x * P + y * (P * X) + GlobalBase
  BY <1>2 DEF default_npa_to_eva_global_remote
<1> HIDE DEF x, y, epa
<1> DEFINE g == 2 * Y + y
           h == X * g + x
<1>5. g \in Nat /\ g < 4 * Y /\ g >= 2 * Y
  BY <1>2, <1>3
<1>6. eva = P * h + epa
  BY <1>2, <1>3, <1>4
<1>7. h = X * g + x
  OBVIOUS
<1>8. g % (2 * Y) = y
  <2> DEFINE m == 2 * Y
  <2>1. m \in Nat \ {0} /\ g = m * 1 + y /\ y \in 0 .. m - 1
    BY <1>2, <1>3
  <2> HIDE DEF m, g
  <2>2. g % m = y
    BY <2>1, Quotient
  <2> QED
    BY <2>2 DEF m
<1> HIDE DEF g, h
<1>9. h \in Nat /\ h \div X = g /\ h % X = x
  <2>1. X \in Nat \ {0} /\ g \in Nat /\ x \in 0 .. X - 1
    BY <1>2, <1>3, <1>5
  <2> QED
    BY <1>7, <2>1, Quotient
<1>10. eva \in Nat /\ eva \div P = h /\ eva % P = epa
  <2>1. P \in Nat \ {0} /\ h \in Nat /\ epa \in 0 .. P - 1
    BY <1>2, <1>3, <1>9
  <2> QED
    BY <1>6, <2>1, Quotient
<1>11. eva \div (P * X) = g
  <2>1. P \in Nat \ {0} /\ X \in Nat \ {0}
    BY <1>2
  <2>2. eva \div (P * X) = (eva \div P) \div X
    BY <1>10, <2>1, QuotientOfQuotient
  <2> QED
    BY <1>9, <1>10, <2>2
<1>12. eva < DramBase /\ eva >= GlobalBase
  <2> DEFINE M == P * X
  <2>1. M \in Nat \ {0} /\ GlobalBase = M * (2 * Y) /\ DramBase = M * (4 * Y)
    <3> DEFINE u == P * X
    <3>1. u \in Nat \ {0} /\ GlobalBase = 2 * (u * Y) /\ DramBase = 2 * (2 * (u * Y)) /\ Y \in Nat \ {0}
      BY <1>2
    <3> HIDE DEF u
    <3>2. 2 * (u * Y) = u * (2 * Y) /\ 2 * (2 * (u * Y)) = u * (4 * Y)
      BY <3>1
    <3> QED
      BY <3>1, <3>2 DEF u
  <2>2. eva \div M = g /\ 2 * Y \in Nat \ {0} /\ 4 * Y \in Nat \ {0}
    BY <1>2, <1>11
  <2> HIDE DEF M
  <2>3. eva < M * (4 * Y) <=> eva \div M < 4 * Y
    BY <1>10, <2>1, <2>2, QuotientBound
  <2>4. eva < M * (2 * Y) <=> eva \div M < 2 * Y
    BY <1>10, <2>1, <2>2, QuotientBound
  <2> QED
    BY <1>2, <1>5, <1>10, <2>1, <2>2, <2>3, <2>4
<1>13. eva \in Eva
  BY <1>2, <1>10, <1>12 DEF Eva
<1>14. ~IsDram(eva) /\ IsGlobal(eva)
  BY <1>2, <1>10, <1>12, <1>13, Zones
<1>15. StoreTarget(eva) = [x |-> x, y |-> y, epa |-> epa]
  <2>1. /\ Field(eva, 0, EpaLog) = eva % P
        /\ Field(eva, EpaLog, GlobalXLog) = (eva \div P) % X
        /\ Field(eva, EpaLog + GlobalXLog, GlobalYLog) = (eva \div (P * X)) % (2 * Y)
    BY <1>13, Fields
  <2> QED
    BY <1>8, <1>9, <1>10, <1>11, <2>1 DEF StoreTarget
<1> QED
  BY <1>1, <1>14, <1>15

LEMMA AnswerComesBack ==
  ASSUME NEW q \in Queries, NEW to, to = default_npa_to_eva(q.tgt, q.npa), to.ok,
         HasRoom(q.npa)
  PROVE  IF IsDramRow(q.npa)
         THEN \A t \in Tiles : LET back == default_eva_to_npa(t, t, to.eva) IN back.ok /\ back.npa = q.npa
         ELSE ~IsDram(to.eva) /\ IsGlobal(to.eva) /\ StoreTarget(to.eva) = q.npa
<1> DEFINE npa == q.npa
           d   == IsDramRow(npa) /\ npa.epa < DramEpas
           g   == IsHostNpa(npa) \/ IsLocalNpa(q.tgt, npa) \/ IsGlobalNpa(npa)
           toDram  == [ok |-> TRUE, eva |-> default_npa_to_eva_dram(npa)]
           toStore == [ok |-> TRUE, eva |-> default_npa_to_eva_global_remote(npa)]
<1>1. npa \in Npa /\ npa.epa < (IF IsDramRow(npa) THEN CacheEpas ELSE pow2[EpaLog]) /\ npa.epa \in Nat
  BY TransferAssumption DEF Npa
<1>2. to = CASE d -> toDram [] ~d /\ g -> toStore [] OTHER -> Fails
  BY DEF default_npa_to_eva
<1>3. IsDramRow(npa) => d
  BY <1>1, CacheSizes
<1>4. ~IsDramRow(npa) => ~d
  OBVIOUS
<1> HIDE DEF d, g, toDram, toStore
<1>5. CASE IsDramRow(npa)
  <2>1. to = toDram
    BY <1>2, <1>3, <1>5
  <2>2. to.eva = default_npa_to_eva_dram(npa)
    BY <2>1 DEF toDram
  <2>3. npa.epa < A
    BY <1>5 DEF HasRoom, A
  <2> HIDE DEF npa
  <2> QED
    BY <1>1, <1>5, <2>2, <2>3, DramComesBack DEF npa
<1>6. CASE ~IsDramRow(npa)
  <2>1. to = toStore \/ to = Fails
    BY <1>2, <1>4, <1>6
  <2>2. to = toStore
    BY <2>1 DEF Fails
  <2>3. to.eva = default_npa_to_eva_global_remote(npa)
    BY <2>2 DEF toStore
  <2>4. npa.epa < P
    BY <1>1, <1>6 DEF P
  <2>5. ~IsDram(to.eva) /\ IsGlobal(to.eva) /\ StoreTarget(to.eva) = npa
    BY <1>1, <2>3, <2>4, StoreComesBack
  <2> QED
    BY <1>6, <2>5
<1> QED
  BY <1>5, <1>6

\* An EVA obtained for an NPA it has room for names that NPA, for any geometry of the network and of
\* the caches, wider or narrower than an EVA: the fields that hb_mc_npa_to_eva packs are those that
\* hb_mc_eva_to_npa and the tiles take apart. The address of the finish signal, which the launcher
\* gives to the tiles, is one of these.
THEOREM NpasComeBack ==
  Spec => []RoundTrip
<1>1. AnswerOk => RoundTrip
  <2> SUFFICES ASSUME AnswerOk, answer.asked, answer.eva.ok, HasRoom(answer.npa)
               PROVE  IF IsDramRow(answer.npa)
                      THEN \A t \in Tiles : LET back == default_eva_to_npa(t, t, answer.eva.eva)
                                            IN  back.ok /\ back.npa = answer.npa
                      ELSE /\ ~IsDram(answer.eva.eva) /\ IsGlobal(answer.eva.eva)
                           /\ StoreTarget(answer.eva.eva) = answer.npa
    BY DEF RoundTrip, ComesBack
  <2>1. answer # NoAnswer
    BY DEF NoAnswer
  <2>2. PICK q \in Queries :
          answer = [asked |-> TRUE, npa |-> q.npa, eva |-> default_npa_to_eva(q.tgt, q.npa)]
    BY <2>1 DEF AnswerOk, Answers
  <2>3. answer.npa = q.npa /\ answer.eva = default_npa_to_eva(q.tgt, q.npa)
    BY <2>2
  <2> QED
    BY <2>3, AnswerComesBack
<1> QED
  BY <1>1, AnswerAlways, PTL
=============================================================================
