-------------------------- MODULE VCacheDma_proofs --------------------------
(***************************************************************************)
(* Theorems about VCacheDma, for every number of caches, ways, lines and   *)
(* words, and any calls whose dma_read and dma_write ranges lie in one     *)
(* line (OneLine; the run MCVCacheDma_range shows what becomes of longer   *)
(* ones).  The invariant says of each word what it will be once the        *)
(* requests on their way to its cache are served (CellOK): this rests on   *)
(* the order of the requests, drops before stores before flushes before    *)
(* the load that is waited for (QueueInv), and on what the flushes that    *)
(* are still to be served leave in DRAM (FlushInv).                        *)
(***************************************************************************)
EXTENDS VCacheDma, SequenceTheorems, TLAPS

-----------------------------------------------------------------------------
(***************************************************************************)
(* Lines and words.                                                        *)
(***************************************************************************)

LEMMA Multiples ==
  ASSUME NEW n \in Nat \ {0}, NEW a \in Nat, NEW b \in Nat, a < b
  PROVE  a * n + n <= b * n
<1>1. PICK d \in Nat : b = a + 1 + d
  <2>1. b - a - 1 \in Nat /\ b = a + 1 + (b - a - 1)
    OBVIOUS
  <2>2. QED
    BY <2>1
<1>2. b * n = a * n + n + d * n
  BY <1>1
<1>3. d * n \in Nat /\ a * n \in Nat
  BY <1>1
<1>4. QED
  BY <1>2, <1>3

LEMMA Division ==
  ASSUME NEW n \in Nat \ {0}, NEW w \in Nat
  PROVE  /\ w \div n \in Nat
         /\ (w \div n) * n <= w /\ w <= (w \div n) * n + n - 1
OBVIOUS

LEMMA LineFacts ==
  /\ \A w \in Word : LineOf(w) \in Line /\ w \in WordsOf(LineOf(w))
  /\ \A l \in Line : WordsOf(l) \subseteq Word
  /\ \A l \in Line : \A w \in WordsOf(l) : LineOf(w) = l
<1> DEFINE n == LineWords
<1>1. n \in Nat \ {0} /\ NumLines \in Nat \ {0}
  BY CacheAssumption
<1>2. ASSUME NEW w \in Word PROVE LineOf(w) \in Line /\ w \in WordsOf(LineOf(w))
  <2> DEFINE l == w \div n
  <2>1. NumLines * n \in Nat
    BY <1>1
  <2>2. w \in Nat /\ w < NumLines * n
    BY <1>1, <2>1 DEF Word
  <2>3. l \in Nat /\ l * n <= w /\ w <= l * n + n - 1
    BY <1>1, <2>2, Division
  <2>4. l < NumLines
    <3> HIDE DEF l, n
    <3>1. SUFFICES ASSUME ~(l < NumLines) PROVE FALSE
      OBVIOUS
    <3>2. l = NumLines \/ NumLines < l
      BY <1>1, <2>3, <3>1
    <3>3. NumLines < l => NumLines * n + n <= l * n
      BY <1>1, <2>3, Multiples
    <3>4. l * n \in Nat
      BY <1>1, <2>3
    <3>5. QED
      BY <1>1, <2>1, <2>2, <2>3, <3>2, <3>3, <3>4
  <2>5. l * n \in Nat
    BY <1>1, <2>3
  <2>6. LineOf(w) = l
    BY DEF LineOf
  <2> HIDE DEF l
  <2>7. l \in Line
    BY <1>1, <2>3, <2>4 DEF Line
  <2>8. w \in l * n .. l * n + n - 1
    BY <1>1, <2>2, <2>3, <2>5
  <2>9. QED
    BY <2>6, <2>7, <2>8 DEF WordsOf
<1>3. ASSUME NEW l \in Line, NEW w \in WordsOf(l) PROVE w \in Word /\ LineOf(w) = l
  <2>1. l \in Nat /\ l < NumLines
    BY <1>1, <1>3 DEF Line
  <2>2. l * n \in Nat /\ w \in l * n .. l * n + n - 1
    BY <1>1, <1>3, <2>1 DEF WordsOf
  <2>3. l * n + n <= NumLines * n /\ NumLines * n \in Nat
    BY <1>1, <2>1, Multiples
  <2>4. w \in Nat /\ l * n <= w /\ w < l * n + n
    BY <1>1, <2>2
  <2>5. w \in Word
    <3> DEFINE all == NumLines * n
               low == l * n
    <3>1. low \in Nat /\ low + n <= all /\ all \in Nat /\ w \in Nat /\ w < low + n
      BY <2>2, <2>3, <2>4
    <3>2. Word = 0 .. all - 1
      BY DEF Word
    <3> HIDE DEF all, low, n
    <3>3. w < all
      BY <1>1, <3>1
    <3>4. QED
      BY <3>1, <3>2, <3>3
  <2> DEFINE q == w \div n
  <2>6. q \in Nat /\ q * n <= w /\ w <= q * n + n - 1
    BY <1>1, <2>4, Division
  <2>7. q * n \in Nat
    BY <1>1, <2>6
  <2> HIDE DEF q, n
  <2>8. q < l => q * n + n <= l * n
    BY <1>1, <2>1, <2>6, Multiples
  <2>9. l < q => l * n + n <= q * n
    BY <1>1, <2>1, <2>6, Multiples
  <2>10. ~(q < l) /\ ~(l < q)
    BY <1>1, <2>2, <2>4, <2>6, <2>7, <2>8, <2>9
  <2>11. q = l
    BY <2>1, <2>6, <2>10
  <2>12. QED
    BY <2>5, <2>11 DEF LineOf, q, n
<1>4. QED
  BY <1>2, <1>3

-----------------------------------------------------------------------------
(***************************************************************************)
(* What the operators on a bank do.                                        *)
(***************************************************************************)

State == {"invalid", "clean", "dirty"}

\* A way holds the words of one line.
Entry == UNION {[line : {l}, state : State, data : [WordsOf(l) -> Value]] : l \in Line}

BankState == [way : [Way -> Entry], dram : [Word -> Value]]

\* No line is in two ways.
OneCopy(s) == \A v, u \in Way : \A l \in Line : Holds(s, v, l) /\ Holds(s, u, l) => v = u

LEMMA EntryFacts ==
  /\ \A e \in Entry : /\ e.line \in Line /\ e.state \in State /\ e.data \in [WordsOf(e.line) -> Value]
                      /\ e = [line |-> e.line, state |-> e.state, data |-> e.data]
  /\ \A l \in Line, t \in State : \A d \in [WordsOf(l) -> Value] :
       [line |-> l, state |-> t, data |-> d] \in Entry
<1>1. ASSUME NEW e \in Entry
      PROVE  /\ e.line \in Line /\ e.state \in State /\ e.data \in [WordsOf(e.line) -> Value]
             /\ e = [line |-> e.line, state |-> e.state, data |-> e.data]
  <2>1. PICK l \in Line : e \in [line : {l}, state : State, data : [WordsOf(l) -> Value]]
    BY DEF Entry
  <2>2. QED
    BY <2>1
<1>2. ASSUME NEW l \in Line, NEW t \in State, NEW d \in [WordsOf(l) -> Value]
      PROVE  [line |-> l, state |-> t, data |-> d] \in Entry
  BY DEF Entry
<1>3. QED
  BY <1>1, <1>2

LEMMA EmptyEntry == Empty \in Entry /\ Empty.state = "invalid"
<1>1. 0 \in Line /\ 0 \in Value
  BY CacheAssumption DEF Line, Value
<1>2. [w \in WordsOf(0) |-> 0] \in [WordsOf(0) -> Value]
  BY <1>1
<1>3. Empty.state = "invalid" /\ "invalid" \in State
  BY DEF Empty, State
<1>4. QED
  BY <1>1, <1>2, <1>3, EntryFacts DEF Empty

\* Way v is clean and DRAM has its data; nothing else changes.
LEMMA WriteBackFacts ==
  ASSUME NEW s \in BankState, OneCopy(s), NEW v \in Way
  PROVE  LET t == WriteBack(s, v)
         IN  /\ t \in BankState /\ OneCopy(t)
             /\ \A u \in Way : t.way[u].line = s.way[u].line /\ t.way[u].data = s.way[u].data
             /\ \A u \in Way : \A l \in Line : Holds(t, u, l) <=> Holds(s, u, l)
             /\ t.way[v].state # "dirty"
             /\ \A u \in Way : u # v => t.way[u] = s.way[u]
             /\ s.way[v].state # "dirty" => t = s
             /\ s.way[v].state = "dirty" =>
                  \A w \in Word : t.dram[w] = IF w \in WordsOf(s.way[v].line)
                                                THEN s.way[v].data[w] ELSE s.dram[w]
<1> DEFINE t == WriteBack(s, v)
           e == s.way[v]
<1>1. /\ s.way \in [Way -> Entry] /\ s.dram \in [Word -> Value] /\ e \in Entry
  BY DEF BankState
<1>2. CASE e.state # "dirty"
  <2>1. t = s
    BY <1>2 DEF WriteBack
  <2>2. QED
    BY <1>2, <2>1
<1>3. CASE e.state = "dirty"
  <2> DEFINE f == [line |-> e.line, state |-> "clean", data |-> e.data]
             m == [w \in Word |-> IF w \in WordsOf(e.line) THEN e.data[w] ELSE s.dram[w]]
  <2>1. t = [way |-> [s.way EXCEPT ![v].state = "clean"], dram |-> m]
    BY <1>3 DEF WriteBack
  <2>2. e = [line |-> e.line, state |-> e.state, data |-> e.data]
    BY <1>1, EntryFacts
  <2>3. [e EXCEPT !.state = "clean"] = f
    BY <2>2
  <2>4. t.way = [s.way EXCEPT ![v] = f] /\ t.dram = m
    BY <2>1, <2>3
  <2>5. f \in Entry
    BY <1>1, EntryFacts DEF State
  <2>6. m \in [Word -> Value]
    <3>1. SUFFICES ASSUME NEW w \in Word PROVE m[w] \in Value
      OBVIOUS
    <3>2. QED
      BY <1>1, EntryFacts
  <2>7. t \in BankState
    BY <1>1, <2>1, <2>4, <2>5, <2>6 DEF BankState
  <2>8. f.line = e.line /\ f.data = e.data /\ f.state = "clean"
    OBVIOUS
  <2>9. m = [w \in Word |-> IF w \in WordsOf(e.line) THEN e.data[w] ELSE s.dram[w]]
    OBVIOUS
  <2> HIDE DEF f, m, t
  <2>10. t.way[v] = f /\ \A u \in Way : u # v => t.way[u] = s.way[u]
    BY <1>1, <2>4
  <2>11. \A u \in Way : t.way[u].line = s.way[u].line /\ t.way[u].data = s.way[u].data
    BY <2>8, <2>10
  <2>12. \A u \in Way : \A l \in Line : Holds(t, u, l) <=> Holds(s, u, l)
    BY <1>3, <2>8, <2>10, <2>11 DEF Holds
  <2>13. OneCopy(t)
    BY <2>12 DEF OneCopy
  <2>14. \A w \in Word : t.dram[w] = IF w \in WordsOf(e.line) THEN e.data[w] ELSE s.dram[w]
    BY <2>4, <2>9
  <2>15. QED
    BY <1>3, <2>7, <2>8, <2>10, <2>11, <2>12, <2>13, <2>14 DEF t
<1>4. QED
  BY <1>2, <1>3

LEMMA DropFacts ==
  ASSUME NEW s \in BankState, OneCopy(s), NEW v \in Way
  PROVE  LET t == Drop(s, v)
         IN  /\ t \in BankState /\ OneCopy(t)
             /\ t.dram = s.dram /\ t.way[v].state = "invalid"
             /\ \A u \in Way : u # v => t.way[u] = s.way[u]
             /\ \A u \in Way : \A l \in Line : Holds(t, u, l) <=> Holds(s, u, l) /\ u # v
<1> DEFINE t == Drop(s, v)
<1>1. s.way \in [Way -> Entry] /\ s = [way |-> s.way, dram |-> s.dram] /\ s.dram \in [Word -> Value]
  BY DEF BankState
<1>2. t = [way |-> [s.way EXCEPT ![v] = Empty], dram |-> s.dram]
  BY <1>1 DEF Drop
<1>3. t \in BankState
  BY <1>1, <1>2, EmptyEntry DEF BankState
<1>4. t.way[v] = Empty /\ t.dram = s.dram /\ \A u \in Way : u # v => t.way[u] = s.way[u]
  BY <1>1, <1>2
<1> HIDE DEF t
<1>5. \A u \in Way : \A l \in Line : Holds(t, u, l) <=> Holds(s, u, l) /\ u # v
  BY <1>4, EmptyEntry DEF Holds
<1>6. OneCopy(t)
  BY <1>5 DEF OneCopy
<1>7. QED
  BY <1>3, <1>4, <1>5, <1>6, EmptyEntry DEF t

-----------------------------------------------------------------------------
(***************************************************************************)
(* What they preserve.                                                     *)
(***************************************************************************)

Clean(s, l) == \A v \in Hits(s, l) : s.way[v].state = "clean"

\* Bank s has x as word w: in the cache, if the line is there, and in DRAM unless it is dirty there.
Has(s, w, x) ==
  /\ \A v \in Hits(s, LineOf(w)) : s.way[v].data[w] = x
  /\ Clean(s, LineOf(w)) => s.dram[w] = x

NotDirty(s, v) == s.way[v].state # "dirty"

LEMMA WriteBackKeeps ==
  ASSUME NEW s \in BankState, OneCopy(s), NEW v \in Way, NEW t, t = WriteBack(s, v)
  PROVE  /\ \A w \in Word : \A x : Has(s, w, x) => Has(t, w, x)
         /\ \A u \in Way : NotDirty(s, u) => NotDirty(t, u)
         /\ \A l \in Line : Clean(s, l) => Clean(t, l)
<1> DEFINE e == s.way[v]
<1>1. /\ t \in BankState /\ OneCopy(t)
      /\ \A u \in Way : t.way[u].line = s.way[u].line /\ t.way[u].data = s.way[u].data
      /\ \A u \in Way : \A l \in Line : Holds(t, u, l) <=> Holds(s, u, l)
      /\ t.way[v].state # "dirty"
      /\ \A u \in Way : u # v => t.way[u] = s.way[u]
      /\ e.state # "dirty" => t = s
      /\ e.state = "dirty" =>
           \A w \in Word : t.dram[w] = IF w \in WordsOf(e.line) THEN e.data[w] ELSE s.dram[w]
  BY WriteBackFacts
<1>2. \A l \in Line : Hits(t, l) = Hits(s, l)
  BY <1>1 DEF Hits
<1>3. \A u \in Way : t.way[u] \in Entry /\ s.way[u] \in Entry
  BY <1>1 DEF BankState
<1>4. \A u \in Way : NotDirty(s, u) => NotDirty(t, u)
  BY <1>1 DEF NotDirty
<1>5. ASSUME NEW l \in Line, Clean(s, l) PROVE Clean(t, l)
  <2>1. SUFFICES ASSUME NEW u \in Hits(s, l) PROVE t.way[u].state = "clean"
    BY <1>2 DEF Clean
  <2>2. u \in Way /\ s.way[u].state = "clean"
    BY <1>5 DEF Clean, Hits
  <2>3. QED
    BY <1>1, <2>2
<1>6. ASSUME NEW w \in Word, NEW x, Has(s, w, x) PROVE Has(t, w, x)
  <2> DEFINE l == LineOf(w)
  <2>1. l \in Line /\ w \in WordsOf(l)
    BY LineFacts
  <2>2. \A u \in Hits(t, l) : u \in Way /\ t.way[u].data[w] = x
    BY <1>1, <1>2, <1>6, <2>1 DEF Has, Hits
  <2>3. CASE e.state # "dirty"
    BY <1>1, <1>6, <2>3
  <2>4. CASE e.state = "dirty"
    <3>1. CASE w \in WordsOf(e.line)
      <4>1. e.line = l
        BY <1>3, <3>1, LineFacts, EntryFacts
      <4>2. v \in Hits(s, l)
        BY <2>4, <4>1 DEF Hits, Holds
      <4>3. e.data[w] = x
        BY <1>6, <4>2 DEF Has
      <4>4. t.dram[w] = x
        BY <1>1, <2>4, <3>1, <4>3
      <4>5. QED
        BY <2>2, <4>4 DEF Has
    <3>2. CASE w \notin WordsOf(e.line)
      <4>1. t.dram[w] = s.dram[w]
        BY <1>1, <2>4, <3>2
      <4>2. \A u \in Hits(s, l) : u # v
        BY <2>1, <3>2 DEF Hits, Holds
      <4>3. \A u \in Hits(s, l) : t.way[u] = s.way[u]
        BY <1>1, <4>2 DEF Hits
      <4>4. Clean(t, l) => Clean(s, l)
        BY <1>2, <2>1, <4>3 DEF Clean
      <4>5. QED
        BY <1>6, <2>2, <4>1, <4>4 DEF Has
    <3>3. QED
      BY <3>1, <3>2
  <2>5. QED
    BY <2>3, <2>4
<1>7. QED
  BY <1>4, <1>5, <1>6

LEMMA FillKeeps ==
  ASSUME NEW s \in BankState, OneCopy(s), NEW l \in Line, NEW t \in Fill(s, l)
  PROVE  /\ t \in BankState /\ OneCopy(t) /\ \E v \in Way : Holds(t, v, l)
         /\ \A w \in Word : \A x : Has(s, w, x) => Has(t, w, x)
         /\ \A u \in Way : NotDirty(s, u) => NotDirty(t, u)
         /\ \A k \in Line : Clean(s, k) => Clean(t, k)
<1>1. CASE Hits(s, l) # {}
  <2>1. t = s
    BY <1>1 DEF Fill
  <2>2. QED
    BY <1>1, <2>1 DEF Hits
<1>2. CASE Hits(s, l) = {}
  <2>1. PICK v \in Way : LET b == WriteBack(s, v)
                         IN  t = [b EXCEPT !.way[v] = [line |-> l, state |-> "clean",
                                                       data |-> [w \in WordsOf(l) |-> b.dram[w]]]]
    BY <1>2 DEF Fill
  <2> DEFINE b == WriteBack(s, v)
             d == [w \in WordsOf(l) |-> b.dram[w]]
             f == [line |-> l, state |-> "clean", data |-> d]
  <2>2. t = [b EXCEPT !.way[v] = f]
    BY <2>1
  <2>3. /\ b \in BankState /\ OneCopy(b) /\ b.way[v].state # "dirty"
        /\ \A u \in Way : \A k \in Line : Holds(b, u, k) <=> Holds(s, u, k)
    BY WriteBackFacts
  <2>4. /\ \A w \in Word : \A x : Has(s, w, x) => Has(b, w, x)
        /\ \A u \in Way : NotDirty(s, u) => NotDirty(b, u)
        /\ \A k \in Line : Clean(s, k) => Clean(b, k)
    BY WriteBackKeeps
  <2> HIDE DEF b
  <2>5. /\ b.way \in [Way -> Entry] /\ b.dram \in [Word -> Value]
        /\ b = [way |-> b.way, dram |-> b.dram]
    BY <2>3 DEF BankState
  <2>6. d \in [WordsOf(l) -> Value] /\ \A w \in WordsOf(l) : d[w] = b.dram[w]
    BY <2>5, LineFacts
  <2> HIDE DEF d
  <2>7. f \in Entry /\ f.line = l /\ f.state = "clean" /\ f.data = d
    BY <2>6, EntryFacts DEF State
  <2> HIDE DEF f
  <2>8. t = [way |-> [b.way EXCEPT ![v] = f], dram |-> b.dram]
    BY <2>2, <2>5
  <2>9. t \in BankState
    BY <2>5, <2>7, <2>8 DEF BankState
  <2>10. t.way[v] = f /\ t.dram = b.dram /\ \A u \in Way : u # v => t.way[u] = b.way[u]
    BY <2>5, <2>8
  <2>11. \A u \in Way : ~Holds(b, u, l)
    BY <1>2, <2>3 DEF Hits
  <2>12. \A u \in Way : \A k \in Line : Holds(t, u, k) <=> IF u = v THEN k = l ELSE Holds(b, u, k)
    BY <2>7, <2>10 DEF Holds
  <2>13. OneCopy(t)
    BY <2>3, <2>11, <2>12 DEF OneCopy
  <2>14. \A u \in Way : NotDirty(b, u) => NotDirty(t, u)
    BY <2>7, <2>10 DEF NotDirty
  <2>15. ASSUME NEW k \in Line, Clean(b, k) PROVE Clean(t, k)
    <3>1. SUFFICES ASSUME NEW u \in Way, Holds(t, u, k) PROVE t.way[u].state = "clean"
      BY DEF Clean, Hits
    <3>2. CASE u = v
      BY <2>7, <2>10, <3>2
    <3>3. CASE u # v
      BY <2>10, <2>12, <2>15, <3>1, <3>3 DEF Clean, Hits
    <3>4. QED
      BY <3>2, <3>3
  <2>16. ASSUME NEW w \in Word, NEW x, Has(b, w, x) PROVE Has(t, w, x)
    <3> DEFINE k == LineOf(w)
    <3>1. k \in Line /\ w \in WordsOf(k)
      BY LineFacts
    <3> HIDE DEF k
    <3>2. /\ \A u \in Way : Holds(b, u, k) => b.way[u].data[w] = x
          /\ (\A u \in Way : Holds(b, u, k) => b.way[u].state = "clean") => b.dram[w] = x
      BY <2>16 DEF Has, Clean, Hits, k
    <3>3. SUFFICES /\ \A u \in Way : Holds(t, u, k) => t.way[u].data[w] = x
                   /\ (\A u \in Way : Holds(t, u, k) => t.way[u].state = "clean") => t.dram[w] = x
      BY DEF Has, Clean, Hits, k
    <3>4. CASE k = l
      <4>1. b.dram[w] = x
        BY <2>11, <3>2, <3>4
      <4>2. \A u \in Way : Holds(t, u, k) => u = v
        BY <2>11, <2>12, <3>4
      <4>3. t.way[v].data[w] = x
        BY <2>6, <2>7, <2>10, <3>1, <3>4, <4>1
      <4>4. QED
        BY <2>10, <4>1, <4>2, <4>3
    <3>5. CASE k # l
      <4>1. \A u \in Way : Holds(t, u, k) => u # v /\ Holds(b, u, k)
        BY <2>12, <3>1, <3>5
      <4>2. \A u \in Way : Holds(t, u, k) => t.way[u] = b.way[u] /\ t.way[u].data[w] = x
        BY <2>10, <3>2, <4>1
      <4>3. CASE Holds(b, v, k)
        <5>1. b.way[v].state = "clean"
          BY <2>3, <2>5, <4>3, EntryFacts DEF Holds, State
        <5>2. \A u \in Way : Holds(b, u, k) => u = v
          BY <2>3, <3>1, <4>3 DEF OneCopy
        <5>3. b.dram[w] = x
          BY <3>2, <5>1, <5>2
        <5>4. QED
          BY <2>10, <4>2, <5>3
      <4>4. CASE ~Holds(b, v, k)
        <5>1. \A u \in Way : Holds(b, u, k) => Holds(t, u, k) /\ t.way[u] = b.way[u]
          BY <2>10, <2>12, <3>1, <4>4
        <5>2. QED
          BY <2>10, <3>2, <4>2, <5>1
      <4>5. QED
        BY <4>3, <4>4
    <3>6. QED
      BY <3>4, <3>5
  <2>17. \E u \in Way : Holds(t, u, l)
    BY <2>12
  <2>18. QED
    BY <2>4, <2>9, <2>13, <2>14, <2>15, <2>16, <2>17
<1>3. QED
  BY <1>1, <1>2

\* The cached word of a line that is there.
LEMMA LoadedIs ==
  ASSUME NEW s, NEW w \in Word, \E v \in Way : Holds(s, v, LineOf(w))
  PROVE  \E v \in Hits(s, LineOf(w)) : Loaded(s, w) = s.way[v].data[w]
<1> DEFINE v == CHOOSE v \in Way : Holds(s, v, LineOf(w))
<1>1. v \in Way /\ Holds(s, v, LineOf(w))
  OBVIOUS
<1>2. Loaded(s, w) = s.way[v].data[w]
  BY DEF Loaded
<1> HIDE DEF v
<1>3. QED
  BY <1>1, <1>2 DEF Hits

LEMMA LoadedHas ==
  ASSUME NEW s, NEW w \in Word, NEW x, \E v \in Way : Holds(s, v, LineOf(w)), Has(s, w, x)
  PROVE  Loaded(s, w) = x
BY LoadedIs DEF Has

LEMMA LoadedType ==
  ASSUME NEW s \in BankState, NEW w \in Word, \E v \in Way : Holds(s, v, LineOf(w))
  PROVE  Loaded(s, w) \in Value
<1>1. PICK v \in Hits(s, LineOf(w)) : Loaded(s, w) = s.way[v].data[w]
  BY LoadedIs
<1>2. v \in Way /\ s.way[v].line = LineOf(w)
  BY DEF Hits, Holds
<1>3. s.way[v] \in Entry
  BY <1>2 DEF BankState
<1>4. s.way[v].data \in [WordsOf(LineOf(w)) -> Value]
  BY <1>2, <1>3, EntryFacts
<1>5. QED
  BY <1>1, <1>4, LineFacts

LEMMA StoredKeeps ==
  ASSUME NEW s \in BankState, OneCopy(s), NEW w \in Word, NEW y \in Value,
         \E v \in Way : Holds(s, v, LineOf(w)), NEW t, t = Stored(s, w, y)
  PROVE  /\ t \in BankState /\ OneCopy(t)
         /\ Has(t, w, y)
         /\ \A z \in Word \ {w} : \A x : Has(s, z, x) => Has(t, z, x)
<1> DEFINE v == CHOOSE v \in Way : Holds(s, v, LineOf(w))
           e == s.way[v]
           f == [line |-> e.line, state |-> "dirty", data |-> [e.data EXCEPT ![w] = y]]
<1>1. v \in Way /\ Holds(s, v, LineOf(w))
  OBVIOUS
<1>2. t = [s EXCEPT !.way[v].state = "dirty", !.way[v].data[w] = y]
  BY DEF Stored
<1> HIDE DEF v
<1>3. /\ s.way \in [Way -> Entry] /\ s.dram \in [Word -> Value]
      /\ s = [way |-> s.way, dram |-> s.dram] /\ e \in Entry
  BY <1>1 DEF BankState
<1>4. e = [line |-> e.line, state |-> e.state, data |-> e.data]
      /\ e.line = LineOf(w) /\ e.line \in Line /\ e.data \in [WordsOf(e.line) -> Value]
  BY <1>1, <1>3, EntryFacts DEF Holds
<1>5. t = [way |-> [s.way EXCEPT ![v] = f], dram |-> s.dram]
  <2>1. t = [[s EXCEPT !.way[v].state = "dirty"] EXCEPT !.way[v].data[w] = y]
    BY <1>2
  <2> DEFINE g == [line |-> e.line, state |-> "dirty", data |-> e.data]
             b == [way |-> [s.way EXCEPT ![v] = g], dram |-> s.dram]
  <2>2. [e EXCEPT !.state = "dirty"] = g
    BY <1>4
  <2>3. [s EXCEPT !.way[v].state = "dirty"] = b
    BY <1>3, <2>2
  <2>4. b.way[v] = g
    BY <1>1, <1>3
  <2>5. [g EXCEPT !.data[w] = y] = f
    OBVIOUS
  <2>6. [b.way EXCEPT ![v].data[w] = y] = [b.way EXCEPT ![v] = f]
    BY <2>4, <2>5
  <2>7. [b EXCEPT !.way[v].data[w] = y] = [way |-> [b.way EXCEPT ![v] = f], dram |-> s.dram]
    BY <2>6
  <2>8. [b.way EXCEPT ![v] = f] = [s.way EXCEPT ![v] = f]
    BY <1>3
  <2>9. QED
    BY <2>1, <2>3, <2>7, <2>8
<1>6. w \in WordsOf(e.line)
  BY <1>4, LineFacts
<1>7. f \in Entry
  BY <1>4, <1>6, EntryFacts DEF State
<1>8. f.line = e.line /\ f.state = "dirty" /\ f.data[w] = y
      /\ \A z \in WordsOf(e.line) : z # w => f.data[z] = e.data[z]
  BY <1>4, <1>6
<1> HIDE DEF f
<1>9. t \in BankState
  <2>1. [s.way EXCEPT ![v] = f] \in [Way -> Entry]
    BY <1>3, <1>7
  <2>2. QED
    BY <1>3, <1>5, <2>1 DEF BankState
<1>10. t.way[v] = f /\ t.dram = s.dram /\ \A u \in Way : u # v => t.way[u] = s.way[u]
  BY <1>1, <1>3, <1>5
<1>11. \A u \in Way : \A l \in Line : Holds(t, u, l) <=> Holds(s, u, l)
  BY <1>1, <1>8, <1>10 DEF Holds
<1>12. OneCopy(t)
  BY <1>11 DEF OneCopy
<1>13. Has(t, w, y)
  <2>1. \A u \in Hits(t, LineOf(w)) : u = v
    BY <1>1, <1>4, <1>11 DEF OneCopy, Hits
  <2>2. v \in Hits(t, LineOf(w)) /\ t.way[v].state = "dirty" /\ t.way[v].data[w] = y
    BY <1>1, <1>4, <1>8, <1>10, <1>11 DEF Hits
  <2>3. QED
    BY <2>1, <2>2 DEF Has, Clean
<1>14. ASSUME NEW z \in Word \ {w}, NEW x, Has(s, z, x) PROVE Has(t, z, x)
  <2> DEFINE k == LineOf(z)
  <2>1. k \in Line /\ z \in WordsOf(k)
    BY LineFacts
  <2> HIDE DEF k
  <2>2. /\ \A u \in Way : Holds(s, u, k) => s.way[u].data[z] = x
        /\ (\A u \in Way : Holds(s, u, k) => s.way[u].state = "clean") => s.dram[z] = x
    BY <1>14 DEF Has, Clean, Hits, k
  <2>3. ASSUME NEW u \in Way, Holds(t, u, k) PROVE t.way[u].data[z] = x
    <3>1. s.way[u].data[z] = x /\ s.way[u].line = k
      BY <1>11, <2>1, <2>2, <2>3 DEF Holds
    <3>2. CASE u = v
      BY <1>8, <1>10, <2>1, <3>1, <3>2
    <3>3. CASE u # v
      BY <1>10, <3>1, <3>3
    <3>4. QED
      BY <3>2, <3>3
  <2>4. ASSUME \A u \in Way : Holds(t, u, k) => t.way[u].state = "clean" PROVE t.dram[z] = x
    <3>1. ASSUME NEW u \in Way, Holds(s, u, k) PROVE s.way[u].state = "clean"
      <4>1. Holds(t, u, k)
        BY <1>11, <2>1, <3>1
      <4>2. u # v
        BY <1>8, <1>10, <2>4, <4>1
      <4>3. QED
        BY <1>10, <2>4, <4>1, <4>2
    <3>2. QED
      BY <1>10, <2>2, <3>1
  <2>5. QED
    BY <2>3, <2>4 DEF Has, Clean, Hits, k
<1>15. QED
  BY <1>9, <1>12, <1>13, <1>14

-----------------------------------------------------------------------------
(***************************************************************************)
(* The inductive invariant.                                                *)
(***************************************************************************)

\* What the DMA functions need of their caller's range: that it lies in one line.  (They
\* invalidate or flush the line of its first word only.)
OneLine ==
  \A c \in Calls : c.kind \in {"dma_read", "dma_write"} =>
    \A w \in c.jobs[1].first .. c.jobs[1].first + c.jobs[1].words - 1 :
      LineOf(w) = LineOf(c.jobs[1].first)

Req == [op : {"TAG", "TAGFL"}, at : Way, val : Value]
       \cup [op : {"store", "load", "AINV", "AFL"}, at : Word, val : Value]

In(q) == {q[k] : k \in 1 .. Len(q)}

\* A cache receives its requests by rank: what drops lines, stores, what writes lines back, a load.
Rank(r) == IF r.op \in {"TAG", "AINV"} THEN 0
           ELSE IF r.op = "store" THEN 1
           ELSE IF r.op \in {"TAGFL", "AFL"} THEN 2 ELSE 3

Sorted(q) == \A i, k \in 1 .. Len(q) : i <= k => Rank(q[i]) <= Rank(q[k])

Upto(q, n) == \A r \in In(q) : Rank(r) <= n

StoreTo(r, w) == r.op = "store" /\ r.at = w

NoneTo(q, w) == \A r \in In(q) : ~StoreTo(r, w)

\* The last of q's stores to word w is of x.
LastTo(q, w, x) ==
  \A k \in 1 .. Len(q) :
    StoreTo(q[k], w) /\ (\A i \in 1 .. Len(q) : k < i => ~StoreTo(q[i], w)) => q[k].val = x

NoStore(q) == \A r \in In(q) : r.op # "store"

\* The load is the last request.
OneLoad(q) ==
  q # <<>> /\ \A k \in 1 .. Len(q) : q[k].op = "load" <=> k = Len(q)

\* A request drops line l.
Dropping(s, q, l) ==
  \E r \in In(q) : \/ r.op = "AINV" /\ LineOf(r.at) = l
                   \/ r.op = "TAG" /\ Holds(s, r.at, l)

\* Word w of bank s is x when the requests q are served.
CellOK(s, q, w, x) ==
  /\ LastTo(q, w, x)
  /\ NoneTo(q, w) => IF Dropping(s, q, LineOf(w)) THEN s.dram[w] = x ELSE Has(s, w, x)

Asked == pc \in {"word", "answer"}
AskedBank == IF pc = "word" THEN TheJob.bank ELSE next

Flushing == pc \in {"ask", "answer"}

TypeInv ==
  /\ bank \in [Bank -> BankState] /\ \A b \in Bank : OneCopy(bank[b])
  /\ queue \in [Bank -> Seq(Req)]
  /\ rsp = <<>> \/ \E x \in Value : rsp = <<x>>
  /\ calls \in 0 .. MaxCalls /\ next \in 1 .. NumBanks + 1
  /\ buffer \in Seq(Value) /\ steps \in 0 .. MaxTileSteps
  /\ latest \in [Bank -> [Word -> Value]] /\ doubt \subseteq Bank \X Word

\* The call under way.
HostInv ==
  /\ pc \in {"idle", "word", "dram", "ask", "answer", "launch", "run"}
  /\ pc # "idle" \/ call.kind \in Reads => call \in Calls
  /\ pc = "word" => call.kind \in {"read", "dma_read"}
  /\ pc = "dram" => call.kind = "dma_read"
  /\ Flushing => call.kind \in {"dma_to_device", "dma_to_host"}
  /\ pc = "answer" => next <= NumBanks
  /\ pc \in {"launch", "run"} => call.kind = "kernel"

\* The requests, and the response, under way.
QueueInv ==
  /\ \A b \in Bank :
       /\ Sorted(queue[b])
       /\ ~(Asked /\ b = AskedBank) => Upto(queue[b], IF Flushing THEN 2 ELSE 1)
       /\ (Flushing /\ b < next) \/ (pc = "dram" /\ b = TheJob.bank) \/ pc = "run" => queue[b] = <<>>
  /\ ~Asked => rsp = <<>>
  /\ Asked => \/ rsp = <<>> /\ OneLoad(queue[AskedBank])
              \/ rsp # <<>> /\ queue[AskedBank] = <<>>

\* Each word will be the one last written.
CellsInv ==
  \A b \in Bank : \A w \in Word :
    <<b, w>> \notin doubt => CellOK(bank[b], queue[b], w, latest[b][w])

Pending(q, op, v) == \E r \in In(q) : r.op = op /\ r.at = v

\* A line is on its way to DRAM, or there.
FlushInv ==
  /\ Flushing =>
       \A b \in Bank : \A v \in Way :
         \/ Pending(queue[b], "TAGFL", v)
         \/ NoStore(queue[b]) /\ NotDirty(bank[b], v)
  /\ pc \in {"word", "dram"} /\ call.kind = "dma_read" =>
       \/ Pending(queue[TheJob.bank], "AFL", TheJob.first)
       \/ NoStore(queue[TheJob.bank]) /\ Clean(bank[TheJob.bank], LineOf(TheJob.first))

\* What a read loads.
ReadInv ==
  pc = "word" /\ call.kind = "read" =>
    /\ \A r \in In(queue[TheJob.bank]) : r.op = "load" => r.at = TheJob.first
    /\ rsp # <<>> /\ <<TheJob.bank, TheJob.first>> \notin doubt =>
         rsp[1] = latest[TheJob.bank][TheJob.first]

Inv == TypeInv /\ HostInv /\ QueueInv /\ CellsInv /\ FlushInv /\ ReadInv /\ ReadsLatest

-----------------------------------------------------------------------------
(***************************************************************************)
(* Requests: the first one is taken; some are appended.                    *)
(***************************************************************************)

LEMMA Ranks == \A r \in Req : Rank(r) \in 0 .. 3 /\ r.at \in Way \cup Word
BY DEF Rank, Req

LEMMA ReqFacts ==
  \A r \in Req :
    /\ r.op \in {"TAG", "TAGFL", "store", "load", "AINV", "AFL"}
    /\ r.at \in IF r.op \in {"TAG", "TAGFL"} THEN Way ELSE Word
    /\ r.val \in Value
BY DEF Req

\* The same, element by element.
LEMMA InReq ==
  ASSUME NEW q \in Seq(Req)
  PROVE  /\ Len(q) \in Nat
         /\ \A k \in 1 .. Len(q) : q[k] \in Req /\ q[k] \in In(q)
         /\ \A r \in In(q) : r \in Req /\ \E k \in 1 .. Len(q) : r = q[k]
BY DEF In

LEMMA Shift ==
  ASSUME NEW q \in Seq(Req), q # <<>>, NEW n, n = Len(q), NEW t, t = Tail(q)
  PROVE  /\ n \in Nat /\ 1 <= n /\ t \in Seq(Req) /\ Len(t) = n - 1
         /\ q[1] = Head(q) /\ Head(q) \in Req
         /\ \A k \in 1 .. n - 1 : t[k] = q[k + 1] /\ k + 1 \in 1 .. n
         /\ \A k \in 1 .. n : k = 1 \/ (k - 1 \in 1 .. n - 1 /\ q[k] = t[k - 1])
<1>1. /\ t \in Seq(Req) /\ Len(t) = Len(q) - 1 /\ \A k \in 1 .. Len(t) : t[k] = q[k + 1]
      /\ Head(q) \in Req /\ Head(q) = q[1]
  BY HeadTailProperties
<1>2. n \in Nat /\ n # 0
  BY EmptySeq
<1>3. Len(t) = n - 1
  BY <1>1
<1>4. \A k \in 1 .. n - 1 : t[k] = q[k + 1]
  BY <1>1, <1>3
<1>5. \A k \in 1 .. n - 1 : k + 1 \in 1 .. n
  BY <1>2
<1>6. ASSUME NEW k \in 1 .. n, k # 1 PROVE k - 1 \in 1 .. n - 1 /\ q[k] = t[k - 1]
  <2>1. k - 1 \in 1 .. n - 1 /\ k - 1 + 1 = k
    BY <1>2, <1>6
  <2>2. QED
    BY <1>4, <2>1
<1>7. QED
  BY <1>1, <1>2, <1>3, <1>4, <1>5, <1>6

LEMMA TailFacts ==
  ASSUME NEW q \in Seq(Req), q # <<>>, NEW t, t = Tail(q)
  PROVE  /\ t \in Seq(Req) /\ Head(q) \in Req
         /\ In(q) = {Head(q)} \cup In(t)
         /\ Sorted(q) => Sorted(t) /\ \A r \in In(t) : Rank(Head(q)) <= Rank(r)
         /\ \A w \in Word : \A x : LastTo(q, w, x) => LastTo(t, w, x)
         /\ \A w \in Word : \A x : LastTo(q, w, x) /\ StoreTo(Head(q), w) /\ NoneTo(t, w) => Head(q).val = x
         /\ OneLoad(q) => \/ t = <<>> /\ Head(q).op = "load"
                          \/ OneLoad(t) /\ Head(q).op # "load"
<1> DEFINE n == Len(q)
<1>1. /\ n \in Nat /\ 1 <= n /\ t \in Seq(Req) /\ Len(t) = n - 1
      /\ q[1] = Head(q) /\ Head(q) \in Req
      /\ \A k \in 1 .. n - 1 : t[k] = q[k + 1] /\ k + 1 \in 1 .. n
      /\ \A k \in 1 .. n : k = 1 \/ (k - 1 \in 1 .. n - 1 /\ q[k] = t[k - 1])
  BY Shift
<1>2. In(t) = {t[k] : k \in 1 .. n - 1} /\ In(q) = {q[k] : k \in 1 .. n}
  BY <1>1 DEF In
<1>3. n = 1 => t = <<>>
  BY <1>1, EmptySeq
<1>4. OneLoad(q) => \A k \in 1 .. n : q[k].op = "load" <=> k = n
  BY DEF OneLoad
<1>5. t # <<>> /\ (\A k \in 1 .. n - 1 : t[k].op = "load" <=> k = n - 1) => OneLoad(t)
  BY <1>1 DEF OneLoad
<1>6. Sorted(q) => \A i, k \in 1 .. n : i <= k => Rank(q[i]) <= Rank(q[k])
  BY DEF Sorted
<1>7. (\A i, k \in 1 .. n - 1 : i <= k => Rank(t[i]) <= Rank(t[k])) => Sorted(t)
  BY <1>1 DEF Sorted
<1>8. \A w, x : LastTo(q, w, x) <=>
        \A k \in 1 .. n :
          StoreTo(q[k], w) /\ (\A i \in 1 .. n : k < i => ~StoreTo(q[i], w)) => q[k].val = x
  BY DEF LastTo
<1>9. \A w, x : LastTo(t, w, x) <=>
        \A k \in 1 .. n - 1 :
          StoreTo(t[k], w) /\ (\A i \in 1 .. n - 1 : k < i => ~StoreTo(t[i], w)) => t[k].val = x
  BY <1>1 DEF LastTo
<1>10. t = <<>> => n = 1
  BY <1>1, EmptySeq
<1> HIDE DEF n
<1>11. In(q) = {Head(q)} \cup In(t)
  <2>1. \A r \in In(q) : r = Head(q) \/ r \in In(t)
    BY <1>1, <1>2
  <2>2. \A r \in In(t) : r \in In(q)
    BY <1>1, <1>2
  <2>3. 1 \in 1 .. n
    BY <1>1
  <2>4. Head(q) \in In(q)
    BY <1>1, <1>2, <2>3
  <2>5. QED
    BY <2>1, <2>2, <2>4
<1>12. ASSUME Sorted(q) PROVE Sorted(t) /\ \A r \in In(t) : Rank(Head(q)) <= Rank(r)
  <2>1. ASSUME NEW i \in 1 .. n - 1, NEW k \in 1 .. n - 1, i <= k PROVE Rank(t[i]) <= Rank(t[k])
    <3>1. i + 1 \in 1 .. n /\ k + 1 \in 1 .. n /\ i + 1 <= k + 1
      BY <1>1, <2>1
    <3>2. Rank(q[i + 1]) <= Rank(q[k + 1])
      BY <1>6, <1>12, <3>1
    <3>3. QED
      BY <1>1, <3>2
  <2>2. ASSUME NEW k \in 1 .. n - 1 PROVE Rank(q[1]) <= Rank(t[k])
    <3>1. 1 \in 1 .. n /\ k + 1 \in 1 .. n /\ 1 <= k + 1
      BY <1>1
    <3>2. Rank(q[1]) <= Rank(q[k + 1])
      BY <1>6, <1>12, <3>1
    <3>3. QED
      BY <1>1, <3>2
  <2>3. QED
    BY <1>1, <1>2, <1>7, <2>1, <2>2
<1>13. ASSUME NEW w, NEW x, LastTo(q, w, x) PROVE LastTo(t, w, x)
  <2>1. SUFFICES ASSUME NEW k \in 1 .. n - 1, StoreTo(t[k], w),
                        \A i \in 1 .. n - 1 : k < i => ~StoreTo(t[i], w)
                 PROVE  t[k].val = x
    BY <1>9
  <2>2. k + 1 \in 1 .. n /\ t[k] = q[k + 1]
    BY <1>1
  <2>3. ASSUME NEW i \in 1 .. n, k + 1 < i PROVE ~StoreTo(q[i], w)
    <3>1. i # 1 /\ k < i - 1
      BY <1>1, <2>3
    <3>2. i - 1 \in 1 .. n - 1 /\ q[i] = t[i - 1]
      BY <1>1, <3>1
    <3>3. QED
      BY <2>1, <3>1, <3>2
  <2>4. QED
    BY <1>8, <1>13, <2>1, <2>2, <2>3, ZenonT(30)
<1>14. ASSUME NEW w, NEW x, LastTo(q, w, x), StoreTo(Head(q), w), NoneTo(t, w) PROVE Head(q).val = x
  <2>1. ASSUME NEW i \in 1 .. n, 1 < i PROVE ~StoreTo(q[i], w)
    <3>1. i # 1
      BY <2>1
    <3>2. i - 1 \in 1 .. n - 1 /\ q[i] = t[i - 1]
      BY <1>1, <3>1
    <3>3. QED
      BY <1>2, <1>14, <3>2 DEF NoneTo
  <2>2. 1 \in 1 .. n
    BY <1>1
  <2>3. QED
    BY <1>1, <1>8, <1>14, <2>1, <2>2
<1>15. ASSUME OneLoad(q)
       PROVE  (t = <<>> /\ Head(q).op = "load") \/ (OneLoad(t) /\ Head(q).op # "load")
  <2>1. 1 \in 1 .. n
    BY <1>1
  <2>2. CASE n = 1
    BY <1>1, <1>3, <1>4, <1>15, <2>1, <2>2
  <2>3. CASE n # 1
    <3>1. Head(q).op # "load"
      BY <1>1, <1>4, <1>15, <2>1, <2>3
    <3>2. ASSUME NEW k \in 1 .. n - 1 PROVE t[k].op = "load" <=> k = n - 1
      <4>1. k + 1 \in 1 .. n /\ t[k] = q[k + 1]
        BY <1>1
      <4>2. q[k + 1].op = "load" <=> k + 1 = n
        BY <1>4, <1>15, <4>1
      <4>3. k + 1 = n <=> k = n - 1
        BY <1>1
      <4>4. QED
        BY <4>1, <4>2, <4>3
    <3>3. QED
      BY <1>5, <1>10, <2>3, <3>1, <3>2
  <2>4. QED
    BY <2>2, <2>3
<1>16. QED
  BY <1>1, <1>11, <1>12, <1>13, <1>14, <1>15

LEMMA Joined ==
  ASSUME NEW q \in Seq(Req), NEW p \in Seq(Req), NEW t, t = q \o p,
         NEW n, n = Len(q), NEW m, m = Len(p)
  PROVE  /\ n \in Nat /\ m \in Nat /\ t \in Seq(Req) /\ Len(t) = n + m
         /\ \A k \in 1 .. n : k \in 1 .. n + m /\ t[k] = q[k]
         /\ \A k \in 1 .. m : k + n \in 1 .. n + m /\ t[k + n] = p[k]
         /\ \A k \in 1 .. n + m : k \in 1 .. n \/ (n < k /\ k - n \in 1 .. m /\ t[k] = p[k - n])
<1>1. n \in Nat /\ m \in Nat
  OBVIOUS
<1>2. /\ t \in Seq(Req) /\ Len(t) = n + m
      /\ \A i \in 1 .. n + m : t[i] = IF i <= n THEN q[i] ELSE p[i - n]
  BY ConcatProperties
<1>3. \A i \in 1 .. n + m : (i <= n => t[i] = q[i]) /\ (~(i <= n) => t[i] = p[i - n])
  BY <1>2
<1>4. ASSUME NEW k \in 1 .. n PROVE k \in 1 .. n + m /\ t[k] = q[k]
  <2>1. k \in 1 .. n + m /\ k <= n
    BY <1>1
  <2>2. QED
    BY <1>3, <2>1
<1>5. ASSUME NEW k \in 1 .. m PROVE k + n \in 1 .. n + m /\ t[k + n] = p[k]
  <2>1. k + n \in 1 .. n + m /\ ~(k + n <= n) /\ k + n - n = k
    BY <1>1
  <2>2. QED
    BY <1>3, <2>1
<1>6. ASSUME NEW k \in 1 .. n + m, k \notin 1 .. n
      PROVE  n < k /\ k - n \in 1 .. m /\ t[k] = p[k - n]
  <2>1. ~(k <= n) /\ n < k /\ k - n \in 1 .. m
    BY <1>1, <1>6
  <2>2. QED
    BY <1>3, <2>1
<1>7. QED
  BY <1>1, <1>2, <1>4, <1>5, <1>6

LEMMA JoinFacts ==
  ASSUME NEW q \in Seq(Req), NEW p \in Seq(Req), NEW t, t = q \o p
  PROVE  /\ t \in Seq(Req)
         /\ In(t) = In(q) \cup In(p)
         /\ Sorted(q) /\ Sorted(p) /\ (\A r \in In(q), u \in In(p) : Rank(r) <= Rank(u)) => Sorted(t)
         /\ \A w, x : LastTo(q, w, x) /\ NoneTo(p, w) => LastTo(t, w, x)
         /\ \A w, x : LastTo(p, w, x) /\ ~NoneTo(p, w) => LastTo(t, w, x)
         /\ OneLoad(p) /\ (\A r \in In(q) : r.op # "load") => OneLoad(t)
<1> DEFINE n == Len(q)
           m == Len(p)
<1>1. /\ n \in Nat /\ m \in Nat /\ t \in Seq(Req) /\ Len(t) = n + m
      /\ \A k \in 1 .. n : k \in 1 .. n + m /\ t[k] = q[k]
      /\ \A k \in 1 .. m : k + n \in 1 .. n + m /\ t[k + n] = p[k]
      /\ \A k \in 1 .. n + m : k \in 1 .. n \/ (n < k /\ k - n \in 1 .. m /\ t[k] = p[k - n])
  BY Joined
<1>2. In(q) = {q[k] : k \in 1 .. n} /\ In(p) = {p[k] : k \in 1 .. m}
      /\ In(t) = {t[k] : k \in 1 .. n + m}
  BY <1>1 DEF In
<1>3. \A w, x : LastTo(q, w, x) <=>
        \A k \in 1 .. n :
          StoreTo(q[k], w) /\ (\A i \in 1 .. n : k < i => ~StoreTo(q[i], w)) => q[k].val = x
  BY DEF LastTo
<1>4. \A w, x : LastTo(p, w, x) <=>
        \A k \in 1 .. m :
          StoreTo(p[k], w) /\ (\A i \in 1 .. m : k < i => ~StoreTo(p[i], w)) => p[k].val = x
  BY DEF LastTo
<1>5. \A w, x : LastTo(t, w, x) <=>
        \A k \in 1 .. n + m :
          StoreTo(t[k], w) /\ (\A i \in 1 .. n + m : k < i => ~StoreTo(t[i], w)) => t[k].val = x
  BY <1>1 DEF LastTo
<1>6. Sorted(q) => \A i, k \in 1 .. n : i <= k => Rank(q[i]) <= Rank(q[k])
  BY DEF Sorted
<1>7. Sorted(p) => \A i, k \in 1 .. m : i <= k => Rank(p[i]) <= Rank(p[k])
  BY DEF Sorted
<1>8. (\A i, k \in 1 .. n + m : i <= k => Rank(t[i]) <= Rank(t[k])) => Sorted(t)
  BY <1>1 DEF Sorted
<1>9. OneLoad(p) => m # 0 /\ \A k \in 1 .. m : p[k].op = "load" <=> k = m
  BY EmptySeq DEF OneLoad
<1>10. n + m # 0 /\ (\A k \in 1 .. n + m : t[k].op = "load" <=> k = n + m) => OneLoad(t)
  BY <1>1, EmptySeq DEF OneLoad
<1> HIDE DEF n, m
<1>11. In(t) = In(q) \cup In(p)
  <2>1. \A r \in In(t) : r \in In(q) \/ r \in In(p)
    BY <1>1, <1>2
  <2>2. \A r \in In(q) : r \in In(t)
    BY <1>1, <1>2
  <2>3. \A r \in In(p) : r \in In(t)
    BY <1>1, <1>2
  <2>4. QED
    BY <2>1, <2>2, <2>3
<1>12. ASSUME Sorted(q), Sorted(p), \A r \in In(q), u \in In(p) : Rank(r) <= Rank(u)
       PROVE  Sorted(t)
  <2>1. SUFFICES ASSUME NEW i \in 1 .. n + m, NEW k \in 1 .. n + m, i <= k
                 PROVE  Rank(t[i]) <= Rank(t[k])
    BY <1>8
  <2>2. CASE i \in 1 .. n /\ k \in 1 .. n
    BY <1>1, <1>6, <1>12, <2>1, <2>2
  <2>3. CASE i \in 1 .. n /\ k \notin 1 .. n
    <3>1. k - n \in 1 .. m /\ t[k] = p[k - n] /\ t[i] = q[i]
      BY <1>1, <2>3
    <3>2. t[i] \in In(q) /\ t[k] \in In(p)
      BY <1>2, <2>3, <3>1
    <3>3. QED
      BY <1>12, <3>2
  <2>4. CASE i \notin 1 .. n
    <3>1. n < i /\ i - n \in 1 .. m /\ t[i] = p[i - n]
      BY <1>1, <2>4
    <3>2. k \notin 1 .. n
      BY <1>1, <2>1, <3>1
    <3>3. k - n \in 1 .. m /\ t[k] = p[k - n]
      BY <1>1, <3>2
    <3>4. i - n <= k - n
      BY <1>1, <2>1
    <3>5. QED
      BY <1>7, <1>12, <3>1, <3>3, <3>4
  <2>5. QED
    BY <2>2, <2>3, <2>4
<1>13. ASSUME NEW w, NEW x, LastTo(q, w, x), NoneTo(p, w) PROVE LastTo(t, w, x)
  <2>1. SUFFICES ASSUME NEW k \in 1 .. n + m, StoreTo(t[k], w),
                        \A i \in 1 .. n + m : k < i => ~StoreTo(t[i], w)
                 PROVE  t[k].val = x
    BY <1>5
  <2>2. k \in 1 .. n /\ t[k] = q[k]
    BY <1>1, <1>2, <1>13, <2>1 DEF NoneTo
  <2>3. \A i \in 1 .. n : k < i => ~StoreTo(q[i], w)
    BY <1>1, <2>1
  <2>4. QED
    BY <1>3, <1>13, <2>1, <2>2, <2>3
<1>14. ASSUME NEW w, NEW x, LastTo(p, w, x), ~NoneTo(p, w) PROVE LastTo(t, w, x)
  <2>1. SUFFICES ASSUME NEW k \in 1 .. n + m, StoreTo(t[k], w),
                        \A i \in 1 .. n + m : k < i => ~StoreTo(t[i], w)
                 PROVE  t[k].val = x
    BY <1>5
  <2>2. PICK j \in 1 .. m : StoreTo(p[j], w)
    BY <1>2, <1>14 DEF NoneTo
  <2>3. j + n \in 1 .. n + m /\ t[j + n] = p[j]
    BY <1>1
  <2>4. k \notin 1 .. n
    <3>1. SUFFICES ASSUME k \in 1 .. n PROVE FALSE
      OBVIOUS
    <3>2. k < j + n
      BY <1>1, <3>1
    <3>3. QED
      BY <2>1, <2>2, <2>3, <3>2
  <2>5. n < k /\ k - n \in 1 .. m /\ t[k] = p[k - n]
    BY <1>1, <2>4
  <2>6. ASSUME NEW i \in 1 .. m, k - n < i PROVE ~StoreTo(p[i], w)
    <3>1. k < i + n
      BY <1>1, <2>6
    <3>2. i + n \in 1 .. n + m /\ t[i + n] = p[i]
      BY <1>1
    <3>3. QED
      BY <2>1, <3>1, <3>2
  <2> DEFINE d == k - n
  <2>7. d \in 1 .. m /\ StoreTo(p[d], w) /\ \A i \in 1 .. m : d < i => ~StoreTo(p[i], w)
    BY <2>1, <2>5, <2>6
  <2> HIDE DEF d
  <2>8. p[d].val = x
    BY <1>4, <1>14, <2>7
  <2>9. QED
    BY <2>5, <2>8 DEF d
<1>15. ASSUME OneLoad(p), \A r \in In(q) : r.op # "load" PROVE OneLoad(t)
  <2>1. ASSUME NEW k \in 1 .. n + m PROVE t[k].op = "load" <=> k = n + m
    <3>1. CASE k \in 1 .. n
      <4>1. k # n + m
        BY <1>1, <1>9, <1>15, <3>1
      <4>2. t[k] \in In(q)
        BY <1>1, <1>2, <3>1
      <4>3. QED
        BY <1>15, <4>1, <4>2
    <3>2. CASE k \notin 1 .. n
      <4>1. k - n \in 1 .. m /\ t[k] = p[k - n]
        BY <1>1, <3>2
      <4>2. k - n = m <=> k = n + m
        BY <1>1
      <4>3. QED
        BY <1>9, <1>15, <4>1, <4>2
    <3>3. QED
      BY <3>1, <3>2
  <2>2. n + m # 0
    BY <1>1, <1>9, <1>15
  <2>3. QED
    BY <1>10, <2>1, <2>2
<1>16. QED
  BY <1>1, <1>11, <1>12, <1>13, <1>14, <1>15

\* One request.
LEMMA Single ==
  ASSUME NEW r \in Req
  PROVE  /\ <<r>> \in Seq(Req) /\ In(<<r>>) = {r} /\ Sorted(<<r>>)
         /\ \A w : LastTo(<<r>>, w, r.val)
         /\ r.op = "load" => OneLoad(<<r>>)
<1> DEFINE q == <<r>>
<1>1. q \in Seq(Req) /\ Len(q) = 1 /\ q[1] = r /\ q # <<>>
  OBVIOUS
<1> HIDE DEF q
<1>2. \A k \in 1 .. 1 : k = 1
  OBVIOUS
<1>3. Rank(r) <= Rank(r)
  BY Ranks
<1>4. In(q) = {r}
  BY <1>1, <1>2 DEF In
<1>5. Sorted(q)
  BY <1>1, <1>2, <1>3 DEF Sorted
<1>6. \A w : LastTo(q, w, r.val)
  BY <1>1, <1>2 DEF LastTo
<1>7. r.op = "load" => OneLoad(q)
  BY <1>1, <1>2 DEF OneLoad
<1>8. QED
  BY <1>1, <1>4, <1>5, <1>6, <1>7 DEF q

LEMMA NoRequest ==
  /\ <<>> \in Seq(Req) /\ In(<<>>) = {} /\ Sorted(<<>>)
  /\ \A w, x : LastTo(<<>>, w, x)
<1>1. Len(<<>>) = 0 /\ 1 .. 0 = {} /\ <<>> \in Seq(Req)
  OBVIOUS
<1>2. QED
  BY <1>1 DEF In, Sorted, LastTo

-----------------------------------------------------------------------------
(***************************************************************************)
(* A cache serves a request.                                               *)
(***************************************************************************)

\* AFL and TAGFL.
LEMMA FlushOp ==
  ASSUME NEW s \in BankState, OneCopy(s), NEW r \in Req, r.op \in {"AFL", "TAGFL"},
         NEW t, t = Operate(s, r)
  PROVE  /\ t \in BankState /\ OneCopy(t)
         /\ \A w \in Word : \A x : Has(s, w, x) => Has(t, w, x)
         /\ \A v \in Way : NotDirty(s, v) => NotDirty(t, v)
         /\ \A l \in Line : Clean(s, l) => Clean(t, l)
         /\ r.op = "TAGFL" => NotDirty(t, r.at)
         /\ r.op = "AFL" => Clean(t, LineOf(r.at))
<1> DEFINE vs == IF r.op \in {"AINV", "AFL"} THEN Hits(s, LineOf(r.at)) ELSE {r.at}
           v == CHOOSE v \in vs : TRUE
<1>1. r.at \in IF r.op = "TAGFL" THEN Way ELSE Word
  BY ReqFacts
<1>2. vs \subseteq Way
  BY <1>1 DEF Hits
<1>3. t = IF vs = {} THEN s ELSE WriteBack(s, v)
  BY DEF Operate
<1>4. r.op = "TAGFL" => vs = {r.at}
  OBVIOUS
<1>5. r.op = "AFL" => vs = Hits(s, LineOf(r.at)) /\ LineOf(r.at) \in Line
  BY <1>1, LineFacts
<1>6. vs # {} => v \in vs
  OBVIOUS
<1> HIDE DEF vs, v
<1>7. CASE vs = {}
  <2>1. t = s
    BY <1>3, <1>7
  <2>2. r.op = "AFL" => Clean(t, LineOf(r.at))
    BY <1>5, <1>7, <2>1 DEF Clean
  <2>3. r.op # "TAGFL"
    BY <1>4, <1>7
  <2>4. QED
    BY <2>1, <2>2, <2>3
<1>8. CASE vs # {}
  <2>1. v \in Way /\ t = WriteBack(s, v) /\ v \in vs
    BY <1>2, <1>3, <1>6, <1>8
  <2>2. /\ t \in BankState /\ OneCopy(t) /\ t.way[v].state # "dirty"
        /\ \A u \in Way : \A l \in Line : Holds(t, u, l) <=> Holds(s, u, l)
    BY <2>1, WriteBackFacts
  <2>3. /\ \A w \in Word : \A x : Has(s, w, x) => Has(t, w, x)
        /\ \A u \in Way : NotDirty(s, u) => NotDirty(t, u)
        /\ \A l \in Line : Clean(s, l) => Clean(t, l)
    BY <2>1, WriteBackKeeps
  <2>4. r.op = "TAGFL" => NotDirty(t, r.at)
    BY <1>4, <2>1, <2>2 DEF NotDirty
  <2>5. ASSUME r.op = "AFL" PROVE Clean(t, LineOf(r.at))
    <3> DEFINE l == LineOf(r.at)
    <3>1. SUFFICES ASSUME NEW u \in Way, Holds(t, u, l) PROVE t.way[u].state = "clean"
      BY DEF Clean, Hits
    <3>2. l \in Line /\ v \in Hits(s, l)
      BY <1>5, <2>1, <2>5
    <3>3. Holds(s, u, l) /\ Holds(s, v, l)
      BY <2>2, <3>1, <3>2 DEF Hits
    <3>4. u = v
      BY <2>1, <3>2, <3>3 DEF OneCopy
    <3>5. t.way[u] \in Entry
      BY <2>2 DEF BankState
    <3>6. t.way[u].state \in State
      BY <3>5, EntryFacts
    <3>7. QED
      BY <2>2, <3>1, <3>4, <3>6 DEF State, Holds
  <2>6. QED
    BY <2>2, <2>3, <2>4, <2>5
<1>9. QED
  BY <1>7, <1>8

Drops(s, r, l) == \/ r.op = "AINV" /\ LineOf(r.at) = l
                  \/ r.op = "TAG" /\ Holds(s, r.at, l)

\* AINV and a tag of zero: the lines they drop are no longer there, the others are as they were.
LEMMA DropOp ==
  ASSUME NEW s \in BankState, OneCopy(s), NEW r \in Req, r.op \in {"AINV", "TAG"},
         NEW t, t = Operate(s, r)
  PROVE  /\ t \in BankState /\ OneCopy(t) /\ t.dram = s.dram
         /\ \A u \in Way : NotDirty(s, u) => NotDirty(t, u)
         /\ \A l \in Line : Clean(s, l) => Clean(t, l)
         /\ \A u \in Way : \A l \in Line : Holds(t, u, l) => Holds(s, u, l) /\ t.way[u] = s.way[u]
         /\ \A l \in Line : Drops(s, r, l) => \A u \in Way : ~Holds(t, u, l)
         /\ \A l \in Line : ~Drops(s, r, l) => \A u \in Way : Holds(s, u, l) => Holds(t, u, l)
<1> DEFINE vs == IF r.op \in {"AINV", "AFL"} THEN Hits(s, LineOf(r.at)) ELSE {r.at}
           v == CHOOSE v \in vs : TRUE
<1>1. r.at \in IF r.op = "TAG" THEN Way ELSE Word
  BY ReqFacts
<1>2. vs \subseteq Way
  BY <1>1 DEF Hits
<1>3. t = IF vs = {} THEN s ELSE Drop(s, v)
  BY DEF Operate
<1>4. r.op = "TAG" => vs = {r.at}
  OBVIOUS
<1>5. r.op = "AINV" => vs = Hits(s, LineOf(r.at)) /\ LineOf(r.at) \in Line
  BY <1>1, LineFacts
<1>6. vs # {} => v \in vs
  OBVIOUS
<1> HIDE DEF vs, v
<1>7. CASE vs = {}
  <2>1. t = s /\ r.op = "AINV"
    BY <1>3, <1>4, <1>7
  <2>2. \A l \in Line : Drops(s, r, l) => \A u \in Way : ~Holds(t, u, l)
    BY <1>5, <1>7, <2>1 DEF Drops, Hits
  <2>3. QED
    BY <2>1, <2>2
<1>8. CASE vs # {}
  <2>1. v \in Way /\ t = Drop(s, v) /\ v \in vs
    BY <1>2, <1>3, <1>6, <1>8
  <2>2. /\ t \in BankState /\ OneCopy(t)
        /\ t.dram = s.dram /\ t.way[v].state = "invalid"
        /\ \A u \in Way : u # v => t.way[u] = s.way[u]
        /\ \A u \in Way : \A l \in Line : Holds(t, u, l) <=> Holds(s, u, l) /\ u # v
    BY <2>1, DropFacts
  <2>3. \A u \in Way : NotDirty(s, u) => NotDirty(t, u)
    BY <2>2 DEF NotDirty
  <2>4. \A l \in Line : Clean(s, l) => Clean(t, l)
    BY <2>2 DEF Clean, Hits
  <2>5. \A l \in Line : Drops(s, r, l) => Holds(s, v, l)
    BY <1>4, <1>5, <2>1 DEF Drops, Hits
  <2>6. \A l \in Line : Holds(s, v, l) => Drops(s, r, l)
    <3>1. CASE r.op = "TAG"
      BY <1>4, <2>1, <3>1 DEF Drops
    <3>2. CASE r.op = "AINV"
      BY <1>5, <2>1, <3>2 DEF Drops, Hits, Holds
    <3>3. QED
      BY <3>1, <3>2
  <2>7. \A l \in Line : Drops(s, r, l) => \A u \in Way : ~Holds(t, u, l)
    <3>1. SUFFICES ASSUME NEW l \in Line, Drops(s, r, l), NEW u \in Way, Holds(t, u, l) PROVE FALSE
      OBVIOUS
    <3>2. Holds(s, u, l) /\ u # v /\ Holds(s, v, l)
      BY <2>2, <2>5, <3>1
    <3>3. QED
      BY <2>1, <3>2 DEF OneCopy
  <2>8. \A l \in Line : ~Drops(s, r, l) => \A u \in Way : Holds(s, u, l) => Holds(t, u, l)
    BY <2>2, <2>6
  <2>9. QED
    BY <2>2, <2>3, <2>4, <2>7, <2>8
<1>9. QED
  BY <1>7, <1>8

LEMMA DroppingIs ==
  \A s, q, l : Dropping(s, q, l) <=> \E r \in In(q) : Drops(s, r, l)
BY DEF Dropping, Drops

\* Behind a request that drops nothing there is none that does.
LEMMA NoDrop ==
  ASSUME NEW q \in Seq(Req), q # <<>>, Sorted(q), Head(q).op \notin {"TAG", "AINV"}, NEW s, NEW l
  PROVE  ~Dropping(s, q, l) /\ ~Dropping(s, Tail(q), l)
<1>1. /\ Head(q) \in Req /\ Tail(q) \in Seq(Req)
      /\ In(q) = {Head(q)} \cup In(Tail(q))
      /\ \A r \in In(Tail(q)) : Rank(Head(q)) <= Rank(r)
  BY TailFacts
<1>2. 1 <= Rank(Head(q))
  BY DEF Rank
<1>3. \A r \in In(Tail(q)) : r \in Req
  BY <1>1, InReq
<1>4. ASSUME NEW r \in In(q), r.op \in {"TAG", "AINV"} PROVE FALSE
  <2>1. r \in In(Tail(q)) /\ Rank(r) = 0
    BY <1>1, <1>4 DEF Rank
  <2>2. Rank(Head(q)) <= 0
    BY <1>1, <2>1
  <2>3. Rank(Head(q)) \in 0 .. 3
    BY <1>1, Ranks
  <2>4. QED
    BY <1>2, <2>2, <2>3
<1>5. QED
  BY <1>1, <1>4 DEF Dropping

\* A request that keeps what the bank has keeps what its words will be.
LEMMA CellKept ==
  ASSUME NEW q \in Seq(Req), q # <<>>, Sorted(q), Head(q).op \notin {"TAG", "AINV", "store"},
         NEW w \in Word, NEW x, NEW s, NEW t, CellOK(s, q, w, x), Has(s, w, x) => Has(t, w, x)
  PROVE  CellOK(t, Tail(q), w, x)
<1>1. /\ In(q) = {Head(q)} \cup In(Tail(q))
      /\ LastTo(q, w, x) => LastTo(Tail(q), w, x)
  BY TailFacts
<1>2. ~Dropping(s, q, LineOf(w)) /\ ~Dropping(t, Tail(q), LineOf(w))
  BY NoDrop
<1>3. NoneTo(Tail(q), w) => NoneTo(q, w)
  BY <1>1 DEF NoneTo, StoreTo
<1>4. QED
  BY <1>1, <1>2, <1>3 DEF CellOK

LEMMA CellDropped ==
  ASSUME NEW q \in Seq(Req), q # <<>>, Head(q).op \in {"TAG", "AINV"},
         NEW w \in Word, NEW x, NEW s \in BankState, OneCopy(s), NEW t, t = Operate(s, Head(q)),
         CellOK(s, q, w, x)
  PROVE  CellOK(t, Tail(q), w, x)
<1> DEFINE r == Head(q)
           p == Tail(q)
           l == LineOf(w)
<1>1. /\ In(q) = {r} \cup In(p) /\ r \in Req
      /\ LastTo(q, w, x) => LastTo(p, w, x)
  BY TailFacts
<1>2. NoneTo(p, w) => NoneTo(q, w)
  BY <1>1 DEF NoneTo, StoreTo
<1>3. l \in Line
  BY LineFacts
<1> HIDE DEF r, p, l
<1>4. /\ t \in BankState /\ OneCopy(t) /\ t.dram = s.dram
      /\ \A u \in Way : \A k \in Line : Holds(t, u, k) => Holds(s, u, k) /\ t.way[u] = s.way[u]
      /\ \A k \in Line : Drops(s, r, k) => \A u \in Way : ~Holds(t, u, k)
      /\ \A k \in Line : ~Drops(s, r, k) => \A u \in Way : Holds(s, u, k) => Holds(t, u, k)
  BY <1>1, DropOp DEF r
<1>5. \A m \in In(p) : m \in Req
  <2>1. p \in Seq(Req)
    BY TailFacts DEF p
  <2>2. QED
    BY <2>1, InReq
<1>6. \A m \in In(p) : Drops(t, m, l) => Drops(s, m, l)
  BY <1>3, <1>4, <1>5, ReqFacts DEF Drops
<1>7. ~Drops(s, r, l) => \A m \in In(p) : Drops(s, m, l) => Drops(t, m, l)
  BY <1>3, <1>4, <1>5, ReqFacts DEF Drops
<1>8. SUFFICES ASSUME NoneTo(q, w)
               PROVE  IF Dropping(t, p, l) THEN t.dram[w] = x ELSE Has(t, w, x)
  BY <1>1, <1>2 DEF CellOK, p, l
<1>9. CASE Dropping(s, q, l)
  <2>1. t.dram[w] = x
    BY <1>4, <1>8, <1>9 DEF CellOK, l
  <2>2. CASE Drops(s, r, l)
    <3>1. Hits(t, l) = {}
      BY <1>3, <1>4, <2>2 DEF Hits
    <3>2. Has(t, w, x)
      BY <2>1, <3>1 DEF Has, l
    <3>3. QED
      BY <2>1, <3>2
  <2>3. CASE ~Drops(s, r, l)
    <3>1. Dropping(t, p, l)
      BY <1>1, <1>7, <1>9, <2>3, DroppingIs
    <3>2. QED
      BY <2>1, <3>1
  <2>4. QED
    BY <2>2, <2>3
<1>10. CASE ~Dropping(s, q, l)
  <2>1. Has(s, w, x)
    BY <1>8, <1>10 DEF CellOK, l
  <2>2. ~Dropping(t, p, l)
    BY <1>1, <1>6, <1>10, DroppingIs
  <2>3. ~Drops(s, r, l)
    BY <1>1, <1>10, DroppingIs
  <2>4. \A u \in Hits(s, l) : t.way[u] = s.way[u] /\ u \in Hits(t, l)
    BY <1>3, <1>4, <2>3 DEF Hits
  <2>5. \A u \in Hits(t, l) : u \in Hits(s, l)
    BY <1>3, <1>4 DEF Hits
  <2>6. Has(t, w, x)
    BY <1>4, <2>1, <2>4, <2>5 DEF Has, Clean, l
  <2>7. QED
    BY <2>2, <2>6
<1>11. QED
  BY <1>9, <1>10

LEMMA CellStored ==
  ASSUME NEW q \in Seq(Req), q # <<>>, Sorted(q), Head(q).op = "store",
         NEW w \in Word, NEW x, NEW s \in BankState, OneCopy(s),
         NEW f \in Fill(s, LineOf(Head(q).at)), NEW t, t = Stored(f, Head(q).at, Head(q).val),
         CellOK(s, q, w, x)
  PROVE  CellOK(t, Tail(q), w, x)
<1> DEFINE r == Head(q)
           p == Tail(q)
<1>1. /\ In(q) = {r} \cup In(p) /\ r \in Req
      /\ LastTo(q, w, x) => LastTo(p, w, x)
      /\ LastTo(q, w, x) /\ StoreTo(r, w) /\ NoneTo(p, w) => r.val = x
  BY TailFacts
<1>2. r.op = "store" /\ r.at \in Word /\ r.val \in Value /\ LineOf(r.at) \in Line
  BY <1>1, ReqFacts, LineFacts
<1>3. /\ f \in BankState /\ OneCopy(f) /\ \E v \in Way : Holds(f, v, LineOf(r.at))
      /\ \A z \in Word : \A y : Has(s, z, y) => Has(f, z, y)
  BY <1>2, FillKeeps
<1>4. /\ Has(t, r.at, r.val)
      /\ \A z \in Word \ {r.at} : \A y : Has(f, z, y) => Has(t, z, y)
  BY <1>2, <1>3, StoredKeeps
<1>5. ~Dropping(s, q, LineOf(w)) /\ ~Dropping(t, p, LineOf(w))
  BY NoDrop
<1> HIDE DEF r, p
<1>6. ASSUME NoneTo(p, w) PROVE Has(t, w, x)
  <2>1. CASE r.at = w
    BY <1>1, <1>2, <1>4, <1>6, <2>1 DEF CellOK, StoreTo
  <2>2. CASE r.at # w
    <3>1. NoneTo(q, w)
      BY <1>1, <1>6, <2>2 DEF NoneTo, StoreTo
    <3>2. Has(s, w, x)
      BY <1>5, <3>1 DEF CellOK
    <3>3. QED
      BY <1>3, <1>4, <2>2, <3>2
  <2>3. QED
    BY <2>1, <2>2
<1>7. QED
  BY <1>1, <1>5, <1>6 DEF CellOK, p

LEMMA ServeBank ==
  ASSUME TypeInv, QueueInv, NEW b \in Bank, Serve(b),
         NEW s, s = bank[b], NEW q, q = queue[b], NEW r, r = Head(queue[b]),
         NEW p, p = Tail(queue[b]), NEW t, t = bank'[b]
  PROVE  /\ bank' = [bank EXCEPT ![b] = t] /\ queue' = [queue EXCEPT ![b] = p]
         /\ q \in Seq(Req) /\ q # <<>> /\ r \in Req /\ s \in BankState
         /\ t \in BankState /\ OneCopy(t)
         /\ \A w \in Word : \A x : CellOK(s, q, w, x) => CellOK(t, p, w, x)
         /\ r.op # "store" => /\ \A v \in Way : NotDirty(s, v) => NotDirty(t, v)
                              /\ \A l \in Line : Clean(s, l) => Clean(t, l)
         /\ r.op = "TAGFL" => NotDirty(t, r.at)
         /\ r.op = "AFL" => Clean(t, LineOf(r.at))
         /\ r.op = "load" => /\ rsp' = Append(rsp, Loaded(t, r.at)) /\ r.at \in Word
                             /\ \E v \in Way : Holds(t, v, LineOf(r.at))
         /\ r.op # "load" => rsp' = rsp
<1>1. q # <<>> /\ q \in Seq(Req) /\ Sorted(q) /\ s \in BankState /\ OneCopy(s)
  BY DEF Serve, TypeInv, QueueInv
<1>2. r \in Req /\ r.at \in IF r.op \in {"TAG", "TAGFL"} THEN Way ELSE Word
  BY <1>1, TailFacts, ReqFacts
<1>3. queue' = [queue EXCEPT ![b] = p]
  BY DEF Serve
<1>4. bank \in [Bank -> BankState]
  BY DEF TypeInv
<1>5. CASE r.op = "store"
  <2>1. PICK f \in Fill(s, LineOf(r.at)) : bank' = [bank EXCEPT ![b] = Stored(f, r.at, r.val)]
    BY <1>5 DEF Serve
  <2>2. t = Stored(f, r.at, r.val) /\ bank' = [bank EXCEPT ![b] = t]
    BY <1>4, <2>1
  <2>3. r.at \in Word /\ r.val \in Value /\ LineOf(r.at) \in Line
    BY <1>2, <1>5, ReqFacts, LineFacts
  <2>4. /\ f \in BankState /\ OneCopy(f) /\ \E v \in Way : Holds(f, v, LineOf(r.at))
    BY <1>1, <2>3, FillKeeps
  <2>5. t \in BankState /\ OneCopy(t)
    BY <2>2, <2>3, <2>4, StoredKeeps
  <2>6. \A w \in Word : \A x : CellOK(s, q, w, x) => CellOK(t, p, w, x)
    BY <1>1, <1>5, <2>2, CellStored
  <2>7. rsp' = rsp
    BY <1>5 DEF Serve
  <2>8. QED
    BY <1>1, <1>2, <1>3, <1>5, <2>2, <2>5, <2>6, <2>7
<1>6. CASE r.op = "load"
  <2>1. PICK f \in Fill(s, LineOf(r.at)) :
          bank' = [bank EXCEPT ![b] = f] /\ rsp' = Append(rsp, Loaded(f, r.at))
    BY <1>6 DEF Serve
  <2>2. t = f /\ bank' = [bank EXCEPT ![b] = t]
    BY <1>4, <2>1
  <2>3. r.at \in Word /\ LineOf(r.at) \in Line
    BY <1>2, <1>6, LineFacts
  <2>4. /\ t \in BankState /\ OneCopy(t) /\ \E v \in Way : Holds(t, v, LineOf(r.at))
        /\ \A z \in Word : \A y : Has(s, z, y) => Has(t, z, y)
        /\ \A u \in Way : NotDirty(s, u) => NotDirty(t, u)
        /\ \A k \in Line : Clean(s, k) => Clean(t, k)
    BY <1>1, <2>1, <2>2, <2>3, FillKeeps
  <2>5. \A w \in Word : \A x : CellOK(s, q, w, x) => CellOK(t, p, w, x)
    <3>1. r.op \notin {"TAG", "AINV", "store"}
      BY <1>6
    <3>2. QED
      BY <1>1, <2>4, <3>1, CellKept
  <2>6. QED
    BY <1>1, <1>2, <1>3, <1>6, <2>1, <2>2, <2>3, <2>4, <2>5
<1>7. ASSUME r.op \notin {"store", "load"}
      PROVE  t = Operate(s, r) /\ bank' = [bank EXCEPT ![b] = t] /\ rsp' = rsp
  BY <1>4, <1>7 DEF Serve
<1>8. CASE r.op \in {"AFL", "TAGFL"}
  <2>1. t = Operate(s, r) /\ bank' = [bank EXCEPT ![b] = t] /\ rsp' = rsp
    BY <1>7, <1>8
  <2>2. /\ t \in BankState /\ OneCopy(t)
        /\ \A w \in Word : \A x : Has(s, w, x) => Has(t, w, x)
        /\ \A v \in Way : NotDirty(s, v) => NotDirty(t, v)
        /\ \A l \in Line : Clean(s, l) => Clean(t, l)
        /\ r.op = "TAGFL" => NotDirty(t, r.at)
        /\ r.op = "AFL" => Clean(t, LineOf(r.at))
    BY <1>1, <1>2, <1>8, <2>1, FlushOp
  <2>3. \A w \in Word : \A x : CellOK(s, q, w, x) => CellOK(t, p, w, x)
    <3>1. r.op \notin {"TAG", "AINV", "store"}
      BY <1>8
    <3>2. QED
      BY <1>1, <2>2, <3>1, CellKept
  <2>4. QED
    BY <1>1, <1>2, <1>3, <1>8, <2>1, <2>2, <2>3
<1>9. CASE r.op \in {"AINV", "TAG"}
  <2>1. t = Operate(s, r) /\ bank' = [bank EXCEPT ![b] = t] /\ rsp' = rsp
    BY <1>7, <1>9
  <2>2. /\ t \in BankState /\ OneCopy(t)
        /\ \A u \in Way : NotDirty(s, u) => NotDirty(t, u)
        /\ \A l \in Line : Clean(s, l) => Clean(t, l)
    BY <1>1, <1>2, <1>9, <2>1, DropOp
  <2>3. \A w \in Word : \A x : CellOK(s, q, w, x) => CellOK(t, p, w, x)
    BY <1>1, <1>9, <2>1, CellDropped
  <2>4. QED
    BY <1>1, <1>2, <1>3, <1>9, <2>1, <2>2, <2>3
<1>10. r.op \in {"TAG", "TAGFL", "store", "load", "AINV", "AFL"}
  BY <1>2, ReqFacts
<1>11. QED
  BY <1>5, <1>6, <1>8, <1>9, <1>10

-----------------------------------------------------------------------------
(***************************************************************************)
(* Each action keeps the invariant.                                        *)
(***************************************************************************)

LEMMA CallFacts ==
  ASSUME NEW c \in Calls
  PROVE  /\ c.kind \in Kinds /\ c.jobs \in Seq(Job)
         /\ \A k \in 1 .. Len(c.jobs) :
              LET j == c.jobs[k]
              IN  /\ j \in Job /\ j.bank \in Bank /\ j.first \in Word /\ j.words \in Nat \ {0}
                  /\ j.first \in j.first .. j.first + j.words - 1
                  /\ \A w \in j.first .. j.first + j.words - 1 : w \in Word
         /\ c.kind # "kernel" => 1 \in 1 .. Len(c.jobs)
         /\ c.kind \in {"write", "read"} => c.jobs[1].words = 1
<1>1. /\ c.kind \in Kinds /\ c.jobs \in Seq(Job) /\ (c.kind # "kernel" => c.jobs # <<>>)
      /\ \A k \in 1 .. Len(c.jobs) : c.jobs[k].first + c.jobs[k].words - 1 \in Word
      /\ c.kind \in {"write", "read"} => c.jobs[1].words = 1
  BY CacheAssumption
<1>2. NumLines * LineWords \in Nat
  BY CacheAssumption
<1>3. ASSUME NEW k \in 1 .. Len(c.jobs), NEW j, j = c.jobs[k]
      PROVE  /\ j \in Job /\ j.bank \in Bank /\ j.first \in Word /\ j.words \in Nat \ {0}
             /\ j.first \in j.first .. j.first + j.words - 1
             /\ \A w \in j.first .. j.first + j.words - 1 : w \in Word
  <2>1. j \in Job
    BY <1>1, <1>3
  <2>2. j.bank \in Bank /\ j.first \in Word /\ j.words \in Nat \ {0}
    BY <2>1 DEF Job
  <2> DEFINE N == NumLines * LineWords
             f == j.first
             m == j.words
  <2>3. f \in 0 .. N - 1 /\ m \in Nat \ {0} /\ f + m - 1 \in 0 .. N - 1
    BY <1>1, <1>3, <2>2 DEF Word
  <2>4. N \in Nat /\ Word = 0 .. N - 1
    BY <1>2 DEF Word
  <2> HIDE DEF N, f, m
  <2>5. f \in f .. f + m - 1 /\ \A w \in f .. f + m - 1 : w \in 0 .. N - 1
    BY <2>3, <2>4
  <2>6. QED
    BY <2>1, <2>2, <2>4, <2>5 DEF f, m
<1>4. c.kind # "kernel" => 1 \in 1 .. Len(c.jobs)
  <2>1. SUFFICES ASSUME c.jobs # <<>> PROVE 1 \in 1 .. Len(c.jobs)
    BY <1>1
  <2> DEFINE n == Len(c.jobs)
  <2>2. n \in Nat /\ n # 0
    BY <1>1, <2>1, EmptySeq
  <2> HIDE DEF n
  <2>3. 1 \in 1 .. n
    BY <2>2
  <2>4. QED
    BY <2>3 DEF n
<1>5. QED
  BY <1>1, <1>3, <1>4

\* The job of a call under way.
LEMMA TheJobFacts ==
  ASSUME HostInv, pc \in {"word", "dram", "ask", "answer"} \/ call.kind \in Reads
  PROVE  /\ TheJob.bank \in Bank /\ TheJob.first \in Word /\ TheJob.words \in Nat \ {0}
         /\ TheJob.first \in TheJob.first .. TheJob.first + TheJob.words - 1
         /\ \A w \in TheJob.first .. TheJob.first + TheJob.words - 1 : w \in Word
<1>1. call \in Calls /\ call.kind # "kernel"
  BY DEF HostInv, Reads, Flushing
<1>2. 1 \in 1 .. Len(call.jobs)
  BY <1>1, CallFacts
<1>3. QED
  BY <1>1, <1>2, CallFacts DEF TheJob

LEMMA AskedBankFacts == ASSUME TypeInv, HostInv, Asked PROVE AskedBank \in Bank
<1>1. CASE pc = "word"
  BY <1>1, TheJobFacts DEF AskedBank
<1>2. CASE pc = "answer"
  BY <1>2 DEF AskedBank, HostInv, TypeInv, Bank
<1>3. QED
  BY <1>1, <1>2 DEF Asked

LEMMA EmptyQueue ==
  ASSUME NEW s, NEW w, NEW x
  PROVE  /\ CellOK(s, <<>>, w, x) <=> Has(s, w, x)
         /\ NoStore(<<>>) /\ \A n : Upto(<<>>, n)
         /\ \A op, v : ~Pending(<<>>, op, v)
BY NoRequest DEF CellOK, NoneTo, Dropping, NoStore, Upto, Pending

LEMMA ServeKeeps == ASSUME Inv, NEW b \in Bank, Serve(b) PROVE Inv'
<1> DEFINE s == bank[b]
           q == queue[b]
           r == Head(queue[b])
           p == Tail(queue[b])
           t == bank'[b]
<1> USE DEF Inv
<1>1. /\ bank' = [bank EXCEPT ![b] = t] /\ queue' = [queue EXCEPT ![b] = p]
      /\ q \in Seq(Req) /\ q # <<>> /\ r \in Req /\ s \in BankState
      /\ t \in BankState /\ OneCopy(t)
      /\ \A w \in Word : \A x : CellOK(s, q, w, x) => CellOK(t, p, w, x)
      /\ r.op # "store" => /\ \A v \in Way : NotDirty(s, v) => NotDirty(t, v)
                           /\ \A l \in Line : Clean(s, l) => Clean(t, l)
      /\ r.op = "TAGFL" => NotDirty(t, r.at)
      /\ r.op = "AFL" => Clean(t, LineOf(r.at))
      /\ r.op = "load" => /\ rsp' = Append(rsp, Loaded(t, r.at)) /\ r.at \in Word
                          /\ \E v \in Way : Holds(t, v, LineOf(r.at))
      /\ r.op # "load" => rsp' = rsp
  BY ServeBank
<1>2. UNCHANGED <<pc, call, calls, next, buffer, seen, steps, latest, doubt>>
  BY DEF Serve, host, tile, history
<1>3. /\ p \in Seq(Req) /\ In(q) = {r} \cup In(p)
      /\ Sorted(p) /\ \A m \in In(p) : Rank(r) <= Rank(m)
      /\ OneLoad(q) => (p = <<>> /\ r.op = "load") \/ (OneLoad(p) /\ r.op # "load")
  BY <1>1, TailFacts DEF QueueInv
<1>4. /\ bank \in [Bank -> BankState] /\ queue \in [Bank -> Seq(Req)]
  BY DEF TypeInv
<1>5. bank'[b] = t /\ queue'[b] = p
      /\ \A c \in Bank : c # b => bank'[c] = bank[c] /\ queue'[c] = queue[c]
  BY <1>1, <1>4
<1>6. Asked' = Asked /\ AskedBank' = AskedBank /\ Flushing' = Flushing /\ TheJob' = TheJob
  BY <1>2 DEF Asked, AskedBank, Flushing, TheJob
<1>7. Asked => AskedBank \in Bank
  BY AskedBankFacts
<1>8. r.op = "load" => Asked /\ b = AskedBank /\ rsp = <<>> /\ p = <<>>
  <2>1. SUFFICES ASSUME r.op = "load" PROVE Asked /\ b = AskedBank /\ rsp = <<>> /\ p = <<>>
    OBVIOUS
  <2>2. Rank(r) = 3 /\ r \in In(q)
    BY <1>3, <2>1 DEF Rank
  <2>3. ~Upto(q, 2) /\ ~Upto(q, 1)
    BY <2>2 DEF Upto
  <2>4. Asked /\ b = AskedBank
    BY <2>3 DEF QueueInv
  <2>5. rsp = <<>> /\ OneLoad(q)
    BY <1>1, <2>4 DEF QueueInv
  <2>6. QED
    BY <1>3, <2>1, <2>4, <2>5
<1>9. r.op = "load" => Loaded(t, r.at) \in Value /\ rsp' = <<Loaded(t, r.at)>>
  <2>1. SUFFICES ASSUME r.op = "load"
                 PROVE  Loaded(t, r.at) \in Value /\ rsp' = <<Loaded(t, r.at)>>
    OBVIOUS
  <2>2. Loaded(t, r.at) \in Value
    BY <1>1, <2>1, LoadedType
  <2>3. rsp = <<>> /\ rsp' = Append(rsp, Loaded(t, r.at))
    BY <1>1, <1>8, <2>1
  <2>4. \A x : Append(<<>>, x) = <<x>>
    OBVIOUS
  <2>5. QED
    BY <2>2, <2>3, <2>4
<1>10. TypeInv'
  <2>1. bank' \in [Bank -> BankState] /\ \A c \in Bank : OneCopy(bank'[c])
    BY <1>1, <1>4, <1>5 DEF TypeInv
  <2>2. queue' \in [Bank -> Seq(Req)]
    BY <1>1, <1>3, <1>4
  <2>3. rsp' = <<>> \/ \E x \in Value : rsp' = <<x>>
    BY <1>1, <1>9 DEF TypeInv
  <2>4. QED
    BY <1>2, <2>1, <2>2, <2>3 DEF TypeInv
<1>11. HostInv'
  BY <1>2 DEF HostInv, Flushing
<1>12. QueueInv'
  <2>1. ASSUME NEW c \in Bank
        PROVE  /\ Sorted(queue'[c])
               /\ ~(Asked /\ c = AskedBank) => Upto(queue'[c], IF Flushing THEN 2 ELSE 1)
               /\ (Flushing /\ c < next) \/ (pc = "dram" /\ c = TheJob.bank) \/ pc = "run" =>
                    queue'[c] = <<>>
    <3>1. CASE c # b
      BY <1>5, <3>1 DEF QueueInv
    <3>2. CASE c = b
      <4>1. \A n : Upto(q, n) => Upto(p, n)
        BY <1>3 DEF Upto
      <4>2. QED
        BY <1>1, <1>3, <1>5, <3>2, <4>1 DEF QueueInv
    <3>3. QED
      BY <3>1, <3>2
  <2>2. ~Asked => rsp' = <<>>
    BY <1>1, <1>8 DEF QueueInv
  <2>3. ASSUME Asked
        PROVE  \/ rsp' = <<>> /\ OneLoad(queue'[AskedBank])
               \/ rsp' # <<>> /\ queue'[AskedBank] = <<>>
    <3>1. CASE r.op = "load"
      <4>1. rsp' # <<>>
        BY <1>9, <3>1, SMTT(20)
      <4>2. QED
        BY <1>5, <1>8, <3>1, <4>1
    <3>2. CASE r.op # "load" /\ b = AskedBank
      <4>1. rsp = <<>> /\ OneLoad(q)
        BY <1>1, <2>3, <3>2 DEF QueueInv
      <4>2. QED
        BY <1>1, <1>3, <1>5, <3>2, <4>1
    <3>3. CASE b # AskedBank
      BY <1>1, <1>5, <1>7, <1>8, <2>3, <3>3 DEF QueueInv
    <3>4. QED
      BY <3>1, <3>2, <3>3
  <2>4. QED
    BY <1>2, <1>6, <2>1, <2>2, <2>3 DEF QueueInv
<1>13. CellsInv'
  <2>1. ASSUME NEW c \in Bank, NEW w \in Word, <<c, w>> \notin doubt
        PROVE  CellOK(bank'[c], queue'[c], w, latest[c][w])
    <3>1. CellOK(bank[c], queue[c], w, latest[c][w])
      BY <2>1 DEF CellsInv
    <3>2. QED
      BY <1>1, <1>5, <3>1
  <2>2. QED
    BY <1>2, <2>1 DEF CellsInv
<1>14. FlushInv'
  <2>1. \A op, v : Pending(q, op, v) => (r.op = op /\ r.at = v) \/ Pending(p, op, v)
    BY <1>3 DEF Pending
  <2>2. NoStore(q) => NoStore(p) /\ r.op # "store"
    BY <1>3 DEF NoStore
  <2>3. r.op \in {"AFL", "TAGFL"} => NoStore(p)
    <3>1. SUFFICES ASSUME r.op \in {"AFL", "TAGFL"}, NEW m \in In(p), m.op = "store" PROVE FALSE
      BY DEF NoStore
    <3>2. Rank(r) = 2 /\ Rank(m) = 1
      BY <3>1 DEF Rank
    <3>3. QED
      BY <1>3, <3>2
  <2>4. ASSUME Flushing, NEW c \in Bank, NEW v \in Way
        PROVE  Pending(queue'[c], "TAGFL", v) \/ (NoStore(queue'[c]) /\ NotDirty(bank'[c], v))
    <3>1. Pending(queue[c], "TAGFL", v) \/ (NoStore(queue[c]) /\ NotDirty(bank[c], v))
      BY <2>4 DEF FlushInv
    <3>2. QED
      BY <1>1, <1>5, <2>1, <2>2, <2>3, <3>1
  <2>5. ASSUME pc \in {"word", "dram"}, call.kind = "dma_read", NEW j, j = TheJob
        PROVE  \/ Pending(queue'[j.bank], "AFL", j.first)
               \/ NoStore(queue'[j.bank]) /\ Clean(bank'[j.bank], LineOf(j.first))
    <3>1. \/ Pending(queue[j.bank], "AFL", j.first)
          \/ NoStore(queue[j.bank]) /\ Clean(bank[j.bank], LineOf(j.first))
      BY <2>5 DEF FlushInv
    <3>2. j.bank \in Bank /\ j.first \in Word /\ LineOf(j.first) \in Line
      BY <2>5, TheJobFacts, LineFacts
    <3>3. QED
      BY <1>1, <1>5, <2>1, <2>2, <2>3, <3>1, <3>2
  <2>6. QED
    BY <1>2, <1>6, <2>4, <2>5 DEF FlushInv
<1>15. ReadInv'
  <2>1. SUFFICES ASSUME pc = "word", call.kind = "read", NEW j, j = TheJob
                 PROVE  /\ \A m \in In(queue'[j.bank]) : m.op = "load" => m.at = j.first
                        /\ rsp' # <<>> /\ <<j.bank, j.first>> \notin doubt =>
                             rsp'[1] = latest[j.bank][j.first]
    BY <1>2, <1>6 DEF ReadInv
  <2>2. j.bank \in Bank /\ j.first \in Word /\ Asked /\ AskedBank = j.bank
    BY <2>1, TheJobFacts DEF Asked, AskedBank
  <2>3. /\ \A m \in In(queue[j.bank]) : m.op = "load" => m.at = j.first
        /\ rsp # <<>> /\ <<j.bank, j.first>> \notin doubt => rsp[1] = latest[j.bank][j.first]
    BY <2>1 DEF ReadInv
  <2>4. \A m \in In(queue'[j.bank]) : m.op = "load" => m.at = j.first
    BY <1>3, <1>5, <2>2, <2>3
  <2>5. ASSUME r.op = "load", <<j.bank, j.first>> \notin doubt
        PROVE  rsp'[1] = latest[j.bank][j.first]
    <3>1. b = j.bank /\ p = <<>> /\ r.at = j.first
      BY <1>3, <1>8, <2>2, <2>3, <2>5
    <3>2. CellOK(s, q, j.first, latest[j.bank][j.first])
      BY <2>2, <2>5, <3>1 DEF CellsInv
    <3>3. CellOK(t, <<>>, j.first, latest[j.bank][j.first])
      BY <1>1, <2>2, <3>1, <3>2
    <3>4. Has(t, j.first, latest[j.bank][j.first])
      BY <3>3, EmptyQueue
    <3>5. Loaded(t, r.at) = latest[j.bank][j.first]
      BY <1>1, <2>2, <2>5, <3>1, <3>4, LoadedHas
    <3>6. QED
      BY <1>9, <2>5, <3>5
  <2>6. QED
    BY <1>1, <2>3, <2>4, <2>5
<1>16. ReadsLatest'
  BY <1>2, <1>6 DEF ReadsLatest
<1>17. QED
  BY <1>10, <1>11, <1>12, <1>13, <1>14, <1>15, <1>16

-----------------------------------------------------------------------------
(***************************************************************************)
(* What the host posts.                                                    *)
(***************************************************************************)

LEMMA MsgFacts ==
  /\ 0 \in Value
  /\ \A op \in {"store", "load", "AINV", "AFL"} : \A w \in Word : \A x \in Value :
       Msg(op, w, x) \in Req /\ Msg(op, w, x) = [op |-> op, at |-> w, val |-> x]
  /\ \A op \in {"TAG", "TAGFL"} : \A v \in Way :
       Msg(op, v, 0) \in Req /\ Msg(op, v, 0) = [op |-> op, at |-> v, val |-> 0]
<1>1. 0 \in Value
  BY CacheAssumption DEF Value
<1>2. QED
  BY <1>1 DEF Msg, Req

\* Requests of one rank that are not stores.
LEMMA Uniform ==
  ASSUME NEW p \in Seq(Req), NEW n, n # 1, \A r \in In(p) : Rank(r) = n
  PROVE  Sorted(p) /\ NoStore(p) /\ \A w, x : NoneTo(p, w) /\ LastTo(p, w, x)
<1>1. \A k \in 1 .. Len(p) : p[k] \in In(p) /\ p[k] \in Req
  BY InReq
<1>2. Sorted(p)
  BY <1>1, Ranks DEF Sorted
<1>3. \A r \in In(p) : r.op # "store"
  BY DEF Rank
<1>4. QED
  BY <1>1, <1>2, <1>3 DEF NoStore, NoneTo, LastTo, StoreTo

LEMMA LinesOfFacts ==
  ASSUME NEW j, j.first \in Word, j.words \in Nat \ {0}
  PROVE  LinesOf(j) \in Nat /\ 1 <= LinesOf(j)
<1> DEFINE n == LineWords
           sz == j.words + (j.first % n)
           a == sz + n - 1
           l == a \div n
<1>1. n \in Nat \ {0} /\ NumLines * n \in Nat
  BY CacheAssumption
<1>2. j.first \in Nat
  BY <1>1 DEF Word
<1>3. j.first % n \in 0 .. n - 1
  BY <1>1, <1>2
<1>4. a \in Nat /\ n <= a
  BY <1>1, <1>3
<1>5. LinesOf(j) = l
  BY DEF LinesOf
<1> HIDE DEF a, n
<1>6. l \in Nat /\ a <= l * n + n - 1
  BY <1>1, <1>4, Division
<1> HIDE DEF l
<1>7. l # 0
  <2>1. SUFFICES ASSUME l = 0 PROVE FALSE
    OBVIOUS
  <2>2. l * n = 0
    BY <1>1, <2>1
  <2>3. QED
    BY <1>1, <1>4, <1>6, <2>2
<1>8. QED
  BY <1>5, <1>6, <1>7

LEMMA RangeOpsFacts ==
  ASSUME NEW j, j.first \in Word, j.words \in Nat \ {0}, NEW op \in {"AINV", "AFL"}
  PROVE  RangeOps(j, op) \in Seq(Req) /\ In(RangeOps(j, op)) = {Msg(op, j.first, 0)}
<1> DEFINE n == LinesOf(j)
           m == Msg(op, j.first, 0)
<1>1. n \in Nat /\ 1 \in 1 .. n
  BY LinesOfFacts
<1>2. m \in Req
  BY MsgFacts
<1>3. RangeOps(j, op) = [k \in 1 .. n |-> m]
  BY DEF RangeOps
<1> HIDE DEF n, m
<1>4. RangeOps(j, op) \in Seq(Req) /\ Len(RangeOps(j, op)) = n
  BY <1>1, <1>2, <1>3
<1>5. In(RangeOps(j, op)) = {m}
  BY <1>1, <1>3, <1>4 DEF In
<1>6. QED
  BY <1>4, <1>5 DEF m

LEMMA WayOpsFacts ==
  ASSUME NEW op \in {"TAG", "TAGFL"}, NEW p, p = [v \in Way |-> Msg(op, v, 0)]
  PROVE  p \in Seq(Req) /\ In(p) = {Msg(op, v, 0) : v \in Way}
<1>1. NumWays \in Nat
  BY CacheAssumption
<1>2. \A v \in Way : p[v] \in Req /\ p[v] = Msg(op, v, 0)
  BY MsgFacts
<1>3. p \in Seq(Req) /\ Len(p) = NumWays
  BY <1>1, <1>2 DEF Way
<1>4. In(p) = {p[v] : v \in Way}
  BY <1>3 DEF In, Way
<1>5. QED
  BY <1>2, <1>3, <1>4

\* Requests that neither store to a word nor drop its line leave what it will be.
LEMMA CellAppend ==
  ASSUME NEW q \in Seq(Req), NEW p \in Seq(Req), NEW s, NEW w, NEW x, CellOK(s, q, w, x),
         NoneTo(p, w), ~Dropping(s, p, LineOf(w))
  PROVE  CellOK(s, q \o p, w, x)
<1>1. /\ In(q \o p) = In(q) \cup In(p)
      /\ LastTo(q, w, x) => LastTo(q \o p, w, x)
  BY JoinFacts
<1>2. NoneTo(q \o p, w) => NoneTo(q, w)
  BY <1>1 DEF NoneTo
<1>3. Dropping(s, q \o p, LineOf(w)) <=> Dropping(s, q, LineOf(w))
  BY <1>1 DEF Dropping
<1>4. QED
  BY <1>1, <1>2, <1>3 DEF CellOK

\* DRAM alone changes.
LEMMA SameWays ==
  ASSUME NEW s \in BankState, NEW d \in [Word -> Value], NEW t, t = [s EXCEPT !.dram = d]
  PROVE  /\ t \in BankState /\ t.dram = d /\ t.way = s.way
         /\ \A v, l : Holds(t, v, l) <=> Holds(s, v, l)
         /\ \A l : Hits(t, l) = Hits(s, l) /\ (Clean(t, l) <=> Clean(s, l))
         /\ \A v : NotDirty(t, v) <=> NotDirty(s, v)
         /\ OneCopy(s) => OneCopy(t)
         /\ \A w, x : d[w] = s.dram[w] /\ Has(s, w, x) => Has(t, w, x)
         /\ \A q, l : Dropping(t, q, l) <=> Dropping(s, q, l)
<1>1. s = [way |-> s.way, dram |-> s.dram] /\ s.way \in [Way -> Entry]
  BY DEF BankState
<1>2. t = [way |-> s.way, dram |-> d]
  BY <1>1
<1>3. t \in BankState /\ t.dram = d /\ t.way = s.way
  BY <1>1, <1>2 DEF BankState
<1>4. \A v, l : Holds(t, v, l) <=> Holds(s, v, l)
  BY <1>3 DEF Holds
<1>5. \A l : Hits(t, l) = Hits(s, l)
  BY <1>4 DEF Hits
<1>6. \A l : Clean(t, l) <=> Clean(s, l)
  BY <1>3, <1>5 DEF Clean
<1>7. \A v : NotDirty(t, v) <=> NotDirty(s, v)
  BY <1>3 DEF NotDirty
<1>8. OneCopy(s) => OneCopy(t)
  BY <1>4 DEF OneCopy
<1>9. \A w, x : d[w] = s.dram[w] /\ Has(s, w, x) => Has(t, w, x)
  BY <1>3, <1>5, <1>6 DEF Has
<1>10. \A q, l : Dropping(t, q, l) <=> Dropping(s, q, l)
  BY <1>4 DEF Dropping
<1>11. QED
  BY <1>3, <1>4, <1>5, <1>6, <1>7, <1>8, <1>9, <1>10

LEMMA OverlayFacts ==
  ASSUME NEW old \in [Word -> Value], NEW b, NEW js, NEW x \in Value
  PROVE  /\ Overlay(old, b, js, x) \in [Word -> Value]
         /\ \A w \in Word : (\E j \in js : InJob(j, b, w)) => Overlay(old, b, js, x)[w] = x
         /\ \A w \in Word : ~(\E j \in js : InJob(j, b, w)) => Overlay(old, b, js, x)[w] = old[w]
BY DEF Overlay

LEMMA CellsFacts ==
  \A js : \A b \in Bank : \A w \in Word : <<b, w>> \in Cells(js) <=> \E j \in js : InJob(j, b, w)
BY DEF Cells

-----------------------------------------------------------------------------
(***************************************************************************)
(* The calls begin.                                                        *)
(***************************************************************************)

LEMMA Begun ==
  ASSUME Inv, NEW c \in Calls, Begin(c)
  PROVE  /\ pc = "idle" /\ call' = c /\ calls' = calls + 1 /\ buffer' = <<>>
         /\ calls + 1 \in 0 .. MaxCalls /\ calls + 1 \in Value
         /\ buffer' \in Seq(Value) /\ rsp = <<>>
         /\ \A b \in Bank : Sorted(queue[b]) /\ Upto(queue[b], 1)
<1>1. calls \in Nat /\ calls < MaxCalls /\ MaxCalls \in Nat
  BY CacheAssumption DEF Begin, Inv, TypeInv
<1>2. calls + 1 \in 0 .. MaxCalls /\ calls + 1 \in Value
  BY <1>1 DEF Value
<1>3. pc = "idle" /\ call' = c /\ calls' = calls + 1 /\ buffer' = <<>>
  BY DEF Begin
<1>4. ~Asked /\ ~Flushing
  BY <1>3 DEF Asked, Flushing
<1>5. rsp = <<>> /\ \A b \in Bank : Sorted(queue[b]) /\ Upto(queue[b], 1)
  BY <1>4 DEF Inv, QueueInv
<1>6. QED
  BY <1>2, <1>3, <1>5

\* What is there already has a rank no larger than what is appended.
LEMMA Order ==
  ASSUME NEW q \in Seq(Req), NEW p \in Seq(Req), NEW n \in 0 .. 3, Upto(q, n),
         \A r \in In(p) : n <= Rank(r)
  PROVE  \A r \in In(q), u \in In(p) : Rank(r) <= Rank(u)
<1>1. SUFFICES ASSUME NEW r \in In(q), NEW u \in In(p) PROVE Rank(r) <= Rank(u)
  OBVIOUS
<1>2. Rank(r) \in 0 .. 3 /\ Rank(u) \in 0 .. 3
  BY InReq, Ranks
<1>3. Rank(r) <= n /\ n <= Rank(u)
  BY DEF Upto
<1>4. QED
  BY <1>2, <1>3

LEMMA WriteKeeps == ASSUME Inv, NEW c \in Calls, Write(c) PROVE Inv'
<1> DEFINE j == c.jobs[1]
           b == j.bank
           z == j.first
           x == calls + 1
           m == Msg("store", z, x)
           q == queue[b]
           p == <<m>>
           js == {j}
           t == q \o p
<1> USE DEF Inv
<1>1. Begin(c) /\ c.kind = "write" /\ UNCHANGED <<bank, rsp, pc, next, seen, steps>>
  BY DEF Write, tile
<1>2. /\ pc = "idle" /\ call' = c /\ calls' = x /\ buffer' = <<>>
      /\ x \in 0 .. MaxCalls /\ x \in Value /\ buffer' \in Seq(Value) /\ rsp = <<>>
      /\ \A a \in Bank : Sorted(queue[a]) /\ Upto(queue[a], 1)
  BY <1>1, Begun
<1>3. b \in Bank /\ z \in Word /\ j.words = 1
  BY <1>1, CallFacts
<1>4. /\ m \in Req /\ m.op = "store" /\ m.at = z /\ m.val = x
  BY <1>2, <1>3, MsgFacts
<1>5. queue' = [queue EXCEPT ![b] = t]
  BY DEF Write, Post
<1>6. /\ latest' = [a \in Bank |-> Overlay(latest[a], a, js, x)]
      /\ doubt' = doubt \ Cells(js)
  BY DEF Write, Written
<1>7. /\ bank \in [Bank -> BankState] /\ queue \in [Bank -> Seq(Req)]
      /\ latest \in [Bank -> [Word -> Value]] /\ doubt \subseteq Bank \X Word
  BY DEF TypeInv
<1>8. \A a \in Bank : \A w \in Word : (\E i \in js : InJob(i, a, w)) <=> a = b /\ w = z
  <2>1. z \in Nat
    BY <1>3, CacheAssumption DEF Word
  <2>2. \A w : w \in z .. z + 1 - 1 <=> w = z
    BY <2>1
  <2>3. QED
    BY <1>3, <2>2 DEF InJob
<1>9. p \in Seq(Req) /\ In(p) = {m} /\ Sorted(p) /\ \A w : LastTo(p, w, x)
  BY <1>4, Single
<1> HIDE DEF m, b, z, x, p, js
<1>10. /\ t \in Seq(Req) /\ In(t) = In(q) \cup {m}
       /\ \A w, y : LastTo(p, w, y) /\ ~NoneTo(p, w) => LastTo(t, w, y)
  <2>1. q \in Seq(Req) /\ t = q \o p
    BY <1>3, <1>7
  <2> HIDE DEF t, q
  <2>2. t \in Seq(Req) /\ In(t) = In(q) \cup In(p)
    BY <1>9, <2>1, JoinFacts
  <2>3. ASSUME NEW w, NEW y, LastTo(p, w, y), ~NoneTo(p, w) PROVE LastTo(t, w, y)
    BY <1>9, <2>1, <2>3, JoinFacts
  <2>4. QED
    BY <1>9, <2>2, <2>3
<1>11. Sorted(t) /\ Upto(t, 1)
  <2>1. Rank(m) = 1
    BY <1>4 DEF Rank
  <2>2. \A r \in In(q), u \in In(p) : Rank(r) <= Rank(u)
    BY <1>2, <1>3, <1>7, <1>9, <2>1, Order
  <2>3. Sorted(t)
    BY <1>2, <1>3, <1>7, <1>9, <2>2, JoinFacts
  <2>4. Upto(t, 1)
    BY <1>2, <1>3, <1>10, <2>1 DEF Upto
  <2>5. QED
    BY <2>3, <2>4
<1>12. queue'[b] = t /\ \A a \in Bank : a # b => queue'[a] = queue[a]
  BY <1>3, <1>5, <1>7
<1> HIDE DEF t
<1>13. TypeInv'
  <2>1. queue' \in [Bank -> Seq(Req)]
    BY <1>5, <1>7, <1>10
  <2>2. latest' \in [Bank -> [Word -> Value]]
    BY <1>2, <1>6, <1>7, OverlayFacts
  <2>3. doubt' \subseteq Bank \X Word
    BY <1>6, <1>7
  <2>4. QED
    BY <1>1, <1>2, <2>1, <2>2, <2>3 DEF TypeInv
<1>14. HostInv'
  BY <1>1, <1>2 DEF HostInv, Reads, Flushing
<1>15. QueueInv'
  <2>1. ~Asked' /\ ~Flushing'
    BY <1>1, <1>2 DEF Asked, Flushing
  <2>2. \A a \in Bank : Sorted(queue'[a]) /\ Upto(queue'[a], 1)
    BY <1>2, <1>11, <1>12
  <2>3. QED
    BY <1>1, <1>2, <2>1, <2>2 DEF QueueInv
<1>16. CellsInv'
  <2>1. SUFFICES ASSUME NEW a \in Bank, NEW w \in Word, <<a, w>> \notin doubt'
                 PROVE  CellOK(bank[a], queue'[a], w, latest'[a][w])
    BY <1>1 DEF CellsInv
  <2>2. CASE a = b /\ w = z
    <3>1. latest'[a][w] = x
      <4>1. \E i \in js : InJob(i, a, w)
        BY <1>8, <2>2
      <4>2. Overlay(latest[a], a, js, x)[w] = x
        BY <1>2, <1>7, <4>1, OverlayFacts
      <4>3. QED
        BY <1>6, <4>2
    <3>2. m \in In(t) /\ StoreTo(m, w)
      BY <1>4, <1>10, <2>2 DEF StoreTo
    <3>3. ~NoneTo(p, w) /\ ~NoneTo(t, w)
      BY <1>9, <3>2 DEF NoneTo
    <3>4. LastTo(t, w, x)
      BY <1>9, <1>10, <3>3
    <3>5. QED
      BY <1>12, <2>2, <3>1, <3>3, <3>4 DEF CellOK
  <2>3. CASE ~(a = b /\ w = z)
    <3>1. latest'[a][w] = latest[a][w] /\ <<a, w>> \notin Cells(js)
      <4>1. ~\E i \in js : InJob(i, a, w)
        BY <1>8, <2>3
      <4>2. Overlay(latest[a], a, js, x)[w] = latest[a][w]
        BY <1>2, <1>7, <4>1, OverlayFacts
      <4>3. QED
        BY <1>6, <4>1, <4>2, CellsFacts
    <3>2. CellOK(bank[a], queue[a], w, latest[a][w])
      BY <1>6, <2>1, <3>1 DEF CellsInv
    <3>3. CASE a # b
      BY <1>12, <3>1, <3>2, <3>3
    <3>4. CASE a = b
      <4>1. NoneTo(p, w) /\ ~Dropping(bank[a], p, LineOf(w))
        BY <1>4, <1>9, <2>3, <3>4 DEF NoneTo, StoreTo, Dropping
      <4>2. CellOK(bank[a], t, w, latest[a][w])
        BY <1>3, <1>7, <1>9, <3>2, <3>4, <4>1, CellAppend DEF t
      <4>3. QED
        BY <1>12, <3>1, <3>4, <4>2
    <3>5. QED
      BY <3>3, <3>4
  <2>4. QED
    BY <2>2, <2>3
<1>17. FlushInv'
  BY <1>1, <1>2 DEF FlushInv, Flushing
<1>18. ReadInv'
  BY <1>1, <1>2 DEF ReadInv
<1>19. ReadsLatest'
  BY <1>1, <1>2 DEF ReadsLatest, Reads
<1>20. QED
  BY <1>13, <1>14, <1>15, <1>16, <1>17, <1>18, <1>19

LEMMA LaunchKeeps == ASSUME Inv, NEW c \in Calls, Launch(c) PROVE Inv'
<1> USE DEF Inv
<1>1. Begin(c) /\ c.kind = "kernel" /\ pc' = "launch"
      /\ UNCHANGED <<bank, queue, rsp, next, seen, steps, latest, doubt>>
  BY DEF Launch, tile, history
<1>2. /\ pc = "idle" /\ call' = c /\ calls' = calls + 1 /\ buffer' = <<>>
      /\ calls + 1 \in 0 .. MaxCalls /\ buffer' \in Seq(Value) /\ rsp = <<>>
      /\ \A a \in Bank : Sorted(queue[a]) /\ Upto(queue[a], 1)
  BY <1>1, Begun
<1>3. TypeInv'
  BY <1>1, <1>2 DEF TypeInv
<1>4. HostInv'
  BY <1>1, <1>2 DEF HostInv, Flushing
<1>5. QueueInv'
  BY <1>1, <1>2 DEF QueueInv, Asked, Flushing
<1>6. CellsInv'
  BY <1>1 DEF CellsInv
<1>7. FlushInv' /\ ReadInv' /\ ReadsLatest'
  BY <1>1 DEF FlushInv, ReadInv, ReadsLatest, Flushing
<1>8. QED
  BY <1>3, <1>4, <1>5, <1>6, <1>7

\* Requests that neither store nor drop are posted.
LEMMA PostKeepsCells ==
  ASSUME Inv, UNCHANGED <<bank, latest, doubt>>,
         \A a \in Bank : \/ queue'[a] = queue[a]
                         \/ \E p \in Seq(Req) : /\ queue'[a] = queue[a] \o p
                                                /\ \A r \in In(p) : r.op \in {"AFL", "TAGFL", "load"}
  PROVE  CellsInv'
<1>1. SUFFICES ASSUME NEW a \in Bank, NEW w \in Word, <<a, w>> \notin doubt
               PROVE  CellOK(bank[a], queue'[a], w, latest[a][w])
  BY DEF CellsInv
<1>2. CellOK(bank[a], queue[a], w, latest[a][w]) /\ queue[a] \in Seq(Req)
  BY <1>1 DEF Inv, CellsInv, TypeInv
<1>3. CASE queue'[a] = queue[a]
  BY <1>2, <1>3
<1>4. ASSUME NEW p \in Seq(Req), queue'[a] = queue[a] \o p,
             \A r \in In(p) : r.op \in {"AFL", "TAGFL", "load"}
      PROVE  CellOK(bank[a], queue'[a], w, latest[a][w])
  <2>1. NoneTo(p, w) /\ ~Dropping(bank[a], p, LineOf(w))
    BY <1>4 DEF NoneTo, StoreTo, Dropping
  <2>2. QED
    BY <1>2, <1>4, <2>1, CellAppend
<1>5. QED
  BY <1>1, <1>3, <1>4

LEMMA LoadQueue ==
  ASSUME NEW q \in Seq(Req), Sorted(q), Upto(q, 2),
         NEW w \in Word, NEW m, m = Msg("load", w, 0)
  PROVE  /\ <<m>> \in Seq(Req) /\ In(<<m>>) = {m} /\ m.op = "load" /\ m.at = w
         /\ q \o <<m>> \in Seq(Req) /\ Sorted(q \o <<m>>) /\ OneLoad(q \o <<m>>)
         /\ In(q \o <<m>>) = In(q) \cup {m}
<1> DEFINE p == <<m>>
           t == q \o p
<1>1. m \in Req /\ m.op = "load" /\ m.at = w
  BY MsgFacts
<1>2. p = <<m>> /\ t = q \o p
  OBVIOUS
<1> HIDE DEF p, t
<1>3. p \in Seq(Req) /\ In(p) = {m} /\ Sorted(p) /\ OneLoad(p)
  BY <1>1, <1>2, Single
<1>4. Rank(m) = 3
  BY <1>1 DEF Rank
<1>5. \A r \in In(q), u \in In(p) : Rank(r) <= Rank(u)
  <2>1. 2 \in 0 .. 3 /\ \A u \in In(p) : 2 <= Rank(u)
    BY <1>3, <1>4
  <2>2. QED
    BY <1>3, <2>1, Order
<1>6. \A r \in In(q) : r.op # "load"
  BY DEF Upto, Rank
<1>7. t \in Seq(Req) /\ In(t) = In(q) \cup In(p)
  BY <1>2, <1>3, JoinFacts
<1>8. Sorted(t)
  BY <1>2, <1>3, <1>5, JoinFacts
<1>9. OneLoad(t)
  BY <1>2, <1>3, <1>6, JoinFacts
<1>10. QED
  BY <1>1, <1>3, <1>7, <1>8, <1>9 DEF p, t

LEMMA UptoMore == \A q : Upto(q, 1) /\ q \in Seq(Req) => Upto(q, 2)
<1>1. SUFFICES ASSUME NEW q \in Seq(Req), Upto(q, 1), NEW r \in In(q) PROVE Rank(r) <= 2
  BY DEF Upto
<1>2. Rank(r) <= 1 /\ Rank(r) \in 0 .. 3
  BY <1>1, InReq, Ranks DEF Upto
<1>3. QED
  BY <1>2

LEMMA ReadKeeps == ASSUME Inv, NEW c \in Calls, Read(c) PROVE Inv'
<1> DEFINE j == c.jobs[1]
           b == j.bank
           z == j.first
           m == Msg("load", z, 0)
           q == queue[b]
           p == <<m>>
           t == q \o p
<1> USE DEF Inv
<1>1. /\ Begin(c) /\ c.kind = "read" /\ pc' = "word"
      /\ UNCHANGED <<bank, rsp, next, seen, steps, latest, doubt>>
  BY DEF Read, tile, history
<1>2. /\ pc = "idle" /\ call' = c /\ calls' = calls + 1 /\ buffer' = <<>>
      /\ calls + 1 \in 0 .. MaxCalls /\ buffer' \in Seq(Value) /\ rsp = <<>>
      /\ \A a \in Bank : Sorted(queue[a]) /\ Upto(queue[a], 1)
  BY <1>1, Begun
<1>3. b \in Bank /\ z \in Word
  BY <1>1, CallFacts
<1>4. queue' = [queue EXCEPT ![b] = t]
  BY DEF Read, Ask, Post
<1>5. queue \in [Bank -> Seq(Req)]
  BY DEF TypeInv
<1>6. TheJob' = j
  BY <1>2 DEF TheJob
<1> HIDE DEF b, z, p, m
<1>7. q \in Seq(Req) /\ Sorted(q) /\ Upto(q, 2)
  BY <1>2, <1>3, <1>5, UptoMore
<1>8. /\ p \in Seq(Req) /\ In(p) = {m} /\ m.op = "load" /\ m.at = z
      /\ t \in Seq(Req) /\ Sorted(t) /\ OneLoad(t) /\ In(t) = In(q) \cup {m}
  <2>1. m = Msg("load", z, 0)
    BY DEF m
  <2> HIDE DEF q
  <2>2. QED
    BY <1>3, <1>7, <2>1, LoadQueue DEF p
<1>9. queue'[b] = t /\ \A a \in Bank : a # b => queue'[a] = queue[a]
  BY <1>3, <1>4, <1>5
<1> HIDE DEF t, q
<1>10. TypeInv'
  <2>1. queue' \in [Bank -> Seq(Req)]
    BY <1>4, <1>5, <1>8
  <2>2. QED
    BY <1>1, <1>2, <2>1 DEF TypeInv
<1>11. HostInv'
  BY <1>1, <1>2 DEF HostInv, Flushing
<1>12. QueueInv'
  <2>1. Asked' /\ AskedBank' = b /\ ~Flushing'
    BY <1>1, <1>6 DEF Asked, AskedBank, Flushing, b
  <2>2. \A a \in Bank : Sorted(queue'[a]) /\ (a # b => Upto(queue'[a], 1))
    BY <1>2, <1>8, <1>9
  <2>3. rsp' = <<>> /\ OneLoad(queue'[b])
    BY <1>1, <1>2, <1>8, <1>9
  <2>4. QED
    BY <1>1, <2>1, <2>2, <2>3 DEF QueueInv
<1>13. CellsInv'
  <2>1. \A r \in In(p) : r.op \in {"AFL", "TAGFL", "load"}
    BY <1>8
  <2>2. queue'[b] = queue[b] \o p
    BY <1>9 DEF t, q
  <2>3. QED
    BY <1>1, <1>8, <1>9, <2>1, <2>2, PostKeepsCells
<1>14. FlushInv'
  BY <1>1, <1>2 DEF FlushInv, Flushing
<1>15. ReadInv'
  <2>1. \A r \in In(t) : r.op = "load" => r.at = z
    <3>1. \A r \in In(q) : r.op # "load"
      BY <1>7 DEF Upto, Rank
    <3>2. QED
      BY <1>8, <3>1
  <2>2. QED
    BY <1>1, <1>2, <1>6, <1>9, <2>1 DEF ReadInv, b, z
<1>16. ReadsLatest'
  BY <1>1 DEF ReadsLatest
<1>17. QED
  BY <1>10, <1>11, <1>12, <1>13, <1>14, <1>15, <1>16

LEMMA DmaReadKeeps == ASSUME Inv, NEW c \in Calls, DmaRead(c) PROVE Inv'
<1> DEFINE j == c.jobs[1]
           b == j.bank
           z == j.first
           m == Msg("load", z, 0)
           f == Msg("AFL", z, 0)
           o == RangeOps(j, "AFL")
           q == queue[b]
           p == o \o <<m>>
           t == q \o p
<1> USE DEF Inv
<1>1. /\ Begin(c) /\ c.kind = "dma_read" /\ pc' = "word"
      /\ UNCHANGED <<bank, rsp, next, seen, steps, latest, doubt>>
  BY DEF DmaRead, tile, history
<1>2. /\ pc = "idle" /\ call' = c /\ calls' = calls + 1 /\ buffer' = <<>>
      /\ calls + 1 \in 0 .. MaxCalls /\ buffer' \in Seq(Value) /\ rsp = <<>>
      /\ \A a \in Bank : Sorted(queue[a]) /\ Upto(queue[a], 1)
  BY <1>1, Begun
<1>3. b \in Bank /\ z \in Word /\ j.words \in Nat \ {0}
  BY <1>1, CallFacts
<1>4. queue' = [queue EXCEPT ![b] = t]
  BY DEF DmaRead, Post
<1>5. queue \in [Bank -> Seq(Req)]
  BY DEF TypeInv
<1>6. TheJob' = j
  BY <1>2 DEF TheJob
<1>7. o \in Seq(Req) /\ In(o) = {f}
  BY <1>3, RangeOpsFacts
<1>8. f.op = "AFL" /\ f.at = z /\ Rank(f) = 2
  BY <1>3, MsgFacts DEF Rank
<1>9. m.op = "load" /\ Rank(m) = 3
  BY <1>3, MsgFacts DEF Rank
<1> HIDE DEF b, z, o, f
<1>10. Sorted(o) /\ Upto(o, 2)
  <2>1. \A r \in In(o) : Rank(r) = 2
    BY <1>7, <1>8
  <2>2. Sorted(o)
    <3>1. 2 # 1
      OBVIOUS
    <3>2. QED
      BY <1>7, <2>1, <3>1, Uniform
  <2>3. QED
    BY <2>1, <2>2 DEF Upto
<1>11. p \in Seq(Req) /\ Sorted(p) /\ OneLoad(p) /\ In(p) = {f, m}
  <2>1. p \in Seq(Req) /\ Sorted(p) /\ OneLoad(p) /\ In(p) = In(o) \cup {m}
    <3>1. m = Msg("load", z, 0)
      OBVIOUS
    <3> HIDE DEF m
    <3>2. QED
      BY <1>3, <1>7, <1>10, <3>1, LoadQueue
  <2>2. QED
    BY <1>7, <2>1
<1> HIDE DEF m, p
<1>12. q \in Seq(Req) /\ Sorted(q) /\ Upto(q, 1)
  BY <1>2, <1>3, <1>5
<1>13. queue'[b] = t /\ \A a \in Bank : a # b => queue'[a] = queue[a]
  BY <1>3, <1>4, <1>5
<1>14. t = q \o p
  OBVIOUS
<1> HIDE DEF t, q
<1>15. \A r \in In(q), u \in In(p) : Rank(r) <= Rank(u)
  <2>1. 1 \in 0 .. 3 /\ \A u \in In(p) : 1 <= Rank(u)
    BY <1>8, <1>9, <1>11
  <2>2. QED
    BY <1>11, <1>12, <2>1, Order
<1>16. \A r \in In(q) : r.op # "load"
  BY <1>12 DEF Upto, Rank
<1>17. t \in Seq(Req) /\ In(t) = In(q) \cup In(p)
  BY <1>11, <1>12, <1>14, JoinFacts
<1>18. Sorted(t)
  BY <1>11, <1>12, <1>14, <1>15, JoinFacts
<1>19. OneLoad(t)
  BY <1>11, <1>12, <1>14, <1>16, JoinFacts
<1>20. TypeInv'
  <2>1. queue' \in [Bank -> Seq(Req)]
    BY <1>4, <1>5, <1>17
  <2>2. QED
    BY <1>1, <1>2, <2>1 DEF TypeInv
<1>21. HostInv'
  BY <1>1, <1>2 DEF HostInv, Flushing
<1>22. QueueInv'
  <2>1. Asked' /\ AskedBank' = b /\ ~Flushing'
    BY <1>1, <1>6 DEF Asked, AskedBank, Flushing, b
  <2>2. \A a \in Bank : Sorted(queue'[a]) /\ (a # b => Upto(queue'[a], 1))
    BY <1>2, <1>13, <1>18
  <2>3. rsp' = <<>> /\ OneLoad(queue'[b])
    BY <1>1, <1>2, <1>13, <1>19
  <2>4. QED
    BY <1>1, <2>1, <2>2, <2>3 DEF QueueInv
<1>23. CellsInv'
  <2>1. \A r \in In(p) : r.op \in {"AFL", "TAGFL", "load"}
    BY <1>8, <1>9, <1>11
  <2>2. queue'[b] = queue[b] \o p
    BY <1>13, <1>14 DEF q
  <2>3. QED
    BY <1>1, <1>11, <1>13, <2>1, <2>2, PostKeepsCells
<1>24. FlushInv'
  <2>1. Pending(queue'[b], "AFL", z)
    BY <1>8, <1>11, <1>13, <1>17 DEF Pending
  <2>2. QED
    BY <1>1, <1>6, <2>1 DEF FlushInv, Flushing, b, z
<1>25. ReadInv'
  BY <1>1, <1>2 DEF ReadInv
<1>26. ReadsLatest'
  BY <1>1 DEF ReadsLatest
<1>27. QED
  BY <1>20, <1>21, <1>22, <1>23, <1>24, <1>25, <1>26

LEMMA FlushVCacheKeeps == ASSUME Inv, NEW c \in Calls, FlushVCache(c) PROVE Inv'
<1> DEFINE p == [v \in Way |-> Msg("TAGFL", v, 0)]
<1> USE DEF Inv
<1>1. /\ Begin(c) /\ c.kind \in {"dma_to_device", "dma_to_host"} /\ pc' = "ask" /\ next' = 1
      /\ UNCHANGED <<bank, rsp, seen, steps, latest, doubt>>
      /\ queue' = [b \in Bank |-> queue[b] \o p]
  BY DEF FlushVCache, PostToWays, tile, history
<1>2. /\ pc = "idle" /\ call' = c /\ calls' = calls + 1 /\ buffer' = <<>>
      /\ calls + 1 \in 0 .. MaxCalls /\ buffer' \in Seq(Value) /\ rsp = <<>>
      /\ \A a \in Bank : Sorted(queue[a]) /\ Upto(queue[a], 1)
  BY <1>1, Begun
<1>3. p \in Seq(Req) /\ In(p) = {Msg("TAGFL", v, 0) : v \in Way}
  BY WayOpsFacts
<1>4. \A v \in Way : Msg("TAGFL", v, 0).op = "TAGFL" /\ Msg("TAGFL", v, 0).at = v
  BY MsgFacts
<1>5. queue \in [Bank -> Seq(Req)]
  BY DEF TypeInv
<1> HIDE DEF p
<1>6. \A r \in In(p) : r.op = "TAGFL" /\ Rank(r) = 2
  BY <1>3, <1>4 DEF Rank
<1>7. Sorted(p)
  <2>1. 2 # 1 /\ \A r \in In(p) : Rank(r) = 2
    BY <1>6
  <2>2. QED
    BY <1>3, <2>1, Uniform
<1>8. ASSUME NEW a \in Bank
      PROVE  /\ queue'[a] = queue[a] \o p /\ queue'[a] \in Seq(Req) /\ Sorted(queue'[a])
             /\ Upto(queue'[a], 2) /\ In(queue'[a]) = In(queue[a]) \cup In(p)
  <2> DEFINE q == queue[a]
             t == q \o p
  <2>1. q \in Seq(Req) /\ Sorted(q) /\ Upto(q, 1) /\ Upto(q, 2) /\ queue'[a] = t
    BY <1>1, <1>2, <1>5, UptoMore
  <2>2. t = q \o p
    OBVIOUS
  <2> HIDE DEF q, t
  <2>3. \A r \in In(q), u \in In(p) : Rank(r) <= Rank(u)
    <3>1. 1 \in 0 .. 3 /\ \A u \in In(p) : 1 <= Rank(u)
      BY <1>6
    <3>2. QED
      BY <1>3, <2>1, <3>1, Order
  <2>4. t \in Seq(Req) /\ In(t) = In(q) \cup In(p)
    BY <1>3, <2>1, <2>2, JoinFacts
  <2>5. Sorted(t)
    BY <1>3, <1>7, <2>1, <2>2, <2>3, JoinFacts
  <2>6. Upto(t, 2)
    BY <1>6, <2>1, <2>4 DEF Upto
  <2>7. QED
    BY <2>1, <2>2, <2>4, <2>5, <2>6 DEF q, t
<1>9. TypeInv'
  <2>1. queue' \in [Bank -> Seq(Req)]
    <3>1. \A a \in Bank : queue[a] \o p \in Seq(Req)
      BY <1>8
    <3>2. QED
      BY <1>1, <3>1
  <2>2. next' \in 1 .. NumBanks + 1
    BY <1>1, CacheAssumption
  <2>3. QED
    BY <1>1, <1>2, <2>1, <2>2 DEF TypeInv
<1>10. HostInv'
  BY <1>1, <1>2 DEF HostInv, Flushing
<1>11. QueueInv'
  <2>1. ~Asked' /\ Flushing'
    BY <1>1 DEF Asked, Flushing
  <2>2. \A a \in Bank : ~(a < 1)
    BY CacheAssumption DEF Bank
  <2>3. QED
    BY <1>1, <1>2, <1>8, <2>1, <2>2 DEF QueueInv
<1>12. CellsInv'
  BY <1>1, <1>3, <1>6, <1>8, PostKeepsCells
<1>13. FlushInv'
  <2>1. ASSUME NEW a \in Bank, NEW v \in Way PROVE Pending(queue'[a], "TAGFL", v)
    BY <1>3, <1>4, <1>8 DEF Pending
  <2>2. QED
    BY <1>1, <2>1 DEF FlushInv
<1>14. ReadInv' /\ ReadsLatest'
  BY <1>1 DEF ReadInv, ReadsLatest
<1>15. QED
  BY <1>9, <1>10, <1>11, <1>12, <1>13, <1>14

LEMMA FlushAskKeeps == ASSUME Inv, FlushAsk PROVE Inv'
<1> DEFINE b == next
           m == Msg("load", 0, 0)
           q == queue[b]
           t == q \o <<m>>
<1> USE DEF Inv
<1>1. /\ pc = "ask" /\ next <= NumBanks /\ pc' = "answer"
      /\ UNCHANGED <<bank, rsp, call, calls, next, buffer, seen, steps, latest, doubt>>
      /\ queue' = [queue EXCEPT ![b] = t]
  BY DEF FlushAsk, Ask, Post, tile, history
<1>2. b \in Bank /\ 0 \in Word
  <2>1. NumBanks \in Nat \ {0} /\ next \in 1 .. NumBanks + 1
    BY CacheAssumption DEF TypeInv
  <2>2. b \in Bank
    BY <1>1, <2>1 DEF Bank
  <2> DEFINE N == NumLines * LineWords
  <2>3. NumLines \in Nat \ {0} /\ LineWords \in Nat \ {0} /\ 0 < NumLines
    BY CacheAssumption
  <2>4. N \in Nat /\ LineWords <= N
    BY <2>3, Multiples
  <2>5. Word = 0 .. N - 1
    BY DEF Word
  <2> HIDE DEF N
  <2>6. 0 \in Word
    BY <2>3, <2>4, <2>5
  <2>7. QED
    BY <2>2, <2>6
<1>3. queue \in [Bank -> Seq(Req)]
  BY DEF TypeInv
<1>4. Flushing /\ ~Asked /\ rsp = <<>>
  BY <1>1 DEF Flushing, Asked, QueueInv
<1>5. \A a \in Bank : /\ Sorted(queue[a]) /\ Upto(queue[a], 2)
                      /\ a < next => queue[a] = <<>>
  BY <1>4 DEF QueueInv
<1>6. q \in Seq(Req) /\ Sorted(q) /\ Upto(q, 2)
  BY <1>2, <1>3, <1>5
<1> HIDE DEF m, b
<1>7. /\ <<m>> \in Seq(Req) /\ In(<<m>>) = {m} /\ m.op = "load"
      /\ t \in Seq(Req) /\ Sorted(t) /\ OneLoad(t) /\ In(t) = In(q) \cup {m}
  <2>1. m = Msg("load", 0, 0)
    BY DEF m
  <2> HIDE DEF q
  <2>2. QED
    BY <1>2, <1>6, <2>1, LoadQueue
<1>8. queue'[b] = t /\ \A a \in Bank : a # b => queue'[a] = queue[a]
  BY <1>1, <1>2, <1>3
<1> HIDE DEF t
<1>9. TypeInv'
  <2>1. queue' \in [Bank -> Seq(Req)]
    BY <1>1, <1>3, <1>7
  <2>2. QED
    BY <1>1, <2>1 DEF TypeInv
<1>10. HostInv'
  BY <1>1, <1>4 DEF HostInv, Flushing
<1>11. QueueInv'
  <2>1. Asked' /\ AskedBank' = b /\ Flushing'
    BY <1>1 DEF Asked, AskedBank, Flushing, b
  <2>2. \A a \in Bank : /\ Sorted(queue'[a]) /\ (a # b => Upto(queue'[a], 2))
                        /\ a < next => queue'[a] = <<>>
    <3>1. ~(b < next)
      BY <1>2 DEF b, Bank
    <3>2. QED
      BY <1>5, <1>7, <1>8, <3>1
  <2>3. rsp' = <<>> /\ OneLoad(queue'[b])
    BY <1>1, <1>4, <1>7, <1>8
  <2>4. QED
    BY <1>1, <2>1, <2>2, <2>3 DEF QueueInv
<1>12. CellsInv'
  <2>1. \A r \in In(<<m>>) : r.op \in {"AFL", "TAGFL", "load"}
    BY <1>7
  <2>2. queue'[b] = queue[b] \o <<m>>
    BY <1>8 DEF t
  <2>3. QED
    BY <1>1, <1>7, <1>8, <2>1, <2>2, PostKeepsCells
<1>13. FlushInv'
  <2>1. ASSUME NEW a \in Bank, NEW v \in Way
        PROVE  Pending(queue'[a], "TAGFL", v) \/ (NoStore(queue'[a]) /\ NotDirty(bank[a], v))
    <3>1. Pending(queue[a], "TAGFL", v) \/ (NoStore(queue[a]) /\ NotDirty(bank[a], v))
      BY <1>4 DEF FlushInv
    <3>2. CASE a # b
      BY <1>8, <3>1, <3>2
    <3>3. CASE a = b
      BY <1>7, <1>8, <3>1, <3>3 DEF Pending, NoStore
    <3>4. QED
      BY <3>2, <3>3
  <2>2. QED
    BY <1>1, <2>1 DEF FlushInv
<1>14. ReadInv' /\ ReadsLatest'
  BY <1>1 DEF ReadInv, ReadsLatest
<1>15. QED
  BY <1>9, <1>10, <1>11, <1>12, <1>13, <1>14

LEMMA FlushAnswerKeeps == ASSUME Inv, FlushAnswer PROVE Inv'
<1> USE DEF Inv
<1>1. /\ pc = "answer" /\ rsp # <<>> /\ rsp' = Tail(rsp) /\ next' = next + 1 /\ pc' = "ask"
      /\ UNCHANGED <<bank, queue, call, calls, buffer, seen, steps, latest, doubt>>
  BY DEF FlushAnswer, tile, history
<1>2. Asked /\ Flushing /\ AskedBank = next
  BY <1>1 DEF Asked, Flushing, AskedBank
<1>3. queue[next] = <<>> /\ next \in Bank /\ next <= NumBanks
  BY <1>1, <1>2 DEF QueueInv, HostInv, TypeInv, Bank
<1>4. rsp' = <<>>
  <2>1. PICK x \in Value : rsp = <<x>>
    BY <1>1 DEF TypeInv
  <2>2. QED
    BY <1>1, <2>1
<1>5. TypeInv'
  <2>1. next' \in 1 .. NumBanks + 1
    BY <1>1, <1>3, CacheAssumption DEF Bank
  <2>2. QED
    BY <1>1, <1>4, <2>1 DEF TypeInv
<1>6. HostInv'
  BY <1>1, <1>2 DEF HostInv, Flushing
<1>7. QueueInv'
  <2>1. ~Asked' /\ Flushing'
    BY <1>1 DEF Asked, Flushing
  <2>2. \A a \in Bank : /\ Sorted(queue[a]) /\ (a # next => Upto(queue[a], 2))
                        /\ a < next => queue[a] = <<>>
    BY <1>2 DEF QueueInv
  <2>3. \A a \in Bank : Upto(queue[a], 2)
    BY <1>3, <2>2, EmptyQueue
  <2>4. \A a \in Bank : a < next + 1 => queue[a] = <<>>
    <3>1. \A a \in Bank : a < next + 1 => a < next \/ a = next
      BY <1>3 DEF Bank
    <3>2. QED
      BY <1>3, <2>2, <3>1
  <2>5. QED
    BY <1>1, <1>4, <2>1, <2>2, <2>3, <2>4 DEF QueueInv
<1>8. CellsInv'
  BY <1>1 DEF CellsInv
<1>9. FlushInv'
  BY <1>1, <1>2 DEF FlushInv
<1>10. ReadInv' /\ ReadsLatest'
  BY <1>1 DEF ReadInv, ReadsLatest
<1>11. QED
  BY <1>5, <1>6, <1>7, <1>8, <1>9, <1>10

-----------------------------------------------------------------------------
(***************************************************************************)
(* The calls go on and return.                                             *)
(***************************************************************************)

LEMMA DramReadFacts ==
  ASSUME TypeInv, NEW j, j.bank \in Bank, j.first \in Word, j.words \in Nat \ {0},
         \A w \in j.first .. j.first + j.words - 1 : w \in Word
  PROVE  /\ DramRead(j) \in Seq(Value)
         /\ \A k \in 1 .. Len(DramRead(j)) :
              LET w == j.first + k - 1
              IN  /\ w \in Word /\ w \in j.first .. j.first + j.words - 1
                  /\ DramRead(j)[k] = bank[j.bank].dram[w]
<1> DEFINE f == j.first
           n == j.words
           d == bank[j.bank].dram
           r == [k \in 1 .. n |-> d[f + k - 1]]
<1>1. f \in Nat /\ n \in Nat
  BY CacheAssumption DEF Word
<1>2. d \in [Word -> Value]
  BY DEF TypeInv, BankState
<1>3. DramRead(j) = r
  BY DEF DramRead
<1>4. \A w \in f .. f + n - 1 : w \in Word
  OBVIOUS
<1> HIDE DEF f, n, d
<1>5. \A k \in 1 .. n : f + k - 1 \in f .. f + n - 1
  BY <1>1
<1>6. \A k \in 1 .. n : d[f + k - 1] \in Value
  BY <1>2, <1>4, <1>5
<1>7. r \in Seq(Value) /\ Len(r) = n
  BY <1>1, <1>6
<1>8. \A k \in 1 .. n : r[k] = d[f + k - 1]
  OBVIOUS
<1> HIDE DEF r
<1>9. QED
  BY <1>3, <1>4, <1>5, <1>7, <1>8 DEF f, n, d

LEMMA ReceiveWordKeeps == ASSUME Inv, ReceiveWord PROVE Inv'
<1> DEFINE j == TheJob
<1> USE DEF Inv
<1>1. /\ pc = "word" /\ rsp # <<>> /\ rsp' = Tail(rsp)
      /\ IF call.kind = "read" THEN buffer' = <<Head(rsp)>> /\ pc' = "idle"
                               ELSE pc' = "dram" /\ UNCHANGED buffer
      /\ UNCHANGED <<bank, queue, call, calls, next, seen, steps, latest, doubt>>
  BY DEF ReceiveWord, Return, tile, history
<1>2. Asked /\ ~Flushing /\ AskedBank = j.bank /\ TheJob' = j
  BY <1>1 DEF Asked, Flushing, AskedBank, TheJob
<1>3. queue[j.bank] = <<>> /\ j.bank \in Bank /\ j.first \in Word
  BY <1>1, <1>2, TheJobFacts DEF QueueInv
<1>4. PICK x \in Value : rsp = <<x>>
  BY <1>1 DEF TypeInv
<1>5. rsp' = <<>> /\ Head(rsp) = x /\ rsp[1] = x
  BY <1>1, <1>4
<1>6. buffer' \in Seq(Value)
  <2>1. <<x>> \in Seq(Value) /\ buffer \in Seq(Value)
    BY <1>4 DEF TypeInv
  <2>2. QED
    BY <1>1, <1>5, <2>1
<1>7. TypeInv'
  BY <1>1, <1>5, <1>6 DEF TypeInv
<1>8. HostInv'
  BY <1>1, <1>2 DEF HostInv, Flushing
<1>9. QueueInv'
  <2>1. ~Asked' /\ ~Flushing'
    BY <1>1 DEF Asked, Flushing
  <2>2. \A a \in Bank : Sorted(queue[a]) /\ (a # j.bank => Upto(queue[a], 1))
    BY <1>2 DEF QueueInv
  <2>3. \A a \in Bank : Upto(queue[a], 1)
    BY <1>3, <2>2, EmptyQueue
  <2>4. QED
    BY <1>1, <1>2, <1>3, <1>5, <2>1, <2>2, <2>3 DEF QueueInv
<1>10. CellsInv'
  BY <1>1 DEF CellsInv
<1>11. FlushInv'
  BY <1>1, <1>2 DEF FlushInv, Flushing
<1>12. ReadInv'
  BY <1>1 DEF ReadInv
<1>13. ReadsLatest'
  <2>1. SUFFICES ASSUME call.kind = "read", NEW k \in 1 .. Len(buffer'),
                        <<j.bank, j.first + k - 1>> \notin doubt
                 PROVE  buffer'[k] = latest[j.bank][j.first + k - 1]
    BY <1>1, <1>2 DEF ReadsLatest
  <2>2. buffer' = <<x>>
    BY <1>1, <1>5, <2>1
  <2>3. k = 1
    BY <2>2
  <2>4. j.first \in Nat
    BY <1>3, CacheAssumption DEF Word
  <2>5. j.first + k - 1 = j.first
    BY <2>3, <2>4
  <2>6. rsp[1] = latest[j.bank][j.first]
    BY <1>1, <2>1, <2>5 DEF ReadInv
  <2>7. QED
    BY <1>5, <2>2, <2>3, <2>5, <2>6
<1>14. QED
  BY <1>7, <1>8, <1>9, <1>10, <1>11, <1>12, <1>13

LEMMA DmaReadDramKeeps == ASSUME Inv, OneLine, DmaReadDram PROVE Inv'
<1> DEFINE j == TheJob
           s == bank[j.bank]
<1> USE DEF Inv
<1>1. /\ pc = "dram" /\ pc' = "idle" /\ buffer' = DramRead(j)
      /\ UNCHANGED <<bank, queue, rsp, call, calls, next, seen, steps, latest, doubt>>
  BY DEF DmaReadDram, Return, tile, history
<1>2. ~Asked /\ ~Flushing /\ ~Asked' /\ ~Flushing' /\ TheJob' = j
  BY <1>1 DEF Asked, Flushing, TheJob
<1>3. call \in Calls /\ call.kind = "dma_read"
  BY <1>1 DEF HostInv
<1>4. /\ j.bank \in Bank /\ j.first \in Word /\ j.words \in Nat \ {0}
      /\ \A w \in j.first .. j.first + j.words - 1 : w \in Word
  BY <1>1, TheJobFacts
<1>5. queue[j.bank] = <<>>
  BY <1>1, <1>4 DEF QueueInv
<1>6. Clean(s, LineOf(j.first))
  BY <1>1, <1>3, <1>5, EmptyQueue DEF FlushInv
<1>7. /\ DramRead(j) \in Seq(Value)
      /\ \A k \in 1 .. Len(DramRead(j)) :
           LET w == j.first + k - 1
           IN  /\ w \in Word /\ w \in j.first .. j.first + j.words - 1
               /\ DramRead(j)[k] = s.dram[w]
  BY <1>4, DramReadFacts
<1>8. TypeInv'
  BY <1>1, <1>7 DEF TypeInv
<1>9. HostInv'
  BY <1>1, <1>2, <1>3 DEF HostInv
<1>10. QueueInv'
  BY <1>1, <1>2 DEF QueueInv
<1>11. CellsInv'
  BY <1>1 DEF CellsInv
<1>12. FlushInv' /\ ReadInv'
  BY <1>1, <1>2 DEF FlushInv, ReadInv
<1>13. ReadsLatest'
  <2>1. SUFFICES ASSUME NEW k \in 1 .. Len(DramRead(j)), NEW w, w = j.first + k - 1,
                        <<j.bank, w>> \notin doubt
                 PROVE  DramRead(j)[k] = latest[j.bank][w]
    BY <1>1, <1>2 DEF ReadsLatest
  <2>2. w \in Word /\ w \in j.first .. j.first + j.words - 1 /\ DramRead(j)[k] = s.dram[w]
    BY <1>7, <2>1
  <2>3. LineOf(w) = LineOf(j.first)
    BY <1>3, <2>2 DEF OneLine, TheJob
  <2>4. CellOK(s, <<>>, w, latest[j.bank][w])
    BY <1>4, <1>5, <2>1, <2>2 DEF CellsInv
  <2>5. Has(s, w, latest[j.bank][w])
    BY <2>4, EmptyQueue
  <2>6. QED
    BY <1>6, <2>2, <2>3, <2>5 DEF Has
<1>14. QED
  BY <1>8, <1>9, <1>10, <1>11, <1>12, <1>13

\* When each cache has answered, every line is in DRAM.
LEMMA Flushed ==
  ASSUME Inv, pc = "ask", next > NumBanks
  PROVE  /\ \A a \in Bank : queue[a] = <<>> /\ \A v \in Way : NotDirty(bank[a], v)
         /\ \A a \in Bank : \A l \in Line : Clean(bank[a], l)
         /\ \A a \in Bank : \A w \in Word :
              <<a, w>> \notin doubt =>
                Has(bank[a], w, latest[a][w]) /\ bank[a].dram[w] = latest[a][w]
<1> USE DEF Inv
<1>1. \A a \in Bank : a < next
  BY CacheAssumption DEF Bank, TypeInv
<1>2. Flushing
  BY DEF Flushing
<1>3. \A a \in Bank : queue[a] = <<>>
  BY <1>1, <1>2 DEF QueueInv
<1>4. \A a \in Bank : \A v \in Way : NotDirty(bank[a], v)
  BY <1>2, <1>3, EmptyQueue DEF FlushInv
<1>5. ASSUME NEW a \in Bank, NEW l \in Line PROVE Clean(bank[a], l)
  <2>1. SUFFICES ASSUME NEW v \in Way, Holds(bank[a], v, l) PROVE bank[a].way[v].state = "clean"
    BY DEF Clean, Hits
  <2>2. bank[a].way[v] \in Entry
    BY DEF TypeInv, BankState
  <2>3. bank[a].way[v].state \in State
    BY <2>2, EntryFacts
  <2>4. QED
    BY <1>4, <2>1, <2>3 DEF State, NotDirty, Holds
<1>6. ASSUME NEW a \in Bank, NEW w \in Word, <<a, w>> \notin doubt
      PROVE  Has(bank[a], w, latest[a][w]) /\ bank[a].dram[w] = latest[a][w]
  <2>1. CellOK(bank[a], <<>>, w, latest[a][w])
    BY <1>3, <1>6 DEF CellsInv
  <2>2. Has(bank[a], w, latest[a][w])
    BY <2>1, EmptyQueue
  <2>3. Clean(bank[a], LineOf(w))
    BY <1>5, LineFacts
  <2>4. QED
    BY <2>2, <2>3 DEF Has
<1>7. QED
  BY <1>3, <1>4, <1>5, <1>6

LEMMA ToHostKeeps == ASSUME Inv, ToHost PROVE Inv'
<1> DEFINE j == TheJob
<1> USE DEF Inv
<1>1. /\ pc = "ask" /\ next > NumBanks /\ pc' = "idle" /\ buffer' \in {<<>>, DramRead(j)}
      /\ call.kind = "dma_to_host"
      /\ UNCHANGED <<bank, queue, rsp, call, calls, next, seen, steps, latest, doubt>>
  BY DEF ToHost, Return, tile, history
<1>2. ~Asked /\ ~Asked' /\ ~Flushing' /\ TheJob' = j
  BY <1>1 DEF Asked, Flushing, TheJob
<1>3. /\ j.bank \in Bank /\ j.first \in Word /\ j.words \in Nat \ {0}
      /\ \A w \in j.first .. j.first + j.words - 1 : w \in Word
  BY <1>1, TheJobFacts
<1>4. /\ DramRead(j) \in Seq(Value)
      /\ \A k \in 1 .. Len(DramRead(j)) :
           LET w == j.first + k - 1
           IN  w \in Word /\ DramRead(j)[k] = bank[j.bank].dram[w]
  BY <1>3, DramReadFacts
<1>5. TypeInv'
  <2>1. <<>> \in Seq(Value)
    OBVIOUS
  <2>2. buffer' \in Seq(Value)
    BY <1>1, <1>4, <2>1
  <2>3. QED
    BY <1>1, <2>2 DEF TypeInv
<1>6. HostInv'
  BY <1>1, <1>2 DEF HostInv
<1>7. QueueInv'
  BY <1>1, <1>2, Flushed, EmptyQueue DEF QueueInv
<1>8. CellsInv'
  BY <1>1 DEF CellsInv
<1>9. FlushInv' /\ ReadInv'
  BY <1>1, <1>2 DEF FlushInv, ReadInv
<1>10. ReadsLatest'
  <2>1. CASE buffer' = <<>>
    <3>1. \A k \in 1 .. Len(<<>>) : FALSE
      OBVIOUS
    <3>2. QED
      BY <2>1, <3>1 DEF ReadsLatest
  <2>2. CASE buffer' = DramRead(j)
    <3>1. SUFFICES ASSUME NEW k \in 1 .. Len(DramRead(j)), NEW w, w = j.first + k - 1,
                          <<j.bank, w>> \notin doubt
                   PROVE  DramRead(j)[k] = latest[j.bank][w]
      BY <1>1, <1>2, <2>2 DEF ReadsLatest
    <3>2. w \in Word /\ DramRead(j)[k] = bank[j.bank].dram[w]
      BY <1>4, <3>1
    <3>3. QED
      BY <1>1, <1>3, <3>1, <3>2, Flushed
  <2>3. QED
    BY <1>1, <2>1, <2>2
<1>11. QED
  BY <1>5, <1>6, <1>7, <1>8, <1>9, <1>10

LEMMA StartKeeps == ASSUME Inv, Start PROVE Inv'
<1> USE DEF Inv
<1>1. /\ pc = "launch" /\ Fenced /\ pc' = "run" /\ steps' = 0
      /\ UNCHANGED <<bank, queue, rsp, call, calls, next, buffer, latest, doubt>>
  BY DEF Start, history
<1>2. ~Asked /\ ~Asked' /\ ~Flushing /\ ~Flushing'
  BY <1>1 DEF Asked, Flushing
<1>3. TypeInv'
  BY <1>1, CacheAssumption DEF TypeInv
<1>4. HostInv'
  BY <1>1, <1>2 DEF HostInv
<1>5. QueueInv'
  BY <1>1, <1>2 DEF QueueInv, Fenced
<1>6. CellsInv' /\ FlushInv' /\ ReadInv' /\ ReadsLatest'
  BY <1>1, <1>2 DEF CellsInv, FlushInv, ReadInv, ReadsLatest
<1>7. QED
  BY <1>3, <1>4, <1>5, <1>6

LEMMA FinishKeeps == ASSUME Inv, Finish PROVE Inv'
<1> USE DEF Inv
<1>1. /\ pc = "run" /\ pc' = "idle"
      /\ UNCHANGED <<bank, queue, rsp, call, calls, next, buffer, seen, steps, latest, doubt>>
  BY DEF Finish, Return, tile, history
<1>2. ~Asked /\ ~Asked' /\ ~Flushing /\ ~Flushing'
  BY <1>1 DEF Asked, Flushing
<1>3. TypeInv'
  BY <1>1 DEF TypeInv
<1>4. HostInv'
  BY <1>1, <1>2 DEF HostInv
<1>5. QueueInv'
  BY <1>1, <1>2 DEF QueueInv
<1>6. CellsInv' /\ FlushInv' /\ ReadInv'
  BY <1>1, <1>2 DEF CellsInv, FlushInv, ReadInv
<1>7. ReadsLatest'
  BY <1>1 DEF ReadsLatest, HostInv, Reads
<1>8. QED
  BY <1>3, <1>4, <1>5, <1>6, <1>7

-----------------------------------------------------------------------------
(***************************************************************************)
(* DMA writes to DRAM, and the tiles' loads and stores.                    *)
(***************************************************************************)

LEMMA DramWrittenFacts ==
  ASSUME TypeInv, NEW js, NEW x \in Value, DramWritten(js, x)
  PROVE  /\ bank' \in [Bank -> BankState] /\ \A a \in Bank : OneCopy(bank'[a])
         /\ \A a \in Bank :
              /\ \A v, l : Holds(bank'[a], v, l) <=> Holds(bank[a], v, l)
              /\ \A l : Hits(bank'[a], l) = Hits(bank[a], l)
              /\ \A v : NotDirty(bank'[a], v) <=> NotDirty(bank[a], v)
              /\ \A q, l : Dropping(bank'[a], q, l) <=> Dropping(bank[a], q, l)
              /\ \A w \in Word :
                   IF \E j \in js : InJob(j, a, w) THEN bank'[a].dram[w] = x
                   ELSE /\ bank'[a].dram[w] = bank[a].dram[w]
                        /\ \A y : Has(bank[a], w, y) => Has(bank'[a], w, y)
<1>1. \A a \in Bank : bank[a] \in BankState /\ OneCopy(bank[a])
  BY DEF TypeInv
<1>2. bank' = [a \in Bank |-> [bank[a] EXCEPT !.dram = Overlay(@, a, js, x)]]
  BY DEF DramWritten
<1>3. ASSUME NEW a \in Bank
      PROVE  /\ bank'[a] \in BankState /\ OneCopy(bank'[a])
             /\ \A v, l : Holds(bank'[a], v, l) <=> Holds(bank[a], v, l)
             /\ \A l : Hits(bank'[a], l) = Hits(bank[a], l)
             /\ \A v : NotDirty(bank'[a], v) <=> NotDirty(bank[a], v)
             /\ \A q, l : Dropping(bank'[a], q, l) <=> Dropping(bank[a], q, l)
             /\ \A w \in Word :
                  IF \E j \in js : InJob(j, a, w) THEN bank'[a].dram[w] = x
                  ELSE /\ bank'[a].dram[w] = bank[a].dram[w]
                       /\ \A y : Has(bank[a], w, y) => Has(bank'[a], w, y)
  <2> DEFINE s == bank[a]
             t == bank'[a]
             d == Overlay(s.dram, a, js, x)
  <2>1. s \in BankState /\ OneCopy(s) /\ s.dram \in [Word -> Value]
    BY <1>1 DEF BankState
  <2>2. t = [s EXCEPT !.dram = d]
    BY <1>2
  <2>3. /\ d \in [Word -> Value]
        /\ \A w \in Word : (\E j \in js : InJob(j, a, w)) => d[w] = x
        /\ \A w \in Word : ~(\E j \in js : InJob(j, a, w)) => d[w] = s.dram[w]
    BY <2>1, OverlayFacts
  <2> HIDE DEF s, t, d
  <2>4. /\ t \in BankState /\ t.dram = d
        /\ \A v, l : Holds(t, v, l) <=> Holds(s, v, l)
        /\ \A l : Hits(t, l) = Hits(s, l)
        /\ \A v : NotDirty(t, v) <=> NotDirty(s, v)
        /\ OneCopy(t)
        /\ \A w, y : d[w] = s.dram[w] /\ Has(s, w, y) => Has(t, w, y)
        /\ \A q, l : Dropping(t, q, l) <=> Dropping(s, q, l)
    BY <2>1, <2>2, <2>3, SameWays
  <2>5. \A w \in Word : IF \E j \in js : InJob(j, a, w) THEN t.dram[w] = x
                        ELSE t.dram[w] = s.dram[w] /\ \A y : Has(s, w, y) => Has(t, w, y)
    BY <2>3, <2>4
  <2>6. QED
    BY <2>4, <2>5 DEF s, t
<1>4. bank' \in [Bank -> BankState]
  <2>1. \A a \in Bank : [bank[a] EXCEPT !.dram = Overlay(@, a, js, x)] \in BankState
    BY <1>2, <1>3
  <2>2. QED
    BY <1>2, <2>1
<1>5. QED
  BY <1>3, <1>4

LEMMA WrittenFacts ==
  ASSUME TypeInv, NEW js, NEW x \in Value, Written(js, x)
  PROVE  /\ latest' \in [Bank -> [Word -> Value]] /\ doubt' \subseteq Bank \X Word
         /\ \A a \in Bank : \A w \in Word :
              IF \E j \in js : InJob(j, a, w) THEN latest'[a][w] = x
              ELSE latest'[a][w] = latest[a][w] /\ (<<a, w>> \notin doubt' => <<a, w>> \notin doubt)
<1>1. \A a \in Bank : latest[a] \in [Word -> Value]
  BY DEF TypeInv
<1>2. /\ latest' = [a \in Bank |-> Overlay(latest[a], a, js, x)]
      /\ doubt' = doubt \ Cells(js) /\ doubt \subseteq Bank \X Word
  BY DEF Written, TypeInv
<1>3. \A a \in Bank : /\ Overlay(latest[a], a, js, x) \in [Word -> Value]
                      /\ latest'[a] = Overlay(latest[a], a, js, x)
  BY <1>1, <1>2, OverlayFacts
<1>4. latest' \in [Bank -> [Word -> Value]]
  BY <1>2, <1>3
<1>5. ASSUME NEW a \in Bank, NEW w \in Word
      PROVE  IF \E j \in js : InJob(j, a, w) THEN latest'[a][w] = x
             ELSE latest'[a][w] = latest[a][w] /\ (<<a, w>> \notin doubt' => <<a, w>> \notin doubt)
  <2>1. CASE \E j \in js : InJob(j, a, w)
    <3>1. Overlay(latest[a], a, js, x)[w] = x
      BY <1>1, <2>1, OverlayFacts
    <3>2. QED
      BY <1>3, <2>1, <3>1
  <2>2. CASE ~\E j \in js : InJob(j, a, w)
    <3>1. Overlay(latest[a], a, js, x)[w] = latest[a][w]
      BY <1>1, <2>2, OverlayFacts
    <3>2. <<a, w>> \notin Cells(js)
      BY <2>2, CellsFacts
    <3>3. QED
      BY <1>2, <1>3, <2>2, <3>1, <3>2
  <2>3. QED
    BY <2>1, <2>2
<1>6. QED
  BY <1>2, <1>4, <1>5

LEMMA ToDeviceKeeps == ASSUME Inv, ToDevice PROVE Inv'
<1> DEFINE p == [v \in Way |-> Msg("TAG", v, 0)]
<1> USE DEF Inv
<1>1. /\ pc = "ask" /\ next > NumBanks /\ pc' = "idle" /\ call.kind = "dma_to_device"
      /\ DramWritten(Jobs, calls) /\ Written(Jobs, calls)
      /\ queue' = [b \in Bank |-> queue[b] \o p]
      /\ UNCHANGED <<rsp, call, calls, next, buffer, seen, steps>>
  BY DEF ToDevice, PostToWays, Return, tile
<1>2. ~Asked /\ ~Asked' /\ ~Flushing' /\ calls \in Value
  BY <1>1 DEF Asked, Flushing, TypeInv, Value
<1>3. p \in Seq(Req) /\ In(p) = {Msg("TAG", v, 0) : v \in Way}
  BY WayOpsFacts
<1>4. \A v \in Way : Msg("TAG", v, 0).op = "TAG" /\ Msg("TAG", v, 0).at = v
  BY MsgFacts
<1> HIDE DEF p
<1>5. \A r \in In(p) : Rank(r) = 0
  BY <1>3, <1>4 DEF Rank
<1>6. Sorted(p) /\ \A w, x : NoneTo(p, w) /\ LastTo(p, w, x)
  <2>1. 0 # 1
    OBVIOUS
  <2>2. QED
    BY <1>3, <1>5, <2>1, Uniform
<1>7. \A a \in Bank : queue'[a] = p
  <2>1. <<>> \o p = p
    BY <1>3, ConcatEmptySeq
  <2>2. QED
    BY <1>1, <2>1, Flushed
<1>8. TypeInv'
  <2>1. queue' \in [Bank -> Seq(Req)]
    <3>1. \A a \in Bank : queue[a] \o p \in Seq(Req)
      BY <1>1, <1>3, <1>7
    <3>2. QED
      BY <1>1, <3>1
  <2>2. bank' \in [Bank -> BankState] /\ \A a \in Bank : OneCopy(bank'[a])
    BY <1>1, <1>2, DramWrittenFacts
  <2>3. latest' \in [Bank -> [Word -> Value]] /\ doubt' \subseteq Bank \X Word
    BY <1>1, <1>2, WrittenFacts
  <2>4. QED
    BY <1>1, <2>1, <2>2, <2>3 DEF TypeInv
<1>9. HostInv'
  BY <1>1, <1>2 DEF HostInv, Reads
<1>10. QueueInv'
  <2>1. Upto(p, 1)
    BY <1>5 DEF Upto
  <2>2. QED
    BY <1>1, <1>2, <1>6, <1>7, <2>1 DEF QueueInv
<1>11. CellsInv'
  <2>1. SUFFICES ASSUME NEW a \in Bank, NEW w \in Word, <<a, w>> \notin doubt'
                 PROVE  CellOK(bank'[a], p, w, latest'[a][w])
    BY <1>7 DEF CellsInv
  <2> DEFINE t == bank'[a]
             x == latest'[a][w]
             l == LineOf(w)
  <2>2. SUFFICES t.dram[w] = x /\ (~Dropping(t, p, l) => Has(t, w, x))
    BY <1>6 DEF CellOK
  <2>3. CASE \E j \in Jobs : InJob(j, a, w)
    <3>1. t.dram[w] = calls /\ x = calls
      BY <1>1, <1>2, <2>3, DramWrittenFacts, WrittenFacts
    <3>2. \A v \in Way : Holds(t, v, l) => Dropping(t, p, l)
      BY <1>3, <1>4 DEF Dropping
    <3>3. ~Dropping(t, p, l) => Hits(t, l) = {}
      BY <3>2 DEF Hits
    <3>4. QED
      BY <3>1, <3>3 DEF Has
  <2>4. CASE ~\E j \in Jobs : InJob(j, a, w)
    <3>1. x = latest[a][w] /\ <<a, w>> \notin doubt
      BY <1>1, <1>2, <2>1, <2>4, WrittenFacts
    <3>2. Has(bank[a], w, x) /\ bank[a].dram[w] = x
      BY <1>1, <3>1, Flushed
    <3>3. t.dram[w] = bank[a].dram[w] /\ \A y : Has(bank[a], w, y) => Has(t, w, y)
      BY <1>1, <1>2, <2>4, DramWrittenFacts
    <3>4. QED
      BY <3>2, <3>3
  <2>5. QED
    BY <2>3, <2>4
<1>12. FlushInv' /\ ReadInv'
  BY <1>1, <1>2 DEF FlushInv, ReadInv
<1>13. ReadsLatest'
  BY <1>1 DEF ReadsLatest, Reads
<1>14. QED
  BY <1>8, <1>9, <1>10, <1>11, <1>12, <1>13

LEMMA ToDeviceFailsKeeps == ASSUME Inv, ToDeviceFails PROVE Inv'
<1> USE DEF Inv
<1>1. /\ pc = "ask" /\ next > NumBanks /\ pc' = "idle" /\ call.kind = "dma_to_device"
      /\ UNCHANGED <<queue, rsp, call, calls, next, buffer, seen, steps, latest>>
  BY DEF ToDeviceFails, Return, tile
<1>2. PICK done : DramWritten(done, calls) /\ doubt' = doubt \cup Cells(done)
  BY DEF ToDeviceFails
<1>3. ~Asked /\ ~Asked' /\ ~Flushing' /\ calls \in Value
  BY <1>1 DEF Asked, Flushing, TypeInv, Value
<1>4. \A a \in Bank : queue'[a] = <<>>
  BY <1>1, Flushed
<1>5. TypeInv'
  <2>1. bank' \in [Bank -> BankState] /\ \A a \in Bank : OneCopy(bank'[a])
    BY <1>2, <1>3, DramWrittenFacts
  <2>2. doubt' \subseteq Bank \X Word
    BY <1>2 DEF TypeInv, Cells
  <2>3. QED
    BY <1>1, <2>1, <2>2 DEF TypeInv
<1>6. HostInv'
  BY <1>1, <1>3 DEF HostInv, Reads
<1>7. QueueInv'
  BY <1>1, <1>3, <1>4, EmptyQueue, NoRequest DEF QueueInv
<1>8. CellsInv'
  <2>1. SUFFICES ASSUME NEW a \in Bank, NEW w \in Word, <<a, w>> \notin doubt'
                 PROVE  Has(bank'[a], w, latest[a][w])
    BY <1>1, <1>4, EmptyQueue DEF CellsInv
  <2>2. <<a, w>> \notin doubt /\ ~\E j \in done : InJob(j, a, w)
    BY <1>2, <2>1, CellsFacts
  <2>3. Has(bank[a], w, latest[a][w])
    BY <1>1, <2>2, Flushed
  <2>4. QED
    BY <1>2, <1>3, <2>2, <2>3, DramWrittenFacts
<1>9. FlushInv' /\ ReadInv'
  BY <1>1, <1>3 DEF FlushInv, ReadInv
<1>10. ReadsLatest'
  BY <1>1 DEF ReadsLatest, Reads
<1>11. QED
  BY <1>5, <1>6, <1>7, <1>8, <1>9, <1>10

LEMMA DmaWriteKeeps == ASSUME Inv, OneLine, NEW c \in Calls, Careful(c), DmaWrite(c) PROVE Inv'
<1> DEFINE j == c.jobs[1]
           b == j.bank
           z == j.first
           js == {j}
           x == calls + 1
           m == Msg("AINV", z, 0)
           p == RangeOps(j, "AINV")
           q == queue[b]
           t == q \o p
<1> USE DEF Inv
<1>1. /\ Begin(c) /\ c.kind = "dma_write" /\ DramWritten(js, x) /\ Written(js, x)
      /\ queue' = [queue EXCEPT ![b] = t]
      /\ UNCHANGED <<rsp, pc, next, seen, steps>>
  BY DEF DmaWrite, Post, tile
<1>2. /\ pc = "idle" /\ call' = c /\ calls' = x /\ buffer' = <<>>
      /\ x \in 0 .. MaxCalls /\ x \in Value /\ buffer' \in Seq(Value) /\ rsp = <<>>
      /\ \A a \in Bank : Sorted(queue[a]) /\ Upto(queue[a], 1)
  BY <1>1, Begun
<1>3. /\ b \in Bank /\ z \in Word /\ j.words \in Nat \ {0}
      /\ z \in z .. z + j.words - 1
      /\ \A w \in z .. z + j.words - 1 : w \in Word
  BY <1>1, CallFacts
<1>4. \A w \in z .. z + j.words - 1 : LineOf(w) = LineOf(z)
  BY <1>1 DEF OneLine
<1>5. \A a, w : (\E i \in js : InJob(i, a, w)) <=> a = b /\ w \in z .. z + j.words - 1
  BY DEF InJob
<1>6. p \in Seq(Req) /\ In(p) = {m}
  BY <1>3, RangeOpsFacts
<1>7. m.op = "AINV" /\ m.at = z /\ Rank(m) = 0
  BY <1>3, MsgFacts DEF Rank
<1>8. queue \in [Bank -> Seq(Req)]
  BY DEF TypeInv
<1>9. (\A k \in 1 .. Len(q) : q[k].op # "store") /\ Clean(bank[b], LineOf(z))
  BY <1>1, <1>3 DEF Careful, Clean
<1>10. q \in Seq(Req) /\ Sorted(q) /\ Upto(q, 1) /\ t = q \o p
  BY <1>2, <1>3, <1>8
<1>11. queue'[b] = t /\ \A a \in Bank : a # b => queue'[a] = queue[a]
  BY <1>1, <1>3, <1>8
<1> HIDE DEF b, z, js, x, m, p, q, t
<1>12. NoStore(q) /\ Upto(q, 0)
  <2>1. NoStore(q)
    BY <1>9 DEF NoStore, In
  <2>2. ASSUME NEW r \in In(q) PROVE Rank(r) <= 0
    <3>1. r \in Req /\ r.op # "store" /\ Rank(r) <= 1
      BY <1>10, <2>1, InReq DEF Upto, NoStore
    <3>2. QED
      BY <3>1 DEF Rank
  <2>3. QED
    BY <2>1, <2>2 DEF Upto
<1>13. Sorted(p) /\ NoStore(p) /\ \A w, y : NoneTo(p, w) /\ LastTo(p, w, y)
  <2>1. 0 # 1 /\ \A r \in In(p) : Rank(r) = 0
    BY <1>6, <1>7
  <2>2. QED
    BY <1>6, <2>1, Uniform
<1>14. t \in Seq(Req) /\ In(t) = In(q) \cup {m}
  <2>1. t \in Seq(Req) /\ In(t) = In(q) \cup In(p)
    BY <1>6, <1>10, JoinFacts
  <2>2. QED
    BY <1>6, <2>1
<1>15. Sorted(t) /\ Upto(t, 1)
  <2>1. \A r \in In(q), u \in In(p) : Rank(r) <= Rank(u)
    <3>1. 0 \in 0 .. 3 /\ \A u \in In(p) : 0 <= Rank(u)
      BY <1>6, <1>7
    <3>2. QED
      BY <1>6, <1>10, <1>12, <3>1, Order
  <2>2. Sorted(t)
    BY <1>6, <1>10, <1>13, <2>1, JoinFacts
  <2>3. Upto(t, 1)
    BY <1>7, <1>10, <1>14 DEF Upto
  <2>4. QED
    BY <2>2, <2>3
<1>16. \A w, y : LastTo(q, w, y) /\ LastTo(t, w, y)
  <2>1. \A w, y : LastTo(q, w, y)
    BY <1>9 DEF LastTo, StoreTo
  <2>2. ASSUME NEW w, NEW y PROVE LastTo(t, w, y)
    BY <1>6, <1>10, <1>13, <2>1, JoinFacts
  <2>3. QED
    BY <2>1, <2>2
<1>17. TypeInv'
  <2>1. queue' \in [Bank -> Seq(Req)]
    BY <1>1, <1>8, <1>14
  <2>2. bank' \in [Bank -> BankState] /\ \A a \in Bank : OneCopy(bank'[a])
    BY <1>1, <1>2, DramWrittenFacts
  <2>3. latest' \in [Bank -> [Word -> Value]] /\ doubt' \subseteq Bank \X Word
    BY <1>1, <1>2, WrittenFacts
  <2>4. QED
    BY <1>1, <1>2, <2>1, <2>2, <2>3 DEF TypeInv
<1>18. HostInv'
  BY <1>1, <1>2 DEF HostInv, Reads, Flushing
<1>19. QueueInv'
  <2>1. ~Asked' /\ ~Flushing'
    BY <1>1, <1>2 DEF Asked, Flushing
  <2>2. \A a \in Bank : Sorted(queue'[a]) /\ Upto(queue'[a], 1)
    BY <1>2, <1>11, <1>15
  <2>3. QED
    BY <1>1, <1>2, <2>1, <2>2 DEF QueueInv
<1>20. CellsInv'
  <2>1. SUFFICES ASSUME NEW a \in Bank, NEW w \in Word, <<a, w>> \notin doubt'
                 PROVE  CellOK(bank'[a], queue'[a], w, latest'[a][w])
    BY DEF CellsInv
  <2> DEFINE s == bank[a]
             u == bank'[a]
             l == LineOf(w)
  <2>2. \A o, k : Dropping(u, o, k) <=> Dropping(s, o, k)
    BY <1>1, <1>2, DramWrittenFacts
  <2>3. CASE a = b /\ w \in z .. z + j.words - 1
    <3>1. u.dram[w] = x /\ latest'[a][w] = x
      <4>1. \E i \in js : InJob(i, a, w)
        BY <1>5, <2>3
      <4>2. u.dram[w] = x
        BY <1>1, <1>2, <4>1, DramWrittenFacts
      <4>3. latest'[a][w] = x
        BY <1>1, <1>2, <4>1, WrittenFacts
      <4>4. QED
        BY <4>2, <4>3
    <3>2. Dropping(u, t, l)
      BY <1>4, <1>7, <1>14, <2>3 DEF Dropping
    <3>3. QED
      BY <1>11, <1>16, <2>3, <3>1, <3>2 DEF CellOK
  <2>4. CASE ~(a = b /\ w \in z .. z + j.words - 1)
    <3> DEFINE y == latest[a][w]
    <3>1. latest'[a][w] = y /\ <<a, w>> \notin doubt
      BY <1>1, <1>2, <1>5, <2>1, <2>4, WrittenFacts
    <3>2. CellOK(s, queue[a], w, y)
      BY <3>1 DEF CellsInv
    <3>3. u.dram[w] = s.dram[w] /\ (Has(s, w, y) => Has(u, w, y))
      BY <1>1, <1>2, <1>5, <2>4, DramWrittenFacts
    <3> HIDE DEF y, s, u
    <3>4. CASE a # b
      <4>1. queue'[a] = queue[a]
        BY <1>11, <3>4
      <4>2. QED
        BY <2>2, <3>1, <3>2, <3>3, <4>1 DEF CellOK, u
    <3>5. CASE a = b
      <4>1. NoneTo(q, w)
        BY <1>12 DEF NoneTo, NoStore, StoreTo
      <4>2. IF Dropping(s, q, l) THEN s.dram[w] = y ELSE Has(s, w, y)
        BY <3>2, <3>5, <4>1 DEF CellOK, q
      <4>3. Dropping(u, t, l) <=> Dropping(s, q, l) \/ l = LineOf(z)
        BY <1>7, <1>14, <2>2 DEF Dropping
      <4>4. l = LineOf(z) /\ Has(s, w, y) => s.dram[w] = y
        BY <1>9, <3>5 DEF Has, s
      <4>5. IF Dropping(u, t, l) THEN u.dram[w] = y ELSE Has(u, w, y)
        BY <3>3, <4>2, <4>3, <4>4
      <4>6. CellOK(u, t, w, y)
        BY <1>16, <4>5 DEF CellOK
      <4>7. QED
        BY <1>11, <3>1, <3>5, <4>6 DEF u
    <3>6. QED
      BY <3>4, <3>5
  <2>5. QED
    BY <2>3, <2>4
<1>21. FlushInv'
  BY <1>1, <1>2 DEF FlushInv, Flushing
<1>22. ReadInv'
  BY <1>1, <1>2 DEF ReadInv
<1>23. ReadsLatest'
  BY <1>1, <1>2 DEF ReadsLatest, Reads
<1>24. QED
  BY <1>17, <1>18, <1>19, <1>20, <1>21, <1>22, <1>23

\* While the tiles run each bank has what was last written.
LEMMA Running ==
  ASSUME Inv, pc = "run", NEW a \in Bank
  PROVE  /\ queue[a] = <<>> /\ bank[a] \in BankState /\ OneCopy(bank[a])
         /\ \A w \in Word : <<a, w>> \notin doubt => Has(bank[a], w, latest[a][w])
<1>1. queue[a] = <<>> /\ bank[a] \in BankState /\ OneCopy(bank[a])
  BY DEF Inv, QueueInv, TypeInv
<1>2. QED
  BY <1>1, EmptyQueue DEF Inv, CellsInv

\* What stays while they run, but for the banks and what is last written to them.
LEMMA RunKeeps ==
  ASSUME Inv, pc = "run", UNCHANGED <<queue, rsp, pc, call, calls, next, buffer>>
  PROVE  HostInv' /\ QueueInv' /\ FlushInv' /\ ReadInv' /\ ReadsLatest'
<1>1. ~Asked /\ ~Asked' /\ ~Flushing /\ ~Flushing'
  BY DEF Asked, Flushing
<1>2. HostInv' /\ QueueInv'
  BY <1>1 DEF Inv, HostInv, QueueInv
<1>3. QED
  BY <1>1, <1>2 DEF FlushInv, ReadInv, ReadsLatest

LEMMA TileLoadKeeps == ASSUME Inv, NEW b \in Bank, NEW w \in Word, TileLoad(b, w) PROVE Inv'
<1> USE DEF Inv
<1>1. /\ pc = "run" /\ steps < MaxTileSteps /\ steps' = steps + 1
      /\ UNCHANGED <<queue, rsp, pc, call, calls, next, buffer, latest, doubt>>
  BY DEF TileLoad, host, history
<1>2. PICK t \in Fill(bank[b], LineOf(w)) : bank' = [bank EXCEPT ![b] = t]
  BY DEF TileLoad
<1>3. /\ t \in BankState /\ OneCopy(t)
      /\ \A z \in Word : \A x : Has(bank[b], z, x) => Has(t, z, x)
  BY <1>1, Running, FillKeeps, LineFacts
<1>4. bank \in [Bank -> BankState]
  BY DEF TypeInv
<1>5. bank'[b] = t /\ \A a \in Bank : a # b => bank'[a] = bank[a]
  BY <1>2, <1>4
<1>6. steps' \in 0 .. MaxTileSteps
  BY <1>1, CacheAssumption DEF TypeInv
<1>7. TypeInv'
  BY <1>1, <1>2, <1>3, <1>4, <1>5, <1>6 DEF TypeInv
<1>8. CellsInv'
  BY <1>1, <1>3, <1>5, Running, EmptyQueue DEF CellsInv
<1>9. QED
  BY <1>1, <1>7, <1>8, RunKeeps

LEMMA TileStoreKeeps == ASSUME Inv, NEW b \in Bank, NEW w \in Word, TileStore(b, w) PROVE Inv'
<1> USE DEF Inv
<1>1. /\ pc = "run" /\ steps < MaxTileSteps /\ steps' = steps + 1
      /\ latest' = [latest EXCEPT ![b][w] = calls] /\ doubt' = doubt \ {<<b, w>>}
      /\ UNCHANGED <<queue, rsp, pc, call, calls, next, buffer>>
  BY DEF TileStore, host
<1>2. PICK f \in Fill(bank[b], LineOf(w)) : bank' = [bank EXCEPT ![b] = Stored(f, w, calls)]
  BY DEF TileStore
<1> DEFINE t == Stored(f, w, calls)
<1>3. calls \in Value
  BY DEF TypeInv, Value
<1>4. /\ f \in BankState /\ OneCopy(f) /\ \E v \in Way : Holds(f, v, LineOf(w))
      /\ \A z \in Word : \A x : Has(bank[b], z, x) => Has(f, z, x)
  BY <1>1, Running, FillKeeps, LineFacts
<1>5. /\ t \in BankState /\ OneCopy(t) /\ Has(t, w, calls)
      /\ \A z \in Word \ {w} : \A x : Has(f, z, x) => Has(t, z, x)
  BY <1>3, <1>4, StoredKeeps
<1> HIDE DEF t
<1>6. bank \in [Bank -> BankState] /\ latest \in [Bank -> [Word -> Value]]
  BY DEF TypeInv
<1>7. bank'[b] = t /\ \A a \in Bank : a # b => bank'[a] = bank[a]
  BY <1>2, <1>6 DEF t
<1>8. /\ latest' \in [Bank -> [Word -> Value]] /\ latest'[b][w] = calls
      /\ \A a \in Bank : \A z \in Word : ~(a = b /\ z = w) => latest'[a][z] = latest[a][z]
  BY <1>1, <1>3, <1>6
<1>9. TypeInv'
  <2>1. steps' \in 0 .. MaxTileSteps
    BY <1>1, CacheAssumption DEF TypeInv
  <2>2. bank' \in [Bank -> BankState] /\ \A a \in Bank : OneCopy(bank'[a])
    BY <1>2, <1>5, <1>6, <1>7 DEF TypeInv, t
  <2>3. QED
    BY <1>1, <1>8, <2>1, <2>2 DEF TypeInv
<1>10. CellsInv'
  <2>1. SUFFICES ASSUME NEW a \in Bank, NEW z \in Word, <<a, z>> \notin doubt'
                 PROVE  Has(bank'[a], z, latest'[a][z])
    BY <1>1, Running, EmptyQueue DEF CellsInv
  <2>2. CASE a = b /\ z = w
    BY <1>5, <1>7, <1>8, <2>2
  <2>3. CASE ~(a = b /\ z = w)
    <3>1. <<a, z>> \notin doubt /\ latest'[a][z] = latest[a][z]
      BY <1>1, <1>8, <2>1, <2>3
    <3>2. Has(bank[a], z, latest[a][z])
      BY <1>1, <3>1, Running
    <3>3. QED
      BY <1>4, <1>5, <1>7, <2>3, <3>1, <3>2
  <2>4. QED
    BY <2>2, <2>3
<1>11. QED
  BY <1>1, <1>9, <1>10, RunKeeps

-----------------------------------------------------------------------------
(***************************************************************************)
(* The theorems.                                                           *)
(***************************************************************************)

LEMMA InitInv == Init => Inv
<1> SUFFICES ASSUME Init PROVE Inv
  OBVIOUS
<1> DEFINE zero == [w \in Word |-> 0]
           s == [way |-> [v \in Way |-> Empty], dram |-> zero]
<1>1. /\ bank = [b \in Bank |-> s] /\ queue = [b \in Bank |-> <<>>] /\ rsp = <<>>
      /\ pc = "idle" /\ call.kind = "kernel" /\ calls = 0 /\ next = 1 /\ buffer = <<>> /\ steps = 0
      /\ latest = [b \in Bank |-> zero] /\ doubt = {}
  BY DEF Init
<1>2. zero \in [Word -> Value] /\ \A w \in Word : zero[w] = 0
  BY MsgFacts
<1> HIDE DEF zero
<1>3. s \in BankState /\ s.dram = zero /\ \A v \in Way : \A l : ~Holds(s, v, l)
  BY <1>2, EmptyEntry DEF BankState, Holds
<1> HIDE DEF s
<1>4. OneCopy(s) /\ \A w \in Word : Has(s, w, 0)
  BY <1>2, <1>3 DEF OneCopy, Has, Hits
<1>5. TypeInv
  <2>1. /\ calls \in 0 .. MaxCalls /\ next \in 1 .. NumBanks + 1 /\ steps \in 0 .. MaxTileSteps
    BY <1>1, CacheAssumption
  <2>2. queue \in [Bank -> Seq(Req)]
    BY <1>1, NoRequest
  <2>3. buffer \in Seq(Value)
    BY <1>1
  <2>4. bank \in [Bank -> BankState] /\ latest \in [Bank -> [Word -> Value]] /\ doubt \subseteq Bank \X Word
    BY <1>1, <1>2, <1>3
  <2>5. QED
    BY <1>1, <1>4, <2>1, <2>2, <2>3, <2>4 DEF TypeInv
<1>6. HostInv
  BY <1>1 DEF HostInv, Reads, Flushing
<1>7. QueueInv
  BY <1>1, NoRequest, EmptyQueue DEF QueueInv, Asked, Flushing
<1>8. CellsInv
  BY <1>1, <1>2, <1>4, EmptyQueue DEF CellsInv
<1>9. FlushInv /\ ReadInv /\ ReadsLatest
  BY <1>1 DEF FlushInv, ReadInv, ReadsLatest, Flushing, Reads
<1>10. QED
  BY <1>5, <1>6, <1>7, <1>8, <1>9 DEF Inv

LEMMA Step == ASSUME OneLine, Inv, [Next]_vars PROVE Inv'
<1>1. ASSUME NEW c \in Calls, Careful(c), Program(c) PROVE Inv'
  BY <1>1, WriteKeeps, ReadKeeps, DmaWriteKeeps, DmaReadKeeps, FlushVCacheKeeps, LaunchKeeps DEF Program
<1>2. CASE ReceiveWord \/ DmaReadDram \/ FlushAsk \/ FlushAnswer \/ ToDevice \/ ToDeviceFails \/ ToHost
  BY <1>2, ReceiveWordKeeps, DmaReadDramKeeps, FlushAskKeeps, FlushAnswerKeeps, ToDeviceKeeps,
     ToDeviceFailsKeeps, ToHostKeeps
<1>3. CASE Start \/ Finish
  BY <1>3, StartKeeps, FinishKeeps
<1>4. ASSUME NEW b \in Bank, Serve(b) \/ \E w \in Word : TileLoad(b, w) \/ TileStore(b, w) PROVE Inv'
  BY <1>4, ServeKeeps, TileLoadKeeps, TileStoreKeeps
<1>5. CASE UNCHANGED vars
  <2>1. UNCHANGED <<bank, queue, rsp, pc, call, calls, next, buffer, steps, latest, doubt>>
    BY <1>5 DEF vars, host, tile, history
  <2>2. TypeInv' /\ HostInv' /\ CellsInv'
    BY <2>1 DEF Inv, TypeInv, HostInv, CellsInv, Flushing
  <2>3. QueueInv' /\ FlushInv' /\ ReadInv' /\ ReadsLatest'
    BY <2>1 DEF Inv, QueueInv, FlushInv, ReadInv, ReadsLatest, Asked, AskedBank, Flushing, TheJob
  <2>4. QED
    BY <2>2, <2>3 DEF Inv
<1>6. QED
  BY <1>1, <1>2, <1>3, <1>4, <1>5 DEF Next

LEMMA Invariant == OneLine => (Spec => []Inv)
<1> SUFFICES ASSUME OneLine PROVE Spec => []Inv
  OBVIOUS
<1>1. Inv /\ [Next]_vars => Inv'
  BY Step
<1>2. QED
  BY InitInv, <1>1, PTL DEF Spec

\* Every variable keeps its type: no line is ever in two ways of a cache, and no more than one
\* response waits for the host.
THEOREM TypeCorrect == OneLine => (Spec => []TypeOK)
<1> SUFFICES ASSUME OneLine PROVE Spec => []TypeOK
  OBVIOUS
<1>1. Inv => TypeOK
  <2> SUFFICES ASSUME Inv PROVE TypeOK
    OBVIOUS
  <2>1. ASSUME NEW b \in Bank
        PROVE  /\ bank[b].dram \in [Word -> Value]
               /\ \A v, u \in Way : \A l \in Line : Holds(bank[b], v, l) /\ Holds(bank[b], u, l) => v = u
               /\ \A v \in Way : bank[b].way[v] \in Entry
               /\ \A k \in 1 .. Len(queue[b]) : queue[b][k] \in Req
    BY DEF Inv, TypeInv, BankState, OneCopy
  <2>2. rsp \in Seq(Value) /\ Len(rsp) <= 1
    <3>1. CASE rsp = <<>>
      BY <3>1
    <3>2. ASSUME NEW x \in Value, rsp = <<x>> PROVE rsp \in Seq(Value) /\ Len(rsp) <= 1
      BY <3>2
    <3>3. QED
      BY <3>1, <3>2 DEF Inv, TypeInv
  <2>3. \A b \in Bank : \A v \in Way : LET e == bank[b].way[v]
                                       IN  /\ e.line \in Line /\ e.state \in {"invalid", "clean", "dirty"}
                                           /\ e.data \in [WordsOf(e.line) -> Value]
    BY <2>1, EntryFacts DEF State
  <2>4. \A b \in Bank : \A k \in 1 .. Len(queue[b]) :
          LET r == queue[b][k]
          IN  /\ r.op \in {"store", "load", "AINV", "AFL", "TAGFL", "TAG"}
              /\ r.at \in (IF r.op \in {"TAGFL", "TAG"} THEN Way ELSE Word)
              /\ r.val \in Value
    BY <2>1, ReqFacts
  <2>5. QED
    BY <2>1, <2>2, <2>3, <2>4 DEF TypeOK, Inv, TypeInv, HostInv
<1>2. QED
  BY <1>1, Invariant, PTL

\* No stale copy and no lost store: whenever no request is under way, what the caches and DRAM
\* hold is what was last written, by whatever way it was written.
THEOREM CoherentCaches == OneLine => (Spec => []Coherent)
<1> SUFFICES ASSUME OneLine PROVE Spec => []Coherent
  OBVIOUS
<1>1. Inv => Coherent
  <2> SUFFICES ASSUME Inv, Fenced, NEW b \in Bank, NEW w \in Word, <<b, w>> \notin doubt
               PROVE  LET vs == Hits(bank[b], LineOf(w))
                      IN  /\ \A v \in vs : bank[b].way[v].data[w] = latest[b][w]
                          /\ (\A v \in vs : bank[b].way[v].state = "clean") =>
                               bank[b].dram[w] = latest[b][w]
    BY DEF Coherent
  <2>1. CellOK(bank[b], <<>>, w, latest[b][w])
    BY DEF Inv, CellsInv, Fenced
  <2>2. Has(bank[b], w, latest[b][w])
    BY <2>1, EmptyQueue
  <2>3. QED
    BY <2>2 DEF Has, Clean
<1>2. QED
  BY <1>1, Invariant, PTL

\* read32, dma_read and dma_to_host return what was last written.
THEOREM ReadLatest == OneLine => (Spec => []ReadsLatest)
<1> SUFFICES ASSUME OneLine PROVE Spec => []ReadsLatest
  OBVIOUS
<1>1. Inv => ReadsLatest
  BY DEF Inv
<1>2. QED
  BY <1>1, Invariant, PTL

\* A kernel's tiles load what was last written, though the invalidations of the transfer before
\* its launch were only posted.
THEOREM TilesReadLatest == OneLine => (Spec => TilesLoadLatest)
<1> SUFFICES ASSUME OneLine PROVE Spec => TilesLoadLatest
  OBVIOUS
<1>1. Inv /\ [Next]_vars =>
        [\A b \in Bank : \A w \in {x \in Word : <<b, x>> \notin doubt} :
           TileLoad(b, w) => seen'.value = latest[b][w]]_vars
  <2> SUFFICES ASSUME Inv, NEW b \in Bank, NEW w \in Word, <<b, w>> \notin doubt, TileLoad(b, w)
               PROVE  seen'.value = latest[b][w]
    OBVIOUS
  <2>1. pc = "run"
    BY DEF TileLoad
  <2>2. PICK s \in Fill(bank[b], LineOf(w)) : seen' = [bank |-> b, word |-> w, value |-> Loaded(s, w)]
    BY DEF TileLoad
  <2>3. Has(bank[b], w, latest[b][w])
    BY <2>1, Running
  <2>4. Has(s, w, latest[b][w]) /\ \E v \in Way : Holds(s, v, LineOf(w))
    BY <2>1, <2>3, Running, FillKeeps, LineFacts
  <2>5. QED
    BY <2>2, <2>4, LoadedHas
<1>2. QED
  BY <1>1, Invariant, PTL DEF Spec, TilesLoadLatest

=============================================================================
