---------------------------- MODULE Device_image ----------------------------
(***************************************************************************)
(* What a tile finds when it starts, for every array of tiles, every set   *)
(* of binaries and any number of devices opened and calls that fail.       *)
(* Loading sends its writes without looking back, while other tiles may be *)
(* running: ImageInv says what is at its place, or will be when what is    *)
(* under way has arrived, stage by stage of program_init; StartInv says    *)
(* what a tile has that will start with the next write that reaches it.    *)
(***************************************************************************)
EXTENDS Device_memory

-----------------------------------------------------------------------------
(* What a node holds when all that is under way to it has arrived.         *)

\* The last write of q to address a has value v; or none goes there, and x, what a holds now, is v.
EndsIn(q, x, a, v) ==
  \/ \E m \in DOMAIN q : /\ q[m].epa = a /\ q[m].val = v
                         /\ \A j \in DOMAIN q : j > m => q[j].epa # a
  \/ (\A j \in DOMAIN q : q[j].epa # a) /\ x = v
Ends(n, a, v)   == EndsIn(posted[n], mem[n][a], a, v)
Untouched(n, a) == \A j \in DOMAIN posted[n] : posted[n][j].epa # a

Unfreezes(w) == IsFreeze(w) /\ w.val = 0
\* Tile t does not run, and nothing is under way that would change that.
Still(t) == Frozen(t) /\ \A i \in DOMAIN posted[t] : ~Unfreezes(posted[t][i])

\* Address a of node n holds v, or will, and no program writes it before.
Holds(n, a, v) ==
  /\ Ends(n, a, v)
  /\ n \in Tiles /\ a < DmemWords /\ Untouched(n, a) => Still(n)

-----------------------------------------------------------------------------
(* How far program_init is.                                                *)

SegmentStages == {"segment", "zeros"}
LaterStages   == {"icache", "config_symbols"} \cup StartStages

Fits(i) == Loadable(bin.segments[i])

\* The walks start at their beginnings, and what they have passed could be loaded.
WalkInv ==
  /\ Stage \notin SegmentStages => seg = 1
  /\ Stage # "config_symbols" => sym = 0
  /\ Stage \in SegmentStages => \A i \in DOMAIN bin.segments : i < seg => Fits(i)
  /\ Stage = "segment" /\ it > 1 =>
       /\ seg \in DOMAIN bin.segments /\ Fits(seg)
       /\ bin.segments[seg].load /\ ~is_dram(bin.segments[seg].paddr)
  /\ Stage \in LaterStages => \A i \in DOMAIN bin.segments : Fits(i)
  /\ Stage = "config_symbols" =>
       \A m \in DOMAIN ConfigSymbols : it > 1 \/ m < sym => HasSymbol(bin, ConfigSymbols[m])
  /\ Stage \in StartStages => \A m \in DOMAIN ConfigSymbols : HasSymbol(bin, ConfigSymbols[m])
  /\ Stage = "unfreeze_tile" => HasSymbol(bin, "cuda_kernel_ptr")
  /\ pc = "unfreeze_tile" => Quiet

\* No tile was started in this session, and none runs on from another one.
Unstarted == mishaps = {} /\ \A u \in Tiles : runs[u] < epoch

\* Where symbols of b are.
PlacedWords(b) == {symbol_to_eva(b, name) : name \in {x \in TileSymbols : HasSymbol(b, x)}}
\* Word k of a segment.
SegmentValue(s, k) == IF k < Len(s.data) THEN s.data[k + 1] ELSE 0

\* Word k of segment i has been written for tile j of the mesh; that tile is not yet started.
SegmentDone(i, j, k) ==
  \/ Stage \in SegmentStages /\ i < seg
  \/ Stage \in SegmentStages /\ i = seg /\ j < it
  \/ Stage = "zeros" /\ i = seg /\ j = it /\ k < Len(bin.segments[i].data)
  \/ Stage \in {"icache", "config_symbols"}
  \/ Stage \in StartStages /\ j >= it
IcacheDone(j)    == \/ Stage = "icache" /\ j < it
                    \/ Stage = "config_symbols"
                    \/ Stage \in StartStages /\ j >= it
SymbolDone(j, m) == \/ Stage = "config_symbols" /\ (j < it \/ (j = it /\ m < sym))
                    \/ Stage \in StartStages /\ j >= it
OriginDone(j)    == \/ Stage = "config_symbols" /\ (j < it \/ (j = it /\ sym # 0))
                    \/ Stage \in StartStages /\ j >= it
EnableDone(j)    == \/ Stage \in {"validate_vcache"} \cup WriteStages
                    \/ Stage \in StartStages /\ j >= it
TagsDone         == Stage \in WriteStages \cup StartStages /\ ~dram_enabled

\* What has been written for tiles that are not yet started is there, or will be. Data in DRAM
\* may be overwritten when a tile runs.
SegmentsHeld ==
  \A i \in DOMAIN bin.segments : LET s == bin.segments[i] IN
    s.load /\ (~is_dram(s.paddr) \/ s.exec \/ Unstarted) =>
      \A j \in DOMAIN mesh : \A k \in 0 .. s.memsz - 1 :
        SegmentDone(i, j, k) /\ s.paddr + k \notin PlacedWords(bin) =>
          Holds(Place(mesh[j], s.paddr + k).node, Place(mesh[j], s.paddr + k).epa,
                SegmentValue(s, k))
IcachesHeld ==
  \A j \in DOMAIN mesh : IcacheDone(j) =>
    \A k \in 0 .. IcacheWords - 1 :
      k < Len(Text(bin)) => Holds(mesh[j], EPA_ICACHE + k, Text(bin)[k + 1])
SymbolsHeld ==
  \A j \in DOMAIN mesh : \A m \in DOMAIN ConfigSymbols : SymbolDone(j, m) =>
    Holds(mesh[j], symbol_to_eva(bin, ConfigSymbols[m]), ConfigValue(ConfigSymbols[m], mesh[j]))
OriginsHeld ==
  \A j \in DOMAIN mesh : OriginDone(j) =>
    Holds(mesh[j], EPA_ORIGIN_X, Origin[1]) /\ Holds(mesh[j], EPA_ORIGIN_Y, Origin[2])
EnablesHeld ==
  \A j \in DOMAIN mesh : EnableDone(j) =>
    Holds(mesh[j], EPA_DRAM_ENABLE, IF dram_enabled THEN 1 ELSE 0)
TagsHeld == TagsDone => Holds(Cache, EPA_TAGS, 1)
PointerHeld ==
  Stage = "unfreeze_tile" =>
    Holds(mesh[it], symbol_to_eva(bin, "cuda_kernel_ptr"), HB_MC_CUDA_KERNEL_NOT_LOADED_VAL)

ImageInv ==
  /\ SegmentsHeld /\ IcachesHeld /\ SymbolsHeld /\ OriginsHeld /\ EnablesHeld /\ TagsHeld
  /\ PointerHeld

-----------------------------------------------------------------------------
(* Tiles that are being started.                                           *)

\* The next that tile t hears is that it runs.
Starting(t) == posted[t] # <<>> /\ Unfreezes(posted[t][1])

\* An init is under way.
Opening ==
  \/ pc \in {"attach", "map", "config", "responders_init", "enable_dram", "initialized"}
  \/ pc \in DrainPcs /\ why = "init"

\* The binary that tiles are started with is one that could be loaded.
ImageFits == image \in Binaries /\ \A i \in DOMAIN image.segments : Loadable(image.segments[i])
\* Segment i of it is where tile t looks for it.
HasSegment(t, i) == image.segments[i].load => HoldsSegment(t, image.segments[i], image)
HasTileSegments(t) == \A i \in DOMAIN image.segments : ~is_dram(image.segments[i].paddr) => HasSegment(t, i)
HasText(t)         == \A i \in DOMAIN image.segments : image.segments[i].exec => HasSegment(t, i)
HasSegments(t)     == \A i \in DOMAIN image.segments : HasSegment(t, i)

\* All that a tile may look at when it starts.
SeesItsImage(t) ==
  /\ HasTileSegments(t)
  /\ HoldsSymbols(t, image)
  /\ HoldsIcache(t, image)
  /\ OriginSet(t)
  /\ mem[t][EPA_DRAM_ENABLE] = 0 => mem[Cache][EPA_TAGS] = 1

\* A tile is started only when nothing else is under way to it.
FirstInv == \A t \in Tiles : \A i \in DOMAIN posted[t] : i > 1 => ~Unfreezes(posted[t][i])

\* A tile that starts finds all that; the program's text, and before the first tile of a session
\* starts the program's data, are in DRAM, unless another load has sent a freeze behind the start.
StartingInv ==
  \A t \in Tiles : Starting(t) =>
    /\ Frozen(t) /\ t \in Elems(mesh) /\ ~Opening
    /\ ImageFits /\ SeesItsImage(t)
    /\ Last(t) # 1 => /\ posted[Cache] = <<>>
                      /\ HasText(t)
                      /\ Unstarted => HasSegments(t)

\* Tags are made valid, never invalid.
TagsInv ==
  \A i \in DOMAIN posted[Cache] : posted[Cache][i].epa = EPA_TAGS => posted[Cache][i].val = 1

StartInv == FirstInv /\ StartingInv /\ TagsInv

-----------------------------------------------------------------------------
(* How sending and arriving change that.                                   *)

\* A list of writes sets address a of node n to v, or leaves it alone.
Sets(W, n, a, v) == /\ \E w \in Elems(W) : w.to = n /\ w.epa = a
                    /\ \A w \in Elems(W) : w.to = n /\ w.epa = a => w.val = v
Skips(W, n, a)   == \A w \in Elems(W) : w.to = n => w.epa # a

LEMMA EndsBefore ==
  ASSUME NEW W, NEW q \in Seq(W), NEW p \in Seq(W), NEW x, NEW a, NEW v,
         \A w \in Elems(p) : w.epa # a, EndsIn(q, x, a, v)
  PROVE  EndsIn(q \o p, x, a, v)
<1> DEFINE r == q \o p
           n == Len(q)
           l == Len(p)
<1>1. /\ n \in Nat /\ l \in Nat /\ DOMAIN q = 1 .. n /\ DOMAIN p = 1 .. l
      /\ DOMAIN r = 1 .. n + l
      /\ \A i \in 1 .. n : r[i] = q[i]
      /\ \A i \in 1 .. l : r[n + i] = p[i]
  BY Concatenation
<1>2. \A i \in 1 .. l : p[i].epa # a
  BY <1>1 DEF Elems
<1> HIDE DEF r, n, l
<1>3. ASSUME NEW j \in DOMAIN r, ~(j \in 1 .. n) PROVE r[j].epa # a
  <2>1. j - n \in 1 .. l /\ j = n + (j - n)
    BY <1>1, <1>3
  <2> QED
    BY <1>1, <1>2, <2>1
<1>4. CASE \E m \in DOMAIN q : /\ q[m].epa = a /\ q[m].val = v
                               /\ \A j \in DOMAIN q : j > m => q[j].epa # a
  <2>1. PICK m \in DOMAIN q : /\ q[m].epa = a /\ q[m].val = v
                              /\ \A j \in DOMAIN q : j > m => q[j].epa # a
    BY <1>4
  <2>2. m \in DOMAIN r /\ r[m] = q[m]
    BY <1>1
  <2>3. \A j \in DOMAIN r : j > m => r[j].epa # a
    BY <1>1, <1>3, <2>1
  <2>4. EndsIn(r, x, a, v)
    BY <2>1, <2>2, <2>3 DEF EndsIn
  <2> QED
    BY <2>4 DEF r
<1>5. CASE (\A j \in DOMAIN q : q[j].epa # a) /\ x = v
  <2>1. \A j \in DOMAIN r : r[j].epa # a
    BY <1>1, <1>3, <1>5
  <2>2. EndsIn(r, x, a, v)
    BY <1>5, <2>1 DEF EndsIn
  <2> QED
    BY <2>2 DEF r
<1> QED
  BY <1>4, <1>5 DEF EndsIn

LEMMA EndsBehind ==
  ASSUME NEW W, NEW q \in Seq(W), NEW p \in Seq(W), NEW x, NEW a, NEW v,
         \E w \in Elems(p) : w.epa = a, \A w \in Elems(p) : w.epa = a => w.val = v
  PROVE  EndsIn(q \o p, x, a, v)
<1> DEFINE r == q \o p
           n == Len(q)
           l == Len(p)
           S == {i \in 1 .. l : p[i].epa = a}
<1>1. /\ n \in Nat /\ l \in Nat /\ DOMAIN q = 1 .. n /\ DOMAIN p = 1 .. l
      /\ DOMAIN r = 1 .. n + l
      /\ \A i \in 1 .. l : r[n + i] = p[i]
  BY Concatenation
<1>2. S # {} /\ S \subseteq 1 .. l
  BY <1>1 DEF Elems
<1> HIDE DEF r, n, l
<1>3. PICK m \in S : \A i \in S : i <= m
  <2> HIDE DEF S
  <2> QED
    BY <1>1, <1>2, Greatest
<1>4. /\ n + m \in DOMAIN r /\ r[n + m] = p[m] /\ p[m].epa = a /\ p[m] \in Elems(p)
  BY <1>1, <1>3 DEF Elems
<1>5. ASSUME NEW j \in DOMAIN r, j > n + m PROVE r[j].epa # a
  <2>1. j - n \in 1 .. l /\ j = n + (j - n) /\ ~(j - n <= m)
    BY <1>1, <1>3, <1>5
  <2>2. j - n \notin S
    BY <1>3, <2>1
  <2> QED
    BY <1>1, <2>1, <2>2
<1>6. EndsIn(r, x, a, v)
  BY <1>4, <1>5 DEF EndsIn
<1> QED
  BY <1>6 DEF r

LEMMA EndsAfterHead ==
  ASSUME NEW W, NEW q \in Seq(W), q # <<>>, NEW x, NEW a, NEW v, EndsIn(q, x, a, v)
  PROVE  EndsIn(Tail(q), IF Head(q).epa = a THEN Head(q).val ELSE x, a, v)
<1> DEFINE r == Tail(q)
           n == Len(q)
           y == IF Head(q).epa = a THEN Head(q).val ELSE x
<1>1. /\ n \in Nat \ {0} /\ DOMAIN q = 1 .. n /\ DOMAIN r = 1 .. n - 1
      /\ Head(q) = q[1] /\ \A i \in 1 .. n - 1 : r[i] = q[i + 1]
  OBVIOUS
<1> HIDE DEF r, n
<1>2. CASE \E m \in DOMAIN q : /\ q[m].epa = a /\ q[m].val = v
                               /\ \A j \in DOMAIN q : j > m => q[j].epa # a
  <2>1. PICK m \in DOMAIN q : /\ q[m].epa = a /\ q[m].val = v
                              /\ \A j \in DOMAIN q : j > m => q[j].epa # a
    BY <1>2
  <2>2. CASE m = 1
    <3>1. y = v
      BY <1>1, <2>1, <2>2
    <3>2. \A j \in DOMAIN r : r[j].epa # a
      BY <1>1, <2>1, <2>2
    <3> QED
      BY <3>1, <3>2 DEF EndsIn, r
  <2>3. CASE m # 1
    <3>1. m - 1 \in DOMAIN r /\ r[m - 1] = q[m]
      BY <1>1, <2>3
    <3>2. \A j \in DOMAIN r : j > m - 1 => r[j].epa # a
      BY <1>1, <2>1
    <3> HIDE DEF y
    <3>3. EndsIn(r, y, a, v)
      BY <2>1, <3>1, <3>2 DEF EndsIn
    <3> QED
      BY <3>3 DEF r, y
  <2> QED
    BY <2>2, <2>3
<1>3. CASE (\A j \in DOMAIN q : q[j].epa # a) /\ x = v
  <2>1. y = v
    BY <1>1, <1>3
  <2>2. \A j \in DOMAIN r : r[j].epa # a
    BY <1>1, <1>3
  <2> QED
    BY <2>1, <2>2 DEF EndsIn, r
<1> QED
  BY <1>2, <1>3 DEF EndsIn

\* Where nothing is under way, memory is final.
LEMMA HoldsWhenQuiet ==
  ASSUME NEW n \in Nodes, posted[n] = <<>>, NEW a, NEW v, Holds(n, a, v)
  PROVE  mem[n][a] = v
BY DEF Holds, Ends, EndsIn

\* Sending a list without a write that starts the tile.
LEMMA PostKeepsHolds ==
  ASSUME MemInv, NEW W \in Seq(Packet), Post(W), mem' = mem, NEW n \in Nodes, NEW a, NEW v
  PROVE  /\ Holds(n, a, v) /\ Skips(W, n, a) /\ (n \in Tiles => Freezing(W, n)) => Holds(n, a, v)'
         /\ Sets(W, n, a, v) => Holds(n, a, v)'
<1> DEFINE q == posted[n]
           p == Sent(W, n)
           S == PacketTo(n)
           x == mem[n][a]
<1>1. posted'[n] = q \o p /\ q \in Seq(S) /\ p \in Seq(S) /\ Elems(p) = SentTo(W, n)
  BY PostedParts
<1>2. Ends(n, a, v) = EndsIn(q, x, a, v) /\ Ends(n, a, v)' = EndsIn(posted'[n], x, a, v)
  BY DEF Ends, EndsIn
<1>3. /\ DOMAIN q = 1 .. Len(q) /\ DOMAIN p = 1 .. Len(p) /\ Len(q) \in Nat /\ Len(p) \in Nat
      /\ DOMAIN posted'[n] = 1 .. Len(q) + Len(p)
      /\ \A i \in 1 .. Len(q) : posted'[n][i] = q[i]
      /\ \A i \in 1 .. Len(p) : posted'[n][Len(q) + i] = p[i]
  <2> HIDE DEF q, p, S
  <2> QED
    BY <1>1, Concatenation
<1>4. \A i \in DOMAIN posted'[n] : (i \in DOMAIN q /\ posted'[n][i] = q[i]) \/ posted'[n][i] \in Elems(p)
  <2> HIDE DEF q, p
  <2> TAKE i \in DOMAIN posted'[n]
  <2>1. CASE i \in 1 .. Len(q)
    BY <1>3, <2>1
  <2>2. CASE ~(i \in 1 .. Len(q))
    <3>1. i - Len(q) \in 1 .. Len(p) /\ i = Len(q) + (i - Len(q))
      BY <1>3, <2>2
    <3> QED
      BY <1>3, <3>1 DEF Elems
  <2> QED
    BY <2>1, <2>2
<1> HIDE DEF q, p, S, x
<1>5. ASSUME Holds(n, a, v), Skips(W, n, a), n \in Tiles => Freezing(W, n)
      PROVE  Holds(n, a, v)'
  <2>1. \A w \in Elems(p) : w.epa # a
    BY <1>1, <1>5 DEF Skips, SentTo
  <2>2. Ends(n, a, v)'
    BY <1>1, <1>2, <1>5, <2>1, EndsBefore DEF Holds
  <2>3. ASSUME n \in Tiles, a < DmemWords, Untouched(n, a)' PROVE Still(n)'
    <3>1. Untouched(n, a)
      BY <1>3, <2>3 DEF Untouched, q
    <3>2. Still(n)
      BY <1>5, <2>3, <3>1 DEF Holds
    <3>3. \A w \in Elems(p) : ~Unfreezes(w)
      BY <1>1, <1>5, <2>3 DEF Freezing, SentTo, Unfreezes
    <3>4. \A i \in DOMAIN posted'[n] : ~Unfreezes(posted'[n][i])
      BY <1>4, <3>2, <3>3 DEF Still, q
    <3>5. Frozen(n)'
      BY <3>2 DEF Still, Frozen, EPA_FREEZE
    <3> QED
      BY <3>4, <3>5 DEF Still, Unfreezes, IsFreeze, EPA_FREEZE
  <2> QED
    BY <2>2, <2>3 DEF Holds
<1>6. ASSUME Sets(W, n, a, v) PROVE Holds(n, a, v)'
  <2>1. \E w \in Elems(p) : w.epa = a
    BY <1>1, <1>6 DEF Sets, SentTo
  <2>2. \A w \in Elems(p) : w.epa = a => w.val = v
    BY <1>1, <1>6 DEF Sets, SentTo
  <2>3. Ends(n, a, v)'
    BY <1>1, <1>2, <2>1, <2>2, EndsBehind
  <2>4. ~Untouched(n, a)'
    <3>1. PICK i \in DOMAIN p : p[i].epa = a
      BY <2>1 DEF Elems
    <3>2. Len(q) + i \in DOMAIN posted'[n] /\ posted'[n][Len(q) + i] = p[i]
      BY <1>3, <3>1
    <3> QED
      BY <3>1, <3>2 DEF Untouched
  <2> QED
    BY <2>3, <2>4 DEF Holds
<1> QED
  BY <1>5, <1>6

\* Nothing sent, nothing written.
LEMMA NothingKeepsHolds ==
  ASSUME UNCHANGED <<posted, mem>>, NEW n, NEW a, NEW v, Holds(n, a, v)
  PROVE  Holds(n, a, v)'
BY DEF Holds, Ends, EndsIn, Untouched, Still, Frozen, Unfreezes, IsFreeze, EPA_FREEZE

\* A write that arrives.
LEMMA DeliverKeepsHolds ==
  ASSUME MemInv, FrozenWhileWritten, FirstInv, NEW m \in Nodes, Deliver(m),
         NEW n \in Nodes, NEW a \in Epas(n), NEW v, Holds(n, a, v)
  PROVE  Holds(n, a, v)'
<1> DEFINE q == posted[m]
           w == Head(q)
           S == PacketTo(m)
<1>1. /\ q \in Seq(S) /\ q # <<>>
      /\ posted' = [posted EXCEPT ![m] = Tail(q)]
      /\ mem' = [mem EXCEPT ![m][w.epa] = w.val]
  BY DEF Deliver, MemInv
<1>2. CASE n # m
  <2>1. posted'[n] = posted[n] /\ mem'[n] = mem[n]
    BY <1>1, <1>2 DEF MemInv
  <2> QED
    BY <2>1 DEF Holds, Ends, EndsIn, Untouched, Still, Frozen, Unfreezes, IsFreeze, EPA_FREEZE
<1>3. CASE n = m
  <2>1. posted'[n] = Tail(q) /\ mem'[n] = [mem[n] EXCEPT ![w.epa] = w.val]
    BY <1>1, <1>3 DEF MemInv
  <2>2. DOMAIN mem[n] = Epas(n)
    BY DEF MemInv
  <2>3. mem'[n][a] = IF w.epa = a THEN w.val ELSE mem[n][a]
    BY <2>1, <2>2
  <2>4. Ends(n, a, v)'
    <3> DEFINE x == mem[n][a]
               y == IF w.epa = a THEN w.val ELSE x
    <3>1. EndsIn(q, x, a, v)
      BY <1>3 DEF Holds, Ends
    <3> HIDE DEF q, x, S
    <3>2. EndsIn(Tail(q), y, a, v)
      BY <1>1, <3>1, EndsAfterHead
    <3> HIDE DEF y
    <3>3. mem'[n][a] = y
      BY <2>3 DEF y, x
    <3>4. Ends(n, a, v)' = EndsIn(posted'[n], mem'[n][a], a, v)
      BY DEF Ends, EndsIn
    <3> QED
      BY <2>1, <3>2, <3>3, <3>4
  <2>5. ASSUME n \in Tiles, a < DmemWords, Untouched(n, a)' PROVE Still(n)'
    <3>1. /\ DOMAIN q = 1 .. Len(q) /\ Len(q) \in Nat \ {0} /\ DOMAIN Tail(q) = 1 .. Len(q) - 1
          /\ w = q[1] /\ w \in S
          /\ \A i \in 1 .. Len(q) - 1 : Tail(q)[i] = q[i + 1]
      <4> HIDE DEF q, S
      <4> QED
        BY <1>1
    <3>2. /\ EPA_FREEZE \in Epas(n) /\ a # EPA_FREEZE /\ a \notin Registers
          /\ EPA_FREEZE \in Nat /\ a \in Nat
      <4>1. a \in Nat /\ DmemWords \in Nat
        BY <2>5, Addresses DEF TileEpas
      <4> QED
        BY <2>5, <4>1, Addresses
           DEF Registers, EPA_FREEZE, EPA_ORIGIN_X, EPA_ORIGIN_Y, EPA_DRAM_ENABLE
    <3>3. mem'[n][EPA_FREEZE] = IF w.epa = EPA_FREEZE THEN w.val ELSE mem[n][EPA_FREEZE]
      BY <2>1, <2>2, <3>2
    <3>4. \A i \in DOMAIN Tail(q) : ~Unfreezes(Tail(q)[i])
      <4> TAKE i \in DOMAIN Tail(q)
      <4>1. Tail(q)[i] = q[i + 1] /\ i + 1 \in DOMAIN q /\ i + 1 > 1
        BY <3>1
      <4> HIDE DEF w
      <4> QED
        BY <1>3, <2>5, <4>1 DEF FirstInv
    <3>5. CASE w.epa = a
      <4>1. 1 \in DOMAIN posted[n] /\ posted[n][1].epa \notin Registers
        BY <1>3, <3>1, <3>2, <3>5
      <4>2. FreezeAfter(n, 1) = 1
        BY <2>5, <4>1 DEF FrozenWhileWritten, Registers
      <4>3. NoFreeze(posted[n], 1)
        BY <4>1, RegisterAddresses DEF NoFreeze, IsFreeze
      <4>4. mem[n][EPA_FREEZE] = 1
        BY <4>2, <4>3, FreezeAfterIs, FreezeInIs
      <4> QED
        BY <2>1, <3>2, <3>3, <3>4, <3>5, <4>4 DEF Still, Frozen, Unfreezes, IsFreeze, EPA_FREEZE
    <3>6. CASE w.epa # a
      <4>1. Untouched(n, a)
        <5> SUFFICES ASSUME NEW i \in DOMAIN q, q[i].epa = a PROVE FALSE
          BY <1>3 DEF Untouched
        <5>1. i # 1
          BY <3>1, <3>6
        <5>2. i - 1 \in DOMAIN Tail(q) /\ Tail(q)[i - 1] = q[i]
          BY <3>1, <5>1
        <5> QED
          BY <2>1, <2>5, <5>2 DEF Untouched
      <4>2. Still(n)
        BY <2>5, <4>1 DEF Holds
      <4>3. ~Unfreezes(w)
        BY <1>3, <3>1, <4>2 DEF Still
      <4>4. w.epa = EPA_FREEZE => w.val \in {0, 1}
        BY <1>3, <2>5, <3>1 DEF PacketTo, IsFreeze
      <4>5. mem'[n][EPA_FREEZE] = 1
        BY <3>3, <4>2, <4>3, <4>4 DEF Still, Frozen, Unfreezes, IsFreeze
      <4> QED
        BY <2>1, <3>4, <4>5 DEF Still, Frozen, Unfreezes, IsFreeze, EPA_FREEZE
    <3> QED
      BY <3>5, <3>6
  <2> QED
    BY <2>4, <2>5 DEF Holds
<1> QED
  BY <1>2, <1>3

\* Where a program writes its variables.
LEMMA StorePlace ==
  ASSUME NEW u \in Tiles, NEW eva \in ProgramData
  PROVE  /\ \/ eva \in 0 .. DmemWords - 1 /\ Place(u, eva) = [node |-> u, epa |-> eva]
            \/ /\ eva \in DramEva .. DramEva + DramWords - 1
               /\ Place(u, eva) = [node |-> Cache, epa |-> eva - DramEva]
         /\ Place(u, eva).node \in Nodes /\ Place(u, eva).epa \in Epas(Place(u, eva).node)
<1>1. DramEva \in Nat /\ DramEva >= DmemWords
  BY BinariesAssumption
<1>2. eva \in 0 .. DmemWords - 1 \/ eva \in DramEva .. DramEva + DramWords - 1
  BY DeviceAssumption
<1>3. CASE eva \in 0 .. DmemWords - 1
  <2>1. Place(u, eva) = [node |-> u, epa |-> eva]
    BY <1>1, <1>3, Addresses DEF Place, is_dram
  <2>2. eva \in TileEpas
    BY <1>3, Addresses DEF TileEpas
  <2> QED
    BY <1>3, <2>1, <2>2, Addresses
<1>4. CASE eva \in DramEva .. DramEva + DramWords - 1
  <2>1. Place(u, eva) = [node |-> Cache, epa |-> eva - DramEva]
    BY <1>1, <1>4, Addresses DEF Place, is_dram
  <2>2. eva - DramEva \in CacheEpas
    BY <1>1, <1>4, Addresses DEF CacheEpas
  <2> QED
    BY <1>4, <2>1, <2>2, Addresses
<1> QED
  BY <1>2, <1>3, <1>4

\* A program that writes a variable.
LEMMA StoreKeepsHolds ==
  ASSUME MemInv, NEW u \in Tiles, Store(u),
         NEW n \in Nodes, NEW a \in Epas(n), NEW v, Holds(n, a, v),
         n = Cache => a + DramEva \notin ProgramData
  PROVE  Holds(n, a, v)'
<1>1. PICK eva \in ProgramData :
         mem' = [mem EXCEPT ![Place(u, eva).node][Place(u, eva).epa] = Junk]
  BY DEF Store
<1>2. posted' = posted /\ ~Frozen(u)
  BY DEF Store
<1> DEFINE m == Place(u, eva).node
           b == Place(u, eva).epa
<1>3. /\ m \in Nodes /\ b \in Epas(m) /\ mem' = [mem EXCEPT ![m][b] = Junk]
      /\ \/ m = u /\ b = eva /\ eva \in 0 .. DmemWords - 1
         \/ m = Cache /\ b = eva - DramEva /\ eva \in DramEva .. DramEva + DramWords - 1
  BY <1>1, StorePlace
<1> HIDE DEF m, b
<1>4. DramEva \in Nat /\ DmemWords \in Nat
  BY BinariesAssumption, MemoryAssumption
<1>5. /\ DOMAIN mem = Nodes /\ \A k \in Nodes : DOMAIN mem[k] = Epas(k)
  BY DEF MemInv
<1>6. n # m \/ a # b => mem'[n][a] = mem[n][a]
  BY <1>3, <1>5
<1>7. Still(n) /\ n \in Tiles => Still(n)'
  <2> SUFFICES ASSUME Still(n), n \in Tiles PROVE Still(n)'
    OBVIOUS
  <2>1. EPA_FREEZE \in Epas(n) /\ (n = m => b # EPA_FREEZE)
    BY <1>3, <1>4, Addresses
  <2>2. mem'[n][EPA_FREEZE] = mem[n][EPA_FREEZE]
    BY <1>3, <1>5, <2>1
  <2> QED
    BY <1>2, <2>2 DEF Still, Frozen, Unfreezes, IsFreeze, EPA_FREEZE
<1>8. CASE n # m \/ a # b
  BY <1>2, <1>6, <1>7, <1>8 DEF Holds, Ends, EndsIn, Untouched
<1>9. CASE n = m /\ a = b
  <2>1. n = u /\ a < DmemWords
    <3>1. m = Cache => a + DramEva = eva
      <4>1. m = Cache => b = eva - DramEva /\ eva \in DramEva .. DramEva + DramWords - 1
        BY <1>3, Addresses
      <4> QED
        BY <1>4, <1>9, <4>1, MemoryAssumption
    <3> QED
      BY <1>1, <1>3, <1>4, <1>9, <3>1
  <2>2. ~Untouched(n, a)
    BY <1>2, <2>1 DEF Holds, Still
  <2> QED
    BY <1>2, <2>2 DEF Holds, Ends, EndsIn, Untouched
<1> QED
  BY <1>8, <1>9

-----------------------------------------------------------------------------
(* Tiles that are being started stay ready.                                *)

\* Where the words of a segment are.
LEMMA SegmentPlace ==
  ASSUME NEW b \in Binaries, NEW i \in DOMAIN b.segments,
         NEW s, s = b.segments[i], Loadable(s), s.load
  PROVE  /\ s.paddr \in Nat /\ s.memsz \in Nat /\ s.data \in Seq(Nat) /\ Len(s.data) \in 0 .. s.memsz
         /\ DramEva \in Nat
         /\ \A t \in Tiles : \A k \in 0 .. s.memsz - 1 :
              IF is_dram(s.paddr)
              THEN /\ Place(t, s.paddr + k) = [node |-> Cache, epa |-> (s.paddr + k) - DramEva]
                   /\ (s.paddr + k) - DramEva \in 0 .. DramWords - 1
              ELSE /\ Place(t, s.paddr + k) = [node |-> t, epa |-> s.paddr + k]
                   /\ s.paddr + k \in 0 .. DmemWords - 1
<1> DEFINE p == s.paddr
           m == s.memsz
           n == Len(s.data)
<1>1. /\ b.segments \in Seq(ProgramHeader)
      /\ n <= m /\ (s.load /\ m <= Capacity(s) => Place(Origin, p).epa + m <= Capacity(s))
      /\ DramEva \in Nat /\ DramEva >= DmemWords
  BY BinariesAssumption
<1>2. s \in ProgramHeader
  BY <1>1
<1>3. p \in Nat /\ m \in Nat /\ s.data \in Seq(Nat)
  BY <1>2 DEF ProgramHeader
<1>4. n \in Nat
  BY <1>3
<1>5. Place(Origin, p).epa + m <= Capacity(s)
  BY <1>1 DEF Loadable
<1>6. /\ p >= DramEva => (p - DramEva) + m <= DramWords
      /\ ~(p >= DramEva) => p + m <= DmemWords
  BY <1>5 DEF Place, Capacity, is_dram
<1> HIDE DEF p, m, n
<1>7. ASSUME NEW t \in Tiles, NEW k \in 0 .. m - 1
      PROVE  IF p >= DramEva
             THEN /\ Place(t, p + k) = [node |-> Cache, epa |-> (p + k) - DramEva]
                  /\ (p + k) - DramEva \in 0 .. DramWords - 1
             ELSE /\ Place(t, p + k) = [node |-> t, epa |-> p + k]
                  /\ p + k \in 0 .. DmemWords - 1
  <2>1. k \in Nat /\ k <= m - 1 /\ DramWords \in Nat /\ DmemWords \in Nat
    BY <1>3, MemoryAssumption
  <2>2. CASE p >= DramEva
    <3>1. p + k >= DramEva /\ (p + k) - DramEva \in 0 .. DramWords - 1
      BY <1>1, <1>3, <1>6, <2>1, <2>2
    <3> QED
      BY <2>2, <3>1 DEF Place, is_dram
  <2>3. CASE ~(p >= DramEva)
    <3>1. ~(p + k >= DramEva) /\ p + k \in 0 .. DmemWords - 1
      BY <1>1, <1>3, <1>6, <2>1, <2>3
    <3> QED
      BY <2>3, <3>1 DEF Place, is_dram
  <2> QED
    BY <2>2, <2>3
<1>8. n \in 0 .. m
  BY <1>1, <1>3, <1>4 DEF n, m
<1>9. \A t \in Tiles : \A k \in 0 .. m - 1 :
        IF is_dram(p)
        THEN /\ Place(t, p + k) = [node |-> Cache, epa |-> (p + k) - DramEva]
             /\ (p + k) - DramEva \in 0 .. DramWords - 1
        ELSE /\ Place(t, p + k) = [node |-> t, epa |-> p + k]
             /\ p + k \in 0 .. DmemWords - 1
  <2> SUFFICES ASSUME NEW t \in Tiles, NEW k \in 0 .. m - 1
               PROVE  IF is_dram(p)
                      THEN /\ Place(t, p + k) = [node |-> Cache, epa |-> (p + k) - DramEva]
                           /\ (p + k) - DramEva \in 0 .. DramWords - 1
                      ELSE /\ Place(t, p + k) = [node |-> t, epa |-> p + k]
                           /\ p + k \in 0 .. DmemWords - 1
    OBVIOUS
  <2> QED
    BY <1>7 DEF is_dram
<1> QED
  BY <1>1, <1>3, <1>8, <1>9, Zenon DEF p, m, n

\* Steps that do not touch it leave a segment at its place.
LEMMA SegmentKept ==
  ASSUME NEW t \in Tiles, image \in Binaries, image' = image, mem'[t] = mem[t],
         NEW i \in DOMAIN image.segments, Loadable(image.segments[i]), HasSegment(t, i),
         is_dram(image.segments[i].paddr) /\ image.segments[i].load =>
           \A k \in 0 .. image.segments[i].memsz - 1 :
             mem'[Cache][(image.segments[i].paddr + k) - DramEva]
               = mem[Cache][(image.segments[i].paddr + k) - DramEva]
  PROVE  HasSegment(t, i)'
<1> DEFINE s == image.segments[i]
<1> SUFFICES ASSUME s.load PROVE HoldsSegment(t, s, image)'
  BY DEF HasSegment
<1>1. \A k \in 0 .. s.memsz - 1 :
         mem'[Place(t, s.paddr + k).node][Place(t, s.paddr + k).epa]
           = mem[Place(t, s.paddr + k).node][Place(t, s.paddr + k).epa]
  <2> TAKE k \in 0 .. s.memsz - 1
  <2>1. IF is_dram(s.paddr)
        THEN Place(t, s.paddr + k) = [node |-> Cache, epa |-> (s.paddr + k) - DramEva]
        ELSE Place(t, s.paddr + k) = [node |-> t, epa |-> s.paddr + k]
    BY SegmentPlace
  <2> QED
    BY <2>1
<1>2. HoldsSegment(t, s, image)
  BY DEF HasSegment
<1>3. ASSUME NEW k \in 0 .. s.memsz - 1, s.paddr + k \notin SymbolWords(image)
      PROVE  mem'[Place(t, s.paddr + k).node][Place(t, s.paddr + k).epa]
               = IF k < Len(s.data) THEN s.data[k + 1] ELSE 0
  BY <1>1, <1>2, <1>3 DEF HoldsSegment
<1>4. HoldsSegment(t, s, image)' <=>
        \A k \in 0 .. s.memsz - 1 :
          s.paddr + k \in SymbolWords(image)
            \/ mem'[Place(t, s.paddr + k).node][Place(t, s.paddr + k).epa]
                 = IF k < Len(s.data) THEN s.data[k + 1] ELSE 0
  BY DEF HoldsSegment, Place, is_dram, SymbolWords, symbol_to_eva, TablesWith
<1> QED
  BY <1>3, <1>4

LEMMA ImageKept ==
  ASSUME NEW t \in Tiles, image \in Binaries, image' = image, mem'[t] = mem[t], SeesItsImage(t),
         \A i \in DOMAIN image.segments : Loadable(image.segments[i]),
         mem[Cache][EPA_TAGS] = 1 => mem'[Cache][EPA_TAGS] = 1
  PROVE  SeesItsImage(t)'
<1>1. HasTileSegments(t)'
  <2> SUFFICES ASSUME NEW i \in DOMAIN image.segments, ~is_dram(image.segments[i].paddr)
               PROVE  HasSegment(t, i)'
    BY DEF HasTileSegments, is_dram
  <2>1. HasSegment(t, i)
    BY DEF SeesItsImage, HasTileSegments
  <2> QED
    BY <2>1, SegmentKept
<1>2. HoldsSymbols(t, image)'
  BY DEF SeesItsImage, HoldsSymbols, symbol_to_eva, TablesWith, ConfigValue, PlaceValue
<1>3. HoldsIcache(t, image)'
  BY DEF SeesItsImage, HoldsIcache, Text, ExecSegments, EPA_ICACHE
<1>4. OriginSet(t)'
  BY DEF SeesItsImage, OriginSet, EPA_ORIGIN_X, EPA_ORIGIN_Y
<1>5. (mem[t][EPA_DRAM_ENABLE] = 0 => mem[Cache][EPA_TAGS] = 1)'
  BY DEF SeesItsImage, EPA_DRAM_ENABLE, EPA_TAGS
<1> QED
  BY <1>1, <1>2, <1>3, <1>4, <1>5 DEF SeesItsImage

\* Sending a list, or as much of it as can be sent.
LEMMA PartSent ==
  ASSUME NEW W \in Seq(Packet), Post(W) \/ PostSome(W)
  PROVE  \E P \in Seq(Packet) : Post(P) /\ Elems(P) \subseteq Elems(W)
<1>1. CASE Post(W)
  BY <1>1
<1>2. CASE PostSome(W)
  <2>1. PICK n \in 0 .. Len(W) - 1 : Post(SubSeq(W, 1, n))
    BY <1>2 DEF PostSome
  <2>2. Len(W) \in Nat
    OBVIOUS
  <2>3. n \in 0 .. Len(W)
    BY <2>2
  <2> QED
    BY <2>1, <2>3, ElemsOfPrefix
<1> QED
  BY <1>1, <1>2

\* Lists that start no tile: what goes to a cache finds no tile that starts and stays running.
Startless(W) ==
  /\ W \in Seq(Packet)
  /\ \A t \in Tiles : Freezing(W, t)
  /\ \A w \in Elems(W) : w.to = Cache /\ w.epa = EPA_TAGS => w.val = 1
  /\ (\A w \in Elems(W) : w.to # Cache) \/ (\A t \in Tiles : Starting(t) => Last(t) = 1)

\* What changes slowly: the program that was started, and where.
SessionKept ==
  /\ UNCHANGED <<runs, image, mesh>> /\ epoch' = epoch /\ mishaps \subseteq mishaps'
  /\ Opening' => Opening

LEMMA PostIsBehind ==
  ASSUME MemInv, NEW W \in Seq(Packet), Post(W), mem' = mem, NEW n \in Nodes
  PROVE  /\ \A i \in DOMAIN posted'[n] : \/ i \in DOMAIN posted[n] /\ posted'[n][i] = posted[n][i]
                                         \/ posted'[n][i] \in SentTo(W, n) /\ i \notin DOMAIN posted[n]
         /\ SentTo(W, n) = {} => posted'[n] = posted[n]
         /\ posted[n] # <<>> => posted'[n] # <<>> /\ posted'[n][1] = posted[n][1]
         /\ posted'[n] # <<>> => 1 \in DOMAIN posted'[n]
<1> DEFINE q == posted[n]
           p == Sent(W, n)
           S == PacketTo(n)
<1>1. posted'[n] = q \o p /\ q \in Seq(S) /\ p \in Seq(S) /\ Elems(p) = SentTo(W, n)
  BY PostedParts
<1> HIDE DEF p, S
<1>2. /\ DOMAIN q = 1 .. Len(q) /\ DOMAIN p = 1 .. Len(p) /\ Len(q) \in Nat /\ Len(p) \in Nat
      /\ posted'[n] \in Seq(S) /\ DOMAIN posted'[n] = 1 .. Len(q) + Len(p)
      /\ \A i \in 1 .. Len(q) : posted'[n][i] = q[i]
      /\ \A i \in 1 .. Len(p) : posted'[n][Len(q) + i] = p[i]
  <2> HIDE DEF q
  <2> QED
    BY <1>1, Concatenation
<1>3. ASSUME NEW i \in DOMAIN posted'[n]
      PROVE  \/ i \in DOMAIN q /\ posted'[n][i] = q[i]
             \/ posted'[n][i] \in Elems(p) /\ i \notin DOMAIN q
  <2>1. CASE i \in 1 .. Len(q)
    BY <1>2, <2>1
  <2>2. CASE ~(i \in 1 .. Len(q))
    <3>1. i - Len(q) \in 1 .. Len(p) /\ i = Len(q) + (i - Len(q))
      BY <1>2, <2>2
    <3> QED
      BY <1>2, <2>2, <3>1 DEF Elems
  <2> QED
    BY <2>1, <2>2
<1>4. SentTo(W, n) = {} => posted'[n] = q
  <2> HAVE SentTo(W, n) = {}
  <2>1. DOMAIN p = {}
    BY <1>1 DEF Elems
  <2>2. Len(p) = 0
    BY <1>2, <2>1
  <2>3. p = <<>>
    BY <1>1, <2>2
  <2> HIDE DEF q
  <2> QED
    BY <1>1, <2>3
<1>5. q # <<>> => posted'[n] # <<>> /\ posted'[n][1] = q[1]
  <2> HIDE DEF q
  <2> HAVE q # <<>>
  <2>1. 1 \in 1 .. Len(q)
    BY <1>1, <1>2
  <2>2. 1 \in DOMAIN posted'[n]
    BY <1>2, <2>1
  <2> QED
    BY <1>2, <2>1, <2>2
<1>6. posted'[n] # <<>> => 1 \in DOMAIN posted'[n]
  BY <1>2
<1> QED
  BY <1>1, <1>3, <1>4, <1>5, <1>6

LEMMA SendKeepsStart ==
  ASSUME MemInv, StartInv, NEW W, Startless(W), Post(W) \/ PostSome(W), mem' = mem, SessionKept
  PROVE  StartInv'
<1>1. PICK P \in Seq(Packet) : Post(P) /\ Elems(P) \subseteq Elems(W)
  BY PartSent DEF Startless
<1>2. /\ \A t \in Tiles : Freezing(P, t)
      /\ \A w \in Elems(P) : w.to = Cache /\ w.epa = EPA_TAGS => w.val = 1
      /\ (\A w \in Elems(P) : w.to # Cache) \/ (\A t \in Tiles : Starting(t) => Last(t) = 1)
  BY <1>1 DEF Startless, Freezing
<1>3. ASSUME NEW t \in Tiles, NEW i \in DOMAIN posted'[t], Unfreezes(posted'[t][i])
      PROVE  i \in DOMAIN posted[t] /\ posted'[t][i] = posted[t][i] /\ i = 1
  <2>1. t \in Nodes
    BY Addresses
  <2>2. posted'[t][i] \notin SentTo(P, t)
    BY <1>2, <1>3 DEF Freezing, SentTo, Unfreezes
  <2>3. i \in DOMAIN posted[t] /\ posted'[t][i] = posted[t][i]
    BY <1>1, <2>1, <2>2, PostIsBehind
  <2>4. i \in Nat \ {0}
    BY <2>1, <2>3 DEF MemInv
  <2>5. ~(i > 1)
    BY <1>3, <2>3 DEF StartInv, FirstInv
  <2> QED
    BY <2>3, <2>4, <2>5
<1>4. FirstInv'
  BY <1>3 DEF FirstInv, Unfreezes, IsFreeze, EPA_FREEZE
<1>5. ASSUME NEW t \in Tiles, Starting(t)' PROVE Starting(t)
  <2>1. posted'[t] # <<>> /\ Unfreezes(posted'[t][1])
    BY <1>5 DEF Starting, Unfreezes, IsFreeze, EPA_FREEZE
  <2>2. 1 \in DOMAIN posted'[t]
    BY <1>1, <2>1, PostIsBehind, Addresses
  <2>3. 1 \in DOMAIN posted[t] /\ posted'[t][1] = posted[t][1]
    BY <1>3, <2>1, <2>2
  <2> QED
    BY <2>1, <2>3 DEF Starting
<1>6. StartingInv'
  <2> SUFFICES ASSUME NEW t \in Tiles, Starting(t)'
               PROVE  /\ Frozen(t)' /\ t \in Elems(mesh)' /\ ~Opening'
                      /\ ImageFits' /\ SeesItsImage(t)'
                      /\ Last(t)' # 1 => /\ posted'[Cache] = <<>>
                                         /\ HasText(t)'
                                         /\ Unstarted' => HasSegments(t)'
    BY DEF StartingInv
  <2>1. /\ Starting(t) /\ Frozen(t) /\ t \in Elems(mesh) /\ ~Opening
        /\ ImageFits /\ SeesItsImage(t)
        /\ Last(t) # 1 => posted[Cache] = <<>> /\ HasText(t) /\ (Unstarted => HasSegments(t))
    BY <1>5 DEF StartInv, StartingInv
  <2>2. Frozen(t)' /\ t \in Elems(mesh)' /\ ~Opening' /\ image' = image
    BY <2>1 DEF Frozen, EPA_FREEZE, SessionKept, Elems
  <2>3. ImageFits'
    BY <2>1, <2>2 DEF ImageFits, Loadable, Capacity, is_dram
  <2>4. SeesItsImage(t)'
    BY <2>1, <2>2, ImageKept DEF ImageFits
  <2>5. \A i \in DOMAIN image.segments : HasSegment(t, i) => HasSegment(t, i)'
    BY <2>1, <2>2, SegmentKept DEF ImageFits
  <2>6. ASSUME Last(t)' # 1
        PROVE  posted'[Cache] = <<>> /\ HasText(t)' /\ (Unstarted' => HasSegments(t)')
    <3>1. Last(t) # 1
      BY <1>1, <1>2, <2>6, LastAfterPost
    <3>2. SentTo(P, Cache) = {}
      BY <1>2, <2>1, <3>1 DEF SentTo
    <3>3. posted'[Cache] = <<>>
      BY <1>1, <2>1, <3>1, <3>2, PostIsBehind, Addresses
    <3>4. HasText(t)'
      BY <2>1, <2>2, <2>5, <3>1 DEF HasText
    <3>5. Unstarted' => Unstarted
      BY DEF Unstarted, SessionKept
    <3>6. Unstarted' => HasSegments(t)'
      BY <2>1, <2>2, <2>5, <3>1, <3>5 DEF HasSegments
    <3> QED
      BY <3>3, <3>4, <3>6
  <2> QED
    BY <2>1, <2>2, <2>3, <2>4, <2>6
<1>7. TagsInv'
  <2>1. \A i \in DOMAIN posted'[Cache] : posted'[Cache][i].epa = EPA_TAGS => posted'[Cache][i].val = 1
    BY <1>1, <1>2, PostIsBehind, Addresses DEF StartInv, TagsInv, SentTo
  <2> QED
    BY <2>1 DEF TagsInv, EPA_TAGS
<1> QED
  BY <1>4, <1>6, <1>7 DEF StartInv

\* Steps that send nothing.
LEMMA NothingKeepsStart ==
  ASSUME MemInv, FrozenWhileWritten, StartInv, UNCHANGED <<posted, mem, runs, image>>,
         mishaps \subseteq mishaps',
         SessionKept \/ (\A t \in Tiles : ~Starting(t))
  PROVE  StartInv'
<1>1. FirstInv' /\ TagsInv'
  BY DEF StartInv, FirstInv, TagsInv, Unfreezes, IsFreeze, EPA_FREEZE, EPA_TAGS
<1>3. \A t \in Tiles : Starting(t)' = Starting(t)
  BY DEF Starting, Unfreezes, IsFreeze, EPA_FREEZE
<1>4. ASSUME NEW t \in Tiles, Starting(t)
      PROVE  /\ Frozen(t)' /\ t \in Elems(mesh)' /\ ~Opening'
             /\ ImageFits' /\ SeesItsImage(t)'
             /\ Last(t)' # 1 => /\ posted'[Cache] = <<>>
                                /\ HasText(t)'
                                /\ Unstarted' => HasSegments(t)'
  <2>1. /\ Frozen(t) /\ t \in Elems(mesh) /\ ~Opening
        /\ ImageFits /\ SeesItsImage(t)
        /\ Last(t) # 1 => posted[Cache] = <<>> /\ HasText(t) /\ (Unstarted => HasSegments(t))
    BY <1>4 DEF StartInv, StartingInv
  <2>2. SessionKept
    BY <1>4
  <2>3. Frozen(t)' /\ t \in Elems(mesh)' /\ ~Opening'
    BY <2>1, <2>2 DEF Frozen, EPA_FREEZE, SessionKept, Elems
  <2>4. ImageFits'
    BY <2>1, <2>2 DEF ImageFits, Loadable, Capacity, is_dram
  <2>5. SeesItsImage(t)'
    BY <2>1, <2>2, ImageKept DEF ImageFits
  <2>6. \A i \in DOMAIN image.segments : HasSegment(t, i) => HasSegment(t, i)'
    BY <2>1, <2>2, SegmentKept DEF ImageFits
  <2>7. HasText(t) => HasText(t)'
    BY <2>6 DEF HasText
  <2>8. HasSegments(t) => HasSegments(t)'
    BY <2>6 DEF HasSegments
  <2>9. Unstarted' => Unstarted
    BY <2>2 DEF Unstarted, SessionKept
  <2>10. Last(t)' = Last(t)
    BY NothingSent
  <2> QED
    BY <2>1, <2>3, <2>4, <2>5, <2>7, <2>8, <2>9, <2>10
<1>5. StartingInv'
  BY <1>3, <1>4 DEF StartingInv
<1> QED
  BY <1>1, <1>5 DEF StartInv

\* A write that arrives.
LEMMA DeliverKeepsStart ==
  ASSUME MemInv, LinkInv, StartInv, NEW n \in Nodes, Deliver(n), UNCHANGED <<image, mesh>>
  PROVE  StartInv'
<1> DEFINE q == posted[n]
           w == Head(q)
           S == PacketTo(n)
<1>1. /\ q \in Seq(S) /\ q # <<>>
      /\ posted' = [posted EXCEPT ![n] = Tail(q)]
      /\ mem' = [mem EXCEPT ![n][w.epa] = w.val]
      /\ UNCHANGED <<pc, why, epoch, mishaps>>
  BY DEF Deliver, MemInv, drainVars, historyVars
<1>2. /\ Len(q) \in Nat \ {0} /\ DOMAIN q = 1 .. Len(q) /\ DOMAIN Tail(q) = 1 .. Len(q) - 1
      /\ w = q[1] /\ w \in S
      /\ \A i \in 1 .. Len(q) - 1 : Tail(q)[i] = q[i + 1]
  <2> HIDE DEF q, S
  <2> QED
    BY <1>1
<1>3. /\ posted'[n] = Tail(q) /\ mem'[n] = [mem[n] EXCEPT ![w.epa] = w.val]
      /\ DOMAIN mem[n] = Epas(n)
  BY <1>1 DEF MemInv
<1>4. \A k \in Nodes : k # n => posted'[k] = posted[k] /\ mem'[k] = mem[k]
  BY <1>1 DEF MemInv
<1>5. \A i \in DOMAIN Tail(q) : i + 1 \in DOMAIN q /\ i + 1 > 1 /\ Tail(q)[i] = q[i + 1]
  BY <1>2
<1>6. n \in Tiles => \A i \in DOMAIN posted'[n] : ~Unfreezes(posted'[n][i])
  BY <1>3, <1>5 DEF StartInv, FirstInv
<1>7. FirstInv'
  <2> SUFFICES ASSUME NEW t \in Tiles, NEW i \in DOMAIN posted'[t], i > 1
               PROVE  ~Unfreezes(posted'[t][i])
    BY DEF FirstInv, Unfreezes, IsFreeze, EPA_FREEZE
  <2>1. CASE t = n
    BY <1>6, <2>1
  <2>2. CASE t # n
    BY <1>4, <2>2, Addresses DEF StartInv, FirstInv
  <2> QED
    BY <2>1, <2>2
<1>8. TagsInv'
  <2>1. \A i \in DOMAIN posted'[Cache] : posted'[Cache][i].epa = EPA_TAGS => posted'[Cache][i].val = 1
    <3>1. CASE n = Cache
      <4>1. \A i \in DOMAIN q : q[i].epa = EPA_TAGS => q[i].val = 1
        BY <3>1 DEF StartInv, TagsInv
      <4>2. posted'[Cache] = Tail(q)
        BY <1>3, <3>1
      <4>3. \A i \in DOMAIN Tail(q) : Tail(q)[i].epa = EPA_TAGS => Tail(q)[i].val = 1
        BY <1>5, <4>1
      <4> QED
        BY <4>2, <4>3
    <3>2. CASE n # Cache
      BY <1>4, <3>2, Addresses DEF StartInv, TagsInv
    <3> QED
      BY <3>1, <3>2
  <2> QED
    BY <2>1 DEF TagsInv, EPA_TAGS
<1>9. Unstarted' => Unstarted
  <2> SUFFICES ASSUME Unstarted', NEW t \in Tiles PROVE runs[t] < epoch
    BY <1>1 DEF Unstarted
  <2>1. runs'[t] < epoch
    BY <1>1 DEF Unstarted
  <2>2. runs' = runs \/ runs' = [runs EXCEPT ![n] = epoch]
    BY DEF Deliver
  <2>3. t \in DOMAIN runs /\ epoch \in Nat
    BY DEF LinkInv, RunsInv, EventsInv
  <2>4. t = n /\ runs' = [runs EXCEPT ![n] = epoch] => runs'[t] = epoch
    BY <2>3
  <2> QED
    BY <2>1, <2>2, <2>3, <2>4
<1>10. ASSUME NEW t \in Tiles, Starting(t)'
       PROVE  t # n /\ Starting(t) /\ mem'[t] = mem[t]
  <2>1. posted'[t] # <<>> /\ Unfreezes(posted'[t][1])
    BY <1>10 DEF Starting, Unfreezes, IsFreeze, EPA_FREEZE
  <2>2. t # n
    <3> SUFFICES ASSUME t = n PROVE FALSE
      OBVIOUS
    <3>1. Tail(q) # <<>>
      BY <1>3, <2>1
    <3>2. 1 \in DOMAIN Tail(q)
      <4> HIDE DEF q
      <4> QED
        BY <1>1, <1>2, <3>1
    <3> QED
      BY <1>3, <1>6, <2>1, <3>2
  <2> QED
    BY <1>4, <2>1, <2>2, Addresses DEF Starting
<1>11. StartingInv'
  <2> SUFFICES ASSUME NEW t \in Tiles, Starting(t)'
               PROVE  /\ Frozen(t)' /\ t \in Elems(mesh)' /\ ~Opening'
                      /\ ImageFits' /\ SeesItsImage(t)'
                      /\ Last(t)' # 1 => /\ posted'[Cache] = <<>>
                                         /\ HasText(t)'
                                         /\ Unstarted' => HasSegments(t)'
    BY DEF StartingInv
  <2>1. t # n /\ Starting(t) /\ mem'[t] = mem[t]
    BY <1>10
  <2>2. /\ Frozen(t) /\ t \in Elems(mesh) /\ ~Opening
        /\ ImageFits /\ SeesItsImage(t)
        /\ Last(t) # 1 => posted[Cache] = <<>> /\ HasText(t) /\ (Unstarted => HasSegments(t))
    BY <2>1 DEF StartInv, StartingInv
  <2>3. Frozen(t)' /\ t \in Elems(mesh)' /\ ~Opening'
    BY <1>1, <2>1, <2>2 DEF Frozen, EPA_FREEZE, Elems, Opening, DrainPcs
  <2>4. ImageFits'
    BY <2>2 DEF ImageFits, Loadable, Capacity, is_dram
  <2>5. mem[Cache][EPA_TAGS] = 1 => mem'[Cache][EPA_TAGS] = 1
    <3>1. CASE n = Cache
      <4>1. w.epa = EPA_TAGS => w.val = 1
        BY <1>2, <3>1 DEF StartInv, TagsInv
      <4>2. EPA_TAGS \in DOMAIN mem[n]
        BY <1>3, <3>1, Addresses DEF EPA_TAGS, CacheEpas
      <4> HIDE DEF w
      <4> QED
        BY <1>3, <3>1, <4>1, <4>2
    <3>2. CASE n # Cache
      BY <1>4, <3>2, Addresses
    <3> QED
      BY <3>1, <3>2
  <2>6. SeesItsImage(t)'
    BY <2>1, <2>2, <2>5, ImageKept DEF ImageFits
  <2>7. ASSUME Last(t)' # 1
        PROVE  posted'[Cache] = <<>> /\ HasText(t)' /\ (Unstarted' => HasSegments(t)')
    <3>1. Last(t) # 1
      BY <2>7, DeliverEffect
    <3>2. n # Cache
      BY <1>1, <2>2, <3>1
    <3>3. posted'[Cache] = <<>> /\ mem'[Cache] = mem[Cache]
      BY <1>4, <2>2, <3>1, <3>2, Addresses
    <3>4. \A i \in DOMAIN image.segments : HasSegment(t, i) => HasSegment(t, i)'
      BY <2>1, <2>2, <3>3, SegmentKept DEF ImageFits
    <3>5. HasText(t)'
      BY <2>2, <3>1, <3>4 DEF HasText
    <3>6. Unstarted' => HasSegments(t)'
      BY <1>9, <2>2, <3>1, <3>4 DEF HasSegments
    <3> QED
      BY <3>3, <3>5, <3>6
  <2> QED
    BY <2>3, <2>4, <2>6, <2>7
<1> QED
  BY <1>7, <1>8, <1>11 DEF StartInv

\* A program that writes a variable: not its own text, and data only once it was started.
LEMMA StoreKeepsStart ==
  ASSUME MemInv, LinkInv, StartInv, NEW u \in Tiles, Store(u),
         UNCHANGED <<pc, why, epoch, mishaps, image, mesh>>
  PROVE  StartInv'
<1>1. PICK eva \in ProgramData :
         mem' = [mem EXCEPT ![Place(u, eva).node][Place(u, eva).epa] = Junk]
  BY DEF Store
<1>2. posted' = posted /\ runs' = runs /\ ~Frozen(u)
  BY DEF Store
<1> DEFINE m == Place(u, eva).node
           b == Place(u, eva).epa
<1>3. /\ m \in Nodes /\ b \in Epas(m) /\ mem' = [mem EXCEPT ![m][b] = Junk]
      /\ \/ m = u /\ b = eva
         \/ m = Cache /\ b = eva - DramEva /\ eva \in DramEva .. DramEva + DramWords - 1
  BY <1>1, StorePlace
<1> HIDE DEF m, b
<1>4. DramEva \in Nat /\ DmemWords \in Nat /\ DramWords \in Nat
  BY BinariesAssumption, MemoryAssumption
<1>5. DOMAIN mem = Nodes /\ \A k \in Nodes : DOMAIN mem[k] = Epas(k)
  BY DEF MemInv
<1>6. \A t \in Tiles : t # u => mem'[t] = mem[t]
  BY <1>3, <1>5, Addresses
<1>7. \A a : mem'[Cache][a] # mem[Cache][a] => a + DramEva \in ProgramData /\ a < DramWords
  <2> SUFFICES ASSUME NEW a, mem'[Cache][a] # mem[Cache][a]
               PROVE  a + DramEva \in ProgramData /\ a < DramWords
    OBVIOUS
  <2>1. m = Cache
    BY <1>3, <1>5, Addresses
  <2>2. mem'[Cache] = [mem[Cache] EXCEPT ![b] = Junk]
    BY <1>3, <1>5, <2>1, Addresses
  <2>3. a = b
    BY <2>2
  <2>4. eva \in DramEva .. DramEva + DramWords - 1 /\ b = eva - DramEva
    BY <1>3, <2>1, Addresses
  <2> QED
    BY <1>4, <2>3, <2>4
<1>8. FirstInv' /\ TagsInv'
  BY <1>2 DEF StartInv, FirstInv, TagsInv, Unfreezes, IsFreeze, EPA_FREEZE, EPA_TAGS
<1>9. StartingInv'
  <2> SUFFICES ASSUME NEW t \in Tiles, Starting(t)'
               PROVE  /\ Frozen(t)' /\ t \in Elems(mesh)' /\ ~Opening'
                      /\ ImageFits' /\ SeesItsImage(t)'
                      /\ Last(t)' # 1 => /\ posted'[Cache] = <<>>
                                         /\ HasText(t)'
                                         /\ Unstarted' => HasSegments(t)'
    BY DEF StartingInv
  <2>1. Starting(t)
    BY <1>2 DEF Starting, Unfreezes, IsFreeze, EPA_FREEZE
  <2>2. /\ Frozen(t) /\ t \in Elems(mesh) /\ ~Opening
        /\ ImageFits /\ SeesItsImage(t)
        /\ Last(t) # 1 => posted[Cache] = <<>> /\ HasText(t) /\ (Unstarted => HasSegments(t))
    BY <2>1 DEF StartInv, StartingInv
  <2>3. mem'[t] = mem[t]
    BY <1>2, <1>6, <2>2
  <2>4. Frozen(t)' /\ t \in Elems(mesh)' /\ ~Opening'
    BY <2>2, <2>3 DEF Frozen, EPA_FREEZE, Elems, Opening, DrainPcs
  <2>5. ImageFits'
    BY <2>2 DEF ImageFits, Loadable, Capacity, is_dram
  <2>6. mem'[Cache][EPA_TAGS] = mem[Cache][EPA_TAGS]
    BY <1>4, <1>7 DEF EPA_TAGS
  <2>7. SeesItsImage(t)'
    BY <2>2, <2>3, <2>6, ImageKept DEF ImageFits
  <2>8. ASSUME NEW i \in DOMAIN image.segments, image.segments[i].exec, HasSegment(t, i)
        PROVE  HasSegment(t, i)'
    <3> DEFINE s == image.segments[i]
    <3>1. ASSUME s.load, NEW k \in 0 .. s.memsz - 1
          PROVE  mem'[Cache][(s.paddr + k) - DramEva] = mem[Cache][(s.paddr + k) - DramEva]
      <4>1. i \in Loaded(image) \cap ExecSegments(image) /\ image \in Binaries
        BY <2>2, <2>8, <3>1 DEF ImageFits, Loaded, ExecSegments
      <4>2. WordsOf(s) \cap ProgramData = {}
        BY <4>1, LayoutAssumption
      <4>3. s.paddr \in Nat /\ s.memsz \in Nat
        BY <2>2, <3>1, SegmentPlace DEF ImageFits
      <4> HIDE DEF s
      <4>4. s.paddr + k \in WordsOf(s)
        BY <4>3 DEF WordsOf
      <4>5. ((s.paddr + k) - DramEva) + DramEva = s.paddr + k
        BY <1>4, <4>3
      <4> QED
        BY <1>7, <4>2, <4>4, <4>5
    <3> QED
      BY <2>2, <2>3, <2>8, <3>1, SegmentKept DEF ImageFits
  <2>9. HasText(t) => HasText(t)'
    BY <2>8 DEF HasText
  <2>10. ~Unstarted'
    BY <1>2 DEF Unstarted, LinkInv, RunsInv, EventsInv
  <2>11. Last(t)' = Last(t)
    BY StoreEffect
  <2> QED
    BY <1>2, <2>2, <2>4, <2>5, <2>7, <2>9, <2>10, <2>11
<1> QED
  BY <1>8, <1>9 DEF StartInv

-----------------------------------------------------------------------------
(* What the lists of program_init write, and where.                        *)

At(t, eva) == <<Place(t, eva).node, Place(t, eva).epa>>
Touched(W) == {<<w.to, w.epa>> : w \in Elems(W)}

\* Where tiles keep data, and DRAM.
Data == (Tiles \X (0 .. DmemWords - 1)) \cup ({Cache} \X (0 .. DramWords - 1))

\* A step leaves what memory holds, or will, alone except at the places X.
Keeps(X) == \A n \in Nodes : \A a \in Epas(n) : \A v :
              <<n, a>> \notin X /\ Holds(n, a, v) => Holds(n, a, v)'

LEMMA AtIsUnique ==
  ASSUME NEW t \in Tiles, NEW u \in Tiles, NEW e \in Nat, NEW f \in Nat, At(t, e) = At(u, f)
  PROVE  e = f /\ (is_dram(e) \/ t = u)
<1>1. DramEva \in Nat /\ t # Cache /\ u # Cache
  BY BinariesAssumption, Addresses
<1>2. Place(t, e).node = Place(u, f).node /\ Place(t, e).epa = Place(u, f).epa
  BY DEF At
<1>3. CASE is_dram(e) /\ is_dram(f)
  <2>1. e - DramEva = f - DramEva
    BY <1>2, <1>3 DEF Place
  <2> QED
    BY <1>1, <1>3, <2>1
<1>4. CASE ~is_dram(e) /\ ~is_dram(f)
  BY <1>2, <1>4 DEF Place
<1>5. CASE is_dram(e) # is_dram(f)
  BY <1>1, <1>2, <1>5 DEF Place
<1> QED
  BY <1>3, <1>4, <1>5

\* A list of words.
LEMMA EvaWords ==
  ASSUME NEW t \in Tiles, NEW vals \in Seq(Nat), NEW eva \in Nat
  PROVE  /\ \A p \in Touched(EvaWrites(t, eva, vals)) :
              \E e \in eva .. eva + Len(vals) - 1 : p = At(t, e)
         /\ \A k \in 0 .. Len(vals) - 1 :
              Sets(EvaWrites(t, eva, vals), Place(t, eva + k).node, Place(t, eva + k).epa, vals[k + 1])
<1> DEFINE N == Len(vals)
           W == EvaWrites(t, eva, vals)
<1>1. /\ N \in Nat /\ DOMAIN W = 1 .. N
      /\ \A i \in 1 .. N : W[i] = Write(Place(t, eva + i - 1).node, Place(t, eva + i - 1).epa, vals[i])
  BY DEF EvaWrites
<1> HIDE DEF N, W
<1>2. ASSUME NEW w \in Elems(W)
      PROVE  \E i \in 1 .. N : /\ eva + i - 1 \in eva .. eva + N - 1
                               /\ w.to = Place(t, eva + i - 1).node
                               /\ w.epa = Place(t, eva + i - 1).epa
                               /\ w.val = vals[i]
  <2>1. PICK i \in 1 .. N : w = W[i]
    BY <1>1 DEF Elems
  <2>2. w = Write(Place(t, eva + i - 1).node, Place(t, eva + i - 1).epa, vals[i])
    BY <1>1, <2>1
  <2>3. eva + i - 1 \in eva .. eva + N - 1
    BY <1>1
  <2> QED
    BY <2>2, <2>3 DEF Write
<1>3. ASSUME NEW p \in Touched(W) PROVE \E e \in eva .. eva + N - 1 : p = At(t, e)
  <2>1. PICK w \in Elems(W) : p = <<w.to, w.epa>>
    BY DEF Touched
  <2> QED
    BY <1>2, <2>1 DEF At
<1>4. ASSUME NEW k \in 0 .. N - 1
      PROVE  Sets(W, Place(t, eva + k).node, Place(t, eva + k).epa, vals[k + 1])
  <2> DEFINE n == Place(t, eva + k).node
             a == Place(t, eva + k).epa
  <2>1. k + 1 \in 1 .. N /\ eva + (k + 1) - 1 = eva + k /\ eva + k \in Nat /\ k \in Nat
    BY <1>1
  <2>2. W[k + 1] \in Elems(W) /\ W[k + 1] = Write(n, a, vals[k + 1])
    BY <1>1, <2>1 DEF Elems
  <2>3. W[k + 1].to = n /\ W[k + 1].epa = a
    BY <2>2 DEF Write
  <2>4. ASSUME NEW w \in Elems(W), w.to = n, w.epa = a PROVE w.val = vals[k + 1]
    <3>1. PICK i \in 1 .. N : /\ w.to = Place(t, eva + i - 1).node
                              /\ w.epa = Place(t, eva + i - 1).epa
                              /\ w.val = vals[i]
      BY <1>2
    <3>2. eva + i - 1 \in Nat
      BY <1>1
    <3>3. At(t, eva + i - 1) = At(t, eva + k)
      BY <2>4, <3>1 DEF At
    <3>4. eva + i - 1 = eva + k
      BY <2>1, <3>2, <3>3, AtIsUnique
    <3>5. i = k + 1
      BY <1>1, <3>4
    <3> QED
      BY <3>1, <3>5
  <2> QED
    BY <2>2, <2>3, <2>4 DEF Sets
<1> QED
  BY <1>3, <1>4 DEF N, W

\* Sending a list that starts no tile.
LEMMA PostKeeps ==
  ASSUME MemInv, NEW W \in Seq(Packet), Post(W), mem' = mem, \A t \in Tiles : Freezing(W, t)
  PROVE  Keeps(Touched(W))
<1> SUFFICES ASSUME NEW n \in Nodes, NEW a \in Epas(n), NEW v, <<n, a>> \notin Touched(W), Holds(n, a, v)
             PROVE  Holds(n, a, v)'
  BY DEF Keeps
<1>1. Skips(W, n, a)
  BY DEF Skips, Touched
<1> QED
  BY <1>1, PostKeepsHolds

\* The data of a segment, and the zeroes behind it.
\* Where words from lo to below hi of a segment are.
SegmentAt(t, s, lo, hi) == {At(t, s.paddr + k) : k \in lo .. hi - 1}

LEMMA SegmentWords ==
  ASSUME NEW t \in Tiles, NEW b \in Binaries, NEW i \in DOMAIN b.segments,
         NEW s, s = b.segments[i], Loadable(s), s.load
  PROVE  /\ \A k \in 0 .. s.memsz - 1 : s.paddr + k \in Nat /\ At(t, s.paddr + k) \in Data
         /\ Touched(EvaWrites(t, s.paddr, s.data)) \subseteq SegmentAt(t, s, 0, Len(s.data))
         /\ \A k \in 0 .. Len(s.data) - 1 :
              Sets(EvaWrites(t, s.paddr, s.data), Place(t, s.paddr + k).node,
                   Place(t, s.paddr + k).epa, SegmentValue(s, k))
         /\ Touched(ZeroWrites(t, s)) \subseteq SegmentAt(t, s, Len(s.data), s.memsz)
         /\ \A k \in Len(s.data) .. s.memsz - 1 :
              Sets(ZeroWrites(t, s), Place(t, s.paddr + k).node,
                   Place(t, s.paddr + k).epa, SegmentValue(s, k))
<1> DEFINE p == s.paddr
           m == s.memsz
           n == Len(s.data)
<1>1. /\ p \in Nat /\ m \in Nat /\ s.data \in Seq(Nat) /\ n \in 0 .. m /\ DramEva \in Nat
      /\ \A k \in 0 .. m - 1 :
           IF is_dram(p)
           THEN Place(t, p + k) = [node |-> Cache, epa |-> (p + k) - DramEva]
                  /\ (p + k) - DramEva \in 0 .. DramWords - 1
           ELSE Place(t, p + k) = [node |-> t, epa |-> p + k] /\ p + k \in 0 .. DmemWords - 1
  BY SegmentPlace
<1> DEFINE A == EvaWrites(t, s.paddr, s.data)
           B == ZeroWrites(t, s)
           z == Zeros(s)
<1>2. /\ \A q \in Touched(A) : \E e \in p .. p + n - 1 : q = At(t, e)
      /\ \A k \in 0 .. n - 1 : Sets(A, Place(t, p + k).node, Place(t, p + k).epa, s.data[k + 1])
  BY <1>1, EvaWords
<1>3. z \in Seq(Nat) /\ Len(z) = m - n /\ \A k \in 1 .. m - n : z[k] = 0
  <2> DEFINE l == m - n
  <2>1. z = [k \in 1 .. l |-> 0] /\ l \in Nat
    BY <1>1 DEF Zeros
  <2> HIDE DEF l, z
  <2>2. z \in Seq(Nat) /\ Len(z) = l /\ \A k \in 1 .. l : z[k] = 0
    BY <2>1
  <2> QED
    BY <2>2 DEF l
<1>4. B = EvaWrites(t, p + n, z) /\ p + n \in Nat
  BY <1>1 DEF ZeroWrites
<1> HIDE DEF A, B, z, p, m, n
<1>5. /\ \A q \in Touched(B) : \E e \in p + n .. (p + n) + (m - n) - 1 : q = At(t, e)
      /\ \A k \in 0 .. (m - n) - 1 :
           Sets(B, Place(t, (p + n) + k).node, Place(t, (p + n) + k).epa, z[k + 1])
  <2> DEFINE e0 == p + n
             l  == m - n
  <2>1. e0 \in Nat /\ z \in Seq(Nat) /\ Len(z) = l /\ B = EvaWrites(t, e0, z)
    BY <1>3, <1>4
  <2> HIDE DEF e0, l
  <2>2. /\ \A q \in Touched(EvaWrites(t, e0, z)) : \E e \in e0 .. e0 + Len(z) - 1 : q = At(t, e)
        /\ \A k \in 0 .. Len(z) - 1 :
             Sets(EvaWrites(t, e0, z), Place(t, e0 + k).node, Place(t, e0 + k).epa, z[k + 1])
    BY <2>1, EvaWords
  <2>3. /\ \A q \in Touched(B) : \E e \in e0 .. e0 + l - 1 : q = At(t, e)
        /\ \A k \in 0 .. l - 1 : Sets(B, Place(t, e0 + k).node, Place(t, e0 + k).epa, z[k + 1])
    BY <2>1, <2>2
  <2> QED
    BY <2>3 DEF e0, l
<1>6. ASSUME NEW k \in 0 .. m - 1 PROVE p + k \in Nat /\ At(t, p + k) \in Data
  <2>1. p + k \in Nat
    BY <1>1
  <2>2. CASE is_dram(p)
    <3>1. /\ Place(t, p + k) = [node |-> Cache, epa |-> (p + k) - DramEva]
          /\ (p + k) - DramEva \in 0 .. DramWords - 1
      BY <1>1, <2>2
    <3> QED
      BY <2>1, <3>1 DEF At, Data
  <2>3. CASE ~is_dram(p)
    <3>1. Place(t, p + k) = [node |-> t, epa |-> p + k] /\ p + k \in 0 .. DmemWords - 1
      BY <1>1, <2>3
    <3> QED
      BY <2>1, <3>1 DEF At, Data
  <2> QED
    BY <2>2, <2>3
<1>7. ASSUME NEW q \in Touched(A) PROVE \E k \in 0 .. n - 1 : q = At(t, p + k)
  <2>1. PICK e \in p .. p + n - 1 : q = At(t, e)
    BY <1>2
  <2>2. e - p \in 0 .. n - 1 /\ p + (e - p) = e
    BY <1>1
  <2> QED
    BY <2>1, <2>2
<1>8. ASSUME NEW k \in 0 .. n - 1
      PROVE  Sets(A, Place(t, p + k).node, Place(t, p + k).epa, SegmentValue(s, k))
  <2>1. SegmentValue(s, k) = s.data[k + 1]
    BY <1>1 DEF SegmentValue, n
  <2> QED
    BY <1>2, <2>1
<1>9. ASSUME NEW q \in Touched(B) PROVE \E k \in n .. m - 1 : q = At(t, p + k)
  <2>1. PICK e \in p + n .. (p + n) + (m - n) - 1 : q = At(t, e)
    BY <1>5
  <2>2. e - p \in n .. m - 1 /\ p + (e - p) = e
    BY <1>1
  <2> QED
    BY <2>1, <2>2
<1>10. ASSUME NEW k \in n .. m - 1
       PROVE  Sets(B, Place(t, p + k).node, Place(t, p + k).epa, SegmentValue(s, k))
  <2>1. SegmentValue(s, k) = 0
    BY <1>1 DEF SegmentValue, n
  <2>2. k - n \in 0 .. (m - n) - 1 /\ (p + n) + (k - n) = p + k /\ (k - n) + 1 \in 1 .. m - n
    BY <1>1
  <2> QED
    BY <1>3, <1>5, <2>1, <2>2
<1> QED
  <2>1. /\ Touched(A) \subseteq SegmentAt(t, s, 0, n)
        /\ Touched(B) \subseteq SegmentAt(t, s, n, m)
    BY <1>7, <1>9 DEF SegmentAt, p
  <2> QED
    BY <2>1, <1>6, <1>8, <1>10 DEF A, B, p, m, n

\* A symbol.
LEMMA SymbolPlace ==
  ASSUME NEW b \in Binaries, NEW name \in TileSymbols, HasSymbol(b, name)
  PROVE  symbol_to_eva(b, name) \in 0 .. DmemWords - 1
<1> DEFINE T == TablesWith(b, name)
           first == CHOOSE i \in T : \A j \in T : i <= j
<1>1. T # {} /\ T \subseteq DOMAIN b.sections
  BY DEF HasSymbol, TablesWith
<1>2. T \subseteq Nat
  BY <1>1, SymbolsAssumption
<1>3. \E i \in T : \A j \in T : i <= j
  <2> HIDE DEF T
  <2> QED
    BY <1>1, <1>2, Least
<1>4. first \in T
  BY <1>3
<1>5. symbol_to_eva(b, name) = b.sections[first].symbols[name]
  BY DEF symbol_to_eva
<1>6. first \in DOMAIN b.sections /\ name \in DOMAIN b.sections[first].symbols
  BY <1>4 DEF TablesWith
<1> HIDE DEF T, first
<1> QED
  BY <1>5, <1>6, SymbolsAssumption

LEMMA SymbolWord ==
  ASSUME NEW t \in Tiles, bin \in Binaries, NEW name \in TileSymbols, HasSymbol(bin, name),
         NEW val \in Nat, NEW W, W = SymbolWrite(t, name, val)
  PROVE  /\ <<t, symbol_to_eva(bin, name)>> \in Data
         /\ \A p \in Touched(W) : p = <<t, symbol_to_eva(bin, name)>>
         /\ Sets(W, t, symbol_to_eva(bin, name), val)
         /\ W # <<>>
<1> DEFINE e == symbol_to_eva(bin, name)
           vals == <<val>>
<1>1. e \in 0 .. DmemWords - 1
  BY SymbolPlace
<1>2. W = EvaWrites(t, e, vals)
  BY DEF SymbolWrite
<1> HIDE DEF e
<1>3. vals \in Seq(Nat) /\ Len(vals) = 1 /\ vals[1] = val
  OBVIOUS
<1> HIDE DEF vals
<1>4. e \in Nat /\ ~is_dram(e)
  BY <1>1, BinariesAssumption, MemoryAssumption DEF is_dram
<1>5. Place(t, e) = [node |-> t, epa |-> e] /\ e + 0 = e /\ e + 1 - 1 = e /\ 0 + 1 = 1
  BY <1>4 DEF Place
<1> DEFINE l == Len(vals)
<1>6. /\ \A p \in Touched(W) : \E f \in e .. e + l - 1 : p = At(t, f)
      /\ \A k \in 0 .. l - 1 : Sets(W, Place(t, e + k).node, Place(t, e + k).epa, vals[k + 1])
  <2>1. vals \in Seq(Nat) /\ e \in Nat
    BY <1>3, <1>4
  <2> QED
    BY <1>2, <2>1, EvaWords
<1>10. l = 1
  BY <1>3
<1> HIDE DEF l
<1>7. \A p \in Touched(W) : p = <<t, e>>
  <2> TAKE p \in Touched(W)
  <2>1. PICK f \in e .. e + l - 1 : p = At(t, f)
    BY <1>6
  <2>2. f = e
    BY <1>4, <1>10, <2>1
  <2> QED
    BY <1>5, <2>1, <2>2 DEF At
<1>8. Sets(W, t, e, val)
  <2>1. 0 \in 0 .. l - 1
    BY <1>10
  <2>2. Sets(W, Place(t, e + 0).node, Place(t, e + 0).epa, vals[0 + 1])
    BY <1>6, <2>1
  <2> QED
    BY <1>3, <1>5, <2>2
<1>9. W # <<>>
  BY <1>8 DEF Sets, Elems
<1> QED
  BY <1>1, <1>7, <1>8, <1>9 DEF e, Data

\* What fits of the text.
LEMMA IcacheWord ==
  ASSUME NEW t \in Tiles, NEW b \in Binaries, b.elf
  PROVE  /\ \A p \in Touched(IcacheWrites(t, b)) : p[1] = t /\ p[2] \in Nat /\ p[2] >= EPA_ICACHE
         /\ \A k \in 0 .. IcacheWords - 1 : k < Len(Text(b)) =>
              Sets(IcacheWrites(t, b), t, EPA_ICACHE + k, Text(b)[k + 1])
<1> DEFINE X == ExecSegments(b)
           last == CHOOSE i \in X : \A j \in X : j <= i
           N == Len(b.segments)
<1>1. b.segments \in Seq(ProgramHeader) /\ X # {}
  BY BinariesAssumption
<1>2. N \in Nat /\ X \subseteq 1 .. N
  BY <1>1 DEF ExecSegments
<1>3. last \in X
  <2>1. \E i \in X : \A j \in X : j <= i
    <3> HIDE DEF X, N
    <3> QED
      BY <1>1, <1>2, Greatest
  <2> QED
    BY <2>1
<1>4. Text(b) = b.segments[last].data
  BY DEF Text
<1> HIDE DEF last
<1>5. b.segments[last] \in ProgramHeader
  BY <1>1, <1>2, <1>3
<1>6. Text(b) \in Seq(Nat)
  BY <1>4, <1>5 DEF ProgramHeader
<1> DEFINE x == Text(b)
           k == IF Len(x) < IcacheWords THEN Len(x) ELSE IcacheWords
           c == IcacheText(b)
           W == IcacheWrites(t, b)
<1>7. x \in Seq(Nat) /\ k \in 0 .. Len(x) /\ k <= IcacheWords /\ Len(x) \in Nat /\ IcacheWords \in Nat
  BY <1>6, MemoryAssumption
<1>8. c = SubSeq(x, 1, k)
  BY DEF IcacheText
<1>9. W = [i \in 1 .. Len(c) |-> Write(t, EPA_ICACHE + i - 1, c[i])]
  BY DEF IcacheWrites
<1>10. \A j \in 0 .. IcacheWords - 1 : j < Len(x) => j + 1 \in 1 .. k
  BY <1>7
<1> HIDE DEF x, k, W, c
<1>11. c \in Seq(Nat) /\ Len(c) = k /\ \A i \in 1 .. k : c[i] = x[i]
  BY <1>7, <1>8
<1>12. DOMAIN W = 1 .. k /\ \A i \in 1 .. k : W[i] = Write(t, EPA_ICACHE + i - 1, c[i])
  BY <1>9, <1>11
<1>13. EPA_ICACHE \in Nat
  BY Addresses
<1>14. \A w \in Elems(W) : \E i \in 1 .. k :
         w.to = t /\ w.epa = EPA_ICACHE + i - 1 /\ w.val = c[i]
  BY <1>12 DEF Elems, Write
<1>15. ASSUME NEW p \in Touched(W) PROVE p[1] = t /\ p[2] \in Nat /\ p[2] >= EPA_ICACHE
  <2>1. PICK w \in Elems(W) : p = <<w.to, w.epa>>
    BY DEF Touched
  <2>2. PICK i \in 1 .. k : w.to = t /\ w.epa = EPA_ICACHE + i - 1
    BY <1>14
  <2>3. i \in Nat /\ i >= 1
    BY <1>7
  <2> QED
    BY <1>13, <2>1, <2>2, <2>3
<1>16. ASSUME NEW j \in 0 .. IcacheWords - 1, j < Len(x)
       PROVE  Sets(W, t, EPA_ICACHE + j, x[j + 1])
  <2>1. j + 1 \in 1 .. k /\ j \in Nat
    BY <1>7, <1>10, <1>16
  <2>2. EPA_ICACHE + (j + 1) - 1 = EPA_ICACHE + j
    BY <1>13, <2>1
  <2>3. W[j + 1] \in Elems(W) /\ W[j + 1].to = t /\ W[j + 1].epa = EPA_ICACHE + j
    BY <1>12, <2>1, <2>2 DEF Elems, Write
  <2>4. ASSUME NEW w \in Elems(W), w.epa = EPA_ICACHE + j PROVE w.val = x[j + 1]
    <3>1. PICK i \in 1 .. k : w.epa = EPA_ICACHE + i - 1 /\ w.val = c[i]
      BY <1>14
    <3>2. i = j + 1
      BY <1>7, <1>13, <2>1, <2>4, <3>1
    <3> QED
      BY <1>11, <3>1, <3>2
  <2> QED
    BY <2>3, <2>4 DEF Sets
<1> QED
  BY <1>15, <1>16 DEF x, W

\* The origin of a group of tiles.
LEMMA OriginWord ==
  ASSUME NEW t \in Tiles, NEW o \in Nat \X Nat
  PROVE  /\ \A p \in Touched(SetOrigin(t, o)) : p = <<t, EPA_ORIGIN_X>> \/ p = <<t, EPA_ORIGIN_Y>>
         /\ Sets(SetOrigin(t, o), t, EPA_ORIGIN_X, o[1])
         /\ Sets(SetOrigin(t, o), t, EPA_ORIGIN_Y, o[2])
<1>1. o[1] \in Nat /\ o[2] \in Nat
  OBVIOUS
<1> DEFINE a == Write(t, EPA_ORIGIN_X, o[1])
           b == Write(t, EPA_ORIGIN_Y, o[2])
<1>2. /\ a \in Packet /\ a.to = t /\ a.epa = EPA_ORIGIN_X /\ a.val = o[1]
      /\ b \in Packet /\ b.to = t /\ b.epa = EPA_ORIGIN_Y /\ b.val = o[2]
  BY <1>1, TileWrite, RegisterAddresses
<1>3. SetOrigin(t, o) = <<a, b>>
  BY DEF SetOrigin
<1>4. EPA_ORIGIN_X # EPA_ORIGIN_Y
  BY MemoryAssumption DEF EPA_ORIGIN_X, EPA_ORIGIN_Y
<1> HIDE DEF a, b
<1>5. Elems(<<a, b>>) = {a, b}
  BY <1>2, ShortLists
<1> QED
  BY <1>2, <1>3, <1>4, <1>5 DEF Touched, Sets

\* The registers of the tiles of a mesh.
LEMMA RegistersWord ==
  ASSUME mesh \in Seq(Tiles), mesh # <<>>,
         NEW lists, lists = [t \in Tiles |-> tile_set_registers(t)]
  PROVE  /\ \A w \in Elems(ForEach(mesh, lists)) : w.to \in Tiles
         /\ \A t \in Elems(mesh) :
              Sets(ForEach(mesh, lists), t, EPA_DRAM_ENABLE, IF dram_enabled THEN 1 ELSE 0)
<1> DEFINE W == ForEach(mesh, lists)
           e == IF dram_enabled THEN 1 ELSE 0
<1>1. mesh[1] \in Nat \X Nat
  <2>1. mesh[1] \in Tiles
    OBVIOUS
  <2>2. \A t \in Tiles : t \in Nat \X Nat
    <3> TAKE t \in Tiles
    <3>1. t[1] \in Nat /\ t[2] \in Nat
      BY TilesAt
    <3>2. t = <<t[1], t[2]>>
      BY DEF Tiles, Array, MeshTiles
    <3> QED
      BY <3>1, <3>2
  <2> QED
    BY <2>1, <2>2
<1>2. ASSUME NEW t \in Tiles
      PROVE  /\ lists[t] \in Seq(Packet)
             /\ \A w \in Elems(lists[t]) : w.to = t /\ (w.epa = EPA_DRAM_ENABLE => w.val = e)
             /\ \E w \in Elems(lists[t]) : w.to = t /\ w.epa = EPA_DRAM_ENABLE
  <2> DEFINE f == Write(t, EPA_FREEZE, 1)
             a == <<f>>
             b == SetOrigin(t, mesh[1])
             d == Write(t, EPA_DRAM_ENABLE, e)
             c == <<d>>
  <2>1. f \in Packet /\ f.to = t /\ f.epa = EPA_FREEZE /\ f.val = 1
    BY TileWrite, Addresses
  <2>2. d \in Packet /\ d.to = t /\ d.epa = EPA_DRAM_ENABLE /\ d.val = e
    BY TileWrite, RegisterAddresses
  <2>3. /\ b \in Seq(Packet)
        /\ \A w \in Elems(b) : w.to = t /\ w.epa # EPA_DRAM_ENABLE
    <3>1. b \in Seq(Packet) /\ \A w \in Elems(b) : w.to = t
      BY <1>1, OriginList
    <3>2. \A w \in Elems(b) : <<w.to, w.epa>> \in Touched(b)
      BY DEF Touched
    <3>3. \A w \in Elems(b) : w.epa = EPA_ORIGIN_X \/ w.epa = EPA_ORIGIN_Y
      <4> HIDE DEF b
      <4>1. \A p \in Touched(b) : p = <<t, EPA_ORIGIN_X>> \/ p = <<t, EPA_ORIGIN_Y>>
        BY <1>1, OriginWord DEF b
      <4> QED
        BY <3>2, <4>1
    <3>4. EPA_DRAM_ENABLE # EPA_ORIGIN_X /\ EPA_DRAM_ENABLE # EPA_ORIGIN_Y
      BY MemoryAssumption DEF EPA_ORIGIN_X, EPA_ORIGIN_Y, EPA_DRAM_ENABLE
    <3> QED
      BY <3>1, <3>3, <3>4
  <2>4. lists[t] = (a \o b) \o c
    BY DEF tile_set_registers, FreezeTile, SetDramEnabled, ClearDramEnabled
  <2> HIDE DEF f, b, d
  <2>5. /\ a \in Seq(Packet) /\ Elems(a) = {f} /\ c \in Seq(Packet) /\ Elems(c) = {d}
    BY <2>1, <2>2, ShortLists
  <2> HIDE DEF a, c
  <2>6. a \o b \in Seq(Packet) /\ Elems(a \o b) = Elems(a) \cup Elems(b)
    BY <2>3, <2>5, ElemsOfConcatenation
  <2> DEFINE ab == a \o b
  <2>7. ab \in Seq(Packet) /\ Elems(ab) = Elems(a) \cup Elems(b) /\ lists[t] = ab \o c
    BY <2>4, <2>6
  <2> HIDE DEF ab
  <2>8. ab \o c \in Seq(Packet) /\ Elems(ab \o c) = Elems(ab) \cup Elems(c)
    BY <2>5, <2>7, ElemsOfConcatenation
  <2>9. lists[t] \in Seq(Packet) /\ Elems(lists[t]) = {f} \cup Elems(b) \cup {d}
    BY <2>5, <2>7, <2>8
  <2> QED
    BY <2>1, <2>2, <2>3, <2>9, RegisterAddresses
<1>3. lists \in [Tiles -> Seq(Packet)]
  BY <1>2
<1>4. \A w : w \in Elems(W) <=> \E t \in Elems(mesh) : w \in Elems(lists[t])
  BY <1>3, ForEachWrites
<1>5. Elems(mesh) \subseteq Tiles
  BY DEF Elems
<1> HIDE DEF W, e
<1>6. \A w \in Elems(W) : w.to \in Tiles /\ (w.epa = EPA_DRAM_ENABLE => w.val = e)
  BY <1>2, <1>4, <1>5
<1>7. \A t \in Elems(mesh) : \E w \in Elems(W) : w.to = t /\ w.epa = EPA_DRAM_ENABLE
  BY <1>2, <1>4, <1>5
<1> QED
  BY <1>6, <1>7 DEF W, e, Sets

\* Freezing, and enabling DRAM: tiles only.
LEMMA TileLists ==
  /\ mesh \in Seq(Tiles) => \A w \in Elems(FreezeWrites) : w.to \in Tiles
  /\ \A v \in Nat : \A lists : lists = [t \in Tiles |-> <<Write(t, EPA_DRAM_ENABLE, v)>>] =>
       \A w \in Elems(ForEach(Array, lists)) : w.to \in Tiles
<1>1. ASSUME mesh \in Seq(Tiles), NEW w \in Elems(FreezeWrites) PROVE w.to \in Tiles
  <2> DEFINE lists == [t \in Tiles |-> FreezeTile(t)]
  <2>1. ASSUME NEW t \in Tiles
        PROVE  /\ lists[t] \in Seq(Packet) /\ Elems(lists[t]) = {Write(t, EPA_FREEZE, 1)}
               /\ Write(t, EPA_FREEZE, 1) \in Packet /\ Write(t, EPA_FREEZE, 1).to = t
    BY TileWrite, ShortLists, Addresses DEF FreezeTile
  <2>2. lists \in [Tiles -> Seq(Packet)]
    BY <2>1
  <2>3. FreezeWrites = ForEach(mesh, lists)
    BY DEF FreezeWrites
  <2> HIDE DEF lists
  <2>4. PICK t \in Elems(mesh) : w \in Elems(lists[t])
    BY <1>1, <2>2, <2>3, ForEachWrites
  <2>5. t \in Tiles
    BY <1>1 DEF Elems
  <2> QED
    BY <2>1, <2>4, <2>5
<1>2. ASSUME NEW v \in Nat, NEW lists, lists = [t \in Tiles |-> <<Write(t, EPA_DRAM_ENABLE, v)>>],
             NEW w \in Elems(ForEach(Array, lists))
      PROVE  w.to \in Tiles
  <2>1. ASSUME NEW t \in Tiles
        PROVE  /\ lists[t] \in Seq(Packet) /\ Elems(lists[t]) = {Write(t, EPA_DRAM_ENABLE, v)}
               /\ Write(t, EPA_DRAM_ENABLE, v) \in Packet /\ Write(t, EPA_DRAM_ENABLE, v).to = t
    BY <1>2, TileWrite, ShortLists, RegisterAddresses
  <2>2. lists \in [Tiles -> Seq(Packet)]
    BY <1>2, <2>1
  <2>3. PICK t \in Elems(Array) : w \in Elems(lists[t])
    BY <1>2, <2>2, ArrayOfTiles, ForEachWrites
  <2>4. t \in Tiles
    BY ArrayOfTiles DEF Elems
  <2> QED
    BY <2>1, <2>3, <2>4
<1> QED
  BY <1>1, <1>2

-----------------------------------------------------------------------------
(* What a step keeps and what it makes true, part by part of ImageInv.     *)

Makes(W) == \A n \in Nodes : \A a \in Epas(n) : \A v : Sets(W, n, a, v) => Holds(n, a, v)'
\* Segments whose words are accounted for.
Wanted(s) == s.load /\ (~is_dram(s.paddr) \/ s.exec \/ Unstarted)

LEMMA SegmentsKept ==
  ASSUME SegmentsHeld, bin \in Binaries, mesh \in Seq(Tiles), UNCHANGED <<bin, mesh>>,
         Unstarted' => Unstarted, NEW X, NEW W, Keeps(X), Makes(W),
         \A i \in DOMAIN bin.segments : \A j \in DOMAIN mesh :
           \A k \in 0 .. bin.segments[i].memsz - 1 :
             SegmentDone(i, j, k)' /\ Wanted(bin.segments[i])
               /\ bin.segments[i].paddr + k \notin PlacedWords(bin) =>
                 /\ Fits(i)
                 /\ \/ /\ SegmentDone(i, j, k)
                       /\ At(mesh[j], bin.segments[i].paddr + k) \notin X
                    \/ \E l \in DOMAIN mesh :
                         /\ SegmentDone(i, l, k)
                         /\ At(mesh[l], bin.segments[i].paddr + k) = At(mesh[j], bin.segments[i].paddr + k)
                         /\ At(mesh[l], bin.segments[i].paddr + k) \notin X
                    \/ Sets(W, Place(mesh[j], bin.segments[i].paddr + k).node,
                            Place(mesh[j], bin.segments[i].paddr + k).epa,
                            SegmentValue(bin.segments[i], k))
  PROVE  SegmentsHeld'
<1>1. ASSUME NEW i \in DOMAIN bin.segments, NEW j \in DOMAIN mesh, NEW s, s = bin.segments[i],
             NEW k \in 0 .. s.memsz - 1, SegmentDone(i, j, k)', Wanted(s),
             s.paddr + k \notin PlacedWords(bin),
             NEW n, n = Place(mesh[j], s.paddr + k).node,
             NEW a, a = Place(mesh[j], s.paddr + k).epa,
             NEW v, v = SegmentValue(s, k)
      PROVE  Holds(n, a, v)'
  <2>1. Fits(i) /\ mesh[j] \in Tiles /\ s.load
    BY <1>1 DEF Wanted
  <2>2. n \in Nodes /\ a \in Epas(n)
    <3>1. IF is_dram(s.paddr)
          THEN /\ Place(mesh[j], s.paddr + k) = [node |-> Cache, epa |-> (s.paddr + k) - DramEva]
               /\ (s.paddr + k) - DramEva \in 0 .. DramWords - 1
          ELSE /\ Place(mesh[j], s.paddr + k) = [node |-> mesh[j], epa |-> s.paddr + k]
               /\ s.paddr + k \in 0 .. DmemWords - 1
      BY <1>1, <2>1, SegmentPlace DEF Fits
    <3>2. CASE is_dram(s.paddr)
      <4>1. n = Cache /\ a \in 0 .. DramWords - 1
        BY <1>1, <3>1, <3>2
      <4> QED
        BY <4>1, Addresses DEF CacheEpas
    <3>3. CASE ~is_dram(s.paddr)
      <4>1. n = mesh[j] /\ a \in 0 .. DmemWords - 1
        BY <1>1, <3>1, <3>3
      <4> QED
        BY <2>1, <4>1, Addresses DEF TileEpas
    <3> QED
      BY <3>2, <3>3
  <2>3. ASSUME NEW l \in DOMAIN mesh, SegmentDone(i, l, k),
               At(mesh[l], s.paddr + k) = At(mesh[j], s.paddr + k), At(mesh[l], s.paddr + k) \notin X
        PROVE  Holds(n, a, v)'
    <3>1. Place(mesh[l], s.paddr + k).node = n /\ Place(mesh[l], s.paddr + k).epa = a
      BY <1>1, <2>3 DEF At
    <3>2. Holds(n, a, v)
      BY <1>1, <2>3, <3>1 DEF SegmentsHeld, Wanted
    <3>3. <<n, a>> \notin X
      BY <1>1, <2>3 DEF At
    <3> QED
      BY <2>2, <3>2, <3>3 DEF Keeps
  <2>4. CASE Sets(W, n, a, v)
    BY <2>2, <2>4 DEF Makes
  <2> QED
    BY <1>1, <2>3, <2>4
<1>2. ASSUME NEW i \in DOMAIN bin.segments, NEW j \in DOMAIN mesh, NEW s, s = bin.segments[i],
             NEW k \in 0 .. s.memsz - 1, SegmentDone(i, j, k)',
             s.load /\ (~is_dram(s.paddr) \/ s.exec \/ Unstarted'),
             s.paddr + k \notin PlacedWords(bin)
      PROVE  Holds(Place(mesh[j], s.paddr + k).node, Place(mesh[j], s.paddr + k).epa,
                   SegmentValue(s, k))'
  <2> DEFINE n == Place(mesh[j], s.paddr + k).node
             a == Place(mesh[j], s.paddr + k).epa
  <2>1. PICK m, b, v : m = n /\ b = a /\ v = SegmentValue(s, k)
    OBVIOUS
  <2>2. Holds(m, b, v)'
    BY <1>1, <1>2, <2>1 DEF Wanted
  <2> QED
    BY <2>1, <2>2, SMTT(20) DEF Holds, Ends, EndsIn, Untouched, Still, Frozen, Unfreezes, IsFreeze,
                      EPA_FREEZE, Place, is_dram, SegmentValue
<1>3. PlacedWords(bin)' = PlacedWords(bin)
  BY DEF PlacedWords, HasSymbol, TablesWith, symbol_to_eva
<1> QED
  BY <1>2, <1>3 DEF SegmentsHeld, is_dram

LEMMA KeepsOne ==
  ASSUME NEW X, Keeps(X), NEW n \in Nodes, NEW a \in Epas(n), NEW v, <<n, a>> \notin X, Holds(n, a, v)
  PROVE  Holds(n, a, v)'
BY DEF Keeps

LEMMA MakesOne ==
  ASSUME NEW W, Makes(W), NEW n \in Nodes, NEW a \in Epas(n), NEW v, Sets(W, n, a, v)
  PROVE  Holds(n, a, v)'
BY DEF Makes

LEMMA IcachesKept ==
  ASSUME IcachesHeld, mesh \in Seq(Tiles), UNCHANGED <<bin, mesh>>, NEW X, NEW W, Keeps(X), Makes(W),
         \A j \in DOMAIN mesh : IcacheDone(j)' =>
           \A k \in 0 .. IcacheWords - 1 : k < Len(Text(bin)) =>
             \/ IcacheDone(j) /\ <<mesh[j], EPA_ICACHE + k>> \notin X
             \/ Sets(W, mesh[j], EPA_ICACHE + k, Text(bin)[k + 1])
  PROVE  IcachesHeld'
<1>1. ASSUME NEW j \in DOMAIN mesh, IcacheDone(j)', NEW k \in 0 .. IcacheWords - 1,
             k < Len(Text(bin))
      PROVE  Holds(mesh[j], EPA_ICACHE + k, Text(bin)[k + 1])'
  <2>0. PICK t \in Tiles : t = mesh[j]
    OBVIOUS
  <2>1. PICK a, v : t = mesh[j] /\ a = EPA_ICACHE + k /\ v = Text(bin)[k + 1]
    BY <2>0
  <2>2. t \in Nodes /\ a \in Epas(t)
    BY <2>1, Addresses DEF TileEpas
  <2>3. ASSUME IcacheDone(j), <<t, a>> \notin X PROVE Holds(t, a, v)'
    <3>1. Holds(t, a, v)
      BY <1>1, <2>1, <2>3 DEF IcachesHeld
    <3> QED
      BY <2>2, <2>3, <3>1, KeepsOne
  <2>4. ASSUME Sets(W, t, a, v) PROVE Holds(t, a, v)'
    BY <2>2, <2>4, MakesOne
  <2>5. Holds(t, a, v)'
    BY <1>1, <2>1, <2>3, <2>4
  <2> QED
    BY <2>1, <2>5 DEF Holds, Ends, EndsIn, Untouched, Still, Frozen, Unfreezes, IsFreeze,
                      EPA_FREEZE, EPA_ICACHE, Text, ExecSegments
<1> QED
  BY <1>1 DEF IcachesHeld, Text, ExecSegments

LEMMA SymbolsKept ==
  ASSUME SymbolsHeld, bin \in Binaries, mesh \in Seq(Tiles), UNCHANGED <<bin, mesh>>,
         NEW X, NEW W, Keeps(X), Makes(W),
         \A j \in DOMAIN mesh : \A m \in DOMAIN ConfigSymbols : SymbolDone(j, m)' =>
           /\ HasSymbol(bin, ConfigSymbols[m])
           /\ \/ /\ SymbolDone(j, m)
                 /\ <<mesh[j], symbol_to_eva(bin, ConfigSymbols[m])>> \notin X
              \/ Sets(W, mesh[j], symbol_to_eva(bin, ConfigSymbols[m]),
                      ConfigValue(ConfigSymbols[m], mesh[j]))
  PROVE  SymbolsHeld'
<1>1. ASSUME NEW j \in DOMAIN mesh, NEW m \in DOMAIN ConfigSymbols, SymbolDone(j, m)'
      PROVE  Holds(mesh[j], symbol_to_eva(bin, ConfigSymbols[m]),
                   ConfigValue(ConfigSymbols[m], mesh[j]))'
  <2>0. PICK t \in Tiles : t = mesh[j]
    OBVIOUS
  <2>1. PICK a, v, name : /\ t = mesh[j] /\ a = symbol_to_eva(bin, name)
                          /\ v = ConfigValue(name, t) /\ name = ConfigSymbols[m]
    BY <2>0
  <2>2. name \in TileSymbols /\ HasSymbol(bin, name)
    BY <1>1, <2>1 DEF TileSymbols
  <2>3. t \in Nodes /\ a \in Epas(t)
    <3>1. a \in 0 .. DmemWords - 1
      BY <2>1, <2>2, SymbolPlace
    <3> QED
      BY <3>1, Addresses DEF TileEpas
  <2>4. ASSUME SymbolDone(j, m), <<t, a>> \notin X PROVE Holds(t, a, v)'
    <3>1. Holds(t, a, v)
      BY <1>1, <2>1, <2>4 DEF SymbolsHeld
    <3> QED
      BY <2>3, <2>4, <3>1, KeepsOne
  <2>5. ASSUME Sets(W, t, a, v) PROVE Holds(t, a, v)'
    BY <2>3, <2>5, MakesOne
  <2>6. Holds(t, a, v)'
    BY <1>1, <2>1, <2>4, <2>5
  <2>7. a = symbol_to_eva(bin, ConfigSymbols[m])' /\ v = ConfigValue(ConfigSymbols[m], mesh[j])' /\ t = mesh'[j]
    BY <2>1 DEF symbol_to_eva, TablesWith, ConfigValue, PlaceValue, ConfigSymbols
  <2> QED
    BY <2>6, <2>7 DEF Holds, Ends, EndsIn, Untouched, Still, Frozen, Unfreezes, IsFreeze, EPA_FREEZE
<1> QED
  BY <1>1 DEF SymbolsHeld

LEMMA OriginsKept ==
  ASSUME OriginsHeld, mesh \in Seq(Tiles), UNCHANGED mesh, NEW X, NEW W, Keeps(X), Makes(W),
         \A j \in DOMAIN mesh : OriginDone(j)' =>
           \/ /\ OriginDone(j)
              /\ <<mesh[j], EPA_ORIGIN_X>> \notin X /\ <<mesh[j], EPA_ORIGIN_Y>> \notin X
           \/ /\ Sets(W, mesh[j], EPA_ORIGIN_X, Origin[1])
              /\ Sets(W, mesh[j], EPA_ORIGIN_Y, Origin[2])
  PROVE  OriginsHeld'
<1>1. ASSUME NEW j \in DOMAIN mesh, OriginDone(j)'
      PROVE  Holds(mesh[j], EPA_ORIGIN_X, Origin[1])' /\ Holds(mesh[j], EPA_ORIGIN_Y, Origin[2])'
  <2>0. PICK t \in Tiles : t = mesh[j]
    OBVIOUS
  <2>1. PICK a, b : t = mesh[j] /\ a = EPA_ORIGIN_X /\ b = EPA_ORIGIN_Y
    BY <2>0
  <2>2. t \in Nodes /\ a \in Epas(t) /\ b \in Epas(t)
    BY <2>1, Addresses, RegisterAddresses
  <2>3. ASSUME OriginDone(j), <<t, a>> \notin X, <<t, b>> \notin X
        PROVE  Holds(t, a, Origin[1])' /\ Holds(t, b, Origin[2])'
    <3>1. Holds(t, a, Origin[1]) /\ Holds(t, b, Origin[2])
      BY <1>1, <2>1, <2>3 DEF OriginsHeld
    <3> QED
      BY <2>2, <2>3, <3>1, KeepsOne
  <2>4. ASSUME Sets(W, t, a, Origin[1]), Sets(W, t, b, Origin[2])
        PROVE  Holds(t, a, Origin[1])' /\ Holds(t, b, Origin[2])'
    BY <2>2, <2>4, MakesOne
  <2>5. Holds(t, a, Origin[1])' /\ Holds(t, b, Origin[2])'
    BY <1>1, <2>1, <2>3, <2>4
  <2> QED
    BY <2>1, <2>5 DEF Holds, Ends, EndsIn, Untouched, Still, Frozen, Unfreezes, IsFreeze,
                      EPA_FREEZE, EPA_ORIGIN_X, EPA_ORIGIN_Y
<1> QED
  BY <1>1 DEF OriginsHeld

LEMMA EnablesKept ==
  ASSUME EnablesHeld, mesh \in Seq(Tiles), UNCHANGED <<mesh, dram_enabled>>,
         NEW X, NEW W, Keeps(X), Makes(W),
         \A j \in DOMAIN mesh : EnableDone(j)' =>
           \/ EnableDone(j) /\ <<mesh[j], EPA_DRAM_ENABLE>> \notin X
           \/ Sets(W, mesh[j], EPA_DRAM_ENABLE, IF dram_enabled THEN 1 ELSE 0)
  PROVE  EnablesHeld'
<1>1. ASSUME NEW j \in DOMAIN mesh, EnableDone(j)'
      PROVE  Holds(mesh[j], EPA_DRAM_ENABLE, IF dram_enabled THEN 1 ELSE 0)'
  <2>0. PICK t \in Tiles : t = mesh[j]
    OBVIOUS
  <2>1. PICK a, v : t = mesh[j] /\ a = EPA_DRAM_ENABLE /\ v = IF dram_enabled THEN 1 ELSE 0
    BY <2>0
  <2>2. t \in Nodes /\ a \in Epas(t)
    BY <2>1, Addresses, RegisterAddresses
  <2>3. ASSUME EnableDone(j), <<t, a>> \notin X PROVE Holds(t, a, v)'
    <3>1. Holds(t, a, v)
      BY <1>1, <2>1, <2>3 DEF EnablesHeld
    <3> QED
      BY <2>2, <2>3, <3>1, KeepsOne
  <2>4. ASSUME Sets(W, t, a, v) PROVE Holds(t, a, v)'
    BY <2>2, <2>4, MakesOne
  <2>5. Holds(t, a, v)'
    BY <1>1, <2>1, <2>3, <2>4
  <2> QED
    BY <2>1, <2>5 DEF Holds, Ends, EndsIn, Untouched, Still, Frozen, Unfreezes, IsFreeze,
                      EPA_FREEZE, EPA_DRAM_ENABLE
<1> QED
  BY <1>1 DEF EnablesHeld

LEMMA TagsKept ==
  ASSUME TagsHeld, NEW X, NEW W, Keeps(X), Makes(W),
         TagsDone' => \/ TagsDone /\ <<Cache, EPA_TAGS>> \notin X
                      \/ Sets(W, Cache, EPA_TAGS, 1)
  PROVE  TagsHeld'
<1> SUFFICES ASSUME TagsDone' PROVE Holds(Cache, EPA_TAGS, 1)'
  BY DEF TagsHeld
<1>1. PICK a : a = EPA_TAGS
  OBVIOUS
<1>2. Cache \in Nodes /\ a \in Epas(Cache)
  BY <1>1, Addresses DEF EPA_TAGS, CacheEpas
<1>3. ASSUME TagsDone, <<Cache, a>> \notin X PROVE Holds(Cache, a, 1)'
  BY <1>1, <1>2, <1>3 DEF TagsHeld, Keeps
<1>4. ASSUME Sets(W, Cache, a, 1) PROVE Holds(Cache, a, 1)'
  BY <1>2, <1>4, MakesOne
<1>5. Holds(Cache, a, 1)'
  BY <1>1, <1>3, <1>4
<1> QED
  BY <1>1, <1>5 DEF Holds, Ends, EndsIn, Untouched, Still, Frozen, Unfreezes, IsFreeze,
                    EPA_FREEZE, EPA_TAGS

LEMMA PointerKept ==
  ASSUME PointerHeld, bin \in Binaries, mesh \in Seq(Tiles), UNCHANGED <<bin, mesh, it>>,
         NEW X, NEW W, Keeps(X), Makes(W),
         Stage' = "unfreeze_tile" =>
           /\ HasSymbol(bin, "cuda_kernel_ptr") /\ it \in DOMAIN mesh
           /\ \/ /\ Stage = "unfreeze_tile"
                 /\ <<mesh[it], symbol_to_eva(bin, "cuda_kernel_ptr")>> \notin X
              \/ Sets(W, mesh[it], symbol_to_eva(bin, "cuda_kernel_ptr"),
                      HB_MC_CUDA_KERNEL_NOT_LOADED_VAL)
  PROVE  PointerHeld'
<1> SUFFICES ASSUME Stage' = "unfreeze_tile"
             PROVE  Holds(mesh[it], symbol_to_eva(bin, "cuda_kernel_ptr"),
                          HB_MC_CUDA_KERNEL_NOT_LOADED_VAL)'
  BY DEF PointerHeld
<1>0. PICK t \in Tiles : t = mesh[it]
  OBVIOUS
<1>1. PICK a, v : /\ t = mesh[it] /\ a = symbol_to_eva(bin, "cuda_kernel_ptr")
                  /\ v = HB_MC_CUDA_KERNEL_NOT_LOADED_VAL
  BY <1>0
<1>2. t \in Nodes /\ a \in Epas(t)
  <2>1. "cuda_kernel_ptr" \in TileSymbols
    BY DEF TileSymbols
  <2>2. a \in 0 .. DmemWords - 1
    BY <1>1, <2>1, SymbolPlace
  <2> QED
    BY <2>2, Addresses DEF TileEpas
<1>3. ASSUME Stage = "unfreeze_tile", <<t, a>> \notin X PROVE Holds(t, a, v)'
  BY <1>1, <1>2, <1>3 DEF PointerHeld, Keeps
<1>4. ASSUME Sets(W, t, a, v) PROVE Holds(t, a, v)'
  BY <1>2, <1>4, MakesOne
<1>5. Holds(t, a, v)'
  BY <1>1, <1>3, <1>4
<1>6. /\ a = symbol_to_eva(bin, "cuda_kernel_ptr")' /\ v = HB_MC_CUDA_KERNEL_NOT_LOADED_VAL'
      /\ t = mesh'[it']
  BY <1>1 DEF symbol_to_eva, TablesWith, HB_MC_CUDA_KERNEL_NOT_LOADED_VAL
<1> QED
  BY <1>5, <1>6 DEF Holds, Ends, EndsIn, Untouched, Still, Frozen, Unfreezes, IsFreeze, EPA_FREEZE

-----------------------------------------------------------------------------
(* StartInv, step by step.                                                 *)

\* Lists for tiles only.
LEMMA TilesOnly ==
  ASSUME NEW W \in Seq(Packet), \A t \in Tiles : Freezing(W, t), \A w \in Elems(W) : w.to \in Tiles
  PROVE  Startless(W)
BY Addresses DEF Startless

\* While a program is loaded a tile that starts will be stopped by what is behind that.
LEMMA FrozenLoad ==
  ASSUME MemoryInv, StartInv, Stage \in FrozenStages, NEW t \in Tiles, Starting(t)
  PROVE  Last(t) = 1
<1>1. PICK i \in DOMAIN mesh : mesh[i] = t
  BY DEF StartInv, StartingInv, Elems
<1>2. Last(mesh[i]) = 1
  BY DEF MemoryInv, FreezeInv
<1> QED
  BY <1>1, <1>2

\* Content that leaves the cache's tags alone.
LEMMA ContentStartless ==
  ASSUME MemoryInv, StartInv, NEW t \in Tiles, NEW W, Content(W, t),
         \/ Touched(W) \subseteq Data /\ Stage \in FrozenStages
         \/ \A p \in Touched(W) : p[1] = t
  PROVE  Startless(W)
<1>1. W \in Seq(Packet) /\ \A u \in Tiles : Freezing(W, u)
  BY Addresses DEF Content, Freezing
<1>2. \A w \in Elems(W) : <<w.to, w.epa>> \in Touched(W)
  BY DEF Touched
<1>3. CASE \A p \in Touched(W) : p[1] = t
  <2>1. \A w \in Elems(W) : w.to = t
    BY <1>2, <1>3
  <2> QED
    BY <1>1, <2>1, TilesOnly
<1>4. CASE Touched(W) \subseteq Data /\ Stage \in FrozenStages
  <2>1. ASSUME NEW w \in Elems(W), w.to = Cache PROVE w.epa # EPA_TAGS
    <3>1. <<Cache, w.epa>> \in Data
      BY <1>2, <1>4, <2>1
    <3>2. w.epa \in 0 .. DramWords - 1
      BY <3>1, Addresses DEF Data
    <3> QED
      BY <3>2, Addresses DEF EPA_TAGS
  <2>2. \A u \in Tiles : Starting(u) => Last(u) = 1
    BY <1>4, FrozenLoad
  <2> QED
    BY <1>1, <2>1, <2>2 DEF Startless
<1> QED
  BY <1>3, <1>4

\* hb_mc_manycore_init, hb_mc_manycore_exit and request_rx.
LEMMA ManycoreStarts ==
  ASSUME HostInv, MemoryInv, StartInv, ManycoreStep, UNCHANGED <<loaderVars, deviceVars>>
  PROVE  StartInv'
<1> USE DEF loaderVars, loadVars, deviceVars, nodeVars, historyVars, drainVars
<1>1. ASSUME UNCHANGED <<posted, mem, runs>>, epoch' = epoch, mishaps \subseteq mishaps',
             Opening' => Opening
      PROVE  StartInv'
  BY <1>1, NothingKeepsStart DEF SessionKept, MemoryInv
<1>2. CASE EnableDram
  <2> DEFINE lists == [t \in Tiles |-> SetDramEnabled(t)]
             W == ForEach(Array, lists)
  <2>1. /\ pc = "enable_dram"
        /\ Post(W) \/ PostSome(W)
        /\ UNCHANGED <<mem, runs, epoch, mishaps, image, mesh>>
    BY <1>2 DEF EnableDram
  <2>2. lists = [t \in Tiles |-> <<Write(t, EPA_DRAM_ENABLE, 1)>>]
    BY DEF SetDramEnabled
  <2> HIDE DEF lists
  <2>3. Control(W) /\ \A t \in Tiles : Calm(W, t)
    BY <2>2, DramList
  <2>4. \A w \in Elems(W) : w.to \in Tiles
    BY <2>2, TileLists
  <2> HIDE DEF W
  <2>5. Startless(W)
    BY <2>3, <2>4, TilesOnly DEF Control, Calm, Freezing
  <2>6. SessionKept
    BY <2>1 DEF SessionKept, Opening
  <2> QED
    BY <2>1, <2>5, <2>6, SendKeepsStart DEF MemoryInv
<1>3. CASE Attach \/ MapBar \/ InitConfig \/ RespondersInit
  <2>1. UNCHANGED <<posted, mem, runs, epoch, mishaps>>
    BY <1>3 DEF Attach, MapBar, InitConfig, RespondersInit
  <2>2. Opening
    BY <1>3 DEF Attach, MapBar, InitConfig, RespondersInit, Opening
  <2> QED
    BY <1>1, <2>1, <2>2
<1>4. CASE DrainOccupancy \/ DrainWord \/ DrainCheck
  <2>1. UNCHANGED <<posted, mem, runs, epoch>> /\ mishaps \subseteq mishaps'
    BY <1>4 DEF DrainOccupancy, DrainWord, DrainCheck, Torn
  <2>2. Opening' => Opening
    <3>1. pc \in DrainPcs
      BY <1>4 DEF DrainOccupancy, DrainWord, DrainCheck, DrainPcs
    <3>2. why # "init" => why' # "init" /\ pc' \in DrainPcs \cup {"cleanup"}
      BY <1>4 DEF DrainOccupancy, DrainWord, DrainCheck, DrainPcs, DrainReturns, EndRound
    <3> QED
      BY <3>1, <3>2 DEF Opening, DrainPcs
  <2> QED
    BY <1>1, <2>1, <2>2
<1>5. CASE ReceiveWord \/ Respond \/ RespondersQuit \/ CleanupMmio
  <2>1. UNCHANGED <<posted, mem, runs, epoch>> /\ mishaps \subseteq mishaps'
    BY <1>5 DEF ReceiveWord, Respond, RespondersQuit, CleanupMmio, Torn
  <2>2. ~Opening'
    BY <1>5 DEF ReceiveWord, Respond, RespondersQuit, CleanupMmio, Return, StartDrain,
                Opening, DrainPcs
  <2> QED
    BY <1>1, <2>1, <2>2
<1> QED
  BY <1>2, <1>3, <1>4, <1>5 DEF ManycoreStep

\* Calls that load no program.
LEMMA CallStarts ==
  ASSUME HostInv, MemoryInv, StartInv,
         DeviceInit \/ MeshInit \/ RequestRx \/ ProgramCalls \/ DeviceFinish \/ FreeDevice \/ Die
  PROVE  StartInv'
<1> USE DEF loaderVars, loadVars, deviceVars, nodeVars, historyVars, hostUnchanged, programUnchanged
<1>1. CASE DeviceInit
  <2>1. UNCHANGED <<posted, mem, runs, image, mishaps>> /\ Quiet
    BY <1>1 DEF DeviceInit
  <2>2. \A t \in Tiles : ~Starting(t)
    BY <2>1, Addresses DEF Quiet, Starting
  <2> QED
    BY <2>1, <2>2, NothingKeepsStart DEF MemoryInv
<1>2. CASE MeshInit
  <2>1. UNCHANGED <<posted, mem, runs, image, mishaps>> /\ pc = "initialized"
    BY <1>2 DEF MeshInit
  <2>2. \A t \in Tiles : ~Starting(t)
    BY <2>1 DEF StartInv, StartingInv, Opening
  <2> QED
    BY <2>1, <2>2, NothingKeepsStart DEF MemoryInv
<1>3. ASSUME UNCHANGED <<posted, mem, runs, image, mesh>>, epoch' = epoch, mishaps \subseteq mishaps',
             Opening' => Opening
      PROVE  StartInv'
  BY <1>3, NothingKeepsStart DEF SessionKept, MemoryInv
<1>4. CASE RequestRx \/ FreeDevice
  BY <1>3, <1>4 DEF RequestRx, FreeDevice, Opening, DrainPcs
<1>5. CASE Die
  <2>1. UNCHANGED <<posted, mem, runs, image, mesh, epoch>> /\ mishaps \subseteq mishaps' /\ pc' = "idle"
    BY <1>5 DEF Die, Return
  <2> QED
    BY <1>3, <2>1 DEF Opening, DrainPcs
<1>6. CASE ProgramCalls
  <2>1. UNCHANGED <<pc, mem, runs, image, mesh, epoch, mishaps>> /\ pc = "idle"
    BY <1>6 DEF ProgramCalls, ResponderAdd, ResponderDel, DisableDram
  <2>2. ~Opening'
    BY <2>1 DEF Opening, DrainPcs
  <2>3. CASE UNCHANGED posted
    BY <1>3, <2>1, <2>2, <2>3
  <2>4. CASE DisableDram
    <3> DEFINE lists == [t \in Tiles |-> ClearDramEnabled(t)]
               W == ForEach(Array, lists)
    <3>1. Post(W) \/ PostSome(W)
      BY <2>4 DEF DisableDram
    <3>2. lists = [t \in Tiles |-> <<Write(t, EPA_DRAM_ENABLE, 0)>>]
      BY DEF ClearDramEnabled
    <3> HIDE DEF lists
    <3>3. Control(W) /\ \A t \in Tiles : Calm(W, t)
      BY <3>2, DramList
    <3>4. \A w \in Elems(W) : w.to \in Tiles
      BY <3>2, TileLists
    <3> HIDE DEF W
    <3>5. Startless(W)
      BY <3>3, <3>4, TilesOnly DEF Control, Calm, Freezing
    <3>6. SessionKept
      BY <2>1, <2>2 DEF SessionKept
    <3> QED
      BY <2>1, <3>1, <3>5, <3>6, SendKeepsStart DEF MemoryInv
  <2> QED
    BY <1>6, <2>3, <2>4 DEF ProgramCalls, ResponderAdd, ResponderDel
<1>7. CASE DeviceFinish
  <2>1. /\ UNCHANGED <<mem, runs, image, mesh, epoch, mishaps>> /\ pc' \in {"responders_quit", "idle"}
        /\ Post(FreezeWrites) \/ PostSome(FreezeWrites)
    BY <1>7 DEF DeviceFinish, StartExit
  <2>2. SessionKept
    BY <2>1 DEF SessionKept, Opening, DrainPcs
  <2>3. Startless(FreezeWrites)
    <3>1. mesh \in Seq(Tiles)
      BY DEF MemoryInv, MeshInv
    <3> QED
      BY <3>1, FreezeList, TileLists, TilesOnly DEF Control
  <2> QED
    BY <2>1, <2>2, <2>3, SendKeepsStart DEF MemoryInv
<1> QED
  BY <1>1, <1>2, <1>4, <1>5, <1>6, <1>7

\* A step of program_init, which may send a list.
LEMMA LoadStart ==
  ASSUME MemoryInv, StartInv, UNCHANGED <<mem, runs, image, mesh, epoch, mishaps>>,
         pc' \in LoadPcs \cup {"idle"}, NEW W,
         UNCHANGED posted \/ (Startless(W) /\ (Post(W) \/ PostSome(W)))
  PROVE  StartInv'
<1>1. SessionKept
  BY DEF SessionKept, Opening, DrainPcs, LoadPcs
<1> QED
  BY <1>1, NothingKeepsStart, SendKeepsStart DEF MemoryInv

LEMMA SetupStarts ==
  ASSUME HostInv, MemoryInv, StartInv,
         \/ (Fence \/ ElfValidate \/ TilesInitialize \/ ValidateVcache) /\ UNCHANGED deviceVars
         \/ ProgramInit \/ ProgramFreeze
  PROVE  StartInv'
<1> USE DEF deviceVars, nodeVars, historyVars, loaderUnchanged, hostUnchanged, programUnchanged, LoadPcs
<1>1. mesh \in Seq(Tiles)
  BY DEF MemoryInv, MeshInv
<1>2. CASE Fence /\ UNCHANGED deviceVars
  <2>1. /\ UNCHANGED <<posted, mem, runs, image, mesh, epoch, mishaps>>
        /\ pc = "fence" /\ pc' = after
    BY <1>2 DEF Fence
  <2>2. after \in LoadPcs
    BY <2>1 DEF HostInv, PlaceInv
  <2> QED
    BY <2>1, <2>2, LoadStart
<1>3. CASE ElfValidate /\ UNCHANGED deviceVars
  <2>1. /\ UNCHANGED <<posted, mem, runs, image, mesh, epoch, mishaps>>
        /\ pc' \in LoadPcs \cup {"idle"}
    BY <1>3 DEF ElfValidate, LoadFails, Return
  <2> QED
    BY <2>1, LoadStart
<1>4. CASE TilesInitialize /\ UNCHANGED deviceVars
  <2> DEFINE lists == [t \in Tiles |-> tile_set_registers(t)]
             W == ForEach(mesh, lists)
  <2>1. /\ UNCHANGED <<mem, runs, image, mesh, epoch, mishaps>> /\ pc = "tiles_initialize"
        /\ pc' \in LoadPcs \cup {"idle"} /\ (Post(W) \/ PostSome(W))
    BY <1>4 DEF TilesInitialize, SendFails, LoadFails, Return
  <2>2. mesh # <<>>
    BY <2>1, LoadPlace
  <2> HIDE DEF lists
  <2>3. Control(W) /\ \A t \in Tiles : Freezing(W, t)
    BY <1>1, <2>2, RegistersList DEF lists
  <2>4. \A w \in Elems(W) : w.to \in Tiles
    BY <1>1, <2>2, RegistersWord DEF lists
  <2> HIDE DEF W
  <2>5. Startless(W)
    BY <2>3, <2>4, TilesOnly DEF Control
  <2> QED
    BY <2>1, <2>5, LoadStart
<1>5. CASE ValidateVcache /\ UNCHANGED deviceVars
  <2> DEFINE w == Write(Cache, EPA_TAGS, 1)
             W == <<w>>
  <2>1. /\ UNCHANGED <<mem, runs, image, mesh, epoch, mishaps>> /\ pc = "validate_vcache"
        /\ pc' \in LoadPcs \cup {"idle"} /\ (Post(W) \/ PostSome(W))
    BY <1>5 DEF ValidateVcache, SendFails, LoadFails, Return
  <2>2. w \in Packet /\ w.to = Cache /\ w.val = 1
    <3>1. EPA_TAGS \in CacheEpas
      BY MemoryAssumption DEF EPA_TAGS, CacheEpas
    <3> QED
      BY <3>1, CacheWrite DEF Write
  <2> HIDE DEF w
  <2>3. W \in Seq(Packet) /\ Elems(W) = {w}
    BY <2>2, ShortLists
  <2> HIDE DEF W
  <2>4. \A t \in Tiles : Starting(t) => Last(t) = 1
    BY <2>1, FrozenLoad DEF FrozenStages, SetupStages, Stage
  <2>5. Startless(W)
    BY <2>2, <2>3, <2>4, Addresses DEF Startless, Freezing
  <2> QED
    BY <2>1, <2>5, LoadStart
<1>6. CASE ProgramInit
  <2>1. /\ UNCHANGED <<posted, mem, runs, image, mesh, epoch, mishaps>>
        /\ pc' \in LoadPcs \cup {"idle"}
    BY <1>6 DEF ProgramInit
  <2> QED
    BY <2>1, LoadStart
<1>7. CASE ProgramFreeze
  <2>1. /\ UNCHANGED <<mem, runs, image, mesh, epoch, mishaps>>
        /\ pc' \in LoadPcs \cup {"idle"} /\ (Post(FreezeWrites) \/ PostSome(FreezeWrites))
    BY <1>7 DEF ProgramFreeze, SendFails, LoadFails, Return
  <2>2. Startless(FreezeWrites)
    BY <1>1, FreezeList, TileLists, TilesOnly DEF Control
  <2> QED
    BY <2>1, <2>2, LoadStart
<1> QED
  BY <1>2, <1>3, <1>4, <1>5, <1>6, <1>7

LEMMA SegmentStarts ==
  ASSUME HostInv, MemoryInv, StartInv, LoadSegment \/ ZeroSegment \/ SegmentsDone, UNCHANGED deviceVars
  PROVE  StartInv'
<1> USE DEF deviceVars, historyVars, loaderUnchanged, LoadPcs
<1>1. /\ pc \in {"segment", "zeros"} /\ UNCHANGED <<mem, runs, image, mesh, epoch, mishaps>>
      /\ pc' \in LoadPcs \cup {"idle"}
  BY DEF LoadSegment, ZeroSegment, SegmentsDone, SendBlock, SendFails, LoadFails, Return
<1>2. /\ Stage = pc /\ bin \in Binaries /\ Stage \in FrozenStages
      /\ it <= Len(mesh) => mesh[it] \in Tiles
  BY <1>1, LoadPlace DEF FrozenStages, WriteStages
<1>3. it <= Len(mesh) /\ seg \in Nat \ {0}
  BY <1>1, <1>2 DEF MemoryInv, LoadInv
<1>4. bin.segments \in Seq(ProgramHeader)
  BY <1>2, BinariesAssumption
<1> DEFINE t == mesh[it]
           s == bin.segments[seg]
<1>5. seg <= Len(bin.segments) => seg \in DOMAIN bin.segments
  BY <1>3, <1>4
<1>6. ASSUME seg <= Len(bin.segments), Loadable(s), s.load,
             NEW W, W \in {EvaWrites(t, s.paddr, s.data), ZeroWrites(t, s)}
      PROVE  Startless(W)
  <2>1. Content(W, t)
    BY <1>2, <1>3, <1>5, <1>6, SegmentLists
  <2>2. Touched(W) \subseteq Data
    <3> SUFFICES ASSUME NEW p \in Touched(W) PROVE p \in Data
      OBVIOUS
    <3>0. s.paddr \in Nat /\ s.memsz \in Nat /\ Len(s.data) \in 0 .. s.memsz
      BY <1>2, <1>5, <1>6, SegmentPlace
    <3>1. /\ \A k \in 0 .. s.memsz - 1 : At(t, s.paddr + k) \in Data
          /\ Touched(EvaWrites(t, s.paddr, s.data)) \subseteq SegmentAt(t, s, 0, Len(s.data))
          /\ Touched(ZeroWrites(t, s)) \subseteq SegmentAt(t, s, Len(s.data), s.memsz)
      BY <1>2, <1>3, <1>5, <1>6, SegmentWords
    <3>2. p \in Touched(EvaWrites(t, s.paddr, s.data)) \/ p \in Touched(ZeroWrites(t, s))
      BY <1>6
    <3>3. PICK k \in 0 .. s.memsz - 1 : p = At(t, s.paddr + k)
      <4> HIDE DEF s, t
      <4> QED
        BY <3>0, <3>1, <3>2 DEF SegmentAt
    <3> QED
      BY <3>1, <3>3
  <2> QED
    BY <1>2, <1>3, <2>1, <2>2, ContentStartless
<1>7. CASE SegmentsDone
  BY <1>1, <1>7, LoadStart DEF SegmentsDone
<1>8. CASE LoadSegment
  <2> DEFINE W == EvaWrites(t, s.paddr, s.data)
  <2>1. /\ seg <= Len(bin.segments)
        /\ \/ UNCHANGED posted
           \/ Loadable(s) /\ s.load /\ (Post(W) \/ PostSome(W))
    BY <1>8 DEF LoadSegment, SendFails, SendBlock
  <2>2. Loadable(s) /\ s.load => Startless(W)
    BY <1>6, <2>1
  <2> QED
    BY <1>1, <2>1, <2>2, LoadStart
<1>9. CASE ZeroSegment
  <2> DEFINE W == ZeroWrites(t, s)
  <2>1. Post(W) \/ PostSome(W)
    BY <1>9 DEF ZeroSegment, SendFails, SendBlock
  <2>2. seg <= Len(bin.segments) /\ Loadable(s) /\ s.load
    BY <1>2, <1>9 DEF ZeroSegment, MemoryInv, LoadInv
  <2>3. Startless(W)
    BY <1>6, <2>2
  <2> QED
    BY <1>1, <2>1, <2>3, LoadStart
<1> QED
  BY <1>7, <1>8, <1>9

LEMMA IcacheStarts ==
  ASSUME HostInv, MemoryInv, StartInv, LoadIcache \/ IcachesDone, UNCHANGED deviceVars
  PROVE  StartInv'
<1> USE DEF deviceVars, historyVars, loaderUnchanged, LoadPcs
<1>1. /\ pc = "icache" /\ UNCHANGED <<mem, runs, image, mesh, epoch, mishaps>>
      /\ pc' \in LoadPcs \cup {"idle"}
  BY DEF LoadIcache, IcachesDone, SendBlock, SendFails, LoadFails, Return
<1>2. /\ Stage = pc /\ bin \in Binaries
      /\ it <= Len(mesh) => mesh[it] \in Tiles
  BY <1>1, LoadPlace
<1>3. bin.elf
  BY <1>1, <1>2 DEF MemoryInv, LoadInv, WriteStages
<1> DEFINE t == mesh[it]
           W == IcacheWrites(t, bin)
<1>4. UNCHANGED posted \/ (it <= Len(mesh) /\ (Post(W) \/ PostSome(W)))
  BY DEF LoadIcache, IcachesDone, SendBlock, SendFails
<1>5. it <= Len(mesh) => Startless(W)
  BY <1>2, <1>3, IcacheList, IcacheWord, ContentStartless
<1> HIDE DEF W
<1> QED
  BY <1>1, <1>4, <1>5, LoadStart

\* A tile that could not be started.
UnfreezeFails ==
  /\ pc = "unfreeze_tile" /\ SendFails(UnfreezeTile(mesh[it]))
  /\ UNCHANGED <<session, image, programUnchanged, sym>>

LEMMA NothingFails ==
  ASSUME NEW w, PostSome(<<w>>)
  PROVE  Post(<<>>)
<1>1. PICK k \in 0 .. 0 : Post(SubSeq(<<w>>, 1, k))
  BY DEF PostSome
<1>2. k = 0 /\ SubSeq(<<w>>, 1, 0) = <<>>
  OBVIOUS
<1> QED
  BY <1>1, <1>2

\* Symbols and registers of one tile, and what does not start one.
LEMMA ConfigStarts ==
  ASSUME HostInv, MemoryInv, StartInv,
         SetOriginRegisters \/ SetConfigSymbol \/ ConfigDone \/ SetKernelPointer
           \/ UnfreezeFails
  PROVE  StartInv'
<1> USE DEF historyVars, hostUnchanged, programUnchanged, LoadPcs
<1>1. /\ pc \in {"config_symbols", "unfreeze", "unfreeze_tile"}
      /\ UNCHANGED <<mem, runs, mesh, epoch, mishaps, bin>>
  BY DEF SetOriginRegisters, SetConfigSymbol, ConfigDone, SetKernelPointer, UnfreezeFails
<1>2. /\ Stage = pc /\ bin \in Binaries
      /\ it <= Len(mesh) => mesh[it] \in Tiles
  BY <1>1, LoadPlace
<1>3. /\ sym \in 0 .. Len(ConfigSymbols)
      /\ pc \in {"unfreeze", "unfreeze_tile"} \/ (pc = "config_symbols" /\ sym # 0) => it <= Len(mesh)
  BY <1>1, <1>2 DEF MemoryInv, LoadInv, StartStages
<1> DEFINE t == mesh[it]
<1> HIDE DEF t
<1>4. ASSUME NEW name \in TileSymbols, NEW val \in Nat, t \in Tiles, UNCHANGED image,
             pc' \in LoadPcs \cup {"idle"},
             \/ UNCHANGED posted
             \/ /\ HasSymbol(bin, name)
                /\ Post(SymbolWrite(t, name, val)) \/ PostSome(SymbolWrite(t, name, val))
      PROVE  StartInv'
  <2> DEFINE W == SymbolWrite(t, name, val)
  <2>1. HasSymbol(bin, name) => Content(W, t) /\ \A p \in Touched(W) : p = <<t, symbol_to_eva(bin, name)>>
    BY <1>2, <1>4, SymbolList, SymbolWord
  <2> HIDE DEF W
  <2>2. HasSymbol(bin, name) => Startless(W)
    BY <1>4, <2>1, ContentStartless
  <2> QED
    BY <1>1, <1>4, <2>2, LoadStart DEF W
<1>5. CASE ConfigDone
  BY <1>1, <1>5, LoadStart DEF ConfigDone
<1>6. CASE SetOriginRegisters
  <2> DEFINE W == SetOrigin(t, Origin)
  <2>1. /\ it <= Len(mesh) /\ UNCHANGED image
        /\ pc' \in LoadPcs \cup {"idle"} /\ (Post(W) \/ PostSome(W))
    BY <1>6 DEF SetOriginRegisters, SendFails, LoadFails, Return, t
  <2>2. t \in Tiles /\ Origin \in Nat \X Nat
    BY <1>2, <2>1, ArrayAssumption DEF t
  <2>3. /\ W \in Seq(Packet)
        /\ \A w \in Elems(W) : w.to = t /\ w.epa \in Registers /\ w.epa # EPA_FREEZE
    BY <2>2, OriginList
  <2> HIDE DEF W
  <2>4. Startless(W)
    BY <2>2, <2>3, TilesOnly DEF Freezing, IsFreeze
  <2> QED
    BY <1>1, <2>1, <2>4, LoadStart
<1>7. CASE SetConfigSymbol
  <2> DEFINE name == ConfigSymbols[sym]
             val == ConfigValue(name, t)
  <2>1. /\ pc = "config_symbols" /\ sym # 0 /\ UNCHANGED image
        /\ pc' \in LoadPcs \cup {"idle"}
        /\ \/ UNCHANGED posted
           \/ /\ HasSymbol(bin, name)
              /\ Post(SymbolWrite(t, name, val)) \/ PostSome(SymbolWrite(t, name, val))
    BY <1>7 DEF SetConfigSymbol, SymbolFails, SendBlock, SendFails, LoadFails, Return, t
  <2>2. t \in Tiles /\ name \in TileSymbols
    BY <1>2, <1>3, <2>1 DEF t, TileSymbols
  <2> HIDE DEF name
  <2>3. val \in Nat
    BY <2>2, ConfigValues
  <2> QED
    BY <1>4, <2>1, <2>2, <2>3
<1>8. CASE SetKernelPointer
  <2> DEFINE val == HB_MC_CUDA_KERNEL_NOT_LOADED_VAL
  <2>1. /\ pc = "unfreeze" /\ UNCHANGED image
        /\ pc' \in LoadPcs \cup {"idle"}
        /\ \/ UNCHANGED posted
           \/ /\ HasSymbol(bin, "cuda_kernel_ptr")
              /\ \/ Post(SymbolWrite(t, "cuda_kernel_ptr", val))
                 \/ PostSome(SymbolWrite(t, "cuda_kernel_ptr", val))
    BY <1>8 DEF SetKernelPointer, SymbolFails, SendBlock, SendFails, LoadFails, Return, t
  <2>2. t \in Tiles /\ "cuda_kernel_ptr" \in TileSymbols /\ val \in Nat
    BY <1>2, <1>3, <2>1 DEF t, TileSymbols, HB_MC_CUDA_KERNEL_NOT_LOADED_VAL
  <2> QED
    BY <1>4, <2>1, <2>2
<1>9. CASE UnfreezeFails
  <2> DEFINE W == <<>>
  <2>1. pc' = "idle" /\ UNCHANGED image /\ Post(W)
    BY <1>9, NothingFails DEF UnfreezeFails, SendFails, LoadFails, Return, UnfreezeTile
  <2>2. Startless(W)
    BY DEF Startless, Elems, Freezing
  <2> HIDE DEF W
  <2> QED
    BY <1>1, <2>1, <2>2, LoadStart
<1> QED
  BY <1>5, <1>6, <1>7, <1>8, <1>9

\* When the kernel pointer is there too, all that a tile may look at is.
LEMMA ProgramIsThere ==
  ASSUME HostInv, MemoryInv, WalkInv, ImageInv, pc = "unfreeze_tile", NEW t, t = mesh[it]
  PROVE  /\ Quiet /\ t \in Tiles /\ t \in Elems(mesh) /\ Frozen(t)
         /\ bin \in Binaries /\ \A i \in DOMAIN bin.segments : Loadable(bin.segments[i])
         /\ \A i \in DOMAIN bin.segments : Wanted(bin.segments[i]) => HoldsSegment(t, bin.segments[i], bin)
         /\ HoldsSymbols(t, bin) /\ HoldsIcache(t, bin) /\ OriginSet(t)
         /\ mem[t][EPA_DRAM_ENABLE] = 0 => mem[Cache][EPA_TAGS] = 1
<1>1. /\ Stage = pc /\ Stage \in StartStages /\ bin \in Binaries
      /\ it <= Len(mesh) => it \in DOMAIN mesh /\ t \in Tiles /\ Last(t) = 1
  BY LoadPlace DEF LoadPcs, StartStages
<1>2. it \in DOMAIN mesh /\ t \in Tiles /\ t \in Elems(mesh) /\ Last(t) = 1
  BY <1>1 DEF MemoryInv, LoadInv, Elems
<1>3. Quiet
  BY DEF WalkInv
<1>4. \A n \in Nodes : posted[n] = <<>>
  BY <1>3 DEF Quiet
<1>5. ASSUME NEW n \in Nodes, NEW a, NEW v, Holds(n, a, v) PROVE mem[n][a] = v
  BY <1>4, <1>5, HoldsWhenQuiet
<1>6. Frozen(t)
  <2>1. posted[t] = <<>>
    BY <1>2, <1>4, Addresses
  <2>2. FreezeAfter(t, 0) = 1
    BY <1>2, <2>1 DEF Last
  <2>3. FreezeIn(posted[t], mem[t][EPA_FREEZE], 0) = mem[t][EPA_FREEZE]
    BY FreezeInIs DEF NoFreeze
  <2> QED
    BY <2>2, <2>3, FreezeAfterIs DEF Frozen
<1>7. \A i \in DOMAIN bin.segments : Loadable(bin.segments[i])
  BY <1>1 DEF WalkInv, LaterStages, Fits
<1>8. PlacedWords(bin) \subseteq SymbolWords(bin)
  BY DEF PlacedWords, SymbolWords, TileSymbols
<1>9. it >= it
  BY DEF HostInv, ListInv
<1>10. ASSUME NEW i \in DOMAIN bin.segments, Wanted(bin.segments[i])
       PROVE  HoldsSegment(t, bin.segments[i], bin)
  <2>1. PICK s : s = bin.segments[i]
    OBVIOUS
  <2> SUFFICES ASSUME NEW k \in 0 .. s.memsz - 1, s.paddr + k \notin SymbolWords(bin)
               PROVE  mem[Place(t, s.paddr + k).node][Place(t, s.paddr + k).epa] = SegmentValue(s, k)
    BY <2>1 DEF HoldsSegment, SegmentValue
  <2>2. SegmentDone(i, it, k) /\ s.paddr + k \notin PlacedWords(bin)
    BY <1>1, <1>8, <1>9 DEF SegmentDone
  <2>3. Holds(Place(t, s.paddr + k).node, Place(t, s.paddr + k).epa, SegmentValue(s, k))
    BY <1>2, <1>10, <2>1, <2>2 DEF ImageInv, SegmentsHeld, Wanted
  <2>4. Place(t, s.paddr + k).node \in Nodes
    BY <1>2, Addresses DEF Place
  <2> QED
    BY <1>5, <2>3, <2>4
<1>11. HoldsSymbols(t, bin)
  <2>1. ASSUME NEW m \in DOMAIN ConfigSymbols
        PROVE  mem[t][symbol_to_eva(bin, ConfigSymbols[m])] = ConfigValue(ConfigSymbols[m], t)
    <3>1. SymbolDone(it, m)
      BY <1>1, <1>9 DEF SymbolDone
    <3>2. Holds(t, symbol_to_eva(bin, ConfigSymbols[m]), ConfigValue(ConfigSymbols[m], t))
      BY <1>2, <3>1 DEF ImageInv, SymbolsHeld
    <3> QED
      BY <1>2, <1>5, <3>2, Addresses
  <2>2. mem[t][symbol_to_eva(bin, "cuda_kernel_ptr")] = HB_MC_CUDA_KERNEL_NOT_LOADED_VAL
    <3>1. Holds(t, symbol_to_eva(bin, "cuda_kernel_ptr"), HB_MC_CUDA_KERNEL_NOT_LOADED_VAL)
      BY <1>1 DEF ImageInv, PointerHeld
    <3> QED
      BY <1>2, <1>5, <3>1, Addresses
  <2> QED
    BY <2>1, <2>2 DEF HoldsSymbols
<1>12. HoldsIcache(t, bin)
  <2> SUFFICES ASSUME NEW k \in 0 .. IcacheWords - 1, k < Len(Text(bin))
               PROVE  mem[t][EPA_ICACHE + k] = Text(bin)[k + 1]
    BY DEF HoldsIcache
  <2>1. IcacheDone(it)
    BY <1>1, <1>9 DEF IcacheDone
  <2>2. Holds(t, EPA_ICACHE + k, Text(bin)[k + 1])
    BY <1>2, <2>1 DEF ImageInv, IcachesHeld
  <2> QED
    BY <1>2, <1>5, <2>2, Addresses
<1>13. OriginSet(t)
  <2>1. OriginDone(it)
    BY <1>1, <1>9 DEF OriginDone
  <2>2. Holds(t, EPA_ORIGIN_X, Origin[1]) /\ Holds(t, EPA_ORIGIN_Y, Origin[2])
    BY <1>2, <2>1 DEF ImageInv, OriginsHeld
  <2> QED
    BY <1>2, <1>5, <2>2, Addresses DEF OriginSet
<1>14. mem[t][EPA_DRAM_ENABLE] = 0 => mem[Cache][EPA_TAGS] = 1
  <2>1. EnableDone(it)
    BY <1>1, <1>9 DEF EnableDone
  <2>2. Holds(t, EPA_DRAM_ENABLE, IF dram_enabled THEN 1 ELSE 0)
    BY <1>2, <2>1 DEF ImageInv, EnablesHeld
  <2>3. mem[t][EPA_DRAM_ENABLE] = IF dram_enabled THEN 1 ELSE 0
    BY <1>2, <1>5, <2>2, Addresses
  <2>4. ~dram_enabled => Holds(Cache, EPA_TAGS, 1)
    BY <1>1 DEF ImageInv, TagsHeld, TagsDone
  <2> QED
    BY <1>5, <2>3, <2>4, Addresses
<1> QED
  BY <1>1, <1>2, <1>3, <1>6, <1>7, <1>10, <1>11, <1>12, <1>13, <1>14

\* One write.
LEMMA SentOne ==
  ASSUME NEW w, NEW n
  PROVE  Sent(<<w>>, n) = IF w.to = n THEN <<w>> ELSE <<>>
<1> DEFINE Is(f) == f = [i \in 0 .. Len(<<w>>) |->
                           IF i = 0 THEN <<>>
                           ELSE IF <<w>>[i].to = n THEN Append(f[i - 1], <<w>>[i]) ELSE f[i - 1]]
           r == IF w.to = n THEN <<w>> ELSE <<>>
           g == [i \in 0 .. 1 |-> IF i = 0 THEN <<>> ELSE r]
           F == CHOOSE f : Is(f)
<1>1. Len(<<w>>) = 1 /\ <<w>>[1] = w /\ 0 .. 1 = {0, 1}
  OBVIOUS
<1>2. r = IF w.to = n THEN Append(<<>>, w) ELSE <<>>
  OBVIOUS
<1> HIDE DEF r
<1>3. Is(g)
  <2> DEFINE h == [i \in 0 .. Len(<<w>>) |->
                     IF i = 0 THEN <<>>
                     ELSE IF <<w>>[i].to = n THEN Append(g[i - 1], <<w>>[i]) ELSE g[i - 1]]
  <2>1. DOMAIN g = {0, 1} /\ DOMAIN h = {0, 1} /\ g[0] = <<>> /\ h[0] = <<>> /\ g[1] = r
    BY <1>1
  <2>2. h[1] = r
    BY <1>1, <1>2
  <2>3. g = [i \in {0, 1} |-> g[i]] /\ h = [i \in {0, 1} |-> h[i]]
    BY <1>1
  <2> HIDE DEF g, h
  <2>4. g = h
    BY <2>1, <2>2, <2>3
  <2> QED
    BY <2>4 DEF h
<1>4. Is(F)
  <2> HIDE DEF Is, g
  <2> QED
    BY <1>3
<1>5. F[0] = <<>> /\ F[1] = IF w.to = n THEN Append(F[0], w) ELSE F[0]
  <2> HIDE DEF F
  <2>1. F = [i \in {0, 1} |->
               IF i = 0 THEN <<>> ELSE IF <<w>>[i].to = n THEN Append(F[i - 1], <<w>>[i]) ELSE F[i - 1]]
    BY <1>1, <1>4
  <2>2. \A i \in {0, 1} : F[i] =
          IF i = 0 THEN <<>> ELSE IF <<w>>[i].to = n THEN Append(F[i - 1], <<w>>[i]) ELSE F[i - 1]
    BY <2>1
  <2>3. 1 - 1 = 0
    OBVIOUS
  <2> QED
    BY <1>1, <2>2, <2>3
<1>6. Sent(<<w>>, n) = F[1]
  BY <1>1 DEF Sent
<1> HIDE DEF F
<1> QED
  BY <1>2, <1>5, <1>6 DEF r

LEMMA UnfreezeStarts ==
  ASSUME HostInv, MemoryInv, StartInv, WalkInv, ImageInv, Unfreeze
  PROVE  StartInv'
<1> USE DEF programUnchanged, hostUnchanged, historyVars
<1>1. CASE UnfreezeFails
  BY <1>1, ConfigStarts
<1>2. CASE Post(UnfreezeTile(mesh[it])) /\ image' = bin /\ pc' \in {"idle", "unfreeze"}
  <2>1. PICK t : t = mesh[it]
    OBVIOUS
  <2>2. /\ pc = "unfreeze_tile" /\ UNCHANGED <<mem, runs, mesh, epoch, mishaps, bin>>
    BY DEF Unfreeze
  <2>3. /\ Quiet /\ t \in Tiles /\ t \in Elems(mesh) /\ Frozen(t)
        /\ bin \in Binaries /\ \A i \in DOMAIN bin.segments : Loadable(bin.segments[i])
        /\ \A i \in DOMAIN bin.segments : Wanted(bin.segments[i]) => HoldsSegment(t, bin.segments[i], bin)
        /\ HoldsSymbols(t, bin) /\ HoldsIcache(t, bin) /\ OriginSet(t)
        /\ mem[t][EPA_DRAM_ENABLE] = 0 => mem[Cache][EPA_TAGS] = 1
    BY <2>1, <2>2, ProgramIsThere
  <2> DEFINE w == Write(t, EPA_FREEZE, 0)
             W == <<w>>
  <2>4. w \in Packet /\ w.to = t
    BY <2>3, TileWrite, Addresses
  <2>5. Post(W)
    BY <1>2, <2>1 DEF UnfreezeTile
  <2> HIDE DEF w
  <2>6. W \in Seq(Packet) /\ Elems(W) = {w}
    BY <2>4, ShortLists
  <2> HIDE DEF W
  <2>7. MemInv
    BY DEF MemoryInv
  <2>8. ASSUME NEW n \in Nodes
        PROVE  /\ n # t => posted'[n] = <<>>
               /\ \A i \in DOMAIN posted'[n] : i = 1
    <3>1. /\ posted'[n] = posted[n] \o Sent(W, n)
          /\ Elems(Sent(W, n)) = SentTo(W, n)
      BY <2>2, <2>5, <2>6, <2>7, PostedParts
    <3>2. posted[n] = <<>>
      BY <2>3 DEF Quiet
    <3>3. Sent(W, n) = IF n = t THEN <<w>> ELSE <<>>
      BY <2>4, SentOne DEF W
    <3>4. posted'[n] = IF n = t THEN <<w>> ELSE <<>>
      BY <3>1, <3>2, <3>3
    <3> QED
      BY <3>4
  <2>9. FirstInv'
    <3>1. \A u \in Tiles : \A i \in DOMAIN posted'[u] : ~(i > 1)
      BY <2>8, Addresses
    <3> QED
      BY <3>1 DEF FirstInv
  <2>10. posted'[Cache] = <<>>
    BY <2>3, <2>8, Addresses
  <2>11. TagsInv'
    BY <2>10 DEF TagsInv
  <2>12. ~Opening'
    BY <1>2 DEF Opening, DrainPcs
  <2>13. ASSUME NEW u \in Tiles, Starting(u)' PROVE u = t
    BY <2>8, <2>13, Addresses DEF Starting
  <2>14. ImageFits'
    BY <1>2, <2>2, <2>3 DEF ImageFits, Loadable, Capacity, is_dram
  <2>15. ASSUME NEW i \in DOMAIN bin.segments, NEW s, s = bin.segments[i], Wanted(s)
         PROVE  HoldsSegment(t, s, image)'
    <3>1. HoldsSegment(t, s, bin)
      BY <2>3, <2>15
    <3>2. SymbolWords(image)' = SymbolWords(bin)
      BY <1>2 DEF SymbolWords, symbol_to_eva, TablesWith
    <3>3. \A k : Place(t, s.paddr + k)' = Place(t, s.paddr + k)
      BY DEF Place, is_dram
    <3> QED
      BY <2>2, <3>1, <3>2, <3>3 DEF HoldsSegment
  <2>16. Unstarted' => Unstarted
    BY <2>2 DEF Unstarted
  <2>17. /\ HasTileSegments(t)' /\ HasText(t)'
         /\ Unstarted' => HasSegments(t)'
    <3>1. ASSUME NEW i \in DOMAIN bin.segments, bin.segments[i].load => Wanted(bin.segments[i])
          PROVE  HasSegment(t, i)'
      <4>1. PICK s : s = bin.segments[i]
        OBVIOUS
      <4>2. s.load => HoldsSegment(t, s, image)'
        BY <2>15, <3>1, <4>1
      <4>3. s = image'.segments[i]
        BY <1>2, <4>1
      <4> QED
        BY <4>2, <4>3 DEF HasSegment, HoldsSegment
    <3>2. DOMAIN image'.segments = DOMAIN bin.segments /\ image' = bin
      BY <1>2
    <3>3. \A i \in DOMAIN bin.segments : ~is_dram(bin.segments[i].paddr) => HasSegment(t, i)'
      BY <3>1 DEF Wanted
    <3>4. \A i \in DOMAIN bin.segments : bin.segments[i].exec => HasSegment(t, i)'
      BY <3>1 DEF Wanted
    <3>5. Unstarted' => \A i \in DOMAIN bin.segments : HasSegment(t, i)'
      BY <2>16, <3>1 DEF Wanted
    <3> QED
      BY <3>2, <3>3, <3>4, <3>5 DEF HasTileSegments, HasText, HasSegments, is_dram
  <2>18. (HoldsSymbols(t, image) /\ HoldsIcache(t, image) /\ OriginSet(t))'
    <3>1. \A x : symbol_to_eva(image, x)' = symbol_to_eva(bin, x)
      BY <1>2 DEF symbol_to_eva, TablesWith
    <3>2. HoldsSymbols(t, image)'
      BY <2>2, <2>3, <3>1 DEF HoldsSymbols, ConfigValue, PlaceValue, ConfigSymbols,
                              HB_MC_CUDA_KERNEL_NOT_LOADED_VAL
    <3>3. Text(image)' = Text(bin)
      BY <1>2 DEF Text, ExecSegments
    <3>4. HoldsIcache(t, image)'
      BY <2>2, <2>3, <3>3 DEF HoldsIcache, EPA_ICACHE
    <3>5. OriginSet(t)'
      BY <2>2, <2>3 DEF OriginSet, EPA_ORIGIN_X, EPA_ORIGIN_Y
    <3> QED
      BY <3>2, <3>4, <3>5
  <2>19. (mem[t][EPA_DRAM_ENABLE] = 0 => mem[Cache][EPA_TAGS] = 1)'
    BY <2>2, <2>3 DEF EPA_DRAM_ENABLE, EPA_TAGS
  <2>20. Frozen(t)' /\ t \in Elems(mesh)'
    BY <2>2, <2>3 DEF Frozen, EPA_FREEZE, Elems
  <2>21. SeesItsImage(t)'
    BY <2>17, <2>18, <2>19 DEF SeesItsImage
  <2>22. StartingInv'
    BY <2>10, <2>12, <2>13, <2>14, <2>17, <2>20, <2>21 DEF StartingInv
  <2> QED
    BY <2>9, <2>11, <2>22 DEF StartInv
<1> QED
  BY <1>1, <1>2 DEF Unfreeze, UnfreezeFails, Return

LEMMA NextStartInv ==
  HostInv /\ MemoryInv /\ LinkInv /\ WalkInv /\ ImageInv /\ StartInv /\ [Next]_vars => StartInv'
<1> SUFFICES ASSUME HostInv, MemoryInv, LinkInv, WalkInv, ImageInv, StartInv, [Next]_vars
             PROVE  StartInv'
  OBVIOUS
<1>1. ASSUME UNCHANGED <<pc, why, posted, mem, runs, image, mesh, epoch, mishaps>> PROVE StartInv'
  BY <1>1, NothingKeepsStart DEF SessionKept, MemoryInv, Opening, DrainPcs
<1>2. CASE UNCHANGED vars
  BY <1>1, <1>2 DEF vars, manycoreVars, loaderVars, deviceVars, nodeVars, historyVars, drainVars
<1>3. CASE HostStep
  BY <1>3, ManycoreStarts, SetupStarts, SegmentStarts, IcacheStarts, ConfigStarts, UnfreezeStarts,
     CallStarts DEF HostStep, LoaderStep
<1>4. CASE Call \/ Die
  BY <1>4, CallStarts, SetupStarts DEF Call
<1>5. ASSUME NEW n \in Nodes, Delivery(n) PROVE StartInv'
  BY <1>5, DeliverKeepsStart DEF Delivery, deviceVars, loaderVars, MemoryInv
<1>6. ASSUME NEW t \in Tiles, Store(t) PROVE StartInv'
  BY <1>6, StoreKeepsStart DEF Store, hostUnchanged, deviceVars, loaderVars, historyVars, drainVars,
                               MemoryInv
<1>7. ASSUME NEW t \in Tiles, Send(t), UNCHANGED <<loaderVars, deviceVars>> PROVE StartInv'
  BY <1>1, <1>7 DEF Send, deviceVars, loaderVars, nodeVars, historyVars, drainVars
<1> QED
  BY <1>2, <1>3, <1>4, <1>5, <1>6, <1>7 DEF Next, TileStep

-----------------------------------------------------------------------------
(* ImageInv, step by step.                                                 *)

LEMMA PostMakes ==
  ASSUME MemInv, NEW W \in Seq(Packet), Post(W), mem' = mem
  PROVE  Makes(W)
BY PostKeepsHolds DEF Makes

LEMMA NothingKeeps ==
  ASSUME UNCHANGED <<posted, mem>>
  PROVE  Keeps({}) /\ Makes(<<>>)
<1>1. Keeps({})
  BY NothingKeepsHolds DEF Keeps
<1>2. \A n, a, v : ~Sets(<<>>, n, a, v)
  BY DEF Sets, Elems
<1> QED
  BY <1>1, <1>2 DEF Makes

\* Words that are accounted for belong to segments that can be loaded, and to symbols that exist.
LEMMA DoneFits ==
  ASSUME HostInv, WalkInv, MemoryInv, NEW i \in DOMAIN bin.segments, NEW j \in DOMAIN mesh, NEW k,
         SegmentDone(i, j, k)
  PROVE  Fits(i)
<1>1. j \in Nat \ {0} /\ it \in Nat
  BY DEF MemoryInv, MeshInv, HostInv, ListInv
<1>2. CASE Stage \in SegmentStages /\ i < seg
  BY <1>2 DEF WalkInv
<1>3. CASE Stage = "segment" /\ i = seg /\ j < it
  <2>1. it > 1
    BY <1>1, <1>3
  <2> QED
    BY <1>3, <2>1 DEF WalkInv
<1>4. CASE Stage = "zeros" /\ i = seg
  BY <1>4 DEF MemoryInv, LoadInv, Fits
<1>5. CASE Stage \in LaterStages
  BY <1>5 DEF WalkInv
<1> QED
  BY <1>2, <1>3, <1>4, <1>5 DEF SegmentDone, SegmentStages, LaterStages, StartStages

LEMMA DoneExists ==
  ASSUME HostInv, WalkInv, MemoryInv, NEW j \in DOMAIN mesh, NEW m \in DOMAIN ConfigSymbols, SymbolDone(j, m)
  PROVE  HasSymbol(bin, ConfigSymbols[m])
<1>1. j \in Nat \ {0} /\ it \in Nat
  BY DEF MemoryInv, MeshInv, HostInv, ListInv
<1>2. CASE Stage = "config_symbols" /\ j < it
  <2>1. it > 1
    BY <1>1, <1>2
  <2> QED
    BY <1>2, <2>1 DEF WalkInv
<1>3. CASE Stage = "config_symbols" /\ m < sym
  BY <1>3 DEF WalkInv
<1>4. CASE Stage \in StartStages
  BY <1>4 DEF WalkInv
<1> QED
  BY <1>2, <1>3, <1>4 DEF SymbolDone

\* Where nothing is claimed.
LEMMA NoClaims ==
  ASSUME WalkInv,
         \/ seg' = 1 /\ sym' = 0
         \/ UNCHANGED <<seg, sym>> /\ Stage \notin SegmentStages \cup {"config_symbols"},
         pc' \notin LoadPcs \/ pc' \in {"freeze", "load", "tiles_initialize"}
  PROVE  WalkInv' /\ ImageInv'
<1>1. Stage' = pc' /\ Stage' \notin {"validate_vcache"} \cup WriteStages \cup StartStages
  BY DEF Stage, LoadPcs, WriteStages, StartStages
<1>2. seg' = 1 /\ sym' = 0
  BY DEF WalkInv, SegmentStages
<1>3. WalkInv'
  BY <1>1, <1>2 DEF WalkInv, SegmentStages, LaterStages, WriteStages, StartStages
<1>4. /\ \A j : ~IcacheDone(j)' /\ ~OriginDone(j)' /\ ~EnableDone(j)'
      /\ \A j, m : ~SymbolDone(j, m)'
      /\ \A i, j, k : ~SegmentDone(i, j, k)'
      /\ ~TagsDone'
  BY <1>1 DEF IcacheDone, OriginDone, EnableDone, SymbolDone, SegmentDone, TagsDone,
              SegmentStages, WriteStages, StartStages
<1>5. SegmentsHeld'
  BY <1>4 DEF SegmentsHeld
<1>6. IcachesHeld' /\ SymbolsHeld' /\ OriginsHeld' /\ EnablesHeld' /\ TagsHeld'
  BY <1>4 DEF IcachesHeld, SymbolsHeld, OriginsHeld, EnablesHeld, TagsHeld
<1>7. PointerHeld'
  BY <1>1 DEF PointerHeld, StartStages
<1> QED
  BY <1>3, <1>5, <1>6, <1>7 DEF ImageInv

\* Steps that do not go on with the load.
LEMMA StandKeepsWalk ==
  ASSUME WalkInv, UNCHANGED <<Stage, seg, it, sym, bin>>, pc' = "unfreeze_tile" => Quiet'
  PROVE  WalkInv'
BY DEF WalkInv, SegmentStages, LaterStages, StartStages, Fits, Loadable, Capacity, is_dram,
       HasSymbol, TablesWith, ConfigSymbols

LEMMA StandKeepsImage ==
  ASSUME HostInv, WalkInv, MemoryInv, ImageInv, bin \in Binaries,
         UNCHANGED <<Stage, seg, it, sym, bin, mesh, dram_enabled>>, Unstarted' => Unstarted,
         NEW X, Keeps(X), Makes(<<>>),
         \A p \in X : p[1] = Cache /\ p[2] # EPA_TAGS,
         \A i \in DOMAIN bin.segments : Wanted(bin.segments[i]) /\ Fits(i) =>
           \A j \in DOMAIN mesh : \A k \in 0 .. bin.segments[i].memsz - 1 :
             At(mesh[j], bin.segments[i].paddr + k) \notin X
  PROVE  ImageInv'
<1>1. mesh \in Seq(Tiles)
  BY DEF MemoryInv, MeshInv
<1>2. \A j \in DOMAIN mesh : \A a : <<mesh[j], a>> \notin X
  <2>1. \A j \in DOMAIN mesh : mesh[j] # Cache
    BY <1>1, Addresses
  <2> QED
    BY <2>1
<1>3. /\ \A j : IcacheDone(j)' = IcacheDone(j) /\ OriginDone(j)' = OriginDone(j) /\ EnableDone(j)' = EnableDone(j)
      /\ \A j, m : SymbolDone(j, m)' = SymbolDone(j, m)
      /\ \A i, j, k : SegmentDone(i, j, k)' = SegmentDone(i, j, k)
      /\ TagsDone' = TagsDone
  BY DEF IcacheDone, OriginDone, EnableDone, SymbolDone, SegmentDone, TagsDone,
         SegmentStages, WriteStages, StartStages
<1>4. SegmentsHeld'
  <2>1. \A i \in DOMAIN bin.segments : \A j \in DOMAIN mesh :
           \A k \in 0 .. bin.segments[i].memsz - 1 :
             SegmentDone(i, j, k)' /\ Wanted(bin.segments[i]) =>
               Fits(i) /\ SegmentDone(i, j, k) /\ At(mesh[j], bin.segments[i].paddr + k) \notin X
    BY <1>3, DoneFits
  <2> QED
    BY <1>1, <2>1, SegmentsKept DEF ImageInv
<1>5. IcachesHeld'
  BY <1>1, <1>2, <1>3, IcachesKept DEF ImageInv
<1>6. SymbolsHeld'
  <2>1. \A j \in DOMAIN mesh : \A m \in DOMAIN ConfigSymbols : SymbolDone(j, m)' =>
           /\ HasSymbol(bin, ConfigSymbols[m]) /\ SymbolDone(j, m)
           /\ <<mesh[j], symbol_to_eva(bin, ConfigSymbols[m])>> \notin X
    BY <1>2, <1>3, DoneExists
  <2> QED
    BY <1>1, <2>1, SymbolsKept DEF ImageInv
<1>7. OriginsHeld'
  BY <1>1, <1>2, <1>3, OriginsKept DEF ImageInv
<1>8. EnablesHeld'
  BY <1>1, <1>2, <1>3, EnablesKept DEF ImageInv
<1>9. TagsHeld'
  <2>1. <<Cache, EPA_TAGS>> \notin X
    OBVIOUS
  <2> QED
    BY <1>3, <2>1, TagsKept DEF ImageInv
<1>10. PointerHeld'
  <2>1. Stage' = "unfreeze_tile" =>
          /\ HasSymbol(bin, "cuda_kernel_ptr") /\ it \in DOMAIN mesh
          /\ Stage = "unfreeze_tile"
          /\ <<mesh[it], symbol_to_eva(bin, "cuda_kernel_ptr")>> \notin X
    <3> SUFFICES ASSUME Stage = "unfreeze_tile"
                 PROVE  HasSymbol(bin, "cuda_kernel_ptr") /\ it \in DOMAIN mesh
      BY <1>2
    <3> QED
      BY <1>1 DEF WalkInv, MemoryInv, LoadInv, StartStages, HostInv, ListInv
  <2> QED
    BY <1>1, <2>1, PointerKept DEF ImageInv
<1> QED
  BY <1>4, <1>5, <1>6, <1>7, <1>8, <1>9, <1>10 DEF ImageInv

\* Steps of the network and of tiles, which may overwrite what is at X.
LEMMA OthersKeepImage ==
  ASSUME HostInv, MemoryInv, WalkInv, ImageInv,
         UNCHANGED <<pc, after, seg, it, sym, bin, mesh, dram_enabled>>,
         Unstarted' => Unstarted, Quiet => Quiet', NEW X, Keeps(X),
         \A p \in X : p[1] = Cache /\ p[2] # EPA_TAGS,
         bin \in Binaries => \A i \in DOMAIN bin.segments : Wanted(bin.segments[i]) /\ Fits(i) =>
           \A j \in DOMAIN mesh : \A k \in 0 .. bin.segments[i].memsz - 1 :
             At(mesh[j], bin.segments[i].paddr + k) \notin X
  PROVE  WalkInv' /\ ImageInv'
<1>1. Stage' = Stage
  BY DEF Stage
<1>2. CASE pc \in LoadPcs
  <2>1. bin \in Binaries
    BY <1>2 DEF MemoryInv, LoadInv
  <2>2. Makes(<<>>)
    BY DEF Makes, Sets, Elems
  <2>3. pc' = "unfreeze_tile" => Quiet'
    BY DEF WalkInv
  <2>4. WalkInv'
    BY <1>1, <2>3, StandKeepsWalk
  <2>5. ImageInv'
    BY <1>1, <2>1, <2>2, StandKeepsImage
  <2> QED
    BY <2>4, <2>5
<1>3. CASE pc \notin LoadPcs
  <2>1. Stage \notin SegmentStages \cup {"config_symbols"}
    BY <1>3 DEF Stage, LoadPcs, SegmentStages
  <2> QED
    BY <1>3, <2>1, NoClaims
<1> QED
  BY <1>2, <1>3

LEMMA FenceKeepsImage ==
  ASSUME HostInv, MemoryInv, WalkInv, ImageInv, Fence, UNCHANGED deviceVars
  PROVE  WalkInv' /\ ImageInv'
<1>1. /\ UNCHANGED <<posted, mem, runs, seg, it, sym, bin, mesh, dram_enabled, epoch, mishaps>>
      /\ pc = "fence" /\ pc' = after /\ Quiet
  BY DEF Fence, deviceVars, nodeVars, historyVars
<1>2. after # "fence"
  BY <1>1 DEF HostInv, PlaceInv
<1>3. Stage' = Stage
  BY <1>1, <1>2 DEF Stage
<1>4. Quiet'
  BY <1>1 DEF Quiet
<1>5. bin \in Binaries
  BY <1>1 DEF MemoryInv, LoadInv, LoadPcs
<1>6. Keeps({}) /\ Makes(<<>>)
  BY <1>1, NothingKeeps
<1>7. Unstarted' => Unstarted
  BY <1>1 DEF Unstarted
<1>8. WalkInv'
  BY <1>1, <1>3, <1>4, StandKeepsWalk
<1>9. ImageInv'
  BY <1>1, <1>3, <1>5, <1>6, <1>7, StandKeepsImage
<1> QED
  BY <1>8, <1>9

\* A write arrives.
LEMMA DeliverKeepsImage ==
  ASSUME HostInv, MemoryInv, LinkInv, StartInv, WalkInv, ImageInv, NEW n \in Nodes, Delivery(n)
  PROVE  WalkInv' /\ ImageInv'
<1>1. /\ Deliver(n) /\ UNCHANGED <<pc, after, seg, it, sym, bin, mesh, dram_enabled, epoch, mishaps>>
  BY DEF Delivery, Deliver, deviceVars, loaderVars, loadVars, historyVars
<1>2. Keeps({})
  BY <1>1, DeliverKeepsHolds DEF Keeps, MemoryInv, StartInv
<1>3. ~Quiet
  BY <1>1 DEF Deliver, Quiet
<1>4. Unstarted' => Unstarted
  <2>1. runs \in [Tiles -> 0 .. MaxEvents] /\ epoch \in Nat
    BY DEF LinkInv, RunsInv, EventsInv
  <2>2. CASE runs' = runs
    BY <1>1, <2>2 DEF Unstarted
  <2>3. CASE n \in Tiles /\ runs' = [runs EXCEPT ![n] = epoch]
    <3>1. runs'[n] = epoch
      BY <2>1, <2>3
    <3>2. ~Unstarted'
      BY <1>1, <2>1, <2>3, <3>1 DEF Unstarted
    <3> QED
      BY <3>2
  <2> QED
    BY <1>1, <2>2, <2>3 DEF Deliver
<1> QED
  BY <1>1, <1>2, <1>3, <1>4, OthersKeepImage

\* A program of a tile writes one of its variables.
LEMMA StoreKeepsImage ==
  ASSUME HostInv, MemoryInv, LinkInv, WalkInv, ImageInv, NEW u \in Tiles, Store(u)
  PROVE  WalkInv' /\ ImageInv'
<1> DEFINE X == {<<Cache, a>> : a \in {b \in CacheEpas : b + DramEva \in ProgramData}}
<1>1. /\ UNCHANGED <<pc, after, seg, it, sym, bin, mesh, dram_enabled, epoch, mishaps, runs, posted>>
      /\ ~Frozen(u)
  BY DEF Store, hostUnchanged, deviceVars, loaderVars, loadVars, historyVars
<1>2. Keeps(X)
  <2> SUFFICES ASSUME NEW n \in Nodes, NEW a \in Epas(n), NEW v, <<n, a>> \notin X, Holds(n, a, v)
               PROVE  Holds(n, a, v)'
    BY DEF Keeps
  <2>1. n = Cache => a + DramEva \notin ProgramData
    BY Addresses
  <2> QED
    BY <2>1, StoreKeepsHolds DEF MemoryInv
<1>3. \A p \in X : p[1] = Cache /\ p[2] # EPA_TAGS
  <2>1. DramEva \in Nat /\ DramEva >= DmemWords
    BY BinariesAssumption
  <2>2. EPA_TAGS + DramEva \notin ProgramData
    BY <2>1, Addresses, DeviceAssumption DEF EPA_TAGS
  <2> QED
    BY <2>2
<1>4. ~Unstarted
  <2>1. (runs[u] = epoch /\ epoch \in Nat) \/ "died" \in mishaps
    BY <1>1 DEF LinkInv, RunsInv, EventsInv
  <2>2. epoch \in Nat
    BY DEF LinkInv, EventsInv
  <2> QED
    BY <2>1, <2>2 DEF Unstarted
<1>5. ~Unstarted'
  BY <1>1, <1>4 DEF Unstarted
<1>6. Quiet => Quiet'
  BY <1>1 DEF Quiet
<1>7. ASSUME bin \in Binaries, NEW i \in DOMAIN bin.segments, Wanted(bin.segments[i]), Fits(i),
             NEW j \in DOMAIN mesh, NEW k \in 0 .. bin.segments[i].memsz - 1
      PROVE  At(mesh[j], bin.segments[i].paddr + k) \notin X
  <2>1. PICK s : s = bin.segments[i]
    OBVIOUS
  <2>2. PICK t \in Tiles : t = mesh[j]
    BY DEF MemoryInv, MeshInv
  <2>3. Loadable(s) /\ s.load /\ (~is_dram(s.paddr) \/ s.exec)
    BY <1>4, <1>7, <2>1 DEF Wanted, Fits
  <2>4. /\ s.paddr \in Nat /\ s.memsz \in Nat /\ DramEva \in Nat
        /\ IF is_dram(s.paddr)
           THEN /\ Place(t, s.paddr + k) = [node |-> Cache, epa |-> (s.paddr + k) - DramEva]
                /\ (s.paddr + k) - DramEva \in 0 .. DramWords - 1
           ELSE /\ Place(t, s.paddr + k) = [node |-> t, epa |-> s.paddr + k]
                /\ s.paddr + k \in 0 .. DmemWords - 1
    BY <1>7, <2>1, <2>3, SegmentPlace
  <2>5. CASE ~is_dram(s.paddr)
    <3>1. At(t, s.paddr + k)[1] = t
      BY <2>4, <2>5 DEF At
    <3> QED
      BY <1>3, <2>1, <2>2, <3>1, Addresses
  <2>6. CASE is_dram(s.paddr)
    <3>1. s.exec
      BY <2>3, <2>6
    <3>2. i \in Loaded(bin) \cap ExecSegments(bin)
      BY <1>7, <2>1, <2>3, <3>1 DEF Loaded, ExecSegments
    <3>3. WordsOf(s) \cap ProgramData = {}
      BY <1>7, <2>1, <3>2, LayoutAssumption
    <3>4. s.paddr + k \in WordsOf(s)
      BY <2>1, <2>4 DEF WordsOf
    <3>5. At(t, s.paddr + k) = <<Cache, (s.paddr + k) - DramEva>>
      BY <2>4, <2>6 DEF At
    <3>6. ((s.paddr + k) - DramEva) + DramEva = s.paddr + k
      BY <2>1, <2>4
    <3> QED
      BY <2>1, <2>2, <3>3, <3>4, <3>5, <3>6
  <2> QED
    BY <2>5, <2>6
<1> HIDE DEF X
<1> QED
  BY <1>1, <1>2, <1>3, <1>5, <1>6, <1>7, OthersKeepImage

\* Steps outside program_init, and its end when it fails.
LEMMA OutsideKeepsImage ==
  ASSUME HostInv, MemoryInv, WalkInv, ImageInv,
         \/ ManycoreStep /\ UNCHANGED <<loaderVars, deviceVars>>
         \/ DeviceInit \/ MeshInit \/ RequestRx \/ ProgramCalls \/ DeviceFinish \/ FreeDevice \/ Die
         \/ ProgramInit \/ ProgramFreeze \/ (ElfValidate /\ UNCHANGED deviceVars)
  PROVE  WalkInv' /\ ImageInv'
<1> USE DEF loaderVars, loadVars, deviceVars, hostUnchanged, programUnchanged
<1>1. ASSUME pc \notin LoadPcs, pc' \notin LoadPcs \/ pc' = "freeze", UNCHANGED <<seg, sym>>
      PROVE  WalkInv' /\ ImageInv'
  <2>1. Stage \notin SegmentStages \cup {"config_symbols"}
    BY <1>1 DEF Stage, LoadPcs, SegmentStages
  <2> QED
    BY <1>1, <2>1, NoClaims
<1>2. CASE ManycoreStep /\ UNCHANGED <<loaderVars, deviceVars>>
  <2>1. pc \notin LoadPcs
    BY <1>2 DEF ManycoreStep, Attach, MapBar, InitConfig, RespondersInit, EnableDram, DrainOccupancy,
       DrainWord, DrainCheck, ReceiveWord, Respond, RespondersQuit, CleanupMmio, LoadPcs
  <2>2. pc' \notin LoadPcs
    BY <1>2, <2>1 DEF ManycoreStep, Attach, MapBar, InitConfig, RespondersInit, EnableDram, DrainOccupancy,
       DrainWord, DrainCheck, ReceiveWord, Respond, RespondersQuit, CleanupMmio, LoadPcs,
       DrainReturns, InitFails, StartDrain, EndRound, Return
  <2> QED
    BY <1>1, <1>2, <2>1, <2>2
<1>3. CASE DeviceInit \/ MeshInit \/ RequestRx \/ DeviceFinish \/ FreeDevice \/ ProgramInit
  BY <1>1, <1>3 DEF DeviceInit, StartInit, MeshInit, RequestRx, DeviceFinish, StartExit, FreeDevice,
                    ProgramInit, LoadPcs
<1>4. CASE ProgramCalls
  <2>1. UNCHANGED <<pc, seg, sym>> /\ pc = "idle"
    BY <1>4 DEF ProgramCalls, ResponderAdd, ResponderDel, DisableDram
  <2> QED
    BY <1>1, <2>1 DEF LoadPcs
<1>5. CASE Die
  BY <1>5, NoClaims DEF Die, Return, LoadPcs
<1>6. CASE ProgramFreeze
  <2>1. pc = "freeze" /\ Stage \notin SegmentStages \cup {"config_symbols"}
    BY <1>6 DEF ProgramFreeze, Stage, SegmentStages
  <2>2. /\ pc' \in {"load", "idle"} /\ sym' = sym
        /\ seg' = seg \/ seg' = 1
    BY <1>6 DEF ProgramFreeze, SendFails, LoadFails, Return
  <2>3. seg = 1 /\ sym = 0
    BY <2>1 DEF WalkInv
  <2> QED
    BY <2>1, <2>2, <2>3, NoClaims DEF LoadPcs
<1>7. CASE ElfValidate /\ UNCHANGED deviceVars
  <2>1. pc = "load" /\ Stage \notin SegmentStages \cup {"config_symbols"}
    BY <1>7 DEF ElfValidate, Stage, SegmentStages
  <2>2. /\ pc' \in {"tiles_initialize", "idle"} /\ sym' = sym
        /\ seg' = seg \/ seg' = 1
    BY <1>7 DEF ElfValidate, LoadFails, Return
  <2>3. seg = 1 /\ sym = 0
    BY <2>1 DEF WalkInv
  <2> QED
    BY <2>1, <2>2, <2>3, NoClaims DEF LoadPcs
<1> QED
  BY <1>2, <1>3, <1>4, <1>5, <1>6, <1>7

\* A load that fails.
LEMMA FailKeepsImage ==
  ASSUME WalkInv, LoadFails, sym' = 0 \/ (sym' = sym /\ (sym = 0 \/ Stage # "config_symbols"))
  PROVE  WalkInv' /\ ImageInv'
<1>1. seg' = 1 /\ sym' = 0 /\ pc' = "idle"
  BY DEF LoadFails, Return, WalkInv
<1> QED
  BY <1>1, NoClaims DEF LoadPcs

-----------------------------------------------------------------------------
(* The steps of hb_mc_loader_load.                                         *)

\* What the steps share: the tile they write to, and the others.
LEMMA WritePlace ==
  ASSUME HostInv, MemoryInv, WalkInv, pc \in LoadPcs \ {"fence"}
  PROVE  /\ Stage = pc /\ bin \in Binaries /\ bin.segments \in Seq(ProgramHeader)
         /\ mesh \in Seq(Tiles) /\ Len(mesh) \in Nat \ {0} /\ DOMAIN mesh = 1 .. Len(mesh)
         /\ it \in Nat \ {0} /\ seg \in Nat \ {0} /\ sym \in 0 .. 12
         /\ DOMAIN ConfigSymbols = 1 .. 12
         /\ \A j \in DOMAIN mesh : mesh[j] \in Tiles /\ mesh[j] # Cache /\ mesh[j] \in Nodes
         /\ \A i, j \in DOMAIN mesh : mesh[i] = mesh[j] => i = j
         /\ it <= Len(mesh) => it \in DOMAIN mesh
<1>1. /\ Stage = pc /\ bin \in Binaries /\ it \in Nat \ {0}
      /\ mesh \in Seq(Tiles) /\ Len(mesh) \in Nat \ {0}
  BY LoadPlace
<1>2. Len(ConfigSymbols) = 12 /\ DOMAIN ConfigSymbols = 1 .. 12
  BY DEF ConfigSymbols
<1>3. seg \in Nat \ {0} /\ sym \in 0 .. 12
  BY <1>2 DEF MemoryInv, LoadInv
<1>4. bin.segments \in Seq(ProgramHeader)
  BY <1>1, BinariesAssumption
<1>5. \A j \in DOMAIN mesh : mesh[j] \in Tiles /\ mesh[j] # Cache /\ mesh[j] \in Nodes
  BY <1>1, Addresses
<1> QED
  BY <1>1, <1>2, <1>3, <1>4, <1>5 DEF MemoryInv, MeshInv

\* Registers, instruction caches and tags are not where data is.
LEMMA OutsideData ==
  /\ \A t \in Tiles : \A k \in Nat :
       /\ <<t, EPA_ORIGIN_X>> \notin Data /\ <<t, EPA_ORIGIN_Y>> \notin Data
       /\ <<t, EPA_DRAM_ENABLE>> \notin Data /\ <<t, EPA_ICACHE + k>> \notin Data
  /\ <<Cache, EPA_TAGS>> \notin Data
<1>1. \A t \in Tiles : \A a : <<t, a>> \in Data => a \in 0 .. DmemWords - 1
  BY Addresses DEF Data
<1>2. \A a : <<Cache, a>> \in Data => a \in 0 .. DramWords - 1
  BY Addresses DEF Data
<1>3. DmemWords \in Nat /\ DramWords \in Nat
  BY Addresses
<1>4. /\ EPA_ORIGIN_X \notin 0 .. DmemWords - 1 /\ EPA_ORIGIN_Y \notin 0 .. DmemWords - 1
      /\ EPA_DRAM_ENABLE \notin 0 .. DmemWords - 1
      /\ \A k \in Nat : EPA_ICACHE + k \notin 0 .. DmemWords - 1
      /\ EPA_TAGS \notin 0 .. DramWords - 1
  BY <1>3 DEF EPA_ORIGIN_X, EPA_ORIGIN_Y, EPA_DRAM_ENABLE, EPA_ICACHE, EPA_TAGS
<1> QED
  BY <1>1, <1>2, <1>4

\* The registers of all tiles.
LEMMA InitializeKeepsImage ==
  ASSUME HostInv, MemoryInv, WalkInv, ImageInv, TilesInitialize, UNCHANGED deviceVars
  PROVE  WalkInv' /\ ImageInv'
<1> USE DEF deviceVars, loaderUnchanged
<1> DEFINE lists == [t \in Tiles |-> tile_set_registers(t)]
           W == ForEach(mesh, lists)
<1>1. /\ pc = "tiles_initialize" /\ UNCHANGED <<mem, bin, mesh, sym, dram_enabled>>
      /\ \/ /\ Post(W) /\ UNCHANGED <<it, seg>>
            /\ pc' = IF dram_enabled THEN "segment" ELSE "validate_vcache"
         \/ LoadFails
  BY DEF TilesInitialize, SendFails
<1>2. /\ Stage = pc /\ mesh \in Seq(Tiles) /\ Len(mesh) \in Nat \ {0} /\ DOMAIN mesh = 1 .. Len(mesh)
      /\ \A j \in DOMAIN mesh : mesh[j] \in Tiles /\ mesh[j] \in Nodes
  BY <1>1, WritePlace DEF LoadPcs
<1>3. seg = 1 /\ sym = 0 /\ it = 1
  BY <1>1, <1>2 DEF WalkInv, SegmentStages, MemoryInv, LoadInv, SetupStages
<1>4. CASE LoadFails
  BY <1>1, <1>2, <1>4, FailKeepsImage
<1>5. CASE Post(W) /\ UNCHANGED <<it, seg>> /\ pc' = IF dram_enabled THEN "segment" ELSE "validate_vcache"
  <2>1. mesh # <<>>
    BY <1>2
  <2> HIDE DEF lists
  <2>2. Control(W) /\ \A t \in Tiles : Freezing(W, t)
    BY <1>2, <2>1, RegistersList DEF lists
  <2>3. \A t \in Elems(mesh) : Sets(W, t, EPA_DRAM_ENABLE, IF dram_enabled THEN 1 ELSE 0)
    BY <1>2, <2>1, RegistersWord DEF lists
  <2> HIDE DEF W
  <2>4. Stage' = pc' /\ Stage' \in {"segment", "validate_vcache"}
        /\ (Stage' = "segment" => dram_enabled) /\ it' = 1 /\ seg' = 1 /\ sym' = 0
    BY <1>1, <1>3, <1>5 DEF Stage
  <2>5. WalkInv'
    <3>1. \A i \in DOMAIN bin'.segments : ~(i < seg')
      <4>1. \A i \in DOMAIN bin.segments : i \in Nat \ {0}
        BY <1>1, WritePlace DEF LoadPcs
      <4> QED
        BY <1>1, <2>4, <4>1
    <3>2. pc' # "unfreeze_tile"
      BY <2>4
    <3> QED
      BY <2>4, <3>1, <3>2 DEF WalkInv, SegmentStages, LaterStages, StartStages
  <2>6. /\ \A j \in DOMAIN mesh : ~IcacheDone(j)' /\ ~OriginDone(j)'
        /\ \A j \in DOMAIN mesh : \A m \in DOMAIN ConfigSymbols : ~SymbolDone(j, m)'
        /\ \A i \in Nat \ {0} : \A j \in DOMAIN mesh : \A k : ~SegmentDone(i, j, k)'
        /\ ~TagsDone'
    BY <1>1, <1>2, <2>4
       DEF IcacheDone, OriginDone, SymbolDone, SegmentDone, TagsDone, SegmentStages, WriteStages, StartStages
  <2>7. SegmentsHeld'
    <3>1. \A i \in DOMAIN bin.segments : i \in Nat \ {0}
      BY <1>1, WritePlace DEF LoadPcs
    <3> QED
      BY <1>1, <2>6, <3>1 DEF SegmentsHeld
  <2>8. IcachesHeld' /\ SymbolsHeld' /\ OriginsHeld' /\ TagsHeld'
    BY <1>1, <2>6 DEF IcachesHeld, SymbolsHeld, OriginsHeld, TagsHeld, ConfigSymbols
  <2>9. PointerHeld'
    BY <2>4 DEF PointerHeld
  <2>10. Keeps(Touched(W)) /\ Makes(W)
    BY <1>1, <1>5, <2>2, PostKeeps, PostMakes DEF Control, MemoryInv
  <2>11. EnablesHeld'
    <3>1. \A j \in DOMAIN mesh : Sets(W, mesh[j], EPA_DRAM_ENABLE, IF dram_enabled THEN 1 ELSE 0)
      BY <2>3 DEF Elems
    <3> QED
      BY <1>1, <1>2, <2>10, <3>1, EnablesKept DEF ImageInv
  <2> QED
    BY <2>5, <2>7, <2>8, <2>9, <2>11 DEF ImageInv
<1> QED
  BY <1>1, <1>4, <1>5

\* The tags of the caches.
LEMMA ValidateKeepsImage ==
  ASSUME HostInv, MemoryInv, WalkInv, ImageInv, ValidateVcache, UNCHANGED deviceVars
  PROVE  WalkInv' /\ ImageInv'
<1> USE DEF deviceVars, loaderUnchanged
<1> DEFINE w == Write(Cache, EPA_TAGS, 1)
           W == <<w>>
<1>1. /\ pc = "validate_vcache" /\ UNCHANGED <<mem, bin, mesh, sym, dram_enabled>>
      /\ \/ Post(W) /\ UNCHANGED <<it, seg>> /\ pc' = "segment"
         \/ LoadFails
  BY DEF ValidateVcache, SendFails
<1>2. /\ Stage = pc /\ mesh \in Seq(Tiles) /\ DOMAIN mesh = 1 .. Len(mesh)
      /\ \A j \in DOMAIN mesh : mesh[j] \in Tiles /\ mesh[j] # Cache
  BY <1>1, WritePlace DEF LoadPcs
<1>3. seg = 1 /\ sym = 0 /\ it = 1
  BY <1>1, <1>2 DEF WalkInv, SegmentStages, MemoryInv, LoadInv, SetupStages
<1>4. CASE LoadFails
  BY <1>1, <1>2, <1>4, FailKeepsImage
<1>5. CASE Post(W) /\ UNCHANGED <<it, seg>> /\ pc' = "segment"
  <2>1. w \in Packet /\ w.to = Cache /\ w.epa = EPA_TAGS /\ w.val = 1
    <3>1. EPA_TAGS \in CacheEpas
      BY MemoryAssumption DEF EPA_TAGS, CacheEpas
    <3> QED
      BY <3>1, CacheWrite DEF Write
  <2> HIDE DEF w
  <2>2. W \in Seq(Packet) /\ Elems(W) = {w}
    BY <2>1, ShortLists
  <2> HIDE DEF W
  <2>3. /\ \A t \in Tiles : Freezing(W, t)
        /\ Sets(W, Cache, EPA_TAGS, 1)
        /\ \A p \in Touched(W) : p[1] = Cache
    BY <2>1, <2>2, Addresses DEF Freezing, Sets, Touched
  <2>4. Keeps(Touched(W)) /\ Makes(W)
    BY <1>1, <1>5, <2>2, <2>3, PostKeeps, PostMakes DEF MemoryInv
  <2>5. Stage' = "segment" /\ it' = 1 /\ seg' = 1 /\ sym' = 0
    BY <1>3, <1>1, <1>5 DEF Stage
  <2>6. WalkInv'
    <3>1. \A i \in DOMAIN bin'.segments : ~(i < seg')
      <4>1. \A i \in DOMAIN bin.segments : i \in Nat \ {0}
        BY <1>1, WritePlace DEF LoadPcs
      <4> QED
        BY <1>1, <2>5, <4>1
    <3> QED
      BY <1>5, <2>5, <3>1 DEF WalkInv, SegmentStages, LaterStages, StartStages
  <2>7. /\ \A j \in DOMAIN mesh : ~IcacheDone(j)' /\ ~OriginDone(j)'
        /\ \A j \in DOMAIN mesh : \A m \in DOMAIN ConfigSymbols : ~SymbolDone(j, m)'
        /\ \A i \in Nat \ {0} : \A j \in DOMAIN mesh : \A k : ~SegmentDone(i, j, k)'
    BY <1>1, <1>2, <2>5
       DEF IcacheDone, OriginDone, SymbolDone, SegmentDone, SegmentStages, WriteStages, StartStages
  <2>8. SegmentsHeld'
    <3>1. \A i \in DOMAIN bin.segments : i \in Nat \ {0}
      BY <1>1, WritePlace DEF LoadPcs
    <3> QED
      BY <1>1, <2>7, <3>1 DEF SegmentsHeld
  <2>9. IcachesHeld' /\ SymbolsHeld' /\ OriginsHeld'
    BY <1>1, <2>7 DEF IcachesHeld, SymbolsHeld, OriginsHeld, ConfigSymbols
  <2>10. PointerHeld'
    BY <2>5 DEF PointerHeld
  <2>11. EnablesHeld'
    <3>1. \A j \in DOMAIN mesh : EnableDone(j) /\ <<mesh[j], EPA_DRAM_ENABLE>> \notin Touched(W)
      BY <1>1, <1>2, <2>3 DEF EnableDone
    <3> QED
      BY <1>1, <1>2, <2>4, <3>1, EnablesKept DEF ImageInv
  <2>12. TagsHeld'
    BY <2>3, <2>4, TagsKept DEF ImageInv
  <2> QED
    BY <2>6, <2>8, <2>9, <2>10, <2>11, <2>12 DEF ImageInv
<1> QED
  BY <1>1, <1>4, <1>5

\* Segments do not share words, and tiles share those in DRAM only.
LEMMA SegmentsApart ==
  ASSUME NEW b \in Binaries, NEW i \in DOMAIN b.segments, NEW j \in DOMAIN b.segments,
         NEW r, r = b.segments[i], Loadable(r), r.load, NEW k \in 0 .. r.memsz - 1,
         NEW s, s = b.segments[j], Loadable(s), s.load, NEW l \in 0 .. s.memsz - 1,
         NEW t \in Tiles, NEW u \in Tiles, At(t, r.paddr + k) = At(u, s.paddr + l)
  PROVE  i = j /\ k = l /\ (is_dram(r.paddr) \/ t = u)
<1>1. /\ r.paddr \in Nat /\ r.memsz \in Nat
      /\ ~is_dram(r.paddr) => Place(t, r.paddr + k) = [node |-> t, epa |-> r.paddr + k]
      /\ ~is_dram(r.paddr) => Place(u, r.paddr + k) = [node |-> u, epa |-> r.paddr + k]
  BY SegmentPlace, ZenonT(30)
<1>2. s.paddr \in Nat /\ s.memsz \in Nat
  BY SegmentPlace
<1>3. r.paddr + k \in Nat /\ s.paddr + l \in Nat
  BY <1>1, <1>2
<1>4. r.paddr + k = s.paddr + l
  BY <1>3, AtIsUnique
<1>5. r.paddr + k \in WordsOf(r) /\ s.paddr + l \in WordsOf(s)
  BY <1>1, <1>2 DEF WordsOf
<1>6. i \in Loaded(b) /\ j \in Loaded(b)
  BY DEF Loaded
<1>7. i = j
  BY <1>4, <1>5, <1>6, LayoutAssumption
<1>8. k = l
  BY <1>1, <1>4, <1>7
<1>9. ~is_dram(r.paddr) => t = u
  <2> SUFFICES ASSUME ~is_dram(r.paddr) PROVE t = u
    OBVIOUS
  <2>1. Place(t, r.paddr + k).node = t /\ Place(u, r.paddr + k).node = u
    BY <1>1
  <2>2. Place(t, r.paddr + k).node = Place(u, r.paddr + k).node
    BY <1>4 DEF At
  <2> QED
    BY <2>1, <2>2
<1> QED
  BY <1>7, <1>8, <1>9

\* While segments are loaded, the rest is yet to come, or registers.
LEMMA DataKeepsImage ==
  ASSUME HostInv, MemoryInv, WalkInv, ImageInv, pc \in SegmentStages,
         Stage' \in SegmentStages \/ (Stage' = "icache" /\ it' = 1),
         UNCHANGED <<bin, mesh, dram_enabled>>, NEW X, NEW W, Keeps(X), Makes(W), X \subseteq Data
  PROVE  IcachesHeld' /\ SymbolsHeld' /\ OriginsHeld' /\ EnablesHeld' /\ TagsHeld' /\ PointerHeld'
<1>1. /\ Stage = pc /\ mesh \in Seq(Tiles) /\ DOMAIN mesh = 1 .. Len(mesh)
      /\ \A j \in DOMAIN mesh : mesh[j] \in Tiles
  BY WritePlace DEF LoadPcs, SegmentStages
<1>2. \A j \in DOMAIN mesh : ~IcacheDone(j)'
  BY <1>1 DEF IcacheDone, SegmentStages, StartStages
<1>3. IcachesHeld'
  BY <1>2 DEF IcachesHeld
<1>4. (\A j, m : ~SymbolDone(j, m)') /\ \A j : ~OriginDone(j)'
  BY DEF SymbolDone, OriginDone, SegmentStages, StartStages
<1>5. SymbolsHeld' /\ OriginsHeld'
  BY <1>4 DEF SymbolsHeld, OriginsHeld
<1>6. EnablesHeld'
  <2>1. \A j \in DOMAIN mesh : EnableDone(j) /\ <<mesh[j], EPA_DRAM_ENABLE>> \notin X
    BY <1>1, OutsideData DEF EnableDone, SegmentStages, WriteStages
  <2> QED
    BY <1>1, <2>1, EnablesKept DEF ImageInv
<1>7. TagsHeld'
  <2>1. <<Cache, EPA_TAGS>> \notin X
    BY OutsideData
  <2>2. TagsDone' => TagsDone
    BY <1>1 DEF TagsDone, SegmentStages, WriteStages
  <2> QED
    BY <2>1, <2>2, TagsKept DEF ImageInv
<1>8. PointerHeld'
  BY DEF PointerHeld, SegmentStages
<1> QED
  BY <1>3, <1>5, <1>6, <1>7, <1>8

\* The end of the walk through segments, and those that are not loaded.
LEMMA SkipKeepsImage ==
  ASSUME HostInv, MemoryInv, WalkInv, ImageInv, pc = "segment",
         UNCHANGED <<mem, posted, runs, epoch, mishaps, bin, mesh, dram_enabled, it, sym>>,
         \/ /\ seg <= Len(bin.segments) /\ Fits(seg) /\ ~bin.segments[seg].load
            /\ seg' = seg + 1 /\ pc' = "segment"
         \/ seg > Len(bin.segments) /\ seg' = 1 /\ pc' = "icache"
  PROVE  WalkInv' /\ ImageInv'
<1>1. /\ Stage = pc /\ Stage' = pc' /\ bin \in Binaries /\ bin.segments \in Seq(ProgramHeader)
      /\ it \in Nat \ {0} /\ seg \in Nat \ {0} /\ mesh \in Seq(Tiles)
  BY WritePlace DEF LoadPcs, Stage
<1>2. it = 1
  <2>1. seg \in DOMAIN bin.segments => ~bin.segments[seg].load
    BY <1>1
  <2>2. ~(it > 1)
    BY <1>1, <2>1 DEF WalkInv
  <2> QED
    BY <1>1, <2>2
<1>3. \A i \in DOMAIN bin.segments : i < seg => Fits(i)
  BY <1>1 DEF WalkInv, SegmentStages
<1>4. \A i \in DOMAIN bin.segments : i \in 1 .. Len(bin.segments) /\ Fits(i)' = Fits(i)
  BY <1>1 DEF Fits, Loadable, Capacity, is_dram
<1>5. Keeps({}) /\ Makes(<<>>)
  BY NothingKeeps
<1>6. WalkInv'
  <2>1. sym' = 0
    BY <1>1 DEF WalkInv
  <2>2. CASE pc' = "segment"
    <3>1. \A i \in DOMAIN bin.segments : i < seg' => Fits(i)
      BY <1>1, <1>3, <1>4, <2>2
    <3> QED
      BY <1>1, <1>2, <1>4, <2>1, <2>2, <3>1 DEF WalkInv, SegmentStages, LaterStages, StartStages
  <2>3. CASE pc' = "icache"
    <3>1. \A i \in DOMAIN bin.segments : Fits(i)
      BY <1>1, <1>3, <1>4, <2>3
    <3> QED
      BY <1>1, <1>4, <2>1, <2>3, <3>1 DEF WalkInv, SegmentStages, LaterStages, StartStages
  <2> QED
    BY <2>2, <2>3
<1>7. SegmentsHeld'
  <2>1. ASSUME NEW i \in DOMAIN bin.segments, NEW j \in DOMAIN mesh, NEW k,
               SegmentDone(i, j, k)', Wanted(bin.segments[i])
        PROVE  Fits(i) /\ SegmentDone(i, j, k)
    <3>1. i \in 1 .. Len(bin.segments) /\ j \in Nat \ {0}
      BY <1>1, <1>4
    <3>2. i < seg
      <4>1. CASE pc' = "segment"
        <5>1. i < seg + 1
          BY <1>1, <1>2, <2>1, <3>1, <4>1 DEF SegmentDone, SegmentStages, StartStages
        <5>2. i # seg
          BY <2>1, <4>1 DEF Wanted
        <5> QED
          BY <1>1, <3>1, <5>1, <5>2
      <4>2. CASE pc' = "icache"
        BY <1>1, <3>1, <4>2
      <4> QED
        BY <4>1, <4>2
    <3> QED
      BY <1>1, <1>3, <3>2 DEF SegmentDone, SegmentStages
  <2>2. Unstarted' => Unstarted
    BY DEF Unstarted
  <2> QED
    BY <1>1, <1>5, <2>1, <2>2, SegmentsKept DEF ImageInv
<1>8. Stage' \in SegmentStages \/ (Stage' = "icache" /\ it' = 1)
  BY <1>1, <1>2 DEF SegmentStages
<1> QED
  BY <1>5, <1>6, <1>7, <1>8, DataKeepsImage DEF ImageInv, SegmentStages

\* Sending what one tile gets of a program.
LEMMA ContentKeeps ==
  ASSUME MemoryInv, NEW t \in Tiles, NEW W, Content(W, t), Post(W), mem' = mem
  PROVE  Keeps(Touched(W)) /\ Makes(W)
<1>1. W \in Seq(Packet) /\ \A u \in Tiles : Freezing(W, u)
  BY Addresses DEF Content, Freezing
<1> QED
  BY <1>1, PostKeeps, PostMakes DEF MemoryInv

\* A word of a segment that was written before is not in what is written now.
LEMMA SegmentsStay ==
  ASSUME HostInv, MemoryInv, WalkInv, pc \in SegmentStages, it \in DOMAIN mesh,
         NEW s, s = bin.segments[seg], seg \in DOMAIN bin.segments, Fits(seg), s.load,
         NEW lo \in Nat, NEW X, X \subseteq SegmentAt(mesh[it], s, lo, s.memsz),
         NEW i \in DOMAIN bin.segments, NEW j \in DOMAIN mesh,
         NEW k \in 0 .. bin.segments[i].memsz - 1, Fits(i), bin.segments[i].load,
         \/ i # seg
         \/ j # it /\ ~is_dram(s.paddr)
         \/ k < lo
  PROVE  At(mesh[j], bin.segments[i].paddr + k) \notin X
<1> SUFFICES ASSUME At(mesh[j], bin.segments[i].paddr + k) \in X
             PROVE  FALSE
  OBVIOUS
<1>1. /\ bin \in Binaries /\ mesh[j] \in Tiles /\ mesh[it] \in Tiles
      /\ \A l, m \in DOMAIN mesh : mesh[l] = mesh[m] => l = m
  BY WritePlace DEF LoadPcs, SegmentStages
<1>2. PICK l \in lo .. s.memsz - 1 : At(mesh[j], bin.segments[i].paddr + k) = At(mesh[it], s.paddr + l)
  BY DEF SegmentAt
<1>3. s.memsz \in Nat /\ bin.segments[i].memsz \in Nat
  BY <1>1, SegmentPlace DEF Fits
<1>4. l \in 0 .. s.memsz - 1 /\ l >= lo
  BY <1>3
<1>5. PICK r, t, u : r = bin.segments[i] /\ t = mesh[j] /\ u = mesh[it]
  OBVIOUS
<1>6. i = seg /\ k = l /\ (is_dram(r.paddr) \/ t = u)
  <2>1. At(t, r.paddr + k) = At(u, s.paddr + l) /\ k \in 0 .. r.memsz - 1
    BY <1>2, <1>5
  <2> QED
    BY <1>1, <1>4, <1>5, <2>1, SegmentsApart DEF Fits
<1>7. ~(k < lo)
  BY <1>4, <1>6
<1>8. j = it \/ is_dram(s.paddr)
  BY <1>1, <1>5, <1>6
<1> QED
  BY <1>6, <1>7, <1>8

\* The data of a segment for a tile.
LEMMA LoadKeepsImage ==
  ASSUME HostInv, MemoryInv, WalkInv, ImageInv, LoadSegment, UNCHANGED deviceVars
  PROVE  WalkInv' /\ ImageInv'
<1> USE DEF deviceVars, loaderUnchanged, historyVars
<1>1. /\ pc = "segment" /\ seg <= Len(bin.segments)
      /\ UNCHANGED <<mem, runs, epoch, mishaps, bin, mesh, dram_enabled, sym>>
  BY DEF LoadSegment
<1>2. /\ Stage = pc /\ bin \in Binaries /\ bin.segments \in Seq(ProgramHeader)
      /\ it \in Nat \ {0} /\ seg \in Nat \ {0} /\ mesh \in Seq(Tiles)
      /\ \A j \in DOMAIN mesh : j \in Nat \ {0}
  BY <1>1, WritePlace DEF LoadPcs
<1>3. PICK s : s = bin.segments[seg]
  OBVIOUS
<1>4. PICK t \in Tiles : t = mesh[it] /\ it \in DOMAIN mesh
  <2>1. it <= Len(mesh)
    BY <1>1, <1>2 DEF MemoryInv, LoadInv
  <2> QED
    BY <1>2, <2>1
<1>5. seg \in DOMAIN bin.segments
  BY <1>1, <1>2
<1>6. sym = 0
  BY <1>1, <1>2 DEF WalkInv
<1> DEFINE W == EvaWrites(t, s.paddr, s.data)
<1>7. \/ LoadFails
      \/ Loadable(s) /\ ~s.load /\ seg' = seg + 1 /\ UNCHANGED <<pc, it, posted>>
      \/ Loadable(s) /\ s.load /\ SendBlock(W, "zeros") /\ UNCHANGED <<it, seg>>
  BY <1>3, <1>4 DEF LoadSegment, SendFails
<1>8. CASE LoadFails
  BY <1>1, <1>6, <1>8, FailKeepsImage
<1>9. CASE Loadable(s) /\ ~s.load /\ seg' = seg + 1 /\ UNCHANGED <<pc, it, posted>>
  BY <1>1, <1>3, <1>9, SkipKeepsImage DEF Fits
<1>10. CASE Loadable(s) /\ s.load /\ SendBlock(W, "zeros") /\ UNCHANGED <<it, seg>>
  <2>1. /\ Content(W, t)
        /\ \A k \in 0 .. s.memsz - 1 : At(t, s.paddr + k) \in Data
        /\ Touched(W) \subseteq SegmentAt(t, s, 0, Len(s.data))
        /\ \A k \in 0 .. Len(s.data) - 1 :
             Sets(W, Place(t, s.paddr + k).node, Place(t, s.paddr + k).epa, SegmentValue(s, k))
    BY <1>2, <1>3, <1>5, <1>10, SegmentLists, SegmentWords
  <2>2. s.paddr \in Nat /\ s.memsz \in Nat /\ Len(s.data) \in 0 .. s.memsz
    BY <1>2, <1>3, <1>5, <1>10, SegmentPlace
  <2> HIDE DEF W
  <2>3. Post(W) /\ Stage' = "zeros" /\ pc' \in {"fence", "zeros"}
    BY <1>10, BlockIsSent DEF SendBlock, LoadPcs
  <2>4. Keeps(Touched(W)) /\ Makes(W)
    BY <1>1, <2>1, <2>3, ContentKeeps
  <2>5. Touched(W) \subseteq SegmentAt(t, s, 0, s.memsz) /\ Touched(W) \subseteq Data
    <3>1. \A k \in 0 .. Len(s.data) - 1 : k \in 0 .. s.memsz - 1
      BY <2>2
    <3> QED
      BY <2>1, <3>1 DEF SegmentAt
  <2>6. \A i \in DOMAIN bin.segments : i \in 1 .. Len(bin.segments) /\ Fits(i)' = Fits(i)
    BY <1>1, <1>2 DEF Fits, Loadable, Capacity, is_dram
  <2>7. \A i \in DOMAIN bin.segments : i < seg => Fits(i)
    BY <1>1, <1>2 DEF WalkInv, SegmentStages
  <2>8. WalkInv'
    BY <1>1, <1>6, <1>10, <2>3, <2>6, <2>7 DEF WalkInv, SegmentStages, LaterStages, StartStages
  <2>9. SegmentsHeld'
    <3>1. ASSUME NEW i \in DOMAIN bin.segments, NEW j \in DOMAIN mesh,
                 NEW k \in 0 .. bin.segments[i].memsz - 1,
                 SegmentDone(i, j, k)', Wanted(bin.segments[i])
          PROVE  /\ Fits(i)
                 /\ \/ /\ SegmentDone(i, j, k)
                       /\ At(mesh[j], bin.segments[i].paddr + k) \notin Touched(W)
                    \/ Sets(W, Place(mesh[j], bin.segments[i].paddr + k).node,
                            Place(mesh[j], bin.segments[i].paddr + k).epa,
                            SegmentValue(bin.segments[i], k))
      <4>1. \/ i < seg
            \/ i = seg /\ j < it
            \/ i = seg /\ j = it /\ k < Len(s.data)
        BY <1>1, <1>3, <1>10, <2>3, <3>1 DEF SegmentDone, SegmentStages, StartStages
      <4>2. Fits(seg) /\ s.load /\ bin.segments[i].load
        BY <1>3, <1>10, <3>1 DEF Fits, Wanted
      <4>3. Fits(i)
        BY <2>7, <4>1, <4>2
      <4>4. CASE i < seg
        <5>1. i # seg
          BY <1>2, <2>6, <4>4
        <5>2. At(mesh[j], bin.segments[i].paddr + k) \notin Touched(W)
          BY <1>1, <1>3, <1>4, <1>5, <2>5, <4>2, <4>3, <5>1, SegmentsStay DEF SegmentStages
        <5> QED
          BY <1>1, <1>2, <4>3, <4>4, <5>2 DEF SegmentDone, SegmentStages
      <4>5. CASE i = seg /\ j < it
        <5>1. it > 1
          BY <1>2, <4>5
        <5>2. ~is_dram(s.paddr) /\ j # it
          BY <1>1, <1>2, <1>3, <4>5, <5>1 DEF WalkInv
        <5>3. At(mesh[j], bin.segments[i].paddr + k) \notin Touched(W)
          BY <1>1, <1>3, <1>4, <1>5, <2>5, <4>2, <4>3, <5>2, SegmentsStay DEF SegmentStages
        <5> QED
          BY <1>1, <1>2, <4>3, <4>5, <5>3 DEF SegmentDone, SegmentStages
      <4>6. CASE i = seg /\ j = it /\ k < Len(s.data)
        <5>1. k \in 0 .. Len(s.data) - 1
          BY <1>3, <2>2, <4>6
        <5>2. bin.segments[i] = s /\ mesh[j] = t
          BY <1>3, <1>4, <4>6
        <5>3. Sets(W, Place(t, s.paddr + k).node, Place(t, s.paddr + k).epa, SegmentValue(s, k))
          BY <2>1, <5>1
        <5> QED
          BY <4>3, <5>2, <5>3
      <4> QED
        BY <4>1, <4>4, <4>5, <4>6
    <3>2. Unstarted' => Unstarted
      BY <1>1 DEF Unstarted
    <3> QED
      BY <1>1, <1>2, <2>4, <3>1, <3>2, SegmentsKept DEF ImageInv
  <2> QED
    BY <1>1, <2>3, <2>4, <2>5, <2>8, <2>9, DataKeepsImage DEF ImageInv, SegmentStages
<1> QED
  BY <1>7, <1>8, <1>9, <1>10

\* The zeroes of a segment, for a tile or for all.
LEMMA ZeroKeepsImage ==
  ASSUME HostInv, MemoryInv, WalkInv, ImageInv, ZeroSegment, UNCHANGED deviceVars
  PROVE  WalkInv' /\ ImageInv'
<1> USE DEF deviceVars, loaderUnchanged, historyVars
<1>1. /\ pc = "zeros"
      /\ UNCHANGED <<mem, runs, epoch, mishaps, bin, mesh, dram_enabled, sym>>
  BY DEF ZeroSegment
<1>2. /\ Stage = pc /\ bin \in Binaries /\ bin.segments \in Seq(ProgramHeader)
      /\ it \in Nat \ {0} /\ seg \in Nat \ {0} /\ mesh \in Seq(Tiles)
      /\ DOMAIN mesh = 1 .. Len(mesh) /\ Len(mesh) \in Nat
      /\ \A j \in DOMAIN mesh : j \in Nat \ {0} /\ mesh[j] \in Tiles
  BY <1>1, WritePlace DEF LoadPcs
<1>3. PICK s : s = bin.segments[seg]
  OBVIOUS
<1>4. PICK t \in Tiles : t = mesh[it] /\ it \in DOMAIN mesh
  <2>1. it <= Len(mesh)
    BY <1>1, <1>2 DEF MemoryInv, LoadInv
  <2> QED
    BY <1>2, <2>1
<1>5. seg \in DOMAIN bin.segments /\ Fits(seg) /\ Loadable(s) /\ s.load
  <2>1. seg <= Len(bin.segments) /\ Loadable(bin.segments[seg]) /\ bin.segments[seg].load
    BY <1>1, <1>2 DEF MemoryInv, LoadInv
  <2> QED
    BY <1>2, <1>3, <2>1 DEF Fits
<1>6. sym = 0
  BY <1>1, <1>2 DEF WalkInv
<1> DEFINE W == ZeroWrites(t, s)
<1>7. LoadFails \/ (SendBlock(W, "segment") /\ NextSegmentOrTile(s))
  BY <1>3, <1>4 DEF ZeroSegment, SendFails
<1>8. CASE LoadFails
  BY <1>1, <1>6, <1>8, FailKeepsImage
<1>9. CASE SendBlock(W, "segment") /\ NextSegmentOrTile(s)
  <2>1. /\ Content(W, t)
        /\ \A k \in 0 .. s.memsz - 1 : At(t, s.paddr + k) \in Data
        /\ Touched(W) \subseteq SegmentAt(t, s, Len(s.data), s.memsz)
        /\ \A k \in Len(s.data) .. s.memsz - 1 :
             Sets(W, Place(t, s.paddr + k).node, Place(t, s.paddr + k).epa, SegmentValue(s, k))
    BY <1>2, <1>3, <1>5, SegmentLists, SegmentWords
  <2>2. s.paddr \in Nat /\ s.memsz \in Nat /\ Len(s.data) \in 0 .. s.memsz
    BY <1>2, <1>3, <1>5, SegmentPlace
  <2> HIDE DEF W
  <2>3. Post(W) /\ Stage' = "segment" /\ pc' \in {"fence", "segment"}
    BY <1>9, BlockIsSent DEF SendBlock, LoadPcs
  <2>4. Keeps(Touched(W)) /\ Makes(W)
    BY <1>1, <2>1, <2>3, ContentKeeps
  <2>5. Touched(W) \subseteq Data
    <3>1. \A k \in Len(s.data) .. s.memsz - 1 : k \in 0 .. s.memsz - 1
      BY <2>2
    <3> QED
      BY <2>1, <3>1 DEF SegmentAt
  <2>6. \A i \in DOMAIN bin.segments : i \in 1 .. Len(bin.segments) /\ Fits(i)' = Fits(i)
    BY <1>1, <1>2 DEF Fits, Loadable, Capacity, is_dram
  <2>7. \A i \in DOMAIN bin.segments : i < seg => Fits(i)
    BY <1>1, <1>2 DEF WalkInv, SegmentStages
  <2>8. \/ (is_dram(s.paddr) \/ it = Len(mesh)) /\ seg' = seg + 1 /\ it' = 1
        \/ ~is_dram(s.paddr) /\ seg' = seg /\ it' = it + 1
    BY <1>9 DEF NextSegmentOrTile
  <2>9. WalkInv'
    <3>1. \A i \in DOMAIN bin.segments : i < seg' => Fits(i)
      <4> TAKE i \in DOMAIN bin.segments
      <4>1. i < seg' => i < seg \/ i = seg
        BY <1>2, <2>6, <2>8
      <4> QED
        BY <1>5, <2>7, <4>1
    <3>2. it' > 1 => seg' = seg /\ ~is_dram(s.paddr)
      BY <2>8
    <3>3. it' > 1 => /\ seg' \in DOMAIN bin'.segments /\ Fits(seg)' /\ bin'.segments[seg'].load
                     /\ ~is_dram(bin.segments[seg].paddr)'
      <4>1. PICK i \in DOMAIN bin.segments : i = seg
        BY <1>5
      <4>2. Fits(i)'
        BY <1>5, <2>6, <4>1
      <4> QED
        BY <1>1, <1>3, <1>5, <3>2, <4>1, <4>2 DEF Fits, is_dram
    <3> QED
      BY <1>1, <1>6, <2>3, <2>6, <3>1, <3>3 DEF WalkInv, SegmentStages, LaterStages, StartStages
  <2>10. SegmentsHeld'
    <3>1. ASSUME NEW i \in DOMAIN bin.segments, NEW j \in DOMAIN mesh,
                 NEW k \in 0 .. bin.segments[i].memsz - 1,
                 SegmentDone(i, j, k)', Wanted(bin.segments[i])
          PROVE  /\ Fits(i)
                 /\ \/ /\ SegmentDone(i, j, k)
                       /\ At(mesh[j], bin.segments[i].paddr + k) \notin Touched(W)
                    \/ \E l \in DOMAIN mesh :
                         /\ SegmentDone(i, l, k)
                         /\ At(mesh[l], bin.segments[i].paddr + k) = At(mesh[j], bin.segments[i].paddr + k)
                         /\ At(mesh[l], bin.segments[i].paddr + k) \notin Touched(W)
                    \/ Sets(W, Place(mesh[j], bin.segments[i].paddr + k).node,
                            Place(mesh[j], bin.segments[i].paddr + k).epa,
                            SegmentValue(bin.segments[i], k))
      <4>1. \/ i < seg
            \/ i = seg /\ (is_dram(s.paddr) \/ j <= it)
        <5>1. i < seg' \/ (i = seg' /\ j < it')
          BY <2>3, <3>1 DEF SegmentDone, SegmentStages, StartStages
        <5>2. i \in Nat /\ seg \in Nat /\ j \in Nat \ {0} /\ it \in Nat
          BY <1>2, <2>6
        <5>3. CASE (is_dram(s.paddr) \/ it = Len(mesh)) /\ seg' = seg + 1 /\ it' = 1
          <6>1. i < seg \/ i = seg
            BY <5>1, <5>2, <5>3
          <6>2. it = Len(mesh) => j <= it
            BY <1>2
          <6> QED
            BY <5>3, <6>1, <6>2
        <5>4. CASE seg' = seg /\ it' = it + 1
          BY <5>1, <5>2, <5>4
        <5> QED
          BY <2>8, <5>3, <5>4
      <4>2. bin.segments[i].load
        BY <3>1 DEF Wanted
      <4>3. Fits(i)
        BY <1>5, <2>7, <4>1
      <4>4. ASSUME NEW l \in DOMAIN mesh, i # seg \/ (l # it /\ ~is_dram(s.paddr)) \/ k < Len(s.data)
            PROVE  At(mesh[l], bin.segments[i].paddr + k) \notin Touched(W)
        <5>1. Len(s.data) \in Nat /\ Touched(W) \subseteq SegmentAt(mesh[it], s, Len(s.data), s.memsz)
          BY <1>4, <2>1, <2>2
        <5> QED
          BY <1>1, <1>3, <1>4, <1>5, <4>2, <4>3, <4>4, <5>1, SegmentsStay DEF SegmentStages
      <4>5. CASE i < seg
        <5>1. i # seg
          BY <1>2, <2>6, <4>5
        <5> QED
          BY <1>1, <1>2, <4>3, <4>4, <4>5, <5>1 DEF SegmentDone, SegmentStages
      <4>6. CASE i = seg /\ ~is_dram(s.paddr) /\ j < it
        <5>1. j # it
          BY <1>2, <4>6
        <5> QED
          BY <1>1, <1>2, <4>3, <4>4, <4>6, <5>1 DEF SegmentDone, SegmentStages
      <4>7. CASE i = seg /\ k < Len(s.data) /\ (j = it \/ is_dram(s.paddr))
        <5>1. SegmentDone(i, it, k)
          BY <1>1, <1>2, <1>3, <4>7 DEF SegmentDone
        <5>2. At(mesh[it], bin.segments[i].paddr + k) \notin Touched(W)
          BY <1>4, <4>4, <4>7
        <5>3. At(mesh[it], bin.segments[i].paddr + k) = At(mesh[j], bin.segments[i].paddr + k)
          <6>1. CASE j = it
            BY <6>1
          <6>2. CASE is_dram(s.paddr)
            <7>1. is_dram(s.paddr + k)
              <8>1. k \in Nat /\ DramEva \in Nat
                BY <1>3, <2>2, <4>7, BinariesAssumption
              <8> QED
                BY <2>2, <6>2, <8>1 DEF is_dram
            <7> QED
              BY <1>3, <4>7, <7>1 DEF At, Place
          <6> QED
            BY <4>7, <6>1, <6>2
        <5> QED
          BY <1>4, <4>3, <5>1, <5>2, <5>3
      <4>8. CASE i = seg /\ ~(k < Len(s.data)) /\ (j = it \/ is_dram(s.paddr))
        <5>1. k \in Len(s.data) .. s.memsz - 1
          BY <1>3, <2>2, <4>8
        <5>2. Sets(W, Place(t, s.paddr + k).node, Place(t, s.paddr + k).epa, SegmentValue(s, k))
          BY <2>1, <5>1
        <5>3. Place(t, s.paddr + k) = Place(mesh[j], s.paddr + k)
          <6>1. CASE j = it
            BY <1>4, <6>1
          <6>2. CASE is_dram(s.paddr)
            <7>1. is_dram(s.paddr + k)
              <8>1. k \in Nat /\ DramEva \in Nat
                BY <2>2, <5>1, BinariesAssumption
              <8> QED
                BY <2>2, <6>2, <8>1 DEF is_dram
            <7> QED
              BY <7>1 DEF Place
          <6> QED
            BY <4>8, <6>1, <6>2
        <5> QED
          BY <1>3, <4>3, <4>8, <5>2, <5>3
      <4> QED
        <5>1. j <= it => j < it \/ j = it
          BY <1>2
        <5> QED
          BY <4>1, <4>5, <4>6, <4>7, <4>8, <5>1
    <3>2. Unstarted' => Unstarted
      BY <1>1 DEF Unstarted
    <3> QED
      BY <1>1, <1>2, <2>4, <3>1, <3>2, SegmentsKept DEF ImageInv
  <2> QED
    BY <1>1, <2>3, <2>4, <2>5, <2>9, <2>10, DataKeepsImage DEF ImageInv, SegmentStages
<1> QED
  BY <1>7, <1>8, <1>9

-----------------------------------------------------------------------------
(* The instruction caches, the configuration symbols, and starting.        *)

\* A place of a symbol of a tile.
SymbolAt(p) == \E u \in Tiles : \E x \in TileSymbols :
                 HasSymbol(bin, x) /\ p = <<u, symbol_to_eva(bin, x)>>

\* The segments are loaded; what else is written are registers, icaches, and symbols.
LEMMA LoadedStays ==
  ASSUME HostInv, MemoryInv, WalkInv, ImageInv, pc \in LaterStages, UNCHANGED <<bin, mesh>>,
         Unstarted' => Unstarted, NEW X, NEW W, Keeps(X), Makes(W),
         \A p \in X : p \notin Data \/ SymbolAt(p),
         \A i \in DOMAIN bin.segments : \A j \in DOMAIN mesh : \A k :
           SegmentDone(i, j, k)' => SegmentDone(i, j, k)
  PROVE  SegmentsHeld'
<1>1. /\ Stage = pc /\ bin \in Binaries /\ mesh \in Seq(Tiles)
      /\ \A j \in DOMAIN mesh : mesh[j] \in Tiles
  BY WritePlace DEF LaterStages, StartStages, LoadPcs
<1>2. \A i \in DOMAIN bin.segments : Fits(i)
  BY <1>1 DEF WalkInv
<1>3. ASSUME NEW i \in DOMAIN bin.segments, NEW j \in DOMAIN mesh,
             NEW k \in 0 .. bin.segments[i].memsz - 1, bin.segments[i].load,
             bin.segments[i].paddr + k \notin PlacedWords(bin),
             At(mesh[j], bin.segments[i].paddr + k) \in X
      PROVE  FALSE
  <2>0. PICK t \in Tiles : t = mesh[j]
    BY <1>1
  <2>1. PICK s, e : s = bin.segments[i] /\ t = mesh[j] /\ e = s.paddr + k
    BY <2>0
  <2>2. e \in Nat /\ At(t, e) \in Data
    BY <1>1, <1>2, <1>3, <2>1, SegmentWords DEF Fits
  <2>3. SymbolAt(At(t, e))
    BY <1>3, <2>1, <2>2
  <2>4. PICK u \in Tiles, x \in TileSymbols :
          HasSymbol(bin, x) /\ At(t, e) = <<u, symbol_to_eva(bin, x)>>
    BY <2>3 DEF SymbolAt
  <2>5. PICK f : f = symbol_to_eva(bin, x)
    OBVIOUS
  <2>6. f \in 0 .. DmemWords - 1
    BY <1>1, <2>4, <2>5, SymbolPlace
  <2>7. f \in Nat /\ ~is_dram(f)
    BY <2>6, BinariesAssumption, MemoryAssumption DEF is_dram
  <2>8. At(u, f) = At(t, e)
    BY <2>4, <2>5, <2>7 DEF At, Place
  <2>9. e = f
    BY <2>2, <2>7, <2>8, AtIsUnique
  <2> QED
    BY <1>3, <2>1, <2>4, <2>5, <2>9 DEF PlacedWords
<1>4. \A i \in DOMAIN bin.segments : \A j \in DOMAIN mesh : \A k \in 0 .. bin.segments[i].memsz - 1 :
        SegmentDone(i, j, k)' /\ Wanted(bin.segments[i])
          /\ bin.segments[i].paddr + k \notin PlacedWords(bin) =>
            /\ Fits(i) /\ SegmentDone(i, j, k)
            /\ At(mesh[j], bin.segments[i].paddr + k) \notin X
  BY <1>2, <1>3 DEF Wanted
<1> QED
  BY <1>1, <1>4, SegmentsKept DEF ImageInv

\* The text in the instruction cache of a tile.
LEMMA IcacheKeepsImage ==
  ASSUME HostInv, MemoryInv, WalkInv, ImageInv, LoadIcache, UNCHANGED deviceVars
  PROVE  WalkInv' /\ ImageInv'
<1> USE DEF deviceVars, loaderUnchanged, historyVars
<1>1. /\ pc = "icache" /\ it <= Len(mesh)
      /\ UNCHANGED <<mem, runs, epoch, mishaps, bin, mesh, dram_enabled, sym>>
  BY DEF LoadIcache
<1>2. /\ Stage = pc /\ bin \in Binaries /\ bin.segments \in Seq(ProgramHeader)
      /\ it \in Nat \ {0} /\ seg \in Nat \ {0} /\ mesh \in Seq(Tiles)
      /\ \A j \in DOMAIN mesh : j \in Nat \ {0} /\ mesh[j] \in Tiles /\ mesh[j] # Cache
      /\ \A i, j \in DOMAIN mesh : mesh[i] = mesh[j] => i = j
  BY <1>1, WritePlace DEF LoadPcs
<1>3. sym = 0 /\ seg = 1
  BY <1>1, <1>2 DEF WalkInv, SegmentStages
<1>4. PICK t \in Tiles : t = mesh[it] /\ it \in DOMAIN mesh
  BY <1>1, <1>2
<1>5. bin.elf
  BY <1>1, <1>2 DEF MemoryInv, LoadInv, WriteStages
<1> DEFINE W == IcacheWrites(t, bin)
<1>6. LoadFails \/ (SendBlock(W, "icache") /\ it' = it + 1 /\ seg' = seg)
  BY <1>4 DEF LoadIcache, SendFails
<1>7. CASE LoadFails
  BY <1>1, <1>3, <1>7, FailKeepsImage
<1>8. CASE SendBlock(W, "icache") /\ it' = it + 1 /\ seg' = seg
  <2>1. /\ Content(W, t)
        /\ \A p \in Touched(W) : p[1] = t /\ p[2] \in Nat /\ p[2] >= EPA_ICACHE
        /\ \A k \in 0 .. IcacheWords - 1 : k < Len(Text(bin)) =>
              Sets(W, t, EPA_ICACHE + k, Text(bin)[k + 1])
    BY <1>2, <1>5, IcacheList, IcacheWord
  <2> HIDE DEF W
  <2>2. Post(W) /\ Stage' = "icache" /\ pc' \in {"fence", "icache"}
    BY <1>8, BlockIsSent DEF SendBlock, LoadPcs
  <2>3. Keeps(Touched(W)) /\ Makes(W)
    BY <1>1, <2>1, <2>2, ContentKeeps
  <2>4. \A p \in Touched(W) : p = <<t, p[2]>> /\ p[2] >= EPA_ICACHE /\ p[2] \in Nat
    BY <2>1 DEF Touched
  <2>5. \A p \in Touched(W) : p \notin Data
    <3> TAKE p \in Touched(W)
    <3>1. EPA_ICACHE \in Nat
      BY Addresses
    <3>2. PICK k \in Nat : p[2] = EPA_ICACHE + k
      <4>1. p[2] - EPA_ICACHE \in Nat /\ EPA_ICACHE + (p[2] - EPA_ICACHE) = p[2]
        BY <2>4, <3>1
      <4> QED
        BY <4>1
    <3> QED
      BY <2>4, <3>2, OutsideData
  <2>6. \A i \in DOMAIN bin.segments : Fits(i)' = Fits(i)
    BY <1>1 DEF Fits, Loadable, Capacity, is_dram
  <2>7. \A i \in DOMAIN bin.segments : Fits(i)
    BY <1>1, <1>2 DEF WalkInv, LaterStages
  <2>8. WalkInv'
    BY <1>1, <1>3, <1>8, <2>2, <2>6, <2>7 DEF WalkInv, SegmentStages, LaterStages, StartStages
  <2>9. SegmentsHeld'
    <3>1. \A i, j, k : SegmentDone(i, j, k)
      BY <1>1, <1>2 DEF SegmentDone
    <3>2. Unstarted' => Unstarted
      BY <1>1 DEF Unstarted
    <3> QED
      BY <1>1, <2>3, <2>5, <3>1, <3>2, LoadedStays DEF LaterStages
  <2>10. IcachesHeld'
    <3>1. ASSUME NEW j \in DOMAIN mesh, IcacheDone(j)'
          PROVE  \A k \in 0 .. IcacheWords - 1 : k < Len(Text(bin)) =>
                   \/ IcacheDone(j) /\ <<mesh[j], EPA_ICACHE + k>> \notin Touched(W)
                   \/ Sets(W, mesh[j], EPA_ICACHE + k, Text(bin)[k + 1])
      <4>1. j < it \/ j = it
        BY <1>2, <1>8, <2>2, <3>1 DEF IcacheDone, StartStages
      <4>2. CASE j = it
        BY <1>4, <2>1, <4>2
      <4>3. CASE j < it
        <5>1. mesh[j] # t
          BY <1>2, <1>4, <4>3
        <5> QED
          BY <1>1, <1>2, <2>1, <4>3, <5>1 DEF IcacheDone
      <4> QED
        BY <4>1, <4>2, <4>3
    <3> QED
      BY <1>1, <1>2, <2>3, <3>1, IcachesKept DEF ImageInv
  <2>11. SymbolsHeld' /\ OriginsHeld'
    <3>1. (\A j, m : ~SymbolDone(j, m)') /\ \A j : ~OriginDone(j)'
      BY <2>2 DEF SymbolDone, OriginDone, StartStages
    <3> QED
      BY <3>1 DEF SymbolsHeld, OriginsHeld
  <2>12. EnablesHeld'
    <3>1. \A j \in DOMAIN mesh : EnableDone(j)
      BY <1>1, <1>2 DEF EnableDone, WriteStages
    <3>2. EPA_DRAM_ENABLE \in Nat /\ EPA_ICACHE \in Nat /\ EPA_DRAM_ENABLE < EPA_ICACHE
      BY MemoryAssumption DEF EPA_DRAM_ENABLE, EPA_ICACHE
    <3>3. \A j \in DOMAIN mesh : <<mesh[j], EPA_DRAM_ENABLE>> \notin Touched(W)
      BY <2>4, <3>2
    <3> QED
      BY <1>1, <1>2, <2>3, <3>1, <3>3, EnablesKept DEF ImageInv
  <2>13. TagsHeld'
    <3>1. TagsDone' => TagsDone
      BY <1>1, <1>2, <2>2 DEF TagsDone, WriteStages
    <3>2. <<Cache, EPA_TAGS>> \notin Touched(W)
      BY <2>1, Addresses
    <3> QED
      BY <2>3, <3>1, <3>2, TagsKept DEF ImageInv
  <2>14. PointerHeld'
    BY <2>2 DEF PointerHeld
  <2> QED
    BY <2>8, <2>9, <2>10, <2>11, <2>12, <2>13, <2>14 DEF ImageInv
<1> QED
  BY <1>6, <1>7, <1>8

\* Symbols and origin registers are not where the rest is.
LEMMA SymbolIsData ==
  ASSUME bin \in Binaries, NEW p, SymbolAt(p)
  PROVE  p \in Data
<1>1. PICK u \in Tiles, x \in TileSymbols : HasSymbol(bin, x) /\ p = <<u, symbol_to_eva(bin, x)>>
  BY DEF SymbolAt
<1> QED
  BY <1>1, SymbolPlace DEF Data

LEMMA ConfigKeepsImage ==
  ASSUME HostInv, MemoryInv, WalkInv, ImageInv, pc \in {"icache", "config_symbols", "unfreeze"},
         pc = "icache" => it > Len(mesh),
         pc = "unfreeze" => it' = it /\ Stage' \in StartStages,
         Stage' \in {"config_symbols"} \cup StartStages,
         UNCHANGED <<bin, mesh, dram_enabled, runs, epoch, mishaps>>,
         NEW X, NEW W, Keeps(X), Makes(W),
         \A p \in X : \/ SymbolAt(p)
                      \/ \E u \in Tiles : p = <<u, EPA_ORIGIN_X>> \/ p = <<u, EPA_ORIGIN_Y>>
  PROVE  SegmentsHeld' /\ IcachesHeld' /\ EnablesHeld' /\ TagsHeld'
<1>1. /\ Stage = pc /\ bin \in Binaries /\ mesh \in Seq(Tiles) /\ DOMAIN mesh = 1 .. Len(mesh)
      /\ it \in Nat /\ Len(mesh) \in Nat
      /\ \A j \in DOMAIN mesh : mesh[j] \in Tiles /\ mesh[j] # Cache
  BY WritePlace DEF LoadPcs
<1>2. \A p \in X : \/ p \in Data
                   \/ \E u \in Tiles : p = <<u, EPA_ORIGIN_X>> \/ p = <<u, EPA_ORIGIN_Y>>
  BY <1>1, SymbolIsData
<1>3. SegmentsHeld'
  <2>1. \A i, j, k : SegmentDone(i, j, k)' => SegmentDone(i, j, k)
    BY <1>1 DEF SegmentDone, SegmentStages, StartStages
  <2>2. Unstarted' => Unstarted
    BY DEF Unstarted
  <2>3. \A p \in X : p \notin Data \/ SymbolAt(p)
    BY OutsideData
  <2> QED
    BY <2>1, <2>2, <2>3, LoadedStays DEF LaterStages, StartStages
<1>4. IcachesHeld'
  <2>1. \A j \in DOMAIN mesh : IcacheDone(j)' => IcacheDone(j)
    BY <1>1 DEF IcacheDone, StartStages
  <2>2. \A j \in DOMAIN mesh : \A k \in 0 .. IcacheWords - 1 : <<mesh[j], EPA_ICACHE + k>> \notin X
    <3> TAKE j \in DOMAIN mesh
    <3> TAKE k \in 0 .. IcacheWords - 1
    <3>1. k \in Nat /\ <<mesh[j], EPA_ICACHE + k>> \notin Data
      <4>1. k \in Nat
        OBVIOUS
      <4> QED
        BY <1>1, <4>1, OutsideData
    <3>2. EPA_ICACHE + k # EPA_ORIGIN_X /\ EPA_ICACHE + k # EPA_ORIGIN_Y
      BY <3>1, MemoryAssumption DEF EPA_ICACHE, EPA_ORIGIN_X, EPA_ORIGIN_Y
    <3> QED
      BY <1>2, <3>1, <3>2
  <2> QED
    BY <1>1, <2>1, <2>2, IcachesKept DEF ImageInv
<1>5. EnablesHeld'
  <2>1. \A j \in DOMAIN mesh : EnableDone(j)' => EnableDone(j)
    BY <1>1 DEF EnableDone, WriteStages, StartStages
  <2>2. \A j \in DOMAIN mesh : <<mesh[j], EPA_DRAM_ENABLE>> \notin X
    <3> TAKE j \in DOMAIN mesh
    <3>1. EPA_DRAM_ENABLE # EPA_ORIGIN_X /\ EPA_DRAM_ENABLE # EPA_ORIGIN_Y
      BY MemoryAssumption DEF EPA_DRAM_ENABLE, EPA_ORIGIN_X, EPA_ORIGIN_Y
    <3> QED
      BY <1>1, <1>2, <3>1, OutsideData
  <2> QED
    BY <1>1, <2>1, <2>2, EnablesKept DEF ImageInv
<1>6. TagsHeld'
  <2>1. TagsDone' => TagsDone
    BY <1>1 DEF TagsDone, WriteStages, StartStages
  <2>2. <<Cache, EPA_TAGS>> \notin X
    BY <1>2, OutsideData, Addresses
  <2> QED
    BY <2>1, <2>2, TagsKept DEF ImageInv
<1> QED
  BY <1>3, <1>4, <1>5, <1>6

\* The instruction caches are written.
LEMMA IcachesDoneKeepsImage ==
  ASSUME HostInv, MemoryInv, WalkInv, ImageInv, IcachesDone, UNCHANGED deviceVars
  PROVE  WalkInv' /\ ImageInv'
<1> USE DEF deviceVars, loaderUnchanged, historyVars
<1>1. /\ pc = "icache" /\ it > Len(mesh) /\ pc' = "config_symbols" /\ it' = 1
      /\ UNCHANGED <<mem, posted, runs, epoch, mishaps, bin, mesh, dram_enabled, sym, seg>>
  BY DEF IcachesDone
<1>2. Stage = pc /\ Stage' = pc'
  BY <1>1 DEF Stage
<1>3. sym = 0 /\ seg = 1
  BY <1>1, <1>2 DEF WalkInv, SegmentStages
<1>4. mesh \in Seq(Tiles) /\ DOMAIN mesh = 1 .. Len(mesh)
  BY <1>1, WritePlace DEF LoadPcs
<1>5. Keeps({}) /\ Makes(<<>>)
  BY <1>1, NothingKeeps
<1>6. SegmentsHeld' /\ IcachesHeld' /\ EnablesHeld' /\ TagsHeld'
  BY <1>1, <1>2, <1>5, ConfigKeepsImage
<1>7. WalkInv'
  <2>1. \A i \in DOMAIN bin.segments : Fits(i) /\ Fits(i)' = Fits(i)
    BY <1>1, <1>2 DEF WalkInv, LaterStages, Fits, Loadable, Capacity, is_dram
  <2>2. DOMAIN ConfigSymbols = 1 .. 12
    BY DEF ConfigSymbols
  <2>3. \A m \in DOMAIN ConfigSymbols : ~(it' > 1 \/ m < sym')
    BY <1>1, <1>3, <2>2
  <2> QED
    BY <1>1, <1>2, <1>3, <2>1, <2>3 DEF WalkInv, SegmentStages, LaterStages, StartStages, ConfigSymbols
<1>8. SymbolsHeld' /\ OriginsHeld'
  <2>1. DOMAIN ConfigSymbols = 1 .. 12
    BY DEF ConfigSymbols
  <2>2. /\ \A j \in DOMAIN mesh : \A m \in DOMAIN ConfigSymbols : ~SymbolDone(j, m)'
        /\ \A j \in DOMAIN mesh : ~OriginDone(j)'
    BY <1>1, <1>2, <1>3, <1>4, <2>1 DEF SymbolDone, OriginDone, StartStages
  <2> QED
    BY <1>1, <2>2 DEF SymbolsHeld, OriginsHeld, ConfigSymbols
<1>9. PointerHeld'
  BY <1>1, <1>2 DEF PointerHeld
<1> QED
  BY <1>6, <1>7, <1>8, <1>9 DEF ImageInv

\* The configuration symbols are written.
LEMMA ConfigDoneKeepsImage ==
  ASSUME HostInv, MemoryInv, WalkInv, ImageInv, ConfigDone
  PROVE  WalkInv' /\ ImageInv'
<1>1. /\ pc = "config_symbols" /\ it > Len(mesh) /\ pc' = "unfreeze" /\ it' = 1
      /\ UNCHANGED <<mem, posted, runs, epoch, mishaps, bin, mesh, dram_enabled, sym, seg>>
  BY DEF ConfigDone, programUnchanged, hostUnchanged, historyVars
<1>2. Stage = pc /\ Stage' = pc'
  BY <1>1 DEF Stage
<1>3. /\ mesh \in Seq(Tiles) /\ DOMAIN mesh = 1 .. Len(mesh) /\ Len(mesh) \in Nat \ {0}
      /\ bin \in Binaries /\ it \in Nat
  BY <1>1, WritePlace DEF LoadPcs
<1>4. seg = 1 /\ sym = 0 /\ it > 1
  BY <1>1, <1>2, <1>3 DEF WalkInv, SegmentStages, MemoryInv, LoadInv
<1>5. Keeps({}) /\ Makes(<<>>)
  BY <1>1, NothingKeeps
<1>6. SegmentsHeld' /\ IcachesHeld' /\ EnablesHeld' /\ TagsHeld'
  BY <1>1, <1>2, <1>5, ConfigKeepsImage DEF StartStages
<1>7. \A m \in DOMAIN ConfigSymbols : HasSymbol(bin, ConfigSymbols[m])
  BY <1>1, <1>2, <1>4 DEF WalkInv
<1>8. WalkInv'
  <2>1. \A i \in DOMAIN bin.segments : Fits(i) /\ Fits(i)' = Fits(i)
    BY <1>1, <1>2 DEF WalkInv, LaterStages, Fits, Loadable, Capacity, is_dram
  <2>2. \A m \in DOMAIN ConfigSymbols : HasSymbol(bin, ConfigSymbols[m])'
    BY <1>1, <1>7 DEF HasSymbol, TablesWith, ConfigSymbols
  <2> QED
    BY <1>1, <1>2, <1>4, <2>1, <2>2 DEF WalkInv, SegmentStages, LaterStages, StartStages, ConfigSymbols
<1>9. SymbolsHeld'
  <2>1. \A j \in DOMAIN mesh : \A m \in DOMAIN ConfigSymbols : SymbolDone(j, m)
    BY <1>1, <1>2, <1>3 DEF SymbolDone
  <2> QED
    BY <1>1, <1>3, <1>5, <1>7, <2>1, SymbolsKept DEF ImageInv
<1>10. OriginsHeld'
  <2>1. \A j \in DOMAIN mesh : OriginDone(j)
    BY <1>1, <1>2, <1>3 DEF OriginDone
  <2> QED
    BY <1>1, <1>3, <1>5, <2>1, OriginsKept DEF ImageInv
<1>11. PointerHeld'
  BY <1>1, <1>2 DEF PointerHeld
<1> QED
  BY <1>6, <1>8, <1>9, <1>10, <1>11 DEF ImageInv

\* Symbols have places of their own.
LEMMA SymbolsApart ==
  ASSUME bin \in Binaries, NEW m \in DOMAIN ConfigSymbols, HasSymbol(bin, ConfigSymbols[m])
  PROVE  /\ \A l \in DOMAIN ConfigSymbols :
              HasSymbol(bin, ConfigSymbols[l]) /\ l # m =>
                symbol_to_eva(bin, ConfigSymbols[l]) # symbol_to_eva(bin, ConfigSymbols[m])
         /\ HasSymbol(bin, "cuda_kernel_ptr") =>
              symbol_to_eva(bin, ConfigSymbols[m]) # symbol_to_eva(bin, "cuda_kernel_ptr")
<1>1. DOMAIN ConfigSymbols = 1 .. 12
  BY DEF ConfigSymbols
<1>2. \A l \in 1 .. 12 : l # m => ConfigSymbols[l] # ConfigSymbols[m]
  BY <1>1 DEF ConfigSymbols
<1>3. ConfigSymbols[m] # "cuda_kernel_ptr"
  BY <1>1 DEF ConfigSymbols
<1>4. "cuda_kernel_ptr" \in TileSymbols /\ \A l \in DOMAIN ConfigSymbols : ConfigSymbols[l] \in TileSymbols
  BY DEF TileSymbols
<1>5. \A x, y \in TileSymbols :
        HasSymbol(bin, x) /\ HasSymbol(bin, y) /\ symbol_to_eva(bin, x) = symbol_to_eva(bin, y) => x = y
  BY LayoutAssumption
<1> QED
  BY <1>1, <1>2, <1>3, <1>4, <1>5

\* The origin registers of a tile.
LEMMA OriginKeepsImage ==
  ASSUME HostInv, MemoryInv, WalkInv, ImageInv, SetOriginRegisters
  PROVE  WalkInv' /\ ImageInv'
<1>1. /\ pc = "config_symbols" /\ it <= Len(mesh) /\ sym = 0
      /\ UNCHANGED <<mem, runs, epoch, mishaps, bin, mesh, dram_enabled>>
  BY DEF SetOriginRegisters, programUnchanged, hostUnchanged, historyVars
<1>2. /\ Stage = pc /\ bin \in Binaries /\ it \in Nat \ {0} /\ seg \in Nat \ {0} /\ mesh \in Seq(Tiles)
      /\ \A j \in DOMAIN mesh : j \in Nat \ {0} /\ mesh[j] \in Tiles /\ mesh[j] # Cache
      /\ \A i, j \in DOMAIN mesh : mesh[i] = mesh[j] => i = j
      /\ DOMAIN ConfigSymbols = 1 .. 12
  BY <1>1, WritePlace DEF LoadPcs
<1>3. seg = 1
  BY <1>1, <1>2 DEF WalkInv, SegmentStages
<1>4. PICK t \in Tiles : t = mesh[it] /\ it \in DOMAIN mesh
  BY <1>1, <1>2
<1> DEFINE W == SetOrigin(t, Origin)
<1>5. \/ LoadFails /\ sym' = sym
      \/ Post(W) /\ sym' = 1 /\ UNCHANGED <<pc, it, seg>>
  BY <1>4 DEF SetOriginRegisters, SendFails
<1>6. CASE LoadFails /\ sym' = sym
  BY <1>1, <1>6, FailKeepsImage
<1>7. CASE Post(W) /\ sym' = 1 /\ UNCHANGED <<pc, it, seg>>
  <2>1. Origin \in Nat \X Nat
    BY ArrayAssumption
  <2>2. /\ W \in Seq(Packet)
        /\ \A w \in Elems(W) : w.to = t /\ w.epa # EPA_FREEZE
        /\ \A p \in Touched(W) : p = <<t, EPA_ORIGIN_X>> \/ p = <<t, EPA_ORIGIN_Y>>
        /\ Sets(W, t, EPA_ORIGIN_X, Origin[1])
        /\ Sets(W, t, EPA_ORIGIN_Y, Origin[2])
    BY <2>1, OriginList, OriginWord
  <2> HIDE DEF W
  <2>3. Keeps(Touched(W)) /\ Makes(W)
    BY <1>1, <1>7, <2>2, PostKeeps, PostMakes DEF Freezing, IsFreeze, MemoryInv
  <2>4. Stage' = "config_symbols"
    BY <1>1, <1>7 DEF Stage
  <2>5. SegmentsHeld' /\ IcachesHeld' /\ EnablesHeld' /\ TagsHeld'
    BY <1>1, <2>2, <2>3, <2>4, ConfigKeepsImage
  <2>6. WalkInv'
    <3>1. \A i \in DOMAIN bin.segments : Fits(i) /\ Fits(i)' = Fits(i)
      BY <1>1, <1>2 DEF WalkInv, LaterStages, Fits, Loadable, Capacity, is_dram
    <3>2. \A m \in DOMAIN ConfigSymbols : it' > 1 \/ m < sym' => HasSymbol(bin, ConfigSymbols[m])'
      <4>1. \A m \in DOMAIN ConfigSymbols : ~(m < 1)
        BY <1>2
      <4>2. \A m \in DOMAIN ConfigSymbols : it > 1 => HasSymbol(bin, ConfigSymbols[m])
        BY <1>1, <1>2 DEF WalkInv
      <4> QED
        BY <1>1, <1>7, <4>1, <4>2 DEF HasSymbol, TablesWith, ConfigSymbols
    <3> QED
      BY <1>1, <1>3, <1>7, <2>4, <3>1, <3>2 DEF WalkInv, SegmentStages, LaterStages, StartStages, ConfigSymbols
  <2>7. SymbolsHeld'
    <3>1. ASSUME NEW j \in DOMAIN mesh, NEW m \in DOMAIN ConfigSymbols, SymbolDone(j, m)'
          PROVE  /\ HasSymbol(bin, ConfigSymbols[m]) /\ SymbolDone(j, m)
                 /\ <<mesh[j], symbol_to_eva(bin, ConfigSymbols[m])>> \notin Touched(W)
      <4>1. j < it
        BY <1>2, <1>7, <2>4, <3>1 DEF SymbolDone, StartStages
      <4>2. SymbolDone(j, m)
        BY <1>1, <1>2, <4>1 DEF SymbolDone
      <4>3. mesh[j] # t
        BY <1>2, <1>4, <4>1
      <4> QED
        BY <2>2, <4>2, <4>3, DoneExists
    <3> QED
      BY <1>1, <1>2, <2>3, <3>1, SymbolsKept DEF ImageInv
  <2>8. OriginsHeld'
    <3>1. ASSUME NEW j \in DOMAIN mesh, OriginDone(j)'
          PROVE  \/ /\ OriginDone(j)
                    /\ <<mesh[j], EPA_ORIGIN_X>> \notin Touched(W)
                    /\ <<mesh[j], EPA_ORIGIN_Y>> \notin Touched(W)
                 \/ /\ Sets(W, mesh[j], EPA_ORIGIN_X, Origin[1])
                    /\ Sets(W, mesh[j], EPA_ORIGIN_Y, Origin[2])
      <4>1. j < it \/ j = it
        BY <1>7, <2>4, <3>1 DEF OriginDone, StartStages
      <4>2. CASE j = it
        BY <1>4, <2>2, <4>2
      <4>3. CASE j < it
        <5>1. mesh[j] # t
          BY <1>2, <1>4, <4>3
        <5> QED
          BY <1>1, <1>2, <2>2, <4>3, <5>1 DEF OriginDone
      <4> QED
        BY <4>1, <4>2, <4>3
    <3> QED
      BY <1>1, <1>2, <2>3, <3>1, OriginsKept DEF ImageInv
  <2>9. PointerHeld'
    BY <2>4 DEF PointerHeld
  <2> QED
    BY <2>5, <2>6, <2>7, <2>8, <2>9 DEF ImageInv
<1> QED
  BY <1>5, <1>6, <1>7

\* A configuration symbol of a tile.
LEMMA SymbolKeepsImage ==
  ASSUME HostInv, MemoryInv, WalkInv, ImageInv, SetConfigSymbol
  PROVE  WalkInv' /\ ImageInv'
<1>1. /\ pc = "config_symbols" /\ sym # 0
      /\ UNCHANGED <<mem, runs, epoch, mishaps, bin, mesh, dram_enabled>>
  BY DEF SetConfigSymbol, programUnchanged, hostUnchanged, historyVars
<1>2. /\ Stage = pc /\ bin \in Binaries /\ it \in Nat \ {0} /\ seg \in Nat \ {0} /\ mesh \in Seq(Tiles)
      /\ \A j \in DOMAIN mesh : j \in Nat \ {0} /\ mesh[j] \in Tiles /\ mesh[j] # Cache
      /\ \A i, j \in DOMAIN mesh : mesh[i] = mesh[j] => i = j
      /\ DOMAIN ConfigSymbols = 1 .. 12 /\ sym \in 0 .. 12
  BY <1>1, WritePlace DEF LoadPcs
<1>3. seg = 1
  BY <1>1, <1>2 DEF WalkInv, SegmentStages
<1>4. PICK t \in Tiles : t = mesh[it] /\ it \in DOMAIN mesh
  <2>1. it <= Len(mesh)
    BY <1>1, <1>2 DEF MemoryInv, LoadInv
  <2> QED
    BY <1>2, <2>1
<1>5. PICK name : name = ConfigSymbols[sym]
  OBVIOUS
<1>6. sym \in DOMAIN ConfigSymbols /\ name \in TileSymbols
  <2>1. sym \in DOMAIN ConfigSymbols
    BY <1>1, <1>2
  <2> QED
    BY <1>5, <2>1 DEF TileSymbols
<1>7. PICK val \in Nat : val = ConfigValue(name, t)
  BY <1>4, <1>6, ConfigValues
<1> DEFINE W == SymbolWrite(t, name, val)
<1>8. \/ LoadFails /\ sym' = 0
      \/ /\ HasSymbol(bin, name) /\ SendBlock(W, "config_symbols") /\ seg' = seg
         /\ \/ sym = 12 /\ it' = it + 1 /\ sym' = 0
            \/ sym # 12 /\ it' = it /\ sym' = sym + 1
  <2>1. Len(ConfigSymbols) = 12
    BY DEF ConfigSymbols
  <2> QED
    BY <1>4, <1>5, <1>7, <2>1 DEF SetConfigSymbol, SymbolFails, SendFails
<1>9. CASE LoadFails /\ sym' = 0
  BY <1>1, <1>9, FailKeepsImage
<1>10. CASE /\ HasSymbol(bin, name) /\ SendBlock(W, "config_symbols") /\ seg' = seg
            /\ \/ sym = 12 /\ it' = it + 1 /\ sym' = 0
               \/ sym # 12 /\ it' = it /\ sym' = sym + 1
  <2>1. /\ Content(W, t)
        /\ \A p \in Touched(W) : p = <<t, symbol_to_eva(bin, name)>>
        /\ Sets(W, t, symbol_to_eva(bin, name), val)
    BY <1>2, <1>6, <1>10, SymbolList, SymbolWord
  <2> HIDE DEF W
  <2>2. Post(W) /\ Stage' = "config_symbols" /\ pc' \in {"fence", "config_symbols"}
    BY <1>10, BlockIsSent DEF SendBlock, LoadPcs
  <2>3. Keeps(Touched(W)) /\ Makes(W)
    BY <1>1, <2>1, <2>2, ContentKeeps
  <2>4. \A p \in Touched(W) : SymbolAt(p)
    BY <1>6, <1>10, <2>1 DEF SymbolAt
  <2>5. SegmentsHeld' /\ IcachesHeld' /\ EnablesHeld' /\ TagsHeld'
    BY <1>1, <2>2, <2>3, <2>4, ConfigKeepsImage
  <2>6. WalkInv'
    <3>1. \A i \in DOMAIN bin.segments : Fits(i) /\ Fits(i)' = Fits(i)
      BY <1>1, <1>2 DEF WalkInv, LaterStages, Fits, Loadable, Capacity, is_dram
    <3>2. \A m \in DOMAIN ConfigSymbols : it' > 1 \/ m < sym' => HasSymbol(bin, ConfigSymbols[m])
      <4> SUFFICES ASSUME NEW m \in DOMAIN ConfigSymbols, it' > 1 \/ m < sym'
                   PROVE  HasSymbol(bin, ConfigSymbols[m])
        OBVIOUS
      <4>1. it > 1 \/ m < sym \/ m = sym
        BY <1>2, <1>10
      <4> QED
        BY <1>1, <1>2, <1>5, <1>10, <4>1 DEF WalkInv
    <3>3. \A m \in DOMAIN ConfigSymbols : it' > 1 \/ m < sym' => HasSymbol(bin, ConfigSymbols[m])'
      BY <1>1, <3>2 DEF HasSymbol, TablesWith, ConfigSymbols
    <3> QED
      BY <1>1, <1>3, <1>10, <2>2, <3>1, <3>3 DEF WalkInv, SegmentStages, LaterStages, StartStages, ConfigSymbols
  <2>7. SymbolsHeld'
    <3>1. ASSUME NEW j \in DOMAIN mesh, NEW m \in DOMAIN ConfigSymbols, SymbolDone(j, m)'
          PROVE  /\ HasSymbol(bin, ConfigSymbols[m])
                 /\ \/ /\ SymbolDone(j, m)
                       /\ <<mesh[j], symbol_to_eva(bin, ConfigSymbols[m])>> \notin Touched(W)
                    \/ Sets(W, mesh[j], symbol_to_eva(bin, ConfigSymbols[m]),
                            ConfigValue(ConfigSymbols[m], mesh[j]))
      <4>1. j < it \/ (j = it /\ m < sym) \/ (j = it /\ m = sym)
        <5>1. j < it' \/ (j = it' /\ m < sym')
          BY <2>2, <3>1 DEF SymbolDone, StartStages
        <5>2. m \in 1 .. 12 /\ j \in Nat
          BY <1>2
        <5> QED
          BY <1>2, <1>10, <5>1, <5>2
      <4>2. CASE j = it /\ m = sym
        BY <1>4, <1>5, <1>7, <1>10, <2>1, <4>2
      <4>3. CASE j < it
        <5>1. mesh[j] # t
          BY <1>2, <1>4, <4>3
        <5>2. SymbolDone(j, m)
          BY <1>1, <1>2, <4>3 DEF SymbolDone
        <5> QED
          BY <2>1, <5>1, <5>2, DoneExists
      <4>4. CASE j = it /\ m < sym
        <5>1. SymbolDone(j, m)
          BY <1>1, <1>2, <4>4 DEF SymbolDone
        <5>2. HasSymbol(bin, ConfigSymbols[m])
          BY <5>1, DoneExists
        <5>3. m # sym
          BY <1>2, <4>4
        <5>4. symbol_to_eva(bin, ConfigSymbols[m]) # symbol_to_eva(bin, name)
          BY <1>2, <1>5, <1>6, <1>10, <5>2, <5>3, SymbolsApart
        <5> QED
          BY <2>1, <5>1, <5>2, <5>4
      <4> QED
        BY <4>1, <4>2, <4>3, <4>4
    <3> QED
      BY <1>1, <1>2, <2>3, <3>1, SymbolsKept DEF ImageInv
  <2>8. OriginsHeld'
    <3>1. ASSUME NEW j \in DOMAIN mesh, OriginDone(j)' PROVE OriginDone(j)
      <4>1. j < it' \/ (j = it' /\ sym' # 0)
        BY <2>2, <3>1 DEF OriginDone, StartStages
      <4>2. j < it \/ j = it
        BY <1>2, <1>10, <4>1
      <4> QED
        BY <1>1, <1>2, <4>2 DEF OriginDone
    <3>2. \A j \in DOMAIN mesh : <<mesh[j], EPA_ORIGIN_X>> \notin Touched(W)
                              /\ <<mesh[j], EPA_ORIGIN_Y>> \notin Touched(W)
      BY <1>2, <2>4, OutsideData, SymbolIsData
    <3> QED
      BY <1>1, <1>2, <2>3, <3>1, <3>2, OriginsKept DEF ImageInv
  <2>9. PointerHeld'
    BY <2>2 DEF PointerHeld
  <2> QED
    BY <2>5, <2>6, <2>7, <2>8, <2>9 DEF ImageInv
<1> QED
  BY <1>8, <1>9, <1>10

\* The kernel pointer of a tile.
LEMMA PointerKeepsImage ==
  ASSUME HostInv, MemoryInv, WalkInv, ImageInv, SetKernelPointer
  PROVE  WalkInv' /\ ImageInv'
<1>1. /\ pc = "unfreeze"
      /\ UNCHANGED <<mem, runs, epoch, mishaps, bin, mesh, dram_enabled, sym>>
  BY DEF SetKernelPointer, programUnchanged, hostUnchanged, historyVars
<1>2. /\ Stage = pc /\ bin \in Binaries /\ it \in Nat \ {0} /\ mesh \in Seq(Tiles)
      /\ \A j \in DOMAIN mesh : mesh[j] \in Tiles /\ mesh[j] # Cache
  BY <1>1, WritePlace DEF LoadPcs
<1>3. seg = 1 /\ sym = 0
  BY <1>1, <1>2 DEF WalkInv, SegmentStages
<1>4. PICK t \in Tiles : t = mesh[it] /\ it \in DOMAIN mesh
  <2>1. it <= Len(mesh)
    BY <1>1, <1>2 DEF MemoryInv, LoadInv, StartStages
  <2> QED
    BY <1>2, <2>1
<1>5. PICK name \in TileSymbols : name = "cuda_kernel_ptr"
  BY DEF TileSymbols
<1>6. PICK val \in Nat : val = HB_MC_CUDA_KERNEL_NOT_LOADED_VAL
  BY DEF HB_MC_CUDA_KERNEL_NOT_LOADED_VAL
<1> DEFINE W == SymbolWrite(t, name, val)
<1>7. \/ LoadFails
      \/ HasSymbol(bin, name) /\ SendBlock(W, "unfreeze_tile") /\ UNCHANGED <<it, seg>>
  BY <1>4, <1>5, <1>6 DEF SetKernelPointer, SymbolFails, SendFails
<1>8. CASE LoadFails
  BY <1>1, <1>3, <1>8, FailKeepsImage
<1>9. CASE HasSymbol(bin, name) /\ SendBlock(W, "unfreeze_tile") /\ UNCHANGED <<it, seg>>
  <2>1. /\ Content(W, t) /\ W # <<>>
        /\ \A p \in Touched(W) : p = <<t, symbol_to_eva(bin, name)>>
        /\ Sets(W, t, symbol_to_eva(bin, name), val)
    BY <1>2, <1>9, SymbolList, SymbolWord
  <2> HIDE DEF W
  <2>2. Post(W) /\ Stage' = "unfreeze_tile" /\ pc' = "fence"
    BY <1>9, <2>1, BlockIsSent DEF SendBlock, LoadPcs
  <2>3. Keeps(Touched(W)) /\ Makes(W)
    BY <1>1, <2>1, <2>2, ContentKeeps
  <2>4. \A p \in Touched(W) : SymbolAt(p)
    BY <1>9, <2>1 DEF SymbolAt
  <2>5. SegmentsHeld' /\ IcachesHeld' /\ EnablesHeld' /\ TagsHeld'
    BY <1>1, <1>9, <2>2, <2>3, <2>4, ConfigKeepsImage DEF StartStages
  <2>6. \A m \in DOMAIN ConfigSymbols : HasSymbol(bin, ConfigSymbols[m])
    BY <1>1, <1>2 DEF WalkInv, StartStages
  <2>7. WalkInv'
    <3>1. \A i \in DOMAIN bin.segments : Fits(i) /\ Fits(i)' = Fits(i)
      BY <1>1, <1>2 DEF WalkInv, LaterStages, StartStages, Fits, Loadable, Capacity, is_dram
    <3>2. \A x : HasSymbol(bin, x)' = HasSymbol(bin, x)
      BY <1>1 DEF HasSymbol, TablesWith
    <3>3. HasSymbol(bin, "cuda_kernel_ptr")'
      BY <1>5, <1>9, <3>2
    <3>4. \A m \in DOMAIN ConfigSymbols : HasSymbol(bin, ConfigSymbols[m])'
      BY <1>1, <2>6 DEF HasSymbol, TablesWith, ConfigSymbols
    <3> QED
      BY <1>1, <1>3, <1>9, <2>2, <3>1, <3>3, <3>4
         DEF WalkInv, SegmentStages, LaterStages, StartStages, ConfigSymbols
  <2>8. SymbolsHeld'
    <3>1. ASSUME NEW j \in DOMAIN mesh, NEW m \in DOMAIN ConfigSymbols, SymbolDone(j, m)'
          PROVE  /\ HasSymbol(bin, ConfigSymbols[m]) /\ SymbolDone(j, m)
                 /\ <<mesh[j], symbol_to_eva(bin, ConfigSymbols[m])>> \notin Touched(W)
      <4>1. SymbolDone(j, m)
        BY <1>1, <1>2, <1>9, <2>2, <3>1 DEF SymbolDone, StartStages
      <4>2. symbol_to_eva(bin, ConfigSymbols[m]) # symbol_to_eva(bin, name)
        BY <1>2, <1>5, <1>9, <2>6, SymbolsApart
      <4> QED
        BY <2>1, <2>6, <4>1, <4>2
    <3> QED
      BY <1>1, <1>2, <2>3, <3>1, SymbolsKept DEF ImageInv
  <2>9. OriginsHeld'
    <3>1. \A j \in DOMAIN mesh : OriginDone(j)' => OriginDone(j)
      BY <1>1, <1>2, <1>9, <2>2 DEF OriginDone, StartStages
    <3>2. \A j \in DOMAIN mesh : <<mesh[j], EPA_ORIGIN_X>> \notin Touched(W)
                              /\ <<mesh[j], EPA_ORIGIN_Y>> \notin Touched(W)
      BY <1>2, <2>4, OutsideData, SymbolIsData
    <3> QED
      BY <1>1, <1>2, <2>3, <3>1, <3>2, OriginsKept DEF ImageInv
  <2>10. PointerHeld'
    <3>1. Sets(W, mesh[it], symbol_to_eva(bin, "cuda_kernel_ptr"), HB_MC_CUDA_KERNEL_NOT_LOADED_VAL)
      BY <1>4, <1>5, <1>6, <2>1
    <3>2. HasSymbol(bin, "cuda_kernel_ptr")
      BY <1>5, <1>9
    <3> QED
      BY <1>1, <1>2, <1>4, <1>9, <2>3, <3>1, <3>2, PointerKept DEF ImageInv
  <2> QED
    BY <2>5, <2>7, <2>8, <2>9, <2>10 DEF ImageInv
<1> QED
  BY <1>7, <1>8, <1>9

\* A tile is started.
LEMMA UnfreezeKeepsImage ==
  ASSUME HostInv, MemoryInv, WalkInv, ImageInv, Unfreeze
  PROVE  WalkInv' /\ ImageInv'
<1>1. /\ pc = "unfreeze_tile"
      /\ UNCHANGED <<mem, runs, epoch, mishaps, bin, mesh, dram_enabled, sym>>
  BY DEF Unfreeze, programUnchanged, hostUnchanged, historyVars
<1>2. /\ Stage = pc /\ bin \in Binaries /\ it \in Nat \ {0} /\ mesh \in Seq(Tiles)
      /\ \A j \in DOMAIN mesh : j \in Nat \ {0} /\ mesh[j] \in Tiles /\ mesh[j] # Cache /\ mesh[j] \in Nodes
      /\ \A i, j \in DOMAIN mesh : mesh[i] = mesh[j] => i = j
  BY <1>1, WritePlace DEF LoadPcs
<1>3. seg = 1 /\ sym = 0
  BY <1>1, <1>2 DEF WalkInv, SegmentStages
<1>4. PICK t \in Tiles : t = mesh[it] /\ it \in DOMAIN mesh
  <2>1. it <= Len(mesh)
    BY <1>1, <1>2 DEF MemoryInv, LoadInv, StartStages
  <2> QED
    BY <1>2, <2>1
<1>5. \/ LoadFails
      \/ pc' = "idle" /\ UNCHANGED seg
      \/ Post(UnfreezeTile(t)) /\ pc' = "unfreeze" /\ it' = it + 1 /\ UNCHANGED seg
  BY <1>4 DEF Unfreeze, SendFails, Return
<1>6. CASE LoadFails
  BY <1>1, <1>3, <1>6, FailKeepsImage
<1>7. CASE pc' = "idle" /\ UNCHANGED seg
  <2>1. seg' = 1 /\ sym' = 0
    BY <1>1, <1>3, <1>7
  <2> QED
    BY <1>7, <2>1, NoClaims DEF LoadPcs
<1>8. CASE Post(UnfreezeTile(t)) /\ pc' = "unfreeze" /\ it' = it + 1 /\ UNCHANGED seg
  <2> DEFINE w == Write(t, EPA_FREEZE, 0)
             W == <<w>>
             X == {<<t, a>> : a \in Epas(t)}
  <2>1. w \in Packet /\ w.to = t
    BY TileWrite, Addresses
  <2>2. Post(W)
    BY <1>8 DEF UnfreezeTile
  <2> HIDE DEF w
  <2>3. W \in Seq(Packet) /\ Elems(W) = {w}
    BY <2>1, ShortLists
  <2> HIDE DEF W
  <2>4. Keeps(X)
    <3> SUFFICES ASSUME NEW n \in Nodes, NEW a \in Epas(n), NEW v, <<n, a>> \notin X, Holds(n, a, v)
                 PROVE  Holds(n, a, v)'
      BY DEF Keeps
    <3>1. n # t
      OBVIOUS
    <3>2. Skips(W, n, a) /\ Freezing(W, n)
      BY <2>1, <2>3, <3>1 DEF Skips, Freezing
    <3> QED
      BY <1>1, <2>2, <2>3, <3>2, PostKeepsHolds DEF MemoryInv
  <2>5. Makes(<<>>)
    BY DEF Makes, Sets, Elems
  <2>6. \A j \in DOMAIN mesh : j >= it' => j >= it /\ mesh[j] # t
    BY <1>2, <1>4, <1>8
  <2>7. \A p \in X : p[1] = t
    OBVIOUS
  <2> HIDE DEF X
  <2>8. Stage' = "unfreeze"
    BY <1>8 DEF Stage
  <2>9. \A m \in DOMAIN ConfigSymbols : HasSymbol(bin, ConfigSymbols[m])
    BY <1>1, <1>2 DEF WalkInv, StartStages
  <2>10. \A i \in DOMAIN bin.segments : Fits(i)
    BY <1>1, <1>2 DEF WalkInv, LaterStages, StartStages
  <2>11. WalkInv'
    <3>1. \A i \in DOMAIN bin.segments : Fits(i)' = Fits(i)
      BY <1>1 DEF Fits, Loadable, Capacity, is_dram
    <3>2. \A m \in DOMAIN ConfigSymbols : HasSymbol(bin, ConfigSymbols[m])'
      BY <1>1, <2>9 DEF HasSymbol, TablesWith, ConfigSymbols
    <3> QED
      BY <1>1, <1>3, <1>8, <2>8, <2>10, <3>1, <3>2
         DEF WalkInv, SegmentStages, LaterStages, StartStages, ConfigSymbols
  <2>12. SegmentsHeld'
    <3>1. ASSUME NEW i \in DOMAIN bin.segments, NEW j \in DOMAIN mesh,
                 NEW k \in 0 .. bin.segments[i].memsz - 1,
                 SegmentDone(i, j, k)', Wanted(bin.segments[i])
          PROVE  /\ Fits(i) /\ SegmentDone(i, j, k)
                 /\ At(mesh[j], bin.segments[i].paddr + k) \notin X
      <4>1. j >= it /\ mesh[j] # t
        BY <2>6, <2>8, <3>1 DEF SegmentDone, SegmentStages, StartStages
      <4>2. SegmentDone(i, j, k)
        BY <1>1, <1>2, <4>1 DEF SegmentDone, StartStages
      <4>3. PICK e : e = bin.segments[i].paddr + k
        OBVIOUS
      <4>4. At(mesh[j], e)[1] # t
        BY <4>1, Addresses DEF At, Place
      <4> QED
        BY <2>7, <2>10, <4>2, <4>3, <4>4
    <3>2. Unstarted' => Unstarted
      BY <1>1 DEF Unstarted
    <3> QED
      BY <1>1, <1>2, <2>4, <2>5, <3>1, <3>2, SegmentsKept DEF ImageInv
  <2>13. \A j \in DOMAIN mesh : \A a : mesh[j] # t => <<mesh[j], a>> \notin X
    BY <2>7
  <2>14. ASSUME NEW j \in DOMAIN mesh, j >= it'
         PROVE  /\ IcacheDone(j) /\ OriginDone(j) /\ EnableDone(j)
                /\ \A m : SymbolDone(j, m)
                /\ \A a : <<mesh[j], a>> \notin X
    BY <1>1, <1>2, <2>6, <2>13, <2>14 DEF IcacheDone, OriginDone, EnableDone, SymbolDone, StartStages
  <2>15. \A j : /\ IcacheDone(j)' \/ OriginDone(j)' \/ EnableDone(j)' => j >= it'
                /\ \A m : SymbolDone(j, m)' => j >= it'
    BY <2>8 DEF IcacheDone, OriginDone, EnableDone, SymbolDone, StartStages, WriteStages
  <2>16. IcachesHeld'
    BY <1>1, <1>2, <2>4, <2>5, <2>14, <2>15, IcachesKept DEF ImageInv
  <2>17. SymbolsHeld'
    BY <1>1, <1>2, <2>4, <2>5, <2>9, <2>14, <2>15, SymbolsKept DEF ImageInv
  <2>18. OriginsHeld'
    BY <1>1, <1>2, <2>4, <2>5, <2>14, <2>15, OriginsKept DEF ImageInv
  <2>19. EnablesHeld'
    BY <1>1, <1>2, <2>4, <2>5, <2>14, <2>15, EnablesKept DEF ImageInv
  <2>20. TagsHeld'
    <3>1. TagsDone' => TagsDone
      BY <1>1, <1>2 DEF TagsDone, StartStages
    <3>2. <<Cache, EPA_TAGS>> \notin X
      BY <2>7, Addresses
    <3> QED
      BY <2>4, <2>5, <3>1, <3>2, TagsKept DEF ImageInv
  <2>21. PointerHeld'
    BY <2>8 DEF PointerHeld
  <2> QED
    BY <2>11, <2>12, <2>16, <2>17, <2>18, <2>19, <2>20, <2>21 DEF ImageInv
<1> QED
  BY <1>5, <1>6, <1>7, <1>8

-----------------------------------------------------------------------------
(* All of it.                                                              *)

LEMMA InitImageInv == Init => WalkInv /\ ImageInv /\ StartInv
<1> SUFFICES ASSUME Init PROVE WalkInv /\ ImageInv /\ StartInv
  OBVIOUS
<1>1. /\ pc = "idle" /\ seg = 1 /\ sym = 0 /\ mesh = <<>>
      /\ posted = [n \in Nodes |-> <<>>]
      /\ bin = NoBinary
  BY DEF Init, ManycoreInit, LoaderInit
<1>2. Stage = "idle"
  BY <1>1 DEF Stage
<1>3. WalkInv
  BY <1>1, <1>2 DEF WalkInv, SegmentStages, LaterStages, StartStages
<1>4. ImageInv
  <2>1. DOMAIN mesh = {} /\ DOMAIN bin.segments = {}
    BY <1>1 DEF NoBinary
  <2> QED
    BY <1>2, <2>1 DEF ImageInv, SegmentsHeld, IcachesHeld, SymbolsHeld, OriginsHeld, EnablesHeld,
                      TagsHeld, TagsDone, PointerHeld, WriteStages, StartStages
<1>5. StartInv
  <2>1. \A n \in Nodes : posted[n] = <<>>
    BY <1>1
  <2>2. posted[Cache] = <<>> /\ \A t \in Tiles : posted[t] = <<>>
    BY <2>1, Addresses
  <2> QED
    BY <2>2 DEF StartInv, FirstInv, StartingInv, TagsInv, Starting
<1> QED
  BY <1>3, <1>4, <1>5

LEMMA NextImageInv ==
  HostInv /\ MemoryInv /\ LinkInv /\ WalkInv /\ ImageInv /\ StartInv /\ [Next]_vars
    => WalkInv' /\ ImageInv'
<1> SUFFICES ASSUME HostInv, MemoryInv, LinkInv, WalkInv, ImageInv, StartInv, [Next]_vars
             PROVE  WalkInv' /\ ImageInv'
  OBVIOUS
<1>1. ASSUME UNCHANGED <<pc, after, seg, it, sym, bin, mesh, dram_enabled, posted, mem, runs,
                         epoch, mishaps>>
      PROVE  WalkInv' /\ ImageInv'
  <2>1. Keeps({})
    BY <1>1, NothingKeeps
  <2>2. Unstarted' => Unstarted
    BY <1>1 DEF Unstarted
  <2>3. Quiet => Quiet'
    BY <1>1 DEF Quiet
  <2> QED
    BY <1>1, <2>1, <2>2, <2>3, OthersKeepImage
<1>2. CASE UNCHANGED vars
  BY <1>1, <1>2 DEF vars, manycoreVars, loaderVars, loadVars, deviceVars, nodeVars, historyVars
<1>3. CASE HostStep
  <2>1. CASE ManycoreStep /\ UNCHANGED <<loaderVars, deviceVars>>
    BY <2>1, OutsideKeepsImage
  <2>2. CASE (Fence \/ ElfValidate \/ TilesInitialize \/ ValidateVcache) /\ UNCHANGED deviceVars
    BY <2>2, FenceKeepsImage, OutsideKeepsImage, InitializeKeepsImage, ValidateKeepsImage
  <2>3. CASE SegmentsDone /\ UNCHANGED deviceVars
    BY <2>3, SkipKeepsImage DEF SegmentsDone, loaderUnchanged, historyVars, deviceVars
  <2>4. CASE (LoadSegment \/ ZeroSegment \/ LoadIcache \/ IcachesDone) /\ UNCHANGED deviceVars
    BY <2>4, LoadKeepsImage, ZeroKeepsImage, IcacheKeepsImage, IcachesDoneKeepsImage
  <2>5. CASE MeshInit \/ ProgramFreeze \/ FreeDevice
    BY <2>5, OutsideKeepsImage
  <2>6. CASE SetOriginRegisters \/ SetConfigSymbol \/ ConfigDone
    BY <2>6, OriginKeepsImage, SymbolKeepsImage, ConfigDoneKeepsImage
  <2>7. CASE SetKernelPointer \/ Unfreeze
    BY <2>7, PointerKeepsImage, UnfreezeKeepsImage
  <2> QED
    BY <1>3, <2>1, <2>2, <2>3, <2>4, <2>5, <2>6, <2>7 DEF HostStep, LoaderStep
<1>4. CASE Call \/ Die
  BY <1>4, OutsideKeepsImage DEF Call
<1>5. ASSUME NEW n \in Nodes, Delivery(n) PROVE WalkInv' /\ ImageInv'
  BY <1>5, DeliverKeepsImage
<1>6. ASSUME NEW t \in Tiles, Store(t) PROVE WalkInv' /\ ImageInv'
  BY <1>6, StoreKeepsImage
<1>7. ASSUME NEW t \in Tiles, Send(t), UNCHANGED <<loaderVars, deviceVars>> PROVE WalkInv' /\ ImageInv'
  BY <1>1, <1>7 DEF Send, deviceVars, loaderVars, loadVars, nodeVars, historyVars
<1> QED
  BY <1>2, <1>3, <1>4, <1>5, <1>6, <1>7 DEF Next, TileStep

\* Whatever program_init has written for tiles that are not yet started is there or under way and
\* last, and a tile that the next write starts has all that it may look at.
THEOREM ImageInvariant == Spec => [](WalkInv /\ ImageInv /\ StartInv)
BY InitImageInv, NextImageInv, NextStartInv, HostInvariant, MemoryInvariant, LinkInvariant, PTL DEF Spec

\* A tile starts by a write that arrives, and that one starts it.
LEMMA StartedByWrite ==
  ASSUME MemoryInv, [Next]_vars, NEW t \in Tiles, Frozen(t), ~Frozen(t)'
  PROVE  Starting(t)
<1>1. PICK n \in Nodes : Delivery(n)
  BY RegistersKept DEF MemoryInv
<1> DEFINE w == Head(posted[n])
<1>2. /\ posted[n] # <<>>
      /\ mem' = [mem EXCEPT ![n][w.epa] = w.val]
  BY <1>1 DEF Delivery, Deliver
<1>3. /\ posted[n] \in Seq(PacketTo(n)) /\ DOMAIN mem = Nodes /\ mem[n] \in [Epas(n) -> Nat]
      /\ t \in Nodes /\ EPA_FREEZE \in Epas(t)
  BY Addresses DEF MemoryInv, MemInv
<1>4. w = posted[n][1] /\ w \in PacketTo(n)
  BY <1>2, <1>3
<1> HIDE DEF w
<1>5. n = t /\ w.epa = EPA_FREEZE /\ w.val # 1
  BY <1>2, <1>3, <1>4 DEF Frozen, PacketTo, EPA_FREEZE
<1>6. w.val \in {0, 1}
  BY <1>4, <1>5 DEF PacketTo, IsFreeze
<1> QED
  BY <1>2, <1>4, <1>5, <1>6 DEF Starting, Unfreezes, IsFreeze

\* Whenever a tile starts, its data, symbols and registers are there; so are the text and, before
\* the first tile of a session starts, all data in DRAM, unless a freeze is right behind.
THEOREM TilesStartWithTheirImage == Spec => StartsWithItsImage
<1> DEFINE Started(t) ==
             /\ HoldsSegments(t, image, LAMBDA s : ~is_dram(s.paddr))
             /\ HoldsSymbols(t, image)
             /\ HoldsIcache(t, image)
             /\ OriginSet(t)
             /\ mem[t][EPA_DRAM_ENABLE] = 0 => mem[Cache][EPA_TAGS] = 1
             /\ FreezeAfter(t, Len(posted[t])) = 0 =>
                  /\ HoldsSegments(t, image, LAMBDA s : s.exec)
                  /\ mishaps = {} /\ (\A u \in Tiles : Frozen(u) /\ runs[u] < epoch)
                        => HoldsSegments(t, image, LAMBDA s : TRUE)
           Starts == \A t \in Tiles : Frozen(t) /\ ~Frozen(t)' => Started(t)
<1>1. ASSUME MemoryInv, WalkInv /\ ImageInv /\ StartInv, [Next]_vars,
             NEW t \in Tiles, Frozen(t), ~Frozen(t)'
      PROVE  Started(t)
  <2>1. Starting(t)
    BY <1>1, StartedByWrite
  <2>2. /\ SeesItsImage(t)
        /\ Last(t) # 1 => HasText(t) /\ (Unstarted => HasSegments(t))
    BY <1>1, <2>1 DEF StartInv, StartingInv
  <2>3. HoldsSegments(t, image, LAMBDA s : ~is_dram(s.paddr))
    BY <2>2 DEF SeesItsImage, HasTileSegments, HasSegment, HoldsSegments
  <2>4. HasText(t) => HoldsSegments(t, image, LAMBDA s : s.exec)
    BY DEF HasText, HasSegment, HoldsSegments
  <2>5. HasSegments(t) => HoldsSegments(t, image, LAMBDA s : TRUE)
    BY DEF HasSegments, HasSegment, HoldsSegments
  <2>6. FreezeAfter(t, Len(posted[t])) = 0 => Last(t) # 1
    BY DEF Last
  <2>7. mishaps = {} /\ (\A u \in Tiles : Frozen(u) /\ runs[u] < epoch) => Unstarted
    BY DEF Unstarted
  <2> QED
    BY <2>2, <2>3, <2>4, <2>5, <2>6, <2>7 DEF SeesItsImage
<1>2. MemoryInv /\ (WalkInv /\ ImageInv /\ StartInv) /\ [Next]_vars => [Starts]_vars
  BY <1>1
<1>3. Spec => [][Starts]_vars
  BY <1>2, MemoryInvariant, ImageInvariant, PTL DEF Spec
<1> QED
  BY <1>3 DEF StartsWithItsImage
=============================================================================
