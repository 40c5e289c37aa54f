--------------------------- MODULE MCEvaTransfer ----------------------------
(* Two columns and two rows of tiles, four caches, stripes of two words, two words of tile       *)
(* memory.  As on the 4x4 machines the address bits of a cache are one more than an EVA has room *)
(* for, and as with their banks of 2^29 bytes half of a bank is out of reach.  The calls cross   *)
(* stripes, rows of caches and the ends of memories.                                             *)
EXTENDS EvaTransfer, TLC

MCCsrs == {16, 20, 24}
MCHost == <<0, 1>>

Global(x, y, off) == pow2[GlobalBit] + y * pow2[EpaLog + GlobalXLog] + x * pow2[EpaLog] + off
Group(x, y, off)  == pow2[GroupBit] + y * pow2[EpaLog + GlobalXLog] + x * pow2[EpaLog] + off
InDram(n)         == pow2[DramBit] + n

From(kind, origin, tgt, eva, bytes) ==
  [kind |-> kind, origin |-> origin, tgt |-> tgt, eva |-> eva, bytes |-> bytes]

Dev(kind, eva, bytes) == From(kind, <<0, 2>>, <<0, 2>>, eva, bytes)

MCCalls ==
  {\* DRAM: over a stripe's end, over a row of caches, over the end of DRAM (the EVA wraps), unaligned
   Dev("write", InDram(4), 12), Dev("read", InDram(0), 40), Dev("memset", InDram(28), 8),
   Dev("write", InDram(DramBytes - 8), 16), Dev("write", InDram(10), 8), Dev("read", InDram(2), 4),
   Dev("write_dma", InDram(12), 24), Dev("read_dma", InDram(8), 16),
   Dev("read_dma", InDram(DramBytes - 12), 16),
   \* tile memory, to its end and over it
   From("write", <<0, 2>>, <<1, 3>>, DmemBase, 8), From("write", <<0, 2>>, <<1, 3>>, DmemBase + 4, 8),
   Dev("read", Global(1, 3, DmemBase), 8), Dev("write", Global(1, 3, DmemBase + 4), 4),
   From("memset", <<1, 2>>, <<0, 2>>, Group(0, 1, DmemBase), 8),
   \* a register; nothing there; outside the network; beyond the columns
   From("write", <<0, 2>>, <<0, 3>>, 20, 4), Dev("write", 28, 4), Dev("write", 0, 8),
   Dev("write", Global(1, 6, DmemBase), 4), From("write", <<1, 2>>, <<1, 2>>, Group(1, 0, DmemBase), 4),
   Dev("write_dma", Global(1, 3, DmemBase), 4), Dev("write", pow2[EpaLog] + DmemBase, 4)}

\* A group EVA with a row just below the array of tiles.
PastArray == {Dev("write", Group(0, 2, DmemBase), 4), Dev("write", Group(0, 1, DmemBase), 4)}

\* Words at both ends of what an EVA reaches of a cache, and of what lies behind the cache.
CacheWords == {4, 8, pow2[ReachBits] - 4, pow2[ReachBits], CacheEpas - 4}

MCQueries ==
  {[tgt |-> <<0, 2>>, npa |-> [x |-> x, y |-> y, epa |-> e]] :
     x \in 0 .. 1, y \in {LowY, HighY}, e \in CacheWords}
  \cup {[tgt |-> <<1, 2>>, npa |-> [x |-> 0, y |-> 1, epa |-> e]] : e \in {0, 5, 28}}
  \cup {[tgt |-> <<1, 2>>, npa |-> [x |-> x, y |-> y, epa |-> e]] : x \in 0 .. 1, y \in 2 .. 3, e \in {12, 16}}

NoQueries == {}
=============================================================================
