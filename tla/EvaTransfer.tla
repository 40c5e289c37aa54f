---------------------------- MODULE EvaTransfer -----------------------------
(***************************************************************************)
(* hb_mc_manycore_eva_write, _read, _memset and the DMA variants: a range  *)
(* of EVAs is cut into the segments the map finds, and each is transferred *)
(* by the function for NPAs.  The program makes one call at a time; a      *)
(* segment is one step, for HostLink shows that a block transfer ends with *)
(* its stores performed or its loads answered.  Between calls the program  *)
(* may ask for the EVA of an NPA, as the tile-group launcher does for the  *)
(* address of the finish signal.                                           *)
(***************************************************************************)
EXTENDS EvaMap

CONSTANTS
  Calls,       \* the transfers a program may ask for
  Queries,     \* the NPAs it may ask about: records [tgt, npa]
  MaxCalls     \* bound: the calls it makes

Kinds    == {"write", "memset", "read", "write_dma", "read_dma"}
DmaKinds == {"write_dma", "read_dma"}
Call     == [kind : Kinds, origin : Tiles, tgt : Tiles, eva : 0 .. EvaSpace - 1, bytes : Nat]
Npa      == [x : 0 .. DimX - 1, y : 0 .. NetY - 1, epa : Nat]

\* Sizes are multiples of a word, and the DMA calls' EVAs too: memory is modelled by the word.
\* EPAs asked about exist: in a tile's memory, behind a cache, or in the host's EPA field.
ASSUME TransferAssumption ==
  /\ MaxCalls \in Nat
  /\ Calls \subseteq Call
  /\ \A c \in Calls : c.bytes % 4 = 0 /\ (c.kind \in DmaKinds => c.eva % 4 = 0)
  /\ \A q \in Queries : /\ q.tgt \in Tiles /\ q.npa \in Npa
                        /\ q.npa.epa < IF IsDramRow(q.npa) THEN CacheEpas ELSE pow2[EpaLog]

\* The words the EVAs of a host reach: behind the caches and in the tiles.
Cells ==
       [x : 0 .. DimX - 1, y : {LowY, HighY}, epa : {e \in 0 .. pow2[ReachBits] - 1 : e % 4 = 0}]
  \cup {c \in [x : 0 .. DimX - 1, y : BaseY .. BaseY + DimY - 1, epa : 0 .. pow2[EpaLog] - 1] :
          c.epa % 4 = 0 /\ (InDmem(c.epa) \/ c.epa \in Csrs)}

VARIABLES
  memory,    \* the contents of every cell
  call, pc,  \* the call under way; pc is "idle" or "run"
  curr_eva, left,   \* curr_eva and sz of the loop
  got,       \* the words a read has brought
  calls,     \* the number of calls made
  answer     \* the question asked last and its answer

vars == <<memory, call, pc, curr_eva, left, got, calls, answer>>

NoCall   == [kind |-> "read", origin |-> <<BaseX, BaseY>>, tgt |-> <<BaseX, BaseY>>,
             eva |-> 0, bytes |-> 0]
NoAnswer == [asked |-> FALSE]

\* The i-th word of the n-th call's data; memset repeats one value.
Word(n, i)  == [call |-> n, word |-> i]
Zero        == Word(0, 0)
Data(c, n, i) == IF c.kind = "memset" THEN Word(n, 0) ELSE Word(n, i)

Init ==
  /\ memory = [c \in Cells |-> Zero]
  /\ call = NoCall /\ pc = "idle" /\ curr_eva = 0 /\ left = 0 /\ got = <<>>
  /\ calls = 0 /\ answer = NoAnswer

Begin(c) ==
  /\ pc = "idle" /\ calls < MaxCalls
  /\ call' = c /\ pc' = "run" /\ curr_eva' = c.eva /\ left' = c.bytes
  /\ calls' = calls + 1 /\ got' = <<>> /\ answer' = NoAnswer
  /\ UNCHANGED memory

min_size_t(x, y) == IF x < y THEN x ELSE y

Segment == default_eva_to_npa(call.origin, call.tgt, curr_eva)

\* (variant) the whole segment, whatever is left.
WholeSegment == Segment.sz

XferSize == min_size_t(left, Segment.sz)

\* What hb_mc_manycore_write_mem, read_mem and memset refuse: bytes that are no words (the
\* buffer has advanced by the bytes before), a node outside the network, an unaligned EPA.
\* The DMA functions: no DMA, or a node that is no cache.
Accepted ==
  IF call.kind \in DmaKinds THEN SupportsDma /\ IsDramRow(Segment.npa)
  ELSE /\ XferSize % 4 = 0
       /\ call.kind = "memset" \/ (call.bytes - left) % 4 = 0
       /\ Segment.npa.x < DimX /\ Segment.npa.y < NetY
       /\ Segment.npa.epa % 4 = 0

\* The cell of the i-th word of the segment.
CellOf(i) == [Segment.npa EXCEPT !.epa = @ + 4 * (i - 1)]

Transfer ==
  LET words == XferSize \div 4
      done  == (call.bytes - left) \div 4
  IN  IF call.kind \in {"read", "read_dma"}
      THEN /\ got' = got \o [i \in 1 .. words |-> memory[CellOf(i)]]
           /\ UNCHANGED memory
      ELSE /\ memory' = [c \in Cells |->
                          IF \E i \in 1 .. words : CellOf(i) = c
                          THEN Data(call, calls, done + (CHOOSE i \in 1 .. words : CellOf(i) = c))
                          ELSE memory[c]]
           /\ UNCHANGED got

Step ==
  /\ pc = "run" /\ left > 0
  /\ Segment.ok /\ Accepted
  /\ Transfer
  /\ left' = left - XferSize
  /\ curr_eva' = (curr_eva + XferSize) % EvaSpace
  /\ UNCHANGED <<call, pc, calls, answer>>

\* The translation fails, or the transfer is refused: the call returns an error.
Refused ==
  /\ pc = "run" /\ left > 0
  /\ ~(Segment.ok /\ Accepted)
  /\ pc' = "idle"
  /\ UNCHANGED <<memory, call, curr_eva, left, got, calls, answer>>

Return ==
  /\ pc = "run" /\ left = 0
  /\ pc' = "idle"
  /\ UNCHANGED <<memory, call, curr_eva, left, got, calls, answer>>

hb_mc_npa_to_eva(q) ==
  /\ pc = "idle" /\ calls < MaxCalls
  /\ answer' = [asked |-> TRUE, npa |-> q.npa, eva |-> default_npa_to_eva(q.tgt, q.npa)]
  /\ calls' = calls + 1
  /\ UNCHANGED <<memory, call, pc, curr_eva, left, got>>

Loop == Step \/ Refused \/ Return

Next == \/ Loop
        \/ \E c \in Calls : Begin(c)
        \/ \E q \in Queries : hb_mc_npa_to_eva(q)

\* The loop is code of the host program, which runs whenever it can.
Spec == Init /\ [][Next]_vars /\ WF_vars(Loop)

(***************************************************************************)
(* Properties.                                                             *)
(***************************************************************************)

TypeOK ==
  /\ memory \in [Cells -> [call : 0 .. MaxCalls, word : Nat]]
  /\ call \in Calls \cup {NoCall} /\ pc \in {"idle", "run"}
  /\ curr_eva \in 0 .. EvaSpace - 1 /\ left \in 0 .. call.bytes
  /\ got \in Seq([call : 0 .. MaxCalls, word : Nat]) /\ calls \in 0 .. MaxCalls
  /\ answer.asked \in BOOLEAN

\* Where a tile's store to a global EVA goes: the network interface takes the fields as they are.
StoreTarget(eva) == [x |-> Field(eva, EpaLog, GlobalXLog),
                     y |-> Field(eva, EpaLog + GlobalXLog, GlobalYLog),
                     epa |-> Field(eva, 0, EpaLog)]

\* The EVA of the answer names the NPA that was asked about.
ComesBack ==
  LET eva == answer.eva.eva
  IN  IF IsDramRow(answer.npa)
      THEN \A t \in Tiles : LET to == default_eva_to_npa(t, t, eva) IN to.ok /\ to.npa = answer.npa
      ELSE ~IsDram(eva) /\ IsGlobal(eva) /\ StoreTarget(eva) = answer.npa

\* The NPAs an EVA has room for: all those of tiles and of the host, and of a cache those whose
\* EPA leaves the DRAM bit alone.
HasRoom(npa) == IsDramRow(npa) => npa.epa < pow2[ReachBits]

\* An EVA obtained for an NPA names that NPA: a tile that stores the finish signal to the EVA it
\* was given reaches the host's address, and the EVA of a word of DRAM or of a tile's memory is
\* translated back to that word (hb_mc_npa_to_eva and hb_mc_eva_to_npa agree, though one packs
\* the fields that the other takes apart).
RoundTrip == answer.asked /\ answer.eva.ok /\ HasRoom(answer.npa) => ComesBack

\* "Translate a Network Physical Address to an Endpoint Virtual Address in a target tile's address
\* space" (bsg_manycore_eva.h): the same of every NPA behind a cache, with room or not, which
\* hb_mc_npa_to_eva takes up to the size of DRAM.
EveryNpaComesBack == answer.asked /\ answer.eva.ok => ComesBack

\* Two things the map does not check. It would send an EVA whose column is DimX on, which no EVA of
\* DRAM has when the columns are as many as their field can name; and with the offset of a tile's
\* memory, a global or a group EVA of another row on to a cache or to the I/O row. (A group EVA just
\* below the array of tiles is such a one, which GroupWritesTiles is about.)
ColumnsFillField == DimX = pow2[XDimLog]

RowNamed(c, eva) ==
  IF IsGlobal(eva) THEN Field(eva, EpaLog + GlobalXLog, GlobalYLog)
  ELSE Field(eva, EpaLog + GlobalXLog, GroupYLog) + c.origin[2]

RowsAreOfTiles ==
  \A c \in Calls : \A i \in 0 .. c.bytes - 1 :
    LET eva == (c.eva + i) % EvaSpace
    IN  ~IsDram(eva) /\ (IsGlobal(eva) \/ IsGroup(eva))
          => RowNamed(c, eva) \notin {LowY, BaseY - 1, HighY}

\* An EVA means the same place whoever translates it: DRAM is one range of bytes, a tile's memory
\* is at the same offset for a local, a group and a global EVA.
Nowhere == [space |-> "nowhere"]
Dram(n) == [space |-> "dram", at |-> n]
Dmem(x, y, n) == [space |-> "dmem", tile |-> <<x, y>>, at |-> n]
Csr(x, y, n) == [space |-> "csr", tile |-> <<x, y>>, at |-> n]

DramBytes == 2 * pow2[XDimLog] * pow2[ReachBits]

Place ==      {Dram(n) : n \in {m \in 0 .. DramBytes - 1 : m % 4 = 0}}
         \cup {Dmem(t[1], t[2], n) : t \in Tiles, n \in {m \in 0 .. DmemSize - 1 : m % 4 = 0}}
         \cup {Csr(t[1], t[2], n) : t \in Tiles, n \in Csrs}

InTile(x, y, off) ==
  IF <<x, y>> \notin Tiles THEN Nowhere
  ELSE IF off \in Csrs THEN Csr(x, y, off)
  ELSE IF off \in DmemBase .. DmemBase + DmemSize - 1 THEN Dmem(x, y, off - DmemBase)
  ELSE Nowhere

\* The place a word's EVA names in a call.
Named(c, eva) ==
  LET off == eva % pow2[EpaLog]
      x   == (eva \div pow2[EpaLog]) % pow2[GlobalXLog]
      row == eva \div pow2[EpaLog + GlobalXLog]
  IN  IF eva % 4 # 0 \/ (c.kind \in DmaKinds /\ ~SupportsDma) THEN Nowhere
      ELSE IF eva >= pow2[DramBit]
      THEN IF eva - pow2[DramBit] < DramBytes THEN Dram(eva - pow2[DramBit]) ELSE Nowhere
      ELSE IF c.kind \in DmaKinds THEN Nowhere
      ELSE IF eva >= pow2[GlobalBit] THEN InTile(x, row % pow2[GlobalYLog], off)
      ELSE IF eva >= pow2[GroupBit] THEN InTile(x + c.origin[1], (row % pow2[GroupYLog]) + c.origin[2], off)
      ELSE IF eva = off THEN InTile(c.tgt[1], c.tgt[2], off)
      ELSE Nowhere

\* The cell that holds a place: for DRAM, where the map sends its EVA.
HeldBy(p) ==
  IF p.space = "dram" THEN default_eva_to_npa_dram(pow2[DramBit] + p.at).npa
  ELSE [x |-> p.tile[1], y |-> p.tile[2], epa |-> IF p.space = "dmem" THEN DmemBase + p.at ELSE p.at]

\* The cells of all places, as a function.
Cell == [p \in Place |-> HeldBy(p)]

Linear == INSTANCE LinearMemory WITH
  Value  <- [call : 0 .. MaxCalls, word : Nat],
  memory <- [p \in Place |-> memory[Cell[p]]],
  todo   <- IF pc = "idle" THEN <<>>
            ELSE [i \in 1 .. left \div 4 |->
                   [at  |-> Named(call, (curr_eva + 4 * (i - 1)) % EvaSpace),
                    val |-> Data(call, calls, (call.bytes - left) \div 4 + i)]],
  writes <- call.kind \notin {"read", "read_dma"},
  got    <- got

\* The loops of eva_write, eva_read and eva_memset work through the addresses they are given as
\* if memory were linear: DRAM interleaved over all caches is one range, nothing is skipped,
\* written twice or written elsewhere at a boundary of segments, and a call that fails has done
\* what lies before the first bad address and nothing behind it.
ImplementsLinearMemory == Linear!Spec

\* "Invalid Group EVA. Y coordinate destination %d is larger than current manycore configuration"
\* (bsg_manycore_eva.cpp): a group EVA beyond the array of tiles is refused, so that a transfer
\* to a group EVA writes tiles only.
GroupWritesTiles ==
  [][\A c \in Cells :
       IsGroup(curr_eva) /\ ~IsDram(curr_eva) /\ ~IsGlobal(curr_eva) /\ memory'[c] # memory[c]
         => <<c.x, c.y>> \in Tiles]_vars

\* A call returns: every segment takes the loop further.
CallsReturn == pc = "run" ~> pc = "idle"
=============================================================================
