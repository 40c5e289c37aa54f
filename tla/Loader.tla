------------------------------- MODULE Loader -------------------------------
(* hb_mc_loader_load: the registers of the tiles, the segments of a binary,   *)
(* and the instruction caches; and hb_mc_loader_symbol_to_eva.                *)
(*                                                                            *)
(* A binary is what the loader reads from an ELF file: whether its header is  *)
(* one of a RISC-V executable, its program headers with their data, and its   *)
(* sections with the symbols of the symbol tables among them.                 *)
EXTENDS Manycore

CONSTANTS Binaries, DramEva  \* the EVA where DRAM begins (its top bit)

NoBinary == [elf |-> FALSE, segments |-> <<>>, sections |-> <<>>]

is_dram(eva) == eva >= DramEva
(* The node and address an EVA of tile t names. *)
Place(t, eva) == IF is_dram(eva) THEN [node |-> Cache, epa |-> eva - DramEva]
                                 ELSE [node |-> t, epa |-> eva]
(* Only the size of a segment is compared with it, not where the segment ends. *)
Capacity(s) == IF is_dram(s.paddr) THEN DramWords ELSE DmemWords

ExecSegments(b) ==
    {i \in DOMAIN b.segments : b.segments[i].load /\ b.segments[i].exec}

ProgramHeader == [load : BOOLEAN, paddr : Nat, data : Seq(Nat), memsz : Nat, exec : BOOLEAN,
                  inbounds : BOOLEAN]

(* A linker places a segment that is not too large inside its memory, and a   *)
(* binary with program headers has a segment of program text.                 *)
ASSUME BinariesAssumption ==
    /\ DramEva \in Nat /\ DramEva >= DmemWords
    /\ \A b \in Binaries :
         /\ b.elf \in BOOLEAN /\ b.segments \in Seq(ProgramHeader)
         /\ b.elf => ExecSegments(b) # {}
         /\ \A i \in DOMAIN b.segments : LET s == b.segments[i] IN
              /\ Len(s.data) <= s.memsz
              /\ s.load /\ s.memsz <= Capacity(s) =>
                   Place(Origin, s.paddr).epa + s.memsz <= Capacity(s)

VARIABLES bin,      \* device->program->bin
          mesh,     \* coordinates of the tiles to load, in the order of their ids
          seg,      \* segment that is being loaded
          after     \* where a block write goes on when its fence is through

loadVars == <<bin, seg, after>>
loaderVars == <<loadVars, mesh>>

LoaderInit == bin = NoBinary /\ mesh = <<>> /\ seg = 1 /\ after = "idle"

-----------------------------------------------------------------------------
(* hb_mc_loader_symbol_to_eva. Sections are searched in their order; one that *)
(* lies outside the file (a symbol table: or whose string table does) ends    *)
(* the search with an error.                                                  *)

TablesWith(b, name) ==
    {i \in DOMAIN b.sections : name \in DOMAIN b.sections[i].symbols}
HasSymbol(b, name) ==
    /\ b.elf
    /\ \E i \in TablesWith(b, name) : \A j \in 1..i : b.sections[j].inbounds
symbol_to_eva(b, name) ==
    LET first == CHOOSE i \in TablesWith(b, name) : \A j \in TablesWith(b, name) : i <= j
    IN b.sections[first].symbols[name]

-----------------------------------------------------------------------------
(* hb_mc_loader_load, from pc = "load" to pc = "config_symbols".              *)

LoadFails == Return /\ seg' = 1 /\ after' = "idle"

(* A block write: words are sent, then the fence waits for all of them. *)
SendBlock(writes, next) ==
    /\ NoFault /\ Post(writes)
    /\ IF writes = <<>> THEN pc' = next /\ UNCHANGED after
                        ELSE pc' = "fence" /\ after' = next
SendFails(writes) == Fault /\ PostSome(writes) /\ LoadFails

EvaWrites(t, eva, vals) ==
    [i \in 1..Len(vals) |-> LET p == Place(t, eva + i - 1) IN Write(p.node, p.epa, vals[i])]

Fence ==
    /\ pc = "fence"
    /\ Quiet
    /\ pc' = after /\ after' = "idle"
    /\ UNCHANGED <<barVars, dram_enabled, listVars, it, drainVars, fifoVars, nodeVars,
                   historyVars, faults, bin, mesh, seg>>

loaderUnchanged == <<barVars, dram_enabled, listVars, drainVars, fifoVars, mem, runs,
                     historyVars, bin, mesh>>

ElfValidate ==
    /\ pc = "load"
    /\ IF bin.elf THEN pc' = "tiles_initialize" /\ UNCHANGED <<it, seg, after>> ELSE LoadFails
    /\ UNCHANGED <<loaderUnchanged, posted, faults>>

(* (variant) the tile is started *)
tile_set_registers_running(t) ==
    SetOrigin(t, mesh[1])
        \o (IF dram_enabled THEN SetDramEnabled(t) ELSE ClearDramEnabled(t)) \o UnfreezeTile(t)

(* Registers of one tile: tile 0 of the list is taken for the origin. *)
tile_set_registers(t) ==
    FreezeTile(t) \o SetOrigin(t, mesh[1])
        \o IF dram_enabled THEN SetDramEnabled(t) ELSE ClearDramEnabled(t)

TilesInitialize ==
    /\ pc = "tiles_initialize"
    /\ LET writes == ForEach(mesh, [t \in Tiles |-> tile_set_registers(t)]) IN
       \/ /\ NoFault /\ Post(writes)
          /\ pc' = IF dram_enabled THEN "segment" ELSE "validate_vcache"
          /\ UNCHANGED <<it, seg, after>>
       \/ SendFails(writes)
    /\ UNCHANGED loaderUnchanged

(* Without DRAM the caches' tags are made valid, so that nothing is fetched. *)
ValidateVcache ==
    /\ pc = "validate_vcache"
    /\ LET writes == <<Write(Cache, EPA_TAGS, 1)>> IN
         \/ NoFault /\ Post(writes) /\ pc' = "segment" /\ UNCHANGED <<it, seg, after>>
         \/ SendFails(writes)
    /\ UNCHANGED loaderUnchanged

(* A segment is loaded never, once (DRAM, through tile 0), or into each tile. *)
Loadable(s) == s.inbounds /\ (s.load => s.memsz <= Capacity(s))

SegmentsDone ==
    /\ pc = "segment" /\ seg > Len(bin.segments)
    /\ pc' = "icache" /\ seg' = 1
    /\ UNCHANGED <<loaderUnchanged, it, posted, faults, after>>

LoadSegment ==
    /\ pc = "segment" /\ seg <= Len(bin.segments)
    /\ LET s == bin.segments[seg]
           writes == EvaWrites(mesh[it], s.paddr, s.data)
       IN \/ ~Loadable(s) /\ NoFault /\ LoadFails /\ UNCHANGED posted
          \/ Loadable(s) /\ ~s.load /\ NoFault /\ seg' = seg + 1
                /\ UNCHANGED <<pc, it, after, posted>>
          \/ Loadable(s) /\ s.load /\ SendBlock(writes, "zeros") /\ UNCHANGED <<it, seg>>
          \/ Loadable(s) /\ s.load /\ SendFails(writes)
    /\ UNCHANGED loaderUnchanged

Zeros(s) == [i \in 1..s.memsz - Len(s.data) |-> 0]
(* (variant) the zeroes are written at the start of the segment *)
ZeroWritesAtStart(t, s) == EvaWrites(t, s.paddr, Zeros(s))
ZeroWrites(t, s) == EvaWrites(t, s.paddr + Len(s.data), Zeros(s))

(* (variant) what is loaded once does not count as loaded *)
NextSegmentOrTileStuck(s) ==
    IF it = Len(mesh) THEN seg' = seg + 1 /\ it' = 1
    ELSE it' = (IF is_dram(s.paddr) THEN 1 ELSE it + 1) /\ UNCHANGED seg
NextSegmentOrTile(s) ==
    IF is_dram(s.paddr) \/ it = Len(mesh)
    THEN seg' = seg + 1 /\ it' = 1
    ELSE it' = it + 1 /\ UNCHANGED seg

(* The rest of the segment is zeroed; then the next tile, or segment. *)
ZeroSegment ==
    /\ pc = "zeros"
    /\ LET s == bin.segments[seg]
           writes == ZeroWrites(mesh[it], s)
       IN \/ SendBlock(writes, "segment") /\ NextSegmentOrTile(s)
          \/ SendFails(writes)
    /\ UNCHANGED loaderUnchanged

(* The icache gets what fits of the last segment with program text. None of   *)
(* it would make the address wrap to one that sets tag bits.                  *)
Text(b) ==
    LET last == CHOOSE i \in ExecSegments(b) : \A j \in ExecSegments(b) : j <= i
    IN b.segments[last].data
IcacheText(b) ==
    SubSeq(Text(b), 1, IF Len(Text(b)) < IcacheWords THEN Len(Text(b)) ELSE IcacheWords)
IcacheWrites(t, b) ==
    [i \in 1..Len(IcacheText(b)) |-> Write(t, EPA_ICACHE + i - 1, IcacheText(b)[i])]

LoadIcache ==
    /\ pc = "icache" /\ it <= Len(mesh)
    /\ LET writes == IcacheWrites(mesh[it], bin)
       IN \/ writes = <<>> /\ NoFault /\ LoadFails /\ UNCHANGED posted
          \/ writes # <<>> /\ SendBlock(writes, "icache") /\ it' = it + 1 /\ UNCHANGED seg
          \/ writes # <<>> /\ SendFails(writes)
    /\ UNCHANGED loaderUnchanged

IcachesDone ==
    /\ pc = "icache" /\ it > Len(mesh)
    /\ pc' = "config_symbols" /\ it' = 1
    /\ UNCHANGED <<loaderUnchanged, posted, faults, seg, after>>

LoaderStep ==
    \/ Fence \/ ElfValidate \/ TilesInitialize \/ ValidateVcache
    \/ LoadSegment \/ ZeroSegment \/ SegmentsDone \/ LoadIcache \/ IcachesDone

=============================================================================
