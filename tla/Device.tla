------------------------------- MODULE Device -------------------------------
(* A device from hb_mc_device_init to hb_mc_device_finish, in one process     *)
(* after the other: module Manycore opens and closes the link, module Loader  *)
(* loads the program, and the tiles run it meanwhile. What happens between    *)
(* program_init and finish to start kernels is module TileGroups.             *)
EXTENDS Loader

CONSTANTS Dims,         \* mesh dimensions a program asks for; <<0, 0>> is all of the array
          BadBinaries,  \* bound: loading one of these counts as a call that fails
          ProgramData   \* EVAs of variables that programs of tiles write

ASSUME DeviceAssumption ==
    /\ Dims \subseteq Nat \X Nat
    /\ BadBinaries \subseteq Binaries
    /\ ProgramData \subseteq 0..DmemWords - 1 \cup DramEva..DramEva + DramWords - 1

VARIABLES session,  \* what the program may do with the device: "none", "open", "loaded",
                    \* "closing" (a finish failed), "broken" (an init failed halfway)
          made,     \* parts of hb_mc_device_t that are allocated and complete
          sym,      \* configuration symbol to write next; 0: the origin registers
          image     \* history: the binary that tiles were last started with

deviceVars == <<session, made, sym, image>>
vars == <<manycoreVars, loaderVars, deviceVars>>

Init ==
    /\ ManycoreInit
    /\ LoaderInit
    /\ session = "none" /\ made = {} /\ sym = 0 /\ image = NoBinary

hostUnchanged == <<barVars, dram_enabled, listVars, drainVars, fifoVars, historyVars>>

(* (variant) the last tile is left out *)
FreezeWritesButLast ==
    ForEach(SubSeq(mesh, 1, Len(mesh) - 1), [t \in Tiles |-> FreezeTile(t)])
(* hb_mc_device_tiles_freeze *)
FreezeWrites == ForEach(mesh, [t \in Tiles |-> FreezeTile(t)])

-----------------------------------------------------------------------------
(* hb_mc_device_init_custom_dimensions. Between two sessions the link is      *)
(* quiet: reading the ROM takes longer than writes are under way.             *)

DeviceInit ==
    /\ pc = "idle" /\ session = "none" /\ epoch + faults < MaxEvents
    /\ Quiet
    /\ StartInit
    /\ epoch' = epoch + 1
    /\ made' = {}
    /\ UNCHANGED <<listVars, it, drainVars, fifoVars, nodeVars, mishaps, faults, loaderVars,
                   session, sym, image>>

(* mesh_init and tile_groups_init. Nothing undoes hb_mc_manycore_init when    *)
(* the dimensions are refused, and there is no mesh for finish to freeze.     *)
Requested(d) == IF d = <<0, 0>> THEN ArrayDim ELSE d
ValidDim(d) == d[1] \in 1..ArrayDim[1] /\ d[2] \in 1..ArrayDim[2]
MeshInit ==
    /\ pc = "initialized" /\ pc' = "idle"
    /\ \E dim \in {Requested(d) : d \in Dims} :
         \/ /\ ValidDim(dim)
            /\ mesh' = MeshTiles(dim)
            /\ made' = {"mc", "mesh", "tile_groups"}
            /\ session' = "open"
         \/ /\ ~ValidDim(dim)
            /\ made' = {"mc"}
            /\ session' = "broken"
            /\ UNCHANGED mesh
    /\ UNCHANGED <<hostUnchanged, it, nodeVars, faults, loadVars, sym, image>>

-----------------------------------------------------------------------------
(* hb_mc_device_program_init: read the file, make the program and its         *)
(* allocator, then hb_mc_device_program_load.                                 *)

(* The copy of the binary, and the allocator, which starts behind the program. *)
Complete(b) == HasSymbol(b, "_bsg_dram_end_addr")

ProgramInit ==
    /\ pc = "idle" /\ session = "open"
    /\ \/ \E b \in Binaries :
             /\ IF b \in BadBinaries THEN Fault ELSE NoFault
             /\ bin' = b
             /\ IF Complete(b)
                THEN made' = made \cup {"program"} /\ pc' = "freeze"
                ELSE made' = made \ {"program"} /\ UNCHANGED pc
       \/ Fault /\ UNCHANGED <<pc, bin, made>>  \* the file cannot be read
    /\ UNCHANGED <<hostUnchanged, it, nodeVars, mesh, seg, after, session, sym, image>>

programUnchanged == <<hostUnchanged, mem, runs, bin, mesh, made>>

ProgramFreeze ==
    /\ pc = "freeze"
    /\ \/ /\ NoFault /\ Post(FreezeWrites) /\ pc' = "load"
          /\ UNCHANGED <<it, seg, after>>
       \/ SendFails(FreezeWrites)
    /\ UNCHANGED <<programUnchanged, session, sym, image>>

(* One symbol of one tile: hb_mc_tile_set_symbol_val. *)
SymbolWrite(t, name, val) == EvaWrites(t, symbol_to_eva(bin, name), <<val>>)
SymbolFails(t, name, val) ==
    \/ ~HasSymbol(bin, name) /\ NoFault /\ LoadFails /\ UNCHANGED posted
    \/ HasSymbol(bin, name) /\ SendFails(SymbolWrite(t, name, val))

(* What program_load tells each tile: it is at its place in the mesh, in the  *)
(* group (0, 0) of one tile, in a grid of one group.                          *)
ConfigSymbols ==
    <<"__bsg_grp_org_x", "__bsg_grp_org_y", "__bsg_x", "__bsg_y", "__bsg_id",
      "__bsg_tile_group_id_x", "__bsg_tile_group_id_y", "__bsg_tile_group_id",
      "__bsg_grid_dim_x", "__bsg_grid_dim_y",
      "cuda_finish_signal_val", "cuda_kernel_not_loaded_val">>
TileSymbols == {ConfigSymbols[i] : i \in DOMAIN ConfigSymbols} \cup {"cuda_kernel_ptr"}
HB_MC_CUDA_FINISH_SIGNAL_VAL == 1
HB_MC_CUDA_KERNEL_NOT_LOADED_VAL == 1

(* A linker places these symbols in a tile's memory. *)
ASSUME SymbolsAssumption ==
    \A b \in Binaries :
        /\ Len(b.sections) \in Nat /\ DOMAIN b.sections = 1..Len(b.sections)
        /\ \A i \in DOMAIN b.sections : \A name \in TileSymbols \cap DOMAIN b.sections[i].symbols :
              b.sections[i].symbols[name] \in 0..DmemWords - 1

(* It gives each of them, and each segment that is loaded, memory of its own; *)
(* programs do not write into program text.                                   *)
Loaded(b) == {i \in DOMAIN b.segments : Loadable(b.segments[i]) /\ b.segments[i].load}
WordsOf(s) == s.paddr..s.paddr + s.memsz - 1
ASSUME LayoutAssumption ==
    \A b \in Binaries :
        /\ \A x, y \in TileSymbols :
              HasSymbol(b, x) /\ HasSymbol(b, y) /\ symbol_to_eva(b, x) = symbol_to_eva(b, y) => x = y
        /\ \A i, j \in Loaded(b) : i # j => WordsOf(b.segments[i]) \cap WordsOf(b.segments[j]) = {}
        /\ \A i \in Loaded(b) \cap ExecSegments(b) : WordsOf(b.segments[i]) \cap ProgramData = {}

PlaceValue(name, t) ==
    LET x == t[1] - Origin[1]
        y == t[2] - Origin[2]
    IN CASE name = "__bsg_grp_org_x" -> Origin[1]
         [] name = "__bsg_grp_org_y" -> Origin[2]
         [] name = "__bsg_x" -> x
         [] name = "__bsg_y" -> y
         [] name = "__bsg_id" -> y + x
         [] OTHER -> 0
ConfigValue(name, t) ==
    CASE name \in {"__bsg_grid_dim_x", "__bsg_grid_dim_y"} -> 1
      [] name = "cuda_finish_signal_val" -> HB_MC_CUDA_FINISH_SIGNAL_VAL
      [] name = "cuda_kernel_not_loaded_val" -> HB_MC_CUDA_KERNEL_NOT_LOADED_VAL
      [] OTHER -> PlaceValue(name, t)

(* hb_mc_device_tiles_set_config_symbols: for each tile the origin registers, *)
(* not waited for, then symbol after symbol. The tiles stay frozen.           *)
SetOriginRegisters ==
    /\ pc = "config_symbols" /\ it <= Len(mesh) /\ sym = 0
    /\ \/ /\ NoFault /\ Post(SetOrigin(mesh[it], Origin)) /\ sym' = 1
          /\ UNCHANGED <<pc, it, seg, after>>
       \/ SendFails(SetOrigin(mesh[it], Origin)) /\ UNCHANGED sym
    /\ UNCHANGED <<programUnchanged, session, image>>

SetConfigSymbol ==
    /\ pc = "config_symbols" /\ sym # 0
    /\ LET name == ConfigSymbols[sym]
           val == ConfigValue(name, mesh[it])
       IN \/ /\ HasSymbol(bin, name)
             /\ SendBlock(SymbolWrite(mesh[it], name, val), "config_symbols")
             /\ IF sym = Len(ConfigSymbols)
                THEN it' = it + 1 /\ sym' = 0
                ELSE sym' = sym + 1 /\ UNCHANGED it
             /\ UNCHANGED seg
          \/ SymbolFails(mesh[it], name, val) /\ sym' = 0
    /\ UNCHANGED <<programUnchanged, session, image>>

ConfigDone ==
    /\ pc = "config_symbols" /\ it > Len(mesh)
    /\ pc' = "unfreeze" /\ it' = 1
    /\ UNCHANGED <<programUnchanged, posted, faults, seg, after, session, sym, image>>

(* hb_mc_device_tiles_unfreeze: per tile the kernel pointer, waited for, then *)
(* the register. Tiles run while their neighbours are still frozen.           *)
SetKernelPointer ==
    /\ pc = "unfreeze"
    /\ LET name == "cuda_kernel_ptr"
           val == HB_MC_CUDA_KERNEL_NOT_LOADED_VAL
       IN \/ /\ HasSymbol(bin, name)
             /\ SendBlock(SymbolWrite(mesh[it], name, val), "unfreeze_tile")
             /\ UNCHANGED <<it, seg>>
          \/ SymbolFails(mesh[it], name, val)
    /\ UNCHANGED <<programUnchanged, session, sym, image>>

Unfreeze ==
    /\ pc = "unfreeze_tile"
    /\ \/ /\ NoFault /\ Post(UnfreezeTile(mesh[it]))
          /\ IF it = Len(mesh)
             THEN Return /\ session' = "loaded"
             ELSE pc' = "unfreeze" /\ it' = it + 1 /\ UNCHANGED session
          /\ image' = bin
          /\ UNCHANGED <<seg, after>>
       \/ SendFails(UnfreezeTile(mesh[it])) /\ UNCHANGED <<session, image>>
    /\ UNCHANGED <<programUnchanged, sym>>

-----------------------------------------------------------------------------
(* While the program runs.                                                    *)

RequestRx ==
    /\ pc = "idle" /\ session = "loaded"
    /\ pc' = "rx"
    /\ UNCHANGED <<hostUnchanged, it, nodeVars, faults, loaderVars, deviceVars>>

(* A running program writes its variables, in its memory and in DRAM. *)
Store(t) ==
    /\ ~Frozen(t)
    /\ \E eva \in ProgramData : LET p == Place(t, eva) IN
          mem' = [mem EXCEPT ![p.node][p.epa] = Junk]
    /\ UNCHANGED <<pc, hostUnchanged, it, posted, runs, faults, loaderVars, deviceVars>>

(* A program adds and removes responders of its own; those linked to it stay  *)
(* in the list until its destructors run.                                     *)
LinkedResponders == {Linked[i] : i \in DOMAIN Linked}
ProgramCalls ==
    /\ pc = "idle" /\ session \notin {"closing", "broken"}
    /\ \/ \E r \in Responders \ LinkedResponders : ResponderAdd(r) \/ ResponderDel(r)
       \/ session = "open" /\ dram_enabled /\ DisableDram
    /\ UNCHANGED <<loaderVars, deviceVars>>

-----------------------------------------------------------------------------
(* hb_mc_device_finish: freeze, close the manycore, free the rest. When it    *)
(* fails the program may only call it again. A program struct that is not     *)
(* complete holds pointers nobody set, so that finish must not be called.     *)

DeviceFinish ==
    /\ pc = "idle" /\ session \in {"open", "loaded", "closing"} /\ "program" \in made
    /\ session' = "closing"
    /\ \/ NoFault /\ Post(FreezeWrites) /\ StartExit
       \/ Fault /\ PostSome(FreezeWrites) /\ UNCHANGED pc
    /\ UNCHANGED <<programUnchanged, it, seg, after, sym, image>>

ManycoreExit(parts) == parts \ {"mc"}
ProgramExit(parts) == parts \ {"program"}
MeshExit(parts) == parts \ {"mesh"}
TileGroupsExit(parts) == parts \ {"tile_groups"}

FreeDevice ==
    /\ pc = "exited"
    /\ made' = TileGroupsExit(MeshExit(ProgramExit(ManycoreExit(made))))
    /\ session' = "none"
    /\ pc' = "idle"
    /\ UNCHANGED <<hostUnchanged, it, nodeVars, faults, loaderVars, sym, image>>

(* The process is killed, at any point: the driver detaches its BAR, what it  *)
(* has sent still arrives, the tiles go on. (Bound: only while there may be    *)
(* another process after this one.)                                           *)
Die ==
    /\ pc # "idle" \/ session # "none"
    /\ epoch + faults < MaxEvents
    /\ session' = "none" /\ made' = {}
    /\ private_data' = FALSE /\ handle' = FALSE /\ attached' = 0 /\ mmio' = FALSE
    /\ dram_enabled' = FALSE /\ responders' = Linked /\ ready' = {}
    /\ got' = <<>>
    /\ Return /\ seg' = 1 /\ after' = "idle" /\ sym' = 0
    /\ why' = "init" /\ drains' = 0 /\ occupancy' = 0
    /\ mishaps' = mishaps \cup {"died"}
    /\ UNCHANGED <<rxq, nodeVars, epoch, faults, bin, mesh, image>>

(* Steps of a procedure that was called; receiving waits for a packet. *)
HostStep ==
    \/ ManycoreStep /\ UNCHANGED <<loaderVars, deviceVars>>
    \/ LoaderStep /\ UNCHANGED deviceVars
    \/ MeshInit \/ ProgramFreeze \/ SetOriginRegisters \/ SetConfigSymbol \/ ConfigDone
    \/ SetKernelPointer \/ Unfreeze \/ FreeDevice
Call == DeviceInit \/ ProgramInit \/ RequestRx \/ ProgramCalls \/ DeviceFinish
Delivery(n) == Deliver(n) /\ UNCHANGED <<loaderVars, deviceVars>>
TileStep(t) == Store(t) \/ (Send(t) /\ UNCHANGED <<loaderVars, deviceVars>>)

Next ==
    \/ HostStep
    \/ Call
    \/ Die
    \/ \E n \in Nodes : Delivery(n)
    \/ \E t \in Tiles : TileStep(t)

(* A call that is under way goes on, and what is sent arrives. *)
Fairness == WF_vars(HostStep) /\ WF_vars(\E n \in Nodes : Delivery(n))
Spec == Init /\ [][Next]_vars /\ Fairness

-----------------------------------------------------------------------------
(* Properties.                                                                *)

Pcs == {"idle", "attach", "map", "config", "drain", "drain_packet", "drain_check",
        "responders_init", "enable_dram", "initialized", "rx", "respond", "responders_quit",
        "cleanup", "exited", "fence", "freeze", "load", "tiles_initialize", "validate_vcache",
        "segment", "zeros", "icache", "config_symbols", "unfreeze", "unfreeze_tile"}
Word == [epoch : 1..MaxEvents, kind : Responders, word : 1..PacketWords]

(* Types and bounds; the list of responders names each of them once, a packet *)
(* that is being received is not longer than a packet, and the FIFO holds no  *)
(* more than fits.                                                            *)
TypeOK ==
    /\ pc \in Pcs /\ after \in Pcs
    /\ {private_data, handle, mmio, dram_enabled} \subseteq BOOLEAN
    /\ attached \in Nat
    /\ responders \in Seq(Responders) /\ ready \subseteq Responders
    /\ \A i, j \in DOMAIN responders : responders[i] = responders[j] => i = j
    /\ it \in Nat \ {0}
    /\ why \in {"init", "cleanup", "exit"}
    /\ drains \in 0..DrainRounds /\ occupancy \in 0..RxCapacity
    /\ got \in Seq(Word) /\ Len(got) <= PacketWords
    /\ rxq \in Seq(Word) /\ Len(rxq) <= RxCapacity * PacketWords
    /\ \A n \in Nodes : posted[n] \in Seq([to : {n}, epa : Epas(n), val : Nat])
    /\ DOMAIN mem = Nodes /\ \A n \in Nodes : mem[n] \in [Epas(n) -> Nat]
    /\ runs \in [Tiles -> 0..MaxEvents] /\ epoch \in 0..MaxEvents
    /\ mishaps \subseteq {"died", "torn"} /\ faults \in 0..MaxEvents
    /\ {bin, image} \subseteq Binaries \cup {NoBinary} /\ mesh \in Seq(Tiles) /\ seg \in Nat \ {0}
    /\ session \in {"none", "open", "loaded", "closing", "broken"}
    /\ made \subseteq {"mc", "mesh", "tile_groups", "program"}
    /\ sym \in 0..Len(ConfigSymbols)

(* A reference for loading: what the binary and the device say memory holds   *)
(* when a program starts.                                                     *)
SymbolWords(b) == {symbol_to_eva(b, ConfigSymbols[i]) : i \in DOMAIN ConfigSymbols}
                      \cup {symbol_to_eva(b, "cuda_kernel_ptr")}
HoldsSegment(t, s, b) ==
    \A i \in 0..s.memsz - 1 :
        LET p == Place(t, s.paddr + i) IN
        s.paddr + i \in SymbolWords(b)
            \/ mem[p.node][p.epa] = IF i < Len(s.data) THEN s.data[i + 1] ELSE 0
HoldsSegments(t, b, Which(_)) ==
    \A i \in DOMAIN b.segments :
        b.segments[i].load /\ Which(b.segments[i]) => HoldsSegment(t, b.segments[i], b)
HoldsSymbols(t, b) ==
    /\ \A i \in DOMAIN ConfigSymbols :
          mem[t][symbol_to_eva(b, ConfigSymbols[i])] = ConfigValue(ConfigSymbols[i], t)
    /\ mem[t][symbol_to_eva(b, "cuda_kernel_ptr")] = HB_MC_CUDA_KERNEL_NOT_LOADED_VAL
HoldsIcache(t, b) ==
    \A i \in 0..IcacheWords - 1 :
        i < Len(Text(b)) => mem[t][EPA_ICACHE + i] = Text(b)[i + 1]
OriginSet(t) == mem[t][EPA_ORIGIN_X] = Origin[1] /\ mem[t][EPA_ORIGIN_Y] = Origin[2]

(* The freeze register of t when the first k writes under way have arrived. *)
LastFreeze(writes, k) ==
    CHOOSE i \in 1..k : /\ writes[i].epa = EPA_FREEZE
                        /\ \A j \in i + 1..k : writes[j].epa # EPA_FREEZE
FreezeAfter(t, k) ==
    IF \E i \in 1..k : posted[t][i].epa = EPA_FREEZE
    THEN posted[t][LastFreeze(posted[t], k)].val
    ELSE mem[t][EPA_FREEZE]

(* When a tile starts, everything it may look at is there: its data, zeroes,  *)
(* configuration symbols and a kernel pointer that says none is loaded, the   *)
(* head of the text in its icache, the text in DRAM, its group's origin; it   *)
(* runs without DRAM only with valid cache tags. And before the first tile of *)
(* the first program since all were frozen starts, DRAM holds the program's   *)
(* data too. (hb_mc_device_program_load posts most of this and waits for some *)
(* of it, while other tiles may be running.) A load that failed after it had  *)
(* started a tile may be followed by another one, whose text may be in DRAM   *)
(* before that tile starts; then the other load's freeze is right behind.     *)
StartsWithItsImage ==
    [][\A t \in Tiles : Frozen(t) /\ ~Frozen(t)' =>
         /\ HoldsSegments(t, image, LAMBDA s : ~is_dram(s.paddr))
         /\ HoldsSymbols(t, image)
         /\ HoldsIcache(t, image)
         /\ OriginSet(t)
         /\ mem[t][EPA_DRAM_ENABLE] = 0 => mem[Cache][EPA_TAGS] = 1
         /\ FreezeAfter(t, Len(posted[t])) = 0 =>
              /\ HoldsSegments(t, image, LAMBDA s : s.exec)
              /\ mishaps = {} /\ (\A u \in Tiles : Frozen(u) /\ runs[u] < epoch)
                    => HoldsSegments(t, image, LAMBDA s : TRUE)]_vars

(* The host writes a tile's memory and icache only while the tile is frozen,  *)
(* although nothing waits for freezing to be done: freezes are posted, and a  *)
(* load may follow one that failed halfway, with tiles running.               *)
FrozenWhileWritten ==
    \A t \in Tiles : \A i \in DOMAIN posted[t] :
        posted[t][i].epa \in {EPA_FREEZE, EPA_ORIGIN_X, EPA_ORIGIN_Y, EPA_DRAM_ENABLE}
            \/ FreezeAfter(t, i) = 1

(* Unless a process was killed or a receive failed in the middle of a packet, *)
(* what responders and the program see of the FIFO are whole packets that     *)
(* tiles sent for this session: hb_mc_manycore_init has drained older ones.   *)
OwnPackets ==
    pc = "respond" /\ mishaps = {} =>
        \A i \in 1..PacketWords : got[i] = [epoch |-> epoch, kind |-> got[1].kind, word |-> i]

(* A responder is asked to respond only between its init and its quit: it     *)
(* uses responder_data, which is null otherwise.                              *)
AnswersWhenReady ==
    pc = "respond" /\ it <= Len(responders) /\ Matches(responders[it]) =>
        responders[it] \in ready

(* A process has the BAR attached once at most, and knows of it; when an init *)
(* has failed, wherever, or a finish has succeeded, it is detached.           *)
BarReleased ==
    /\ attached = IF handle THEN 1 ELSE 0
    /\ pc = "idle" /\ session = "none" => ~handle /\ ~mmio

(* Then no tile runs, or will run, unless a process was killed: whatever else *)
(* is under way to a tile when finish lets go of the link, the last thing its *)
(* freeze register hears is that it is frozen.                                *)
TilesStopped ==
    pc = "idle" /\ session = "none" /\ "died" \notin mishaps =>
        \A t \in Tiles : FreezeAfter(t, Len(posted[t])) = 1

(* Every call returns, init and finish although tiles may refill the FIFO     *)
(* faster than it is drained; waiting for a packet may take for ever.         *)
CallsReturn == pc \notin {"idle", "rx"} ~> pc = "idle"

=============================================================================
