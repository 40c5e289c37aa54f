------------------------------- MODULE EvaMap -------------------------------
(***************************************************************************)
(* bsg_manycore_eva.cpp: the default map between a tile's virtual          *)
(* addresses (EVAs) and the addresses of the network (NPAs: a coordinate   *)
(* and a byte address there, the EPA).                                     *)
(*                                                                         *)
(* An EVA, from the top bit down: DRAM bit, global bit, Y and X field,     *)
(* EPA.  The group bit is the top bit of the global Y field.  A DRAM EVA   *)
(* has the EPA's upper bits, a north/south bit, X, and the offset in a     *)
(* stripe.                                                                 *)
(***************************************************************************)
EXTENDS Integers, Sequences

CONSTANTS
  DimX, DimY,            \* vcore_dimensions
  EpaLog,                \* HB_MC_EPA_LOGSZ
  GlobalXLog, GlobalYLog, GroupYLog,   \* widths; the group X field is as wide as the global one
  StripeLog,             \* the log of vcache_stripe_size
  DataAddrBits,          \* hb_mc_config_get_vcache_bitwidth_data_addr
  VcacheLog,             \* the log of hb_mc_config_get_vcache_size
  BankSize,              \* the bytes of DRAM behind one cache
  DramEnabled,           \* mc->dram_enabled
  SupportsDma,           \* memsys.feature_dma
  DmemBase, DmemSize,    \* HB_MC_TILE_EVA_DMEM_BASE = HB_MC_TILE_EPA_DMEM_BASE, 4K
  Csrs,                  \* the three CSRs the map knows
  Host                   \* the host's coordinate

\* 1ULL << k
pow2[k \in Nat] == IF k = 0 THEN 1 ELSE 2 * pow2[k - 1]

BaseX == 0               \* HB_MC_CONFIG_VCORE_BASE_X
BaseY == 2               \* HB_MC_CONFIG_VCORE_BASE_Y
NetY  == DimY + 3        \* an I/O row and two rows of caches
LowY  == 0
HighY == NetY - 1

GlobalBit == EpaLog + GlobalXLog + GlobalYLog
DramBit   == GlobalBit + 1
GroupBit  == EpaLog + GlobalXLog + GroupYLog
EvaSpace  == pow2[DramBit + 1]     \* an EVA wraps around here

XDimLog   == CHOOSE k \in 0 .. DimX : pow2[k] >= DimX /\ \A j \in 0 .. k - 1 : pow2[j] < DimX
AddrBits  == IF DramEnabled THEN DataAddrBits ELSE VcacheLog
CacheEpas == IF DramEnabled THEN BankSize ELSE pow2[VcacheLog]       \* behind one cache
DramEpas  == IF DramEnabled THEN BankSize * DimX ELSE pow2[VcacheLog]

\* How many bits of a cache's EPA a DRAM EVA has room for, below the DRAM bit and above the
\* column and the north/south bit.  The machines of src/machines with DRAM have 29 address bits
\* and room for 28 or 27.
ReachBits == IF AddrBits + XDimLog + 1 <= DramBit THEN AddrBits ELSE DramBit - XDimLog - 1

Tiles == (BaseX .. BaseX + DimX - 1) \X (BaseY .. BaseY + DimY - 1)

ASSUME EvaAssumption ==
  /\ {DimX, DimY, EpaLog, GlobalXLog, StripeLog, BankSize, DmemSize} \subseteq Nat \ {0}
  /\ {GlobalYLog, GroupYLog, DataAddrBits, VcacheLog, DmemBase} \subseteq Nat
  /\ DramEnabled \in BOOLEAN /\ SupportsDma \in BOOLEAN
  /\ GroupYLog + 1 = GlobalYLog
  /\ DimX <= pow2[GlobalXLog] /\ NetY <= pow2[GlobalYLog]
  /\ StripeLog >= 2 /\ AddrBits >= StripeLog /\ StripeLog + XDimLog + 1 <= DramBit
  /\ BankSize <= pow2[DataAddrBits]
  /\ DmemBase % 4 = 0 /\ DmemSize % 4 = 0 /\ DmemBase + DmemSize <= pow2[EpaLog]
  /\ Csrs \subseteq {e \in 0 .. pow2[EpaLog] - 1 : e % 4 = 0} \ (DmemBase .. DmemBase + DmemSize - 1)

(***************************************************************************)
(* From EVA to NPA.  A translation fails or gives the NPA and the number   *)
(* of bytes from there to the end of the segment.                          *)
(***************************************************************************)

Field(eva, lo, width) == (eva \div pow2[lo]) % pow2[width]

Fails == [ok |-> FALSE]
To(x, y, epa, sz) == [ok |-> TRUE, npa |-> [x |-> x, y |-> y, epa |-> epa], sz |-> sz]

\* The subtraction of the base is unsigned.
default_eva_to_epa_tile(eva, x, y) ==
  LET masked == Field(eva, 0, EpaLog)
      offset == (masked - DmemBase) % EvaSpace
  IN  IF offset < DmemSize THEN To(x, y, offset + DmemBase, DmemSize - offset)
      ELSE IF masked \in Csrs THEN To(x, y, masked, 4)
      ELSE Fails

default_eva_to_npa_local(src, eva) == default_eva_to_epa_tile(eva, src[1], src[2])

default_eva_to_npa_group(origin, eva) ==
  LET x == Field(eva, EpaLog, GlobalXLog) + origin[1]
      y == Field(eva, EpaLog + GlobalXLog, GroupYLog) + origin[2]
  IN  IF DimX + BaseX < x \/ DimY + BaseY < y THEN Fails
      ELSE default_eva_to_epa_tile(eva, x, y)

default_eva_to_npa_global(eva) ==
  default_eva_to_epa_tile(eva, Field(eva, EpaLog, GlobalXLog),
                               Field(eva, EpaLog + GlobalXLog, GlobalYLog))

DramX(eva) == Field(eva, StripeLog, XDimLog)

DramY(eva) == IF Field(eva, StripeLog + XDimLog, 1) = 1 THEN HighY ELSE LowY

DramEpa(eva) ==
  LET shift == StripeLog + XDimLog + 1
  IN  Field(eva, 0, StripeLog) + Field(eva, shift, DramBit - shift) * pow2[StripeLog]

\* (variants) the stripe's size, whatever the offset; the bytes before the stripe's last word.
DramSegmentWhole(eva) == pow2[StripeLog]
DramSegmentToLastWord(eva) == pow2[StripeLog] - 4 - Field(eva, 0, StripeLog)

DramSegment(eva) == pow2[StripeLog] - Field(eva, 0, StripeLog)

default_eva_to_npa_dram(eva) ==
  IF DramX(eva) > DimX \/ DramEpa(eva) >= pow2[AddrBits] THEN Fails
  ELSE To(DramX(eva), DramY(eva), DramEpa(eva), DramSegment(eva))

IsDram(eva)   == Field(eva, DramBit, 1) = 1
IsGlobal(eva) == Field(eva, GlobalBit, 1) = 1
IsGroup(eva)  == Field(eva, GroupBit, 1) = 1
IsLocal(eva)  == eva < pow2[EpaLog]

default_eva_to_npa(origin, src, eva) ==
  CASE IsDram(eva) -> default_eva_to_npa_dram(eva)
    [] ~IsDram(eva) /\ IsGlobal(eva) -> default_eva_to_npa_global(eva)
    [] ~IsDram(eva) /\ ~IsGlobal(eva) /\ IsGroup(eva) -> default_eva_to_npa_group(origin, eva)
    [] IsLocal(eva) -> default_eva_to_npa_local(src, eva)
    [] OTHER -> Fails

(***************************************************************************)
(* From NPA to EVA: fields are or-ed together.  They do not overlap for the *)
(* coordinates asked for here, which are in the network, and for EPAs in   *)
(* their field.  The EPA of a cache may be wider than its room: the first  *)
(* bit that is too high is or-ed onto the DRAM bit, which is set anyway,   *)
(* and those above are shifted out of the 32 bits.                         *)
(***************************************************************************)

IsDramRow(npa) == npa.y \in {LowY, HighY}

InDmem(epa) == epa >= DmemBase /\ epa < DmemBase + DmemSize

\* The bits of the EPA above the stripe, at a shift, as far as they lie below the DRAM bit.
EpaTop(npa, shift) == ((npa.epa \div pow2[StripeLog]) * pow2[shift]) % pow2[DramBit]

\* (variant) the layout of the comment at the function, which has no north/south bit.
WithoutNorthSouth(npa) ==
  (npa.epa % pow2[StripeLog]) + npa.x * pow2[StripeLog]
  + EpaTop(npa, StripeLog + XDimLog) + pow2[DramBit]

default_npa_to_eva_dram(npa) ==
    (npa.epa % pow2[StripeLog])
  + npa.x * pow2[StripeLog]
  + (IF npa.y = HighY THEN pow2[StripeLog + XDimLog] ELSE 0)
  + EpaTop(npa, StripeLog + XDimLog + 1)
  + pow2[DramBit]

default_npa_to_eva_global_remote(npa) ==
  npa.epa + npa.x * pow2[EpaLog] + npa.y * pow2[EpaLog + GlobalXLog] + pow2[GlobalBit]

IsHostNpa(npa) == <<npa.x, npa.y>> = Host

IsLocalNpa(tgt, npa) == <<npa.x, npa.y>> = tgt /\ InDmem(npa.epa)

IsGlobalNpa(npa) ==
  /\ npa.x >= BaseX /\ npa.x <= BaseX + DimX
  /\ npa.y >= BaseY /\ npa.y <= BaseY + DimY
  /\ InDmem(npa.epa)

default_npa_to_eva(tgt, npa) ==
  CASE IsDramRow(npa) /\ npa.epa < DramEpas -> [ok |-> TRUE, eva |-> default_npa_to_eva_dram(npa)]
    [] ~(IsDramRow(npa) /\ npa.epa < DramEpas)
       /\ (IsHostNpa(npa) \/ IsLocalNpa(tgt, npa) \/ IsGlobalNpa(npa))
         -> [ok |-> TRUE, eva |-> default_npa_to_eva_global_remote(npa)]
    [] OTHER -> Fails

=============================================================================
