-------------------------- MODULE TileGroups_proofs --------------------------
(***************************************************************************)
(* Theorems about TileGroups, for every mesh, every set of kernels and any *)
(* number of groups and failures.                                          *)
(***************************************************************************)
EXTENDS TileGroups, TLAPS

\* The host launches only a group that it has just placed.
LaunchesPlaced ==
  pc \in {"launch", "args", "pointer"} => cur \in 1 .. num /\ status[cur] = "ALLOCATED"

TypeInv == TypeOK /\ LaunchesPlaced

\* A finish address is a natural number above the base.
LEMMA FinishAddrNat ==
  ASSUME NEW d \in Desc
  PROVE  FinishAddr(d) \in Nat /\ FinishAddr(d) >= 61440
<1>1. d.id.y \in Nat /\ d.id.x \in Nat /\ d.grid_dim.x \in Nat
  BY DEF Desc, Dimension
<1>2. d.id.y * d.grid_dim.x \in Nat
  BY <1>1
<1>3. QED
  BY <1>1, <1>2 DEF FinishAddr

\* The position of the n-th group of a grid.
LEMMA GroupIdNat ==
  ASSUME NEW n \in Nat, NEW m \in Nat \ {0}
  PROVE  n \div m \in Nat /\ n % m \in Nat
OBVIOUS

\* The mesh is not empty and its tiles have natural coordinates.
LEMMA MeshOriginTile == MeshOrigin \in Tiles
BY MeshAssumption DEF Tiles, Dimension

LEMMA InitTypeInv == Init => TypeInv
<1> SUFFICES ASSUME Init PROVE TypeInv
  OBVIOUS
<1>1. NoDesc \in Desc
  BY DEF NoDesc, Desc, Dimension
<1>2. desc \in [Slot -> Desc] /\ grid \in [grid_dim : Dimension, dim : Dimension, next : Nat]
  BY <1>1 DEF Init, Desc, NoDesc
<1>3. QED
  BY <1>2, MeshOriginTile, BoundsAssumption DEF Init, TypeInv, TypeOK, LaunchesPlaced, Slot, Status, Host

\* A step of the enqueue loop writes a description of the right type.
LEMMA EnqueuedDesc ==
  ASSUME TypeOK, pc = "enqueue"
  PROVE  [id |-> [x |-> grid.next \div grid.grid_dim.y, y |-> grid.next % grid.grid_dim.y],
          grid_dim |-> grid.grid_dim, dim |-> grid.dim] \in Desc
<1>1. grid.next \in Nat /\ grid.grid_dim \in Dimension /\ grid.dim \in Dimension
  BY DEF TypeOK
<1>2. grid.grid_dim.y \in Nat \ {0}
  BY <1>1 DEF Dimension
<1>3. grid.next \div grid.grid_dim.y \in Nat /\ grid.next % grid.grid_dim.y \in Nat
  BY <1>1, <1>2, GroupIdNat
<1>4. QED
  BY <1>1, <1>3 DEF Desc

LEMMA NextTypeInv == TypeInv /\ [Next]_vars => TypeInv'
<1> SUFFICES ASSUME TypeInv, [Next]_vars PROVE TypeInv'
  OBVIOUS
<1> USE BoundsAssumption DEF TypeInv, TypeOK, LaunchesPlaced, Slot, Status, Host
<1>1. ASSUME NEW l \in Launches, KernelEnqueue(l) PROVE TypeInv'
  <2>1. grid' \in [grid_dim : Dimension, dim : Dimension, next : Nat]
    BY <1>1, LaunchesAssumption DEF KernelEnqueue
  <2>2. QED
    BY <1>1, <2>1 DEF KernelEnqueue, groups, device, bounds
<1>2. CASE TileGroupEnqueue
  <2>1. desc' \in [Slot -> Desc]
    BY <1>2, EnqueuedDesc DEF TileGroupEnqueue
  <2>2. origin' \in [Slot -> Tiles]
    BY <1>2, MeshOriginTile DEF TileGroupEnqueue
  <2>3. capacity' \in Nat \ {0} /\ num' \in 0 .. MaxGroups /\ num' <= capacity'
    <3>1. num' = num + 1 /\ num' \in Slot
      BY <1>2 DEF TileGroupEnqueue
    <3>2. capacity' = IF num = capacity THEN 2 * capacity ELSE capacity
      BY <1>2 DEF TileGroupEnqueue, Grow
    <3>3. QED
      BY <3>1, <3>2
  <2>4. grid' \in [grid_dim : Dimension, dim : Dimension, next : Nat]
    <3>1. grid' = [grid EXCEPT !.next = grid.next + 1]
      BY <1>2 DEF TileGroupEnqueue
    <3>2. grid.next + 1 \in Nat
      OBVIOUS
    <3>3. grid' = [grid_dim |-> grid.grid_dim, dim |-> grid.dim, next |-> grid.next + 1]
      BY <3>1
    <3>4. QED
      BY <3>2, <3>3
  <2>5. /\ status' \in [Slot -> Status]
        /\ \A g \in Slot : status'[g] = "NONE" <=> g > num'
    <3>1. /\ status' = [status EXCEPT ![num + 1] = "INITIALIZED"]
          /\ num + 1 \in Slot /\ num' = num + 1
      BY <1>2 DEF TileGroupEnqueue
    <3>2. status' \in [Slot -> Status]
      BY <3>1 DEF Status
    <3>3. \A g \in Slot : status'[g] = "NONE" <=> g > num'
      <4> TAKE g \in Slot
      <4>1. CASE g = num + 1
        BY <3>1, <4>1
      <4>2. CASE g # num + 1
        BY <3>1, <4>2
      <4>3. QED
        BY <4>1, <4>2
    <3>4. QED
      BY <3>2, <3>3
  <2>6. QED
    BY <1>2, <2>1, <2>2, <2>3, <2>4, <2>5 DEF TileGroupEnqueue, device, bounds
<1>3. CASE TileGroupEnqueueFails
  BY <1>3 DEF TileGroupEnqueueFails, Grow, Fault, device
<1>4. CASE Execute
  BY <1>4 DEF Execute, groups, device, bounds
<1>5. CASE CheckAllFinished
  BY <1>5, SMTT(20) DEF CheckAllFinished, groups, device, bounds
<1>6. CASE SkipGroup
  BY <1>6 DEF SkipGroup, groups, device, bounds
<1>7. ASSUME NEW o \in Tiles, AllocateTiles(o) PROVE TypeInv'
  BY <1>7 DEF AllocateTiles, Claim, bounds
<1>8. ASSUME NEW o \in Tiles, NEW n \in 0 .. MeshDim.x * MeshDim.y, AllocateTilesFails(o, n)
      PROVE TypeInv'
  BY <1>8 DEF AllocateTilesFails, Claim, Fault
<1>9. CASE LaunchPrepare
  BY <1>9 DEF LaunchPrepare, groups, device, bounds
<1>10. ASSUME NEW t \in Tiles, SetArguments(t) PROVE TypeInv'
  BY <1>10 DEF SetArguments, groups, bounds
<1>11. ASSUME NEW t \in Tiles, SetKernelPointer(t) PROVE TypeInv'
  <2>1. cur \in 1 .. num /\ status[cur] = "ALLOCATED" /\ kptr' \in [Tiles -> BOOLEAN]
    BY <1>11 DEF SetKernelPointer
  <2>2. UNCHANGED <<num, capacity, desc, origin, tiles, conf, args, core, rxq, grid, bounds>>
    BY <1>11 DEF SetKernelPointer
  <2>3. CASE LastTile
    <3>1. /\ status' = [status EXCEPT ![cur] = "LAUNCHED"]
          /\ pc' = "scan" /\ cur' = cur + 1 /\ UNCHANGED tile_id
      BY <1>11, <2>3 DEF SetKernelPointer
    <3>2. QED
      BY <2>1, <2>2, <3>1 DEF bounds
  <2>4. CASE ~LastTile
    <3>1. pc' = "args" /\ tile_id' = tile_id + 1 /\ UNCHANGED <<status, cur>>
      BY <1>11, <2>4 DEF SetKernelPointer
    <3>2. QED
      BY <2>1, <2>2, <3>1 DEF bounds
  <2>5. QED
    BY <2>3, <2>4
<1>12. CASE LaunchFails
  BY <1>12 DEF LaunchFails, Fault, groups, device
<1>13. CASE EndSweep
  BY <1>13 DEF EndSweep, groups, device, bounds
<1>14. ASSUME NEW g \in Slot, ReceiveFinish(g) PROVE TypeInv'
  <2>1. status[g] = "LAUNCHED" /\ g <= num /\ rxq # <<>> /\ pc' = "check" /\ rxq' = Tail(rxq)
    BY <1>14 DEF ReceiveFinish, Matching
  <2>2. tiles' \in [Tiles -> {"FREE", "BUSY"}] /\ status' = [status EXCEPT ![g] = "FINISHED"]
    BY <1>14 DEF ReceiveFinish, DeallocateTiles
  <2>3. UNCHANGED <<num, capacity, desc, origin, device, cur, tile_id, grid, bounds>>
    BY <1>14 DEF ReceiveFinish
  <2>4. rxq' \in Seq([src : Tiles, addr : Nat])
    BY <2>1
  <2>5. QED
    BY <2>1, <2>2, <2>3, <2>4 DEF device, bounds
<1>15. CASE DropPacket
  BY <1>15 DEF DropPacket, groups, device, host, bounds
<1>16. CASE ReceiveFails
  BY <1>16 DEF ReceiveFails, Fault, groups, device
<1>17. ASSUME NEW t \in Tiles, TileStart(t) \/ TileEnd(t) PROVE TypeInv'
  <2>1. core' \in [Tiles -> {"waiting", "running", "barrier"}]
    BY <1>17 DEF TileStart, TileEnd
  <2>2. UNCHANGED <<groups, tiles, conf, args, kptr, rxq, host, bounds>>
    BY <1>17 DEF TileStart, TileEnd
  <2>3. QED
    BY <2>1, <2>2 DEF groups, host, bounds
<1>18. ASSUME NEW t \in Tiles, TilePrint(t) PROVE TypeInv'
  BY <1>18 DEF TilePrint, PrintPacket, groups, device, host
<1>19. ASSUME NEW g \in Slot, GroupFinish(g) PROVE TypeInv'
  <2>1. FinishPacket(g) \in [src : Tiles, addr : Nat]
    BY FinishAddrNat DEF FinishPacket
  <2>2. rxq' \in Seq([src : Tiles, addr : Nat])
    BY <1>19, <2>1 DEF GroupFinish
  <2>3. /\ core' \in [Tiles -> {"waiting", "running", "barrier"}]
        /\ kptr' \in [Tiles -> BOOLEAN]
    BY <1>19 DEF GroupFinish
  <2>4. UNCHANGED <<groups, tiles, conf, args, host, bounds>>
    BY <1>19 DEF GroupFinish
  <2>5. QED
    BY <2>2, <2>3, <2>4 DEF groups, host, bounds
<1>20. CASE UNCHANGED vars
  BY <1>20 DEF vars, groups, device, host, bounds
<1>21. QED
  BY <1>1, <1>2, <1>3, <1>4, <1>5, <1>6, <1>7, <1>8, <1>9, <1>10, <1>11, <1>12, <1>13, <1>14,
     <1>15, <1>16, <1>17, <1>18, <1>19, <1>20
     DEF Next, Program, HostStep, HostFails, TileStep

\* The type invariant of every run, and that a group is launched only after it was placed.
THEOREM TypeCorrect == Spec => []TypeInv
<1>1. QED
  BY InitTypeInv, NextTypeInv, PTL DEF Spec

THEOREM TypesHold == Spec => []TypeOK
<1>1. TypeInv => TypeOK
  BY DEF TypeInv
<1>2. QED
  BY <1>1, TypeCorrect, PTL

-----------------------------------------------------------------------------
(***************************************************************************)
(* Exclusive tiles.  A rectangle is claimed only when all of it is FREE,   *)
(* so it misses every placed group (all BUSY); a finish packet gives back  *)
(* the tiles of one placed group, which the others do not have.            *)
(***************************************************************************)

\* A step that leaves the groups' places alone and frees no tile keeps them exclusive.
LEMMA ExclusiveKept ==
  ASSUME TypeInv, ExclusiveTiles,
         \A g \in Slot : Placed(g)' => Placed(g) /\ TilesOf(g)' = TilesOf(g),
         \A t \in Tiles : tiles[t] = "BUSY" => tiles'[t] = "BUSY"
  PROVE  ExclusiveTiles'
<1>1. \A g \in Slot : \A t \in TilesOf(g) : t \in Tiles
  BY DEF TilesOf, Rect
<1>2. QED
  BY <1>1 DEF ExclusiveTiles

\* The tiles a group claims were held by no placed group.
LEMMA ClaimedWasFree ==
  ASSUME TypeInv, ExclusiveTiles, NEW o \in Tiles, Claim(o), NEW g \in Slot, Placed(g)
  PROVE  TilesOf(g) \cap Rect(o, desc[cur].dim) = {}
<1>1. \A t \in Rect(o, desc[cur].dim) : tiles[t] = "FREE"
  BY DEF Claim, FirstFit, FreeOrigins
<1>2. QED
  BY <1>1 DEF ExclusiveTiles

LEMMA ClaimExclusive ==
  ASSUME TypeInv, ExclusiveTiles, NEW o \in Tiles, Claim(o), UNCHANGED desc,
         \A g \in Slot : g # cur => status'[g] = status[g]
  PROVE  ExclusiveTiles'
<1> USE BoundsAssumption DEF TypeInv, TypeOK
<1> PICK c \in Slot : c = cur
  BY DEF Claim, Slot
<1> DEFINE R == Rect(o, desc[c].dim)
<1>1. status[c] = "INITIALIZED" /\ origin' = [origin EXCEPT ![c] = o]
  BY DEF Claim
<1>2. \A t \in Tiles : tiles'[t] = IF t \in R THEN "BUSY" ELSE tiles[t]
  BY DEF Claim
<1>3. \A g \in Slot : g # c => TilesOf(g)' = TilesOf(g) /\ (Placed(g)' <=> Placed(g))
  BY <1>1 DEF TilesOf, Rect, Placed
<1>4. TilesOf(c)' = R
  BY <1>1 DEF TilesOf, Rect
<1>5. \A g \in Slot : Placed(g) => TilesOf(g) \cap R = {}
  BY ClaimedWasFree
<1>6. \A g \in Slot : TilesOf(g) \subseteq Tiles
  BY DEF TilesOf, Rect
<1> HIDE DEF R
<1>7. ASSUME NEW g \in Slot, Placed(g)', NEW t \in TilesOf(g)' PROVE tiles'[t] = "BUSY"
  <2>1. CASE g = c
    BY <1>2, <1>4, <1>7, <2>1 DEF R, Rect
  <2>2. CASE g # c
    BY <1>2, <1>3, <1>6, <1>7, <2>2 DEF ExclusiveTiles
  <2>3. QED
    BY <2>1, <2>2
<1>8. ASSUME NEW g \in Slot, NEW h \in Slot, g # h, Placed(g)', Placed(h)'
      PROVE  TilesOf(g)' \cap TilesOf(h)' = {}
  <2>1. CASE g = c
    BY <1>3, <1>4, <1>5, <1>8, <2>1
  <2>2. CASE h = c
    BY <1>3, <1>4, <1>5, <1>8, <2>2
  <2>3. CASE g # c /\ h # c
    BY <1>3, <1>8, <2>3 DEF ExclusiveTiles
  <2>4. QED
    BY <2>1, <2>2, <2>3
<1>9. QED
  BY <1>7, <1>8 DEF ExclusiveTiles

\* Giving back the tiles of a placed group leaves the other groups theirs.
LEMMA DeallocateExclusive ==
  ASSUME TypeInv, ExclusiveTiles, NEW g \in Slot, Placed(g), DeallocateTiles(g),
         UNCHANGED <<desc, origin>>
  PROVE  ExclusiveTiles'
<1> USE DEF TypeInv, TypeOK
<1>1. ~Placed(g)'
  BY DEF Placed, DeallocateTiles
<1>2. \A h \in Slot : TilesOf(h)' = TilesOf(h) /\ (h # g => (Placed(h)' <=> Placed(h)))
  BY DEF Placed, DeallocateTiles, TilesOf, Rect
<1>3. \A h \in Slot : TilesOf(h) \subseteq Tiles
  BY DEF TilesOf, Rect
<1>4. \A t \in Tiles : t \notin TilesOf(g) => tiles'[t] = tiles[t]
  BY DEF DeallocateTiles
<1>5. ASSUME NEW h \in Slot, Placed(h)', NEW t \in TilesOf(h)' PROVE tiles'[t] = "BUSY"
  <2>1. h # g /\ Placed(h) /\ t \in TilesOf(h) /\ t \in Tiles
    BY <1>1, <1>2, <1>3, <1>5
  <2>2. t \notin TilesOf(g) /\ tiles[t] = "BUSY"
    BY <2>1 DEF ExclusiveTiles
  <2>3. QED
    BY <1>4, <2>1, <2>2
<1>6. ASSUME NEW h \in Slot, NEW k \in Slot, h # k, Placed(h)', Placed(k)'
      PROVE  TilesOf(h)' \cap TilesOf(k)' = {}
  BY <1>1, <1>2, <1>6 DEF ExclusiveTiles
<1>7. QED
  BY <1>5, <1>6 DEF ExclusiveTiles

LEMMA NextExclusive == TypeInv /\ ExclusiveTiles /\ [Next]_vars => ExclusiveTiles'
<1> SUFFICES ASSUME TypeInv, ExclusiveTiles, [Next]_vars PROVE ExclusiveTiles'
  OBVIOUS
<1> USE BoundsAssumption DEF TypeInv, TypeOK, Slot
<1>1. CASE UNCHANGED <<groups, tiles>>
  BY <1>1 DEF groups, ExclusiveTiles, Placed, TilesOf, Rect
<1>2. CASE TileGroupEnqueue
  <2>1. \A g \in Slot : g = num + 1 => ~Placed(g)'
    BY <1>2 DEF TileGroupEnqueue, Placed
  <2>2. \A g \in Slot : g # num + 1 => TilesOf(g)' = TilesOf(g) /\ (Placed(g)' <=> Placed(g))
    <3>1. \A g \in Slot : g # num + 1 => UNCHANGED <<status[g], desc[g], origin[g]>>
      BY <1>2 DEF TileGroupEnqueue
    <3>2. QED
      BY <3>1 DEF Placed, TilesOf, Rect
  <2>3. UNCHANGED tiles /\ num' = num + 1
    BY <1>2 DEF TileGroupEnqueue
  <2>4. QED
    <3>1. \A g \in Slot : Placed(g)' => Placed(g) /\ TilesOf(g)' = TilesOf(g)
      BY <2>1, <2>2
    <3>2. QED
      BY <2>3, <3>1, ExclusiveKept
<1>3. CASE TileGroupEnqueueFails
  BY <1>3 DEF TileGroupEnqueueFails, ExclusiveTiles, Placed, TilesOf, Rect
<1>4. ASSUME NEW o \in Tiles, AllocateTiles(o) PROVE ExclusiveTiles'
  BY <1>4, ClaimExclusive DEF AllocateTiles
<1>5. ASSUME NEW o \in Tiles, NEW n \in 0 .. MeshDim.x * MeshDim.y, AllocateTilesFails(o, n)
      PROVE ExclusiveTiles'
  <2>1. Claim(o) /\ UNCHANGED <<desc, status>>
    BY <1>5 DEF AllocateTilesFails
  <2>2. QED
    BY <2>1, ClaimExclusive
<1>6. ASSUME NEW t \in Tiles, SetKernelPointer(t) PROVE ExclusiveTiles'
  <2>1. /\ cur \in 1 .. num /\ status[cur] = "ALLOCATED"
        /\ status' = [status EXCEPT ![cur] = "LAUNCHED"] \/ status' = status
        /\ UNCHANGED <<desc, origin, tiles>>
    BY <1>6 DEF SetKernelPointer, LaunchesPlaced
  <2>2. \A g \in Slot : TilesOf(g)' = TilesOf(g) /\ (Placed(g)' <=> Placed(g))
    BY <2>1 DEF Placed, TilesOf, Rect
  <2>3. QED
    BY <2>1, <2>2, ExclusiveKept
<1>7. ASSUME NEW g \in Slot, ReceiveFinish(g) PROVE ExclusiveTiles'
  <2>1. Placed(g) /\ DeallocateTiles(g) /\ UNCHANGED <<desc, origin>>
    BY <1>7 DEF ReceiveFinish, Matching, Placed
  <2>2. QED
    BY <2>1, DeallocateExclusive
<1>8. QED
  BY <1>1, <1>2, <1>3, <1>4, <1>5, <1>6, <1>7
     DEF Next, Program, HostStep, HostFails, TileStep, vars, KernelEnqueue, Execute,
         CheckAllFinished, SkipGroup, LaunchPrepare, EndSweep, DropPacket, SetArguments,
         LaunchFails, ReceiveFails, TileStart, TileEnd, TilePrint, GroupFinish

\* Two placed groups never share a tile, whatever is enqueued and whichever calls fail.
THEOREM TilesAreExclusive == Spec => []ExclusiveTiles
<1>1. Init => ExclusiveTiles
  BY DEF Init, ExclusiveTiles, Placed
<1>2. QED
  BY <1>1, NextExclusive, TypeCorrect, PTL DEF Spec

\* A group holds its own origin tile: its dimensions are positive.
LEMMA OriginIsHeld == ASSUME TypeOK, NEW g \in Slot PROVE origin[g] \in TilesOf(g)
<1>1. origin[g] \in Tiles /\ desc[g].dim \in Dimension
  BY DEF TypeOK, Desc
<1>2. /\ origin[g].x \in Int /\ origin[g].y \in Int
      /\ desc[g].dim.x \in Nat \ {0} /\ desc[g].dim.y \in Nat \ {0}
  BY <1>1, MeshAssumption DEF Tiles, Dimension
<1>3. QED
  BY <1>1, <1>2 DEF TilesOf, Rect

\* No packet matches two launched groups although finish addresses repeat from grid to grid:
\* their origin tiles differ.
THEOREM FinishPacketsDiffer == Spec => []FinishIdentifiesGroup
<1>1. TypeInv /\ ExclusiveTiles => FinishIdentifiesGroup
  <2> SUFFICES ASSUME TypeOK, ExclusiveTiles, NEW g \in Slot, NEW h \in Slot, g # h,
                      status[g] = "LAUNCHED", status[h] = "LAUNCHED"
               PROVE  ~PacketEquals(FinishPacket(g), FinishPacket(h))
    BY DEF FinishIdentifiesGroup, TypeInv
  <2>1. TilesOf(g) \cap TilesOf(h) = {}
    BY DEF ExclusiveTiles, Placed
  <2>2. origin[g] # origin[h]
    BY <2>1, OriginIsHeld
  <2>3. QED
    BY <2>2 DEF PacketEquals, FinishPacket
<1>2. QED
  BY <1>1, TilesAreExclusive, TypeCorrect, PTL

-----------------------------------------------------------------------------
(***************************************************************************)
(* The blocking wait.  While no call has failed, a busy tile is held by a  *)
(* placed group, so a group that fits is passed over only when another one *)
(* is placed; and a sweep starts only if a group is not finished.          *)
(***************************************************************************)

SomePlaced == \E g \in Slot : Placed(g)

WaitInv ==
  faults = 0 =>
    /\ \A t \in Tiles : tiles[t] = "BUSY" => \E g \in Slot : Placed(g) /\ t \in TilesOf(g)
    /\ \A g \in Slot : status[g] = "ALLOCATED" => pc \in {"launch", "args", "pointer"} /\ g = cur
    /\ pc \in {"scan", "launch", "args", "pointer", "wait"} =>
         /\ \E g \in 1 .. num : status[g] # "FINISHED"
         /\ \A g \in 1 .. num :
              (g < cur \/ pc = "wait") /\ status[g] = "INITIALIZED" /\ Fits(desc[g].dim)
                => SomePlaced

\* A group that fits the mesh finds room when no group is placed.
LEMMA RoomWhenNonePlaced ==
  ASSUME TypeInv, WaitInv, faults = 0, NEW g \in Slot, Fits(desc[g].dim),
         FreeOrigins(desc[g].dim) = {}
  PROVE  SomePlaced
<1>1. MeshOrigin \in FreeOrigins(desc[g].dim) \/ \E t \in Tiles : tiles[t] # "FREE"
  <2>1. MeshOrigin.x + desc[g].dim.x <= MeshOrigin.x + MeshDim.x
    <3>1. MeshOrigin.x \in Int /\ MeshDim.x \in Int /\ desc[g].dim \in Dimension
      BY MeshAssumption DEF Dimension, TypeInv, TypeOK, Desc
    <3>2. desc[g].dim.x \in Int /\ desc[g].dim.x <= MeshDim.x
      BY <3>1 DEF Fits, Dimension
    <3>3. QED
      BY <3>1, <3>2
  <2>2. MeshOrigin.y + desc[g].dim.y <= MeshOrigin.y + MeshDim.y
    <3>1. MeshOrigin.y \in Int /\ MeshDim.y \in Int /\ desc[g].dim \in Dimension
      BY MeshAssumption DEF Dimension, TypeInv, TypeOK, Desc
    <3>2. desc[g].dim.y \in Int /\ desc[g].dim.y <= MeshDim.y
      BY <3>1 DEF Fits, Dimension
    <3>3. QED
      BY <3>1, <3>2
  <2>3. QED
    BY <2>1, <2>2, MeshOriginTile DEF FreeOrigins, Rect
<1>2. PICK t \in Tiles : tiles[t] = "BUSY"
  BY <1>1 DEF TypeInv, TypeOK
<1>3. QED
  BY <1>2 DEF WaitInv, SomePlaced

\* Steps that leave the groups and their tiles alone.
LEMMA WaitKept ==
  ASSUME WaitInv, UNCHANGED <<num, status, desc, origin, tiles, faults>>,
         pc' = pc \/ (pc \in {"launch", "args", "pointer"} /\ pc' \in {"launch", "args", "pointer"}),
         cur' = cur
  PROVE  WaitInv'
BY DEF WaitInv, SomePlaced, Placed, TilesOf, Rect, Fits

\* Steps to where nothing is said of groups that wait.
LEMMA WaitLeft ==
  ASSUME WaitInv, UNCHANGED <<status, desc, origin, tiles, faults>>,
         pc \notin {"launch", "args", "pointer"},
         pc' \notin {"scan", "launch", "args", "pointer", "wait"}
  PROVE  WaitInv'
BY DEF WaitInv, Placed, TilesOf, Rect

LEMMA NextWait == TypeInv /\ ExclusiveTiles /\ WaitInv /\ [Next]_vars => WaitInv'
<1> SUFFICES ASSUME TypeInv, ExclusiveTiles, WaitInv, [Next]_vars PROVE WaitInv'
  OBVIOUS
<1> USE BoundsAssumption DEF TypeInv, TypeOK, Slot
<1>1. CASE faults' # 0
  BY <1>1 DEF WaitInv
<1>2. CASE HostFails
  BY <1>1, <1>2 DEF HostFails, TileGroupEnqueueFails, LaunchFails, ReceiveFails, AllocateTilesFails, Fault
<1>3. CASE Program
  BY <1>3, WaitLeft DEF Program, Execute, KernelEnqueue, groups, bounds
<1>4. CASE TileGroupEnqueue
  <2>1. /\ pc = "enqueue" /\ pc' \in {"enqueue", "idle"} /\ UNCHANGED <<tiles, faults>>
        /\ num + 1 \in Slot /\ status[num + 1] = "NONE"
        /\ status' = [status EXCEPT ![num + 1] = "INITIALIZED"]
        /\ \A g \in Slot : g # num + 1 => UNCHANGED <<desc[g], origin[g]>>
    BY <1>4 DEF TileGroupEnqueue, bounds
  <2>2. \A g \in Slot : Placed(g) => Placed(g)' /\ TilesOf(g)' = TilesOf(g)
    BY <2>1 DEF Placed, TilesOf, Rect
  <2>3. QED
    BY <2>1, <2>2 DEF WaitInv
<1>5. CASE CheckAllFinished
  <2>1. CASE AllFinished
    BY <1>5, <2>1, WaitLeft DEF CheckAllFinished, groups, bounds
  <2>2. CASE ~AllFinished
    <3>1. /\ UNCHANGED <<num, status, desc, origin, tiles, faults>>
          /\ pc = "check" /\ pc' = "scan" /\ cur' = 1
      BY <1>5, <2>2 DEF CheckAllFinished, groups, bounds
    <3>2. \E g \in 1 .. num : status[g] # "FINISHED"
      BY <2>2 DEF AllFinished
    <3>3. \A g \in Slot : (Placed(g)' <=> Placed(g)) /\ TilesOf(g)' = TilesOf(g)
      BY <3>1 DEF Placed, TilesOf, Rect
    <3>4. \A g \in 1 .. num : ~(g < cur' \/ pc' = "wait")
      BY <3>1
    <3>5. QED
      BY <3>1, <3>2, <3>3, <3>4 DEF WaitInv
  <2>3. QED
    BY <2>1, <2>2
<1>6. CASE SkipGroup
  <2>1. /\ UNCHANGED <<num, status, desc, origin, tiles, faults, pc>>
        /\ pc = "scan" /\ cur \in 1 .. num /\ cur' = cur + 1
        /\ \/ status[cur] # "INITIALIZED" \/ ~Fits(desc[cur].dim)
           \/ FreeOrigins(desc[cur].dim) = {}
    BY <1>6 DEF SkipGroup, groups, bounds
  <2>2. faults = 0 /\ status[cur] = "INITIALIZED" /\ Fits(desc[cur].dim) => SomePlaced
    BY <2>1, RoomWhenNonePlaced
  <2>3. \A g \in 1 .. num : g < cur' => g < cur \/ g = cur
    BY <2>1
  <2>4. QED
    BY <2>1, <2>2, <2>3 DEF WaitInv, SomePlaced, Placed, TilesOf, Rect, Fits
<1>7. ASSUME NEW o \in Tiles, AllocateTiles(o) PROVE WaitInv'
  <2>1. PICK c \in Slot : c = cur
    BY <1>7 DEF AllocateTiles, Claim
  <2>2. /\ UNCHANGED <<num, desc, faults, cur>> /\ pc = "scan" /\ pc' = "launch"
        /\ status[c] = "INITIALIZED" /\ status' = [status EXCEPT ![c] = "ALLOCATED"]
        /\ origin' = [origin EXCEPT ![c] = o] /\ c \in 1 .. num
        /\ \A t \in Tiles : tiles'[t] = "BUSY" => tiles[t] = "BUSY" \/ t \in Rect(o, desc[c].dim)
    BY <1>7, <2>1 DEF AllocateTiles, Claim, bounds
  <2>3. /\ Placed(c)' /\ TilesOf(c)' = Rect(o, desc[c].dim)
        /\ \A g \in Slot : Placed(g) => Placed(g)' /\ TilesOf(g)' = TilesOf(g)
    BY <2>2 DEF Placed, TilesOf, Rect
  <2>4. SUFFICES ASSUME faults = 0 PROVE WaitInv'
    BY <2>2 DEF WaitInv
  <2>5. \A t \in Tiles : tiles'[t] = "BUSY" => \E g \in Slot : Placed(g)' /\ t \in TilesOf(g)'
    BY <2>2, <2>3, <2>4 DEF WaitInv
  <2>6. \A g \in Slot : status'[g] = "ALLOCATED" => g = c
    <3>1. \A g \in Slot : status[g] # "ALLOCATED"
      BY <2>2, <2>4 DEF WaitInv
    <3>2. QED
      BY <2>2, <3>1
  <2>7. SomePlaced'
    BY <2>3 DEF SomePlaced
  <2>8. status'[c] # "FINISHED" /\ c \in 1 .. num'
    BY <2>2
  <2>9. QED
    BY <2>1, <2>2, <2>5, <2>6, <2>7, <2>8 DEF WaitInv
<1>8. CASE LaunchPrepare \/ \E t \in Tiles : SetArguments(t)
  BY <1>8, WaitKept DEF LaunchPrepare, SetArguments, groups, bounds
<1>9. ASSUME NEW t \in Tiles, SetKernelPointer(t) PROVE WaitInv'
  <2>1. /\ UNCHANGED <<num, desc, origin, tiles, faults>>
        /\ pc = "pointer" /\ cur \in 1 .. num /\ status[cur] = "ALLOCATED"
    BY <1>9 DEF SetKernelPointer, bounds, LaunchesPlaced
  <2>2. CASE ~LastTile
    BY <1>9, <2>1, <2>2, WaitKept DEF SetKernelPointer
  <2>3. CASE LastTile
    <3>1. PICK c \in Slot : c = cur
      BY <2>1
    <3>2. status' = [status EXCEPT ![c] = "LAUNCHED"] /\ pc' = "scan"
      BY <1>9, <2>3, <3>1 DEF SetKernelPointer
    <3>3. \A g \in Slot : (Placed(g) => Placed(g)') /\ TilesOf(g)' = TilesOf(g)
      BY <2>1, <3>2 DEF Placed, TilesOf, Rect
    <3>4. Placed(c)' /\ c \in 1 .. num' /\ status'[c] # "FINISHED"
      BY <2>1, <3>1, <3>2 DEF Placed
    <3>5. faults = 0 => \A g \in Slot : status'[g] # "ALLOCATED"
      BY <2>1, <3>1, <3>2, <1>9 DEF WaitInv, LaunchesPlaced
    <3>6. QED
      BY <2>1, <3>2, <3>3, <3>4, <3>5 DEF WaitInv, SomePlaced
  <2>4. QED
    BY <2>2, <2>3
<1>10. CASE EndSweep
  <2>1. /\ UNCHANGED <<num, status, desc, origin, tiles, faults, cur>>
        /\ pc = "scan" /\ pc' = "wait" /\ \A g \in 1 .. num : g < cur
    BY <1>10 DEF EndSweep, groups, bounds
  <2>2. QED
    BY <2>1 DEF WaitInv, SomePlaced, Placed, TilesOf, Rect, Fits
<1>11. ASSUME NEW g \in Slot, ReceiveFinish(g) PROVE WaitInv'
  <2>1. /\ UNCHANGED <<num, desc, origin, faults>> /\ pc = "wait" /\ pc' = "check"
        /\ status' = [status EXCEPT ![g] = "FINISHED"]
        /\ tiles' = [t \in Tiles |-> IF t \in TilesOf(g) THEN "FREE" ELSE tiles[t]]
    BY <1>11 DEF ReceiveFinish, DeallocateTiles, bounds
  <2>2. \A h \in Slot : TilesOf(h)' = TilesOf(h) /\ (h # g /\ Placed(h) => Placed(h)')
    BY <2>1 DEF Placed, TilesOf, Rect
  <2>3. QED
    BY <2>1, <2>2 DEF WaitInv
<1>12. CASE DropPacket
  BY <1>12, WaitKept DEF DropPacket, groups, host, bounds
<1>13. ASSUME NEW t \in Tiles, TileStep(t) \/ TilePrint(t) PROVE WaitInv'
  BY <1>13, WaitKept DEF TileStep, TileStart, TileEnd, TilePrint, groups, host, bounds
<1>14. ASSUME NEW g \in Slot, GroupFinish(g) PROVE WaitInv'
  BY <1>14, WaitKept DEF GroupFinish, groups, host, bounds
<1>15. CASE UNCHANGED vars
  BY <1>15, WaitKept DEF vars, groups, host, bounds
<1>16. QED
  BY <1>2, <1>3, <1>4, <1>5, <1>6, <1>7, <1>8, <1>9, <1>10, <1>11, <1>12, <1>13, <1>14, <1>15
     DEF Next, HostStep

\* The blocking wait is entered only with a launched group to wait for, unless a call failed or
\* a group is larger than the mesh.
THEOREM WaitHasLaunchedGroup == Spec => []WaitIsForSomeone
<1>1. Init => WaitInv
  BY DEF Init, WaitInv
<1>2. TypeInv /\ WaitInv => WaitIsForSomeone
  <2> SUFFICES ASSUME TypeInv, WaitInv, pc = "wait", faults = 0,
                      \A g \in 1 .. num : Fits(desc[g].dim)
               PROVE  \E g \in Slot : status[g] = "LAUNCHED"
    BY DEF WaitIsForSomeone
  <2>1. PICK g \in 1 .. num : status[g] # "FINISHED"
    BY DEF WaitInv
  <2>2. g \in Slot /\ status[g] \in {"INITIALIZED", "ALLOCATED", "LAUNCHED"}
    BY <2>1, BoundsAssumption DEF TypeInv, TypeOK, Slot, Status
  <2>3. CASE status[g] = "INITIALIZED"
    BY <2>3 DEF WaitInv, SomePlaced, Placed
  <2>4. CASE status[g] # "INITIALIZED"
    BY <2>2, <2>4 DEF WaitInv
  <2>5. QED
    BY <2>3, <2>4
<1>3. QED
  BY <1>1, <1>2, NextWait, TypeCorrect, TilesAreExclusive, PTL DEF Spec

-----------------------------------------------------------------------------
(* That a tile runs only for the group that holds it, that its symbols do  *)
(* not change meanwhile, and that the scheduler implements GridExecution.  *)
(* The invariant follows each tile through a launch, and each finish       *)
(* packet from the barrier to the host.                                    *)


\* A tile on which nothing runs, and nothing will before its kernel pointer is written.
Clear(t) == core[t] = "waiting" /\ ~kptr[t]

\* The place of tile t in the order in which group g's tiles are launched, and the last tile.
Index(g, t) == (t.y - origin[g].y) * desc[g].dim.x + (t.x - origin[g].x)
Area(g) == desc[g].dim.x * desc[g].dim.y
Corner(g) == [x |-> origin[g].x + desc[g].dim.x - 1, y |-> origin[g].y + desc[g].dim.y - 1]

IsPrint(p) == p.addr = 60128

\* A tile that is not clear has the symbols of the placed group that holds it.
HeldTilesRun ==
  \A t \in Tiles : ~Clear(t) =>
    /\ args[t] \in Slot /\ Placed(args[t]) /\ t \in TilesOf(args[t])
    /\ conf[t] = args[t]

\* During a launch the tiles that are still to come are clear.
LaunchesInOrder ==
  pc \in {"launch", "args", "pointer"} =>
    /\ \A t \in TilesOf(cur) :
         /\ conf[t] = cur
         /\ pc = "launch" \/ Index(cur, t) >= tile_id => Clear(t)
         /\ pc = "pointer" /\ Index(cur, t) = tile_id => args[t] = cur
    /\ pc # "launch" => tile_id < Area(cur)

\* A group that is not launched completely never started its last tile.
AllocatedIsIncomplete ==
  \A g \in Slot : status[g] = "ALLOCATED" =>
    Corner(g) \in TilesOf(g) /\ Clear(Corner(g))

\* A finish packet in the FIFO is that of a launched group whose tiles are done, and there is
\* one of each.
SignalsOfIdleGroups ==
  \A i \in DOMAIN rxq : IsPrint(rxq[i]) \/
    \E g \in Slot : /\ status[g] = "LAUNCHED" /\ rxq[i] = FinishPacket(g)
                    /\ \A t \in TilesOf(g) : Clear(t)
SignalsDiffer ==
  \A i, j \in DOMAIN rxq : i # j => rxq[i] # rxq[j] \/ IsPrint(rxq[i])

RunInv ==
  /\ HeldTilesRun /\ LaunchesInOrder /\ AllocatedIsIncomplete
  /\ SignalsOfIdleGroups /\ SignalsDiffer

-----------------------------------------------------------------------------
\* What a group's place is made of does not change while desc and origin do not.
LEMMA PlacesKept ==
  ASSUME NEW g \in Slot, desc'[g] = desc[g], origin'[g] = origin[g]
  PROVE  /\ TilesOf(g)' = TilesOf(g) /\ Corner(g)' = Corner(g) /\ Area(g)' = Area(g)
         /\ FinishPacket(g)' = FinishPacket(g)
         /\ \A t : Index(g, t)' = Index(g, t)
BY DEF TilesOf, Rect, Corner, Area, FinishPacket, FinishAddr, Index

\* Places in the order of launching are distinct.
LEMMA ProductsDiffer ==
  ASSUME NEW d \in Nat, NEW y \in Nat, NEW z \in Nat, y < z
  PROVE  y * d + d <= z * d
<1>1. PICK k \in Nat : z = y + 1 + k
  BY z - y - 1 \in Nat
<1>2. z * d = y * d + d + k * d
  BY <1>1
<1>3. k * d \in Nat /\ y * d \in Nat
  OBVIOUS
<1>4. QED
  BY <1>2, <1>3

LEMMA IndexInjective ==
  ASSUME TypeOK, NEW g \in Slot, NEW t \in TilesOf(g), NEW u \in TilesOf(g),
         Index(g, t) = Index(g, u)
  PROVE  t = u
<1> DEFINE d == desc[g].dim.x
<1> DEFINE tx == t.x - origin[g].x
<1> DEFINE ty == t.y - origin[g].y
<1> DEFINE ux == u.x - origin[g].x
<1> DEFINE uy == u.y - origin[g].y
<1>1. /\ origin[g] \in Tiles /\ desc[g].dim \in Dimension /\ t \in Tiles /\ u \in Tiles
  BY DEF TypeOK, Desc, TilesOf, Rect
<1>2. /\ d \in Nat /\ tx \in 0 .. d - 1 /\ ux \in 0 .. d - 1
      /\ ty \in Nat /\ uy \in Nat
  BY <1>1, MeshAssumption DEF Tiles, Dimension, TilesOf, Rect
<1>3. ty * d + tx = uy * d + ux
  BY DEF Index
<1> HIDE DEF d, tx, ty, ux, uy
<1>4. ty * d \in Nat /\ uy * d \in Nat
  BY <1>2
<1>5. ~(ty < uy) /\ ~(uy < ty)
  BY <1>2, <1>3, <1>4, ProductsDiffer
<1>6. ty = uy /\ tx = ux
  BY <1>2, <1>3, <1>4, <1>5
<1>7. t.x = u.x /\ t.y = u.y
  BY <1>1, <1>6, MeshAssumption DEF tx, ty, ux, uy, Tiles, Dimension
<1>8. QED
  BY <1>1, <1>7 DEF Tiles

\* The last tile of a group within the mesh is its last one in the order of launching.
LEMMA CornerIsLast ==
  ASSUME TypeOK, NEW g \in Slot
  PROVE  Index(g, Corner(g)) = Area(g) - 1 /\ Area(g) \in Nat \ {0}
<1>1. /\ origin[g] \in Tiles /\ desc[g].dim \in Dimension
  BY DEF TypeOK, Desc
<1>2. /\ desc[g].dim.x \in Nat \ {0} /\ desc[g].dim.y \in Nat \ {0}
      /\ origin[g].x \in Int /\ origin[g].y \in Int
  BY <1>1, MeshAssumption DEF Tiles, Dimension
<1>3. /\ Corner(g).x - origin[g].x = desc[g].dim.x - 1
      /\ Corner(g).y - origin[g].y = desc[g].dim.y - 1
  BY <1>2 DEF Corner
<1>4. ASSUME NEW a \in Nat \ {0}, NEW b \in Nat \ {0}
      PROVE  (b - 1) * a + (a - 1) = a * b - 1 /\ a * b \in Nat \ {0}
  BY <1>4
<1>5. QED
  BY <1>2, <1>3, <1>4 DEF Index, Area

(***************************************************************************)
(* A tile runs only for the group that holds it.                           *)
(***************************************************************************)

\* The tiles that a step leaves running keep their symbols and their group.
LEMMA HeldKept ==
  ASSUME HeldTilesRun,
         \A t \in Tiles : ~Clear(t)' =>
            /\ ~Clear(t) /\ args'[t] = args[t] /\ conf'[t] = conf[t]
            /\ args[t] \in Slot /\ Placed(args[t]) /\ t \in TilesOf(args[t]) =>
                 Placed(args[t])' /\ t \in TilesOf(args[t])'
  PROVE  HeldTilesRun'
BY DEF HeldTilesRun

\* What is free is clear.
LEMMA FreeIsClear ==
  ASSUME TypeInv, ExclusiveTiles, HeldTilesRun, NEW t \in Tiles, tiles[t] = "FREE"
  PROVE  Clear(t)
BY DEF ExclusiveTiles, HeldTilesRun

\* The packet that ends the wait for a group was sent by that group.
LEMMA ReceivedIsIdle ==
  ASSUME TypeInv, ExclusiveTiles, SignalsOfIdleGroups, NEW g \in Slot, ReceiveFinish(g)
  PROVE  /\ status[g] = "LAUNCHED" /\ rxq[1] = FinishPacket(g)
         /\ \A t \in TilesOf(g) : Clear(t)
<1>1. /\ rxq # <<>> /\ status[g] = "LAUNCHED" /\ PacketEquals(rxq[1], FinishPacket(g))
      /\ rxq \in Seq([src : Tiles, addr : Nat])
  BY DEF ReceiveFinish, Matching, TypeInv, TypeOK
<1>2. 1 \in DOMAIN rxq /\ ~IsPrint(rxq[1])
  <2>1. FinishPacket(g).addr >= 61440
    BY FinishAddrNat DEF FinishPacket, TypeInv, TypeOK
  <2>2. QED
    BY <1>1, <2>1 DEF PacketEquals, IsPrint
<1>3. PICK h \in Slot : /\ status[h] = "LAUNCHED" /\ rxq[1] = FinishPacket(h)
                        /\ \A t \in TilesOf(h) : Clear(t)
  BY <1>2 DEF SignalsOfIdleGroups
<1>4. origin[g] = origin[h]
  BY <1>1, <1>3 DEF PacketEquals, FinishPacket
<1>5. g = h
  BY <1>1, <1>3, <1>4, OriginIsHeld DEF ExclusiveTiles, Placed, TypeInv
<1>6. QED
  BY <1>3, <1>5

LEMMA NextHeld ==
  ASSUME TypeInv, ExclusiveTiles, RunInv, [Next]_vars
  PROVE  HeldTilesRun'
<1> USE BoundsAssumption DEF TypeInv, TypeOK, RunInv
<1>1. CASE UNCHANGED <<status, desc, origin, conf, args, kptr, core>>
  BY <1>1 DEF HeldTilesRun, Clear, Placed, TilesOf, Rect
<1>2. CASE TileGroupEnqueue
  <2>1. \A g \in Slot : Placed(g) => g # num + 1
    BY <1>2 DEF TileGroupEnqueue, Placed, Slot
  <2>2. \A g \in Slot : g # num + 1 => UNCHANGED <<status[g], desc[g], origin[g]>>
    BY <1>2 DEF TileGroupEnqueue
  <2>3. \A g \in Slot : Placed(g) => Placed(g)' /\ TilesOf(g)' = TilesOf(g)
    BY <2>1, <2>2, PlacesKept DEF Placed
  <2>4. UNCHANGED <<conf, args, kptr, core>>
    BY <1>2 DEF TileGroupEnqueue, device
  <2>5. QED
    BY <2>3, <2>4, HeldKept DEF Clear
<1>3. ASSUME NEW o \in Tiles, Claim(o), UNCHANGED <<desc, args, kptr, core>>,
             status'[cur] # "FINISHED", \A g \in Slot : g # cur => status'[g] = status[g],
             \A t \in Tiles : t \notin Rect(o, desc[cur].dim) => conf'[t] = conf[t]
      PROVE HeldTilesRun'
  <2>1. \A t \in Rect(o, desc[cur].dim) : t \in Tiles /\ tiles[t] = "FREE"
    BY <1>3 DEF Claim, FirstFit, FreeOrigins, Rect
  <2>2. \A t \in Tiles : ~Clear(t)' => ~Clear(t) /\ conf'[t] = conf[t] /\ args'[t] = args[t]
    BY <1>3, <2>1, FreeIsClear DEF Clear
  <2>3. \A g \in Slot : Placed(g) => g # cur
    BY <1>3 DEF Claim, Placed
  <2>4. \A g \in Slot : Placed(g) => Placed(g)' /\ TilesOf(g)' = TilesOf(g)
    BY <1>3, <2>3, PlacesKept DEF Claim, Placed
  <2>5. QED
    BY <2>2, <2>4, HeldKept
<1>4. ASSUME NEW t \in Tiles, SetArguments(t) PROVE HeldTilesRun'
  <2>1. Clear(t)
    BY <1>4 DEF SetArguments, LaunchTile, LaunchesInOrder, Index
  <2>2. UNCHANGED <<status, desc, origin, conf, kptr, core>> /\ args' = [args EXCEPT ![t] = cur]
    BY <1>4 DEF SetArguments, groups
  <2>3. QED
    BY <2>1, <2>2, HeldKept DEF Clear, Placed, TilesOf, Rect
<1>5. ASSUME NEW t \in Tiles, SetKernelPointer(t) PROVE HeldTilesRun'
  <2>1. /\ cur \in Slot /\ Placed(cur) /\ t \in TilesOf(cur) /\ args[t] = cur /\ conf[t] = cur
    BY <1>5 DEF SetKernelPointer, LaunchTile, LaunchesInOrder, LaunchesPlaced, Index, Placed, Slot
  <2>2. /\ status' = [status EXCEPT ![cur] = "LAUNCHED"] \/ status' = status
        /\ UNCHANGED <<desc, origin, conf, args, core>> /\ kptr' = [kptr EXCEPT ![t] = TRUE]
    BY <1>5 DEF SetKernelPointer
  <2>3. \A g \in Slot : Placed(g) => Placed(g)' /\ TilesOf(g)' = TilesOf(g)
    BY <2>1, <2>2 DEF Placed, TilesOf, Rect
  <2>4. \A u \in Tiles : u # t /\ ~Clear(u)' => ~Clear(u)
    BY <2>2 DEF Clear
  <2>5. QED
    BY <2>1, <2>2, <2>3, <2>4 DEF HeldTilesRun
<1>6. ASSUME NEW g \in Slot, ReceiveFinish(g) PROVE HeldTilesRun'
  <2>1. \A t \in TilesOf(g) : Clear(t)
    BY <1>6, ReceivedIsIdle
  <2>2. /\ status' = [status EXCEPT ![g] = "FINISHED"]
        /\ UNCHANGED <<desc, origin, conf, args, kptr, core>>
    BY <1>6 DEF ReceiveFinish, DeallocateTiles, device
  <2>3. \A h \in Slot : h # g => (Placed(h) => Placed(h)') /\ TilesOf(h)' = TilesOf(h)
    BY <2>2 DEF Placed, TilesOf, Rect
  <2>4. QED
    BY <2>1, <2>2, <2>3, HeldKept DEF Clear
<1>7. ASSUME NEW t \in Tiles, TileStep(t) PROVE HeldTilesRun'
  <2>1. /\ UNCHANGED <<status, desc, origin, conf, args, kptr>>
        /\ \A u \in Tiles : ~Clear(u)' => ~Clear(u)
    BY <1>7 DEF TileStep, TileStart, TileEnd, groups, Clear
  <2>2. QED
    BY <2>1, HeldKept DEF Placed, TilesOf, Rect
<1>8. ASSUME NEW g \in Slot, GroupFinish(g) PROVE HeldTilesRun'
  <2>1. /\ UNCHANGED <<status, desc, origin, conf, args>>
        /\ \A u \in Tiles : ~Clear(u)' => ~Clear(u)
    BY <1>8 DEF GroupFinish, groups, Clear
  <2>2. QED
    BY <2>1, HeldKept DEF Placed, TilesOf, Rect
<1>9. ASSUME NEW o \in Tiles, AllocateTiles(o) PROVE HeldTilesRun'
  BY <1>9, <1>3 DEF AllocateTiles, Claim
<1>10. ASSUME NEW o \in Tiles, NEW n \in 0 .. MeshDim.x * MeshDim.y, AllocateTilesFails(o, n)
       PROVE HeldTilesRun'
  BY <1>10, <1>3 DEF AllocateTilesFails, Claim
<1>11. QED
  BY <1>1, <1>2, <1>4, <1>5, <1>6, <1>7, <1>8, <1>9, <1>10
     DEF Next, Program, HostStep, HostFails, vars, KernelEnqueue, Execute, TileGroupEnqueueFails,
         CheckAllFinished, SkipGroup, LaunchPrepare, EndSweep, DropPacket, LaunchFails,
         ReceiveFails, TilePrint, groups, device

(***************************************************************************)
(* Launching, tile by tile.                                                *)
(***************************************************************************)

\* A launch that goes on at the same tile, while other actors do what they do.
LEMMA LaunchKept ==
  ASSUME LaunchesInOrder, UNCHANGED <<desc, origin, pc, cur, tile_id>>,
         \A t \in Tiles : /\ conf'[t] = conf[t] /\ args'[t] = args[t]
                          /\ Clear(t) => Clear(t)'
  PROVE  LaunchesInOrder'
BY DEF LaunchesInOrder, TilesOf, Rect, Index, Area

\* The rectangle that is claimed lies within the mesh, and all of it is clear.
LEMMA ClaimedIsClear ==
  ASSUME TypeInv, ExclusiveTiles, HeldTilesRun, NEW o \in Tiles, Claim(o), UNCHANGED desc,
         NEW c \in Slot, c = cur
  PROVE  /\ TilesOf(c)' = Rect(o, desc[c].dim)
         /\ \A t \in TilesOf(c)' : t \in Tiles /\ Clear(t)
         /\ Corner(c)' \in TilesOf(c)'
<1> USE DEF TypeInv, TypeOK
<1>1. origin' = [origin EXCEPT ![c] = o] /\ desc[c] \in Desc /\ origin \in [Slot -> Tiles]
  BY DEF Claim
<1>2. TilesOf(c)' = Rect(o, desc[c].dim)
  BY <1>1 DEF TilesOf, Rect
<1>3. \A t \in Rect(o, desc[c].dim) : t \in Tiles /\ tiles[t] = "FREE"
  BY DEF Claim, FirstFit, FreeOrigins, Rect
<1>4. /\ o.x + desc[c].dim.x <= MeshOrigin.x + MeshDim.x
      /\ o.y + desc[c].dim.y <= MeshOrigin.y + MeshDim.y
  BY DEF Claim, FirstFit, FreeOrigins
<1>5. desc[c].dim.x \in Nat \ {0} /\ desc[c].dim.y \in Nat \ {0}
  BY <1>1 DEF Desc, Dimension
<1>6. /\ MeshOrigin.x \in Nat /\ MeshDim.x \in Nat /\ MeshOrigin.y \in Nat /\ MeshDim.y \in Nat
      /\ o.x \in Int /\ o.x >= MeshOrigin.x /\ o.y \in Int /\ o.y >= MeshOrigin.y
  BY MeshAssumption DEF Dimension, Tiles
<1>7. Corner(c)' \in Rect(o, desc[c].dim)
  <2>1. Corner(c)' = [x |-> o.x + desc[c].dim.x - 1, y |-> o.y + desc[c].dim.y - 1]
    BY <1>1 DEF Corner
  <2>2. Corner(c)' \in Tiles
    BY ONLY <1>4, <1>5, <1>6, <2>1 DEF Tiles
  <2>3. QED
    BY ONLY <1>5, <1>6, <2>1, <2>2 DEF Rect
<1>8. QED
  BY <1>2, <1>3, <1>7, FreeIsClear

\* A position in the order of launching is an integer.
LEMMA IndexInt == ASSUME TypeOK, NEW g \in Slot, NEW u \in Tiles PROVE Index(g, u) \in Int
<1>1. origin[g] \in Tiles /\ desc[g].dim \in Dimension
  BY DEF TypeOK, Desc
<1>2. u.x \in Int /\ u.y \in Int /\ origin[g].x \in Int /\ origin[g].y \in Int
  BY <1>1, MeshAssumption DEF Tiles, Dimension
<1>3. desc[g].dim.x \in Int
  BY <1>1 DEF Dimension
<1>4. QED
  BY <1>2, <1>3 DEF Index

LEMMA NextLaunches ==
  ASSUME TypeInv, ExclusiveTiles, RunInv, [Next]_vars
  PROVE  LaunchesInOrder'
<1> USE BoundsAssumption DEF TypeInv, TypeOK, RunInv
<1>1. CASE pc' \notin {"launch", "args", "pointer"}
  BY <1>1 DEF LaunchesInOrder
<1>2. ASSUME NEW o \in Tiles, AllocateTiles(o) PROVE LaunchesInOrder'
  <2>1. /\ Claim(o) /\ UNCHANGED <<desc, cur, kptr, core>> /\ pc' = "launch"
        /\ conf' = [t \in Tiles |-> IF t \in Rect(o, desc[cur].dim) THEN cur ELSE conf[t]]
    BY <1>2 DEF AllocateTiles
  <2>2. PICK c \in Slot : c = cur
    BY <2>1 DEF Claim, Slot
  <2>3. TilesOf(c)' = Rect(o, desc[c].dim) /\ \A t \in TilesOf(c)' : t \in Tiles /\ Clear(t)
    BY <2>1, <2>2, ClaimedIsClear
  <2>4. QED
    BY <2>1, <2>2, <2>3 DEF LaunchesInOrder, Clear
<1>3. CASE LaunchPrepare
  <2>1. /\ UNCHANGED <<desc, origin, conf, kptr, core, cur>>
        /\ pc = "launch" /\ pc' = "args" /\ tile_id' = 0 /\ cur \in Slot
    BY <1>3 DEF LaunchPrepare, groups, device, LaunchesPlaced, Slot
  <2>2. TilesOf(cur)' = TilesOf(cur) /\ Area(cur)' = Area(cur) /\ Area(cur) \in Nat \ {0}
    BY <2>1, PlacesKept, CornerIsLast
  <2>3. QED
    BY <2>1, <2>2 DEF LaunchesInOrder, Clear
<1>4. ASSUME NEW t \in Tiles, SetArguments(t) PROVE LaunchesInOrder'
  <2>1. /\ UNCHANGED <<desc, origin, conf, kptr, core, cur, tile_id>>
        /\ args' = [args EXCEPT ![t] = cur]
        /\ pc = "args" /\ pc' = "pointer" /\ cur \in Slot
        /\ t \in TilesOf(cur) /\ Index(cur, t) = tile_id
    BY <1>4 DEF SetArguments, groups, LaunchTile, Index, LaunchesPlaced, Slot
  <2>2. /\ TilesOf(cur)' = TilesOf(cur) /\ Area(cur)' = Area(cur)
        /\ \A u : Index(cur, u)' = Index(cur, u)
    BY <2>1, PlacesKept
  <2>3. \A u \in TilesOf(cur) : Index(cur, u) = tile_id => u = t
    BY <2>1, IndexInjective
  <2>4. \A u \in TilesOf(cur) : u \in Tiles
    BY DEF TilesOf, Rect
  <2>5. QED
    BY <2>1, <2>2, <2>3, <2>4 DEF LaunchesInOrder, Clear
<1>5. ASSUME NEW t \in Tiles, SetKernelPointer(t), ~LastTile PROVE LaunchesInOrder'
  <2>1. /\ UNCHANGED <<desc, origin, conf, args, core, cur>>
        /\ kptr' = [kptr EXCEPT ![t] = TRUE]
        /\ pc = "pointer" /\ pc' = "args" /\ tile_id' = tile_id + 1 /\ cur \in Slot
        /\ Index(cur, t) = tile_id
    BY <1>5 DEF SetKernelPointer, LaunchTile, Index, LaunchesPlaced, Slot
  <2>2. /\ TilesOf(cur)' = TilesOf(cur) /\ Area(cur)' = Area(cur)
        /\ \A u : Index(cur, u)' = Index(cur, u)
    BY <2>1, PlacesKept
  <2>3. Area(cur) \in Nat /\ tile_id + 1 < Area(cur)
    <3>1. tile_id < Area(cur) /\ tile_id + 1 # Area(cur) /\ Area(cur) \in Nat
      BY <1>5, <2>1, CornerIsLast DEF LaunchesInOrder, LastTile, Area
    <3>2. QED
      BY <3>1
  <2>4. ASSUME NEW u \in TilesOf(cur), Index(cur, u) >= tile_id + 1 PROVE Clear(u) /\ u # t
    <3>1. u \in Tiles /\ Index(cur, u) \in Int
      BY <2>1, IndexInt DEF TilesOf, Rect
    <3>2. Index(cur, u) >= tile_id /\ Index(cur, u) # tile_id
      BY <2>4, <3>1
    <3>3. QED
      BY <2>1, <3>2 DEF LaunchesInOrder
  <2>5. \A u \in TilesOf(cur) : u \in Tiles
    BY DEF TilesOf, Rect
  <2>6. QED
    BY <2>1, <2>2, <2>3, <2>4, <2>5 DEF LaunchesInOrder, Clear
<1>6. ASSUME NEW t \in Tiles, SetKernelPointer(t), LastTile PROVE LaunchesInOrder'
  BY <1>6, <1>1 DEF SetKernelPointer
<1>7. ASSUME NEW t \in Tiles, TileStep(t) PROVE LaunchesInOrder'
  BY <1>7, LaunchKept DEF TileStep, TileStart, TileEnd, groups, host, Clear
<1>8. ASSUME NEW t \in Tiles, TilePrint(t) PROVE LaunchesInOrder'
  BY <1>8, LaunchKept DEF TilePrint, groups, device, host, Clear
<1>9. ASSUME NEW g \in Slot, GroupFinish(g) PROVE LaunchesInOrder'
  BY <1>9, LaunchKept DEF GroupFinish, groups, host, Clear
<1>10. CASE UNCHANGED vars
  BY <1>10, LaunchKept DEF vars, groups, device, host, Clear
<1>11. QED
  BY <1>1, <1>2, <1>3, <1>4, <1>5, <1>6, <1>7, <1>8, <1>9, <1>10
     DEF Next, Program, HostStep, HostFails, KernelEnqueue, Execute, TileGroupEnqueue,
         TileGroupEnqueueFails, CheckAllFinished, SkipGroup, EndSweep, DropPacket, LaunchFails,
         AllocateTilesFails, Claim, ReceiveFinish, ReceiveFails, host

\* A step that neither places a group nor starts a tile.
LEMMA IncompleteKept ==
  ASSUME AllocatedIsIncomplete,
         \A g \in Slot : status'[g] = "ALLOCATED" =>
            /\ status[g] = "ALLOCATED" /\ TilesOf(g)' = TilesOf(g) /\ Corner(g)' = Corner(g)
            /\ Clear(Corner(g)) => Clear(Corner(g))'
  PROVE  AllocatedIsIncomplete'
BY DEF AllocatedIsIncomplete

LEMMA NextIncomplete ==
  ASSUME TypeInv, ExclusiveTiles, RunInv, [Next]_vars
  PROVE  AllocatedIsIncomplete'
<1> USE BoundsAssumption DEF TypeInv, TypeOK, RunInv
<1> DEFINE SameCorners == \A g \in Slot : Corner(g)' = Corner(g) /\ TilesOf(g)' = TilesOf(g)
<1>0. UNCHANGED <<desc, origin>> => SameCorners
  BY PlacesKept
<1>1. CASE UNCHANGED <<status, desc, origin, kptr, core>>
  BY <1>0, <1>1 DEF AllocatedIsIncomplete, Clear
<1>2. CASE TileGroupEnqueue
  <2>1. /\ \A g \in Slot : status'[g] = "ALLOCATED" => g # num + 1
        /\ \A g \in Slot : g # num + 1 => UNCHANGED <<status[g], desc[g], origin[g]>>
        /\ UNCHANGED <<kptr, core>>
    BY <1>2 DEF TileGroupEnqueue, device
  <2>2. QED
    BY <2>1, PlacesKept, IncompleteKept DEF Clear
<1>3. ASSUME NEW o \in Tiles, AllocateTiles(o) PROVE AllocatedIsIncomplete'
  <2>1. /\ Claim(o) /\ UNCHANGED <<desc, kptr, core>>
        /\ status' = [status EXCEPT ![cur] = "ALLOCATED"]
        /\ \A g \in Slot : g # cur => origin'[g] = origin[g]
    BY <1>3 DEF AllocateTiles, Claim
  <2>2. PICK c \in Slot : c = cur
    BY <2>1 DEF Claim, Slot
  <2>3. Corner(c)' \in TilesOf(c)' /\ \A t \in TilesOf(c)' : Clear(t)
    BY <2>1, <2>2, ClaimedIsClear
  <2>4. \A g \in Slot : g # cur => Corner(g)' = Corner(g) /\ TilesOf(g)' = TilesOf(g)
    BY <2>1, PlacesKept
  <2>5. QED
    BY <2>1, <2>2, <2>3, <2>4 DEF AllocatedIsIncomplete, Clear
<1>4. ASSUME NEW o \in Tiles, NEW n \in 0 .. MeshDim.x * MeshDim.y, AllocateTilesFails(o, n)
      PROVE AllocatedIsIncomplete'
  <2>1. /\ status[cur] = "INITIALIZED" /\ UNCHANGED <<status, desc, kptr, core>>
        /\ \A g \in Slot : g # cur => origin'[g] = origin[g]
    BY <1>4 DEF AllocateTilesFails, Claim
  <2>2. QED
    BY <2>1, PlacesKept, IncompleteKept DEF Clear
<1>5. ASSUME NEW t \in Tiles, SetKernelPointer(t) PROVE AllocatedIsIncomplete'
  <2>1. /\ UNCHANGED <<desc, origin, core>> /\ kptr' = [kptr EXCEPT ![t] = TRUE]
        /\ cur \in Slot /\ Placed(cur) /\ t \in TilesOf(cur) /\ Index(cur, t) = tile_id
    BY <1>5 DEF SetKernelPointer, LaunchTile, Index, LaunchesPlaced, Placed, Slot
  <2>2. \A g \in Slot : status[g] = "ALLOCATED" /\ g # cur => Corner(g) # t
    BY <2>1 DEF AllocatedIsIncomplete, ExclusiveTiles, Placed
  <2>3. CASE LastTile
    BY <1>0, <1>5, <2>1, <2>2, <2>3, IncompleteKept DEF SetKernelPointer, Clear
  <2>4. CASE ~LastTile
    <3>1. UNCHANGED status /\ tile_id + 1 # Area(cur)
      BY <1>5, <2>4 DEF SetKernelPointer, LastTile, Area
    <3>2. Corner(cur) # t
      <4>1. Index(cur, Corner(cur)) = Area(cur) - 1 /\ Area(cur) \in Nat
        BY <2>1, CornerIsLast
      <4>2. QED
        BY <2>1, <3>1, <4>1
    <3>3. QED
      BY <1>0, <2>1, <2>2, <3>1, <3>2, IncompleteKept DEF Clear
  <2>5. QED
    BY <2>3, <2>4
<1>6. ASSUME NEW g \in Slot, ReceiveFinish(g) PROVE AllocatedIsIncomplete'
  BY <1>0, <1>6, IncompleteKept DEF ReceiveFinish, DeallocateTiles, device, Clear
<1>7. ASSUME NEW t \in Tiles, TileStep(t) PROVE AllocatedIsIncomplete'
  <2>1. /\ UNCHANGED <<status, desc, origin>>
        /\ \A u \in Tiles : Clear(u) => Clear(u)'
    BY <1>7 DEF TileStep, TileStart, TileEnd, groups, Clear
  <2>2. \A h \in Slot : status[h] = "ALLOCATED" => Corner(h) \in Tiles
    BY DEF AllocatedIsIncomplete, TilesOf, Rect
  <2>3. QED
    BY <1>0, <2>1, <2>2, IncompleteKept
<1>8. ASSUME NEW g \in Slot, GroupFinish(g) PROVE AllocatedIsIncomplete'
  <2>1. /\ UNCHANGED <<status, desc, origin>>
        /\ \A u \in Tiles : Clear(u) => Clear(u)'
    BY <1>8 DEF GroupFinish, groups, Clear
  <2>2. \A h \in Slot : status[h] = "ALLOCATED" => Corner(h) \in Tiles
    BY DEF AllocatedIsIncomplete, TilesOf, Rect
  <2>3. QED
    BY <1>0, <2>1, <2>2, IncompleteKept
<1>9. QED
  BY <1>1, <1>2, <1>3, <1>4, <1>5, <1>6, <1>7, <1>8
     DEF Next, Program, HostStep, HostFails, vars, KernelEnqueue, Execute, TileGroupEnqueueFails,
         CheckAllFinished, SkipGroup, LaunchPrepare, SetArguments, EndSweep, DropPacket,
         LaunchFails, ReceiveFails, TilePrint, groups, device

(***************************************************************************)
(* Finish packets on their way to the host.                                *)
(***************************************************************************)

\* Finish packets of two placed groups differ: their origin tiles do.
LEMMA SignalNamesGroup ==
  ASSUME TypeInv, ExclusiveTiles, NEW g \in Slot, NEW h \in Slot, Placed(g), Placed(h),
         FinishPacket(g).src = FinishPacket(h).src
  PROVE  g = h
BY OriginIsHeld DEF FinishPacket, ExclusiveTiles, TypeInv

\* A finish packet is not a print packet.
LEMMA SignalIsNoPrint == ASSUME TypeInv, NEW g \in Slot PROVE ~IsPrint(FinishPacket(g))
<1>1. FinishPacket(g).addr >= 61440
  BY FinishAddrNat DEF FinishPacket, TypeInv, TypeOK
<1>2. QED
  BY <1>1, FinishAddrNat DEF IsPrint, FinishPacket, TypeInv, TypeOK

\* A step that sends and receives nothing, and starts no tile of a launched group.
LEMMA SignalsKept ==
  ASSUME SignalsOfIdleGroups, UNCHANGED rxq,
         \A g \in Slot : status[g] = "LAUNCHED" =>
            /\ status'[g] = "LAUNCHED" /\ desc'[g] = desc[g] /\ origin'[g] = origin[g]
            /\ \A t \in TilesOf(g) : Clear(t) => Clear(t)'
  PROVE  SignalsOfIdleGroups'
BY PlacesKept DEF SignalsOfIdleGroups, IsPrint

\* What is under way is one shorter after a packet has been received.
LEMMA TailSignals ==
  ASSUME TypeOK, rxq # <<>>, rxq' = Tail(rxq)
  PROVE  /\ \A i \in DOMAIN rxq' : i + 1 \in DOMAIN rxq /\ rxq'[i] = rxq[i + 1]
         /\ \A i \in DOMAIN rxq : i # 1 => i - 1 \in DOMAIN rxq' /\ rxq[i] = rxq'[i - 1]
         /\ 1 \in DOMAIN rxq /\ \A i \in DOMAIN rxq \cup DOMAIN rxq' : i \in Nat \ {0}
<1>1. rxq \in Seq([src : Tiles, addr : Nat]) /\ Len(rxq) \in Nat \ {0}
  BY DEF TypeOK
<1>2. /\ rxq' \in Seq([src : Tiles, addr : Nat]) /\ Len(rxq') = Len(rxq) - 1
      /\ \A i \in 1 .. Len(rxq) - 1 : rxq'[i] = rxq[i + 1]
  BY <1>1
<1>3. DOMAIN rxq = 1 .. Len(rxq) /\ DOMAIN rxq' = 1 .. Len(rxq) - 1
  BY <1>1, <1>2
<1>4. QED
  BY <1>1, <1>2, <1>3

\* The packets under way when p is sent.
LEMMA AppendSignals ==
  ASSUME TypeOK, NEW p, rxq' = Append(rxq, p)
  PROVE  /\ DOMAIN rxq' = DOMAIN rxq \cup {Len(rxq) + 1} /\ Len(rxq) + 1 \notin DOMAIN rxq
         /\ rxq'[Len(rxq) + 1] = p /\ \A i \in DOMAIN rxq : rxq'[i] = rxq[i]
<1>1. rxq \in Seq([src : Tiles, addr : Nat]) /\ Len(rxq) \in Nat
  BY DEF TypeOK
<1>2. QED
  BY <1>1

\* A group that signals is launched completely, and nobody has its packet.
LEMMA FinishIsNew ==
  ASSUME TypeInv, ExclusiveTiles, RunInv, NEW g \in Slot, GroupFinish(g)
  PROVE  /\ status[g] = "LAUNCHED"
         /\ \A i \in DOMAIN rxq : rxq[i] # FinishPacket(g)
<1> USE DEF TypeInv, RunInv
<1>1. /\ status[g] \in {"ALLOCATED", "LAUNCHED"} /\ Placed(g)
      /\ \A t \in TilesOf(g) : core[t] = "barrier"
  BY DEF GroupFinish, Placed
<1>2. status[g] # "ALLOCATED"
  BY <1>1 DEF AllocatedIsIncomplete, Clear
<1>3. ASSUME NEW i \in DOMAIN rxq, rxq[i] = FinishPacket(g) PROVE FALSE
  <2>1. PICK h \in Slot : /\ status[h] = "LAUNCHED" /\ rxq[i] = FinishPacket(h)
                          /\ \A t \in TilesOf(h) : Clear(t)
    BY <1>3, SignalIsNoPrint DEF SignalsOfIdleGroups
  <2>2. h = g
    BY <1>1, <1>3, <2>1, SignalNamesGroup DEF Placed
  <2>3. QED
    BY <1>1, <2>1, <2>2, OriginIsHeld DEF Clear
<1>4. QED
  BY <1>1, <1>2, <1>3

LEMMA NextSignals ==
  ASSUME TypeInv, ExclusiveTiles, RunInv, [Next]_vars
  PROVE  SignalsOfIdleGroups' /\ SignalsDiffer'
<1> USE DEF TypeInv, RunInv
<1>0. UNCHANGED rxq => SignalsDiffer'
  BY DEF SignalsDiffer, IsPrint
<1>1. CASE UNCHANGED <<status, desc, origin, kptr, core, rxq>>
  BY <1>0, <1>1, SignalsKept DEF Clear
<1>2. CASE TileGroupEnqueue
  <2>1. /\ \A g \in Slot : status[g] = "LAUNCHED" => g # num + 1
        /\ \A g \in Slot : g # num + 1 => UNCHANGED <<status[g], desc[g], origin[g]>>
        /\ UNCHANGED <<kptr, core, rxq>>
    BY <1>2, BoundsAssumption DEF TileGroupEnqueue, device, TypeOK, Slot
  <2>2. QED
    BY <1>0, <2>1, SignalsKept DEF Clear
<1>3. ASSUME NEW o \in Tiles, Claim(o), UNCHANGED <<desc, kptr, core, rxq>>,
             \A g \in Slot : g # cur => status'[g] = status[g]
      PROVE SignalsOfIdleGroups' /\ SignalsDiffer'
  <2>1. /\ status[cur] = "INITIALIZED" /\ \A g \in Slot : g # cur => origin'[g] = origin[g]
    BY <1>3 DEF Claim
  <2>2. QED
    BY <1>0, <1>3, <2>1, SignalsKept DEF Clear
<1>4. ASSUME NEW t \in Tiles, SetKernelPointer(t) PROVE SignalsOfIdleGroups' /\ SignalsDiffer'
  <2>1. /\ UNCHANGED <<desc, origin, core, rxq>> /\ kptr' = [kptr EXCEPT ![t] = TRUE]
        /\ cur \in Slot /\ status[cur] = "ALLOCATED" /\ t \in TilesOf(cur)
        /\ status' = [status EXCEPT ![cur] = "LAUNCHED"] \/ status' = status
    BY <1>4, BoundsAssumption DEF SetKernelPointer, LaunchTile, LaunchesPlaced, TypeOK, Slot
  <2>2. \A g \in Slot : status[g] = "LAUNCHED" => t \notin TilesOf(g)
    BY <2>1 DEF ExclusiveTiles, Placed
  <2>3. \A g \in Slot : status[g] = "LAUNCHED" => \A u \in TilesOf(g) : Clear(u) => Clear(u)'
    BY <2>1, <2>2 DEF Clear
  <2>4. \A g \in Slot : status[g] = "LAUNCHED" =>
            status'[g] = "LAUNCHED" /\ desc'[g] = desc[g] /\ origin'[g] = origin[g]
    BY <2>1 DEF TypeOK
  <2>5. QED
    BY <1>0, <2>1, <2>3, <2>4, SignalsKept
<1>5. ASSUME NEW t \in Tiles, TileStep(t) PROVE SignalsOfIdleGroups' /\ SignalsDiffer'
  <2>1. /\ UNCHANGED <<status, desc, origin, kptr, rxq>> /\ ~Clear(t)
        /\ \A u \in Tiles : u # t => core'[u] = core[u]
    <3>1. CASE TileStart(t)
      BY <3>1 DEF TileStart, groups, Clear
    <3>2. CASE TileEnd(t)
      BY <3>2 DEF TileEnd, groups, Clear
    <3>3. QED
      BY <1>5, <3>1, <3>2 DEF TileStep
  <2>2. \A u \in Tiles : Clear(u) => Clear(u)'
    BY <2>1 DEF Clear
  <2>3. QED
    BY <1>0, <2>1, <2>2, SignalsKept DEF TilesOf, Rect
<1>6. ASSUME NEW t \in Tiles, TilePrint(t) PROVE SignalsOfIdleGroups' /\ SignalsDiffer'
  <2>1. /\ UNCHANGED <<status, desc, origin, kptr, core>> /\ rxq' = Append(rxq, PrintPacket(t))
        /\ IsPrint(PrintPacket(t))
    BY <1>6 DEF TilePrint, groups, device, PrintPacket, IsPrint
  <2>2. \A g \in Slot : TilesOf(g)' = TilesOf(g) /\ FinishPacket(g)' = FinishPacket(g)
    BY <2>1, PlacesKept
  <2>3. QED
    BY <2>1, <2>2, AppendSignals DEF SignalsOfIdleGroups, SignalsDiffer, IsPrint, Clear
<1>7. ASSUME NEW g \in Slot, GroupFinish(g) PROVE SignalsOfIdleGroups' /\ SignalsDiffer'
  <2>1. /\ UNCHANGED <<status, desc, origin>> /\ rxq' = Append(rxq, FinishPacket(g))
        /\ \A u \in Tiles : Clear(u) => Clear(u)'
        /\ \A u \in TilesOf(g) : Clear(u)'
    BY <1>7 DEF GroupFinish, groups, Clear, TilesOf, Rect
  <2>2. \A h \in Slot : TilesOf(h)' = TilesOf(h) /\ FinishPacket(h)' = FinishPacket(h)
    BY <2>1, PlacesKept
  <2>3. status[g] = "LAUNCHED" /\ \A i \in DOMAIN rxq : rxq[i] # FinishPacket(g)
    BY <1>7, FinishIsNew
  <2>4. \A h \in Slot : TilesOf(h) \subseteq Tiles
    BY DEF TilesOf, Rect
  <2>5. SignalsOfIdleGroups'
    BY <2>1, <2>2, <2>3, <2>4, AppendSignals DEF SignalsOfIdleGroups, IsPrint
  <2>6. SignalsDiffer'
    BY <2>1, <2>3, AppendSignals DEF SignalsDiffer, IsPrint
  <2>7. QED
    BY <2>5, <2>6
<1>8. CASE DropPacket
  <2>1. UNCHANGED <<status, desc, origin, kptr, core>> /\ rxq # <<>> /\ rxq' = Tail(rxq)
    BY <1>8 DEF DropPacket, groups, device
  <2>2. \A g \in Slot : TilesOf(g)' = TilesOf(g) /\ FinishPacket(g)' = FinishPacket(g)
    BY <2>1, PlacesKept
  <2>3. SignalsOfIdleGroups'
    BY <2>1, <2>2, TailSignals DEF SignalsOfIdleGroups, IsPrint, Clear
  <2>4. SignalsDiffer'
    BY <2>1, TailSignals DEF SignalsDiffer, IsPrint
  <2>5. QED
    BY <2>3, <2>4
<1>9. ASSUME NEW g \in Slot, ReceiveFinish(g) PROVE SignalsOfIdleGroups' /\ SignalsDiffer'
  <2>1. /\ UNCHANGED <<desc, origin, kptr, core>> /\ rxq # <<>> /\ rxq' = Tail(rxq)
        /\ status' = [status EXCEPT ![g] = "FINISHED"]
    BY <1>9 DEF ReceiveFinish, DeallocateTiles, device
  <2>2. \A h \in Slot : TilesOf(h)' = TilesOf(h) /\ FinishPacket(h)' = FinishPacket(h)
    BY <2>1, PlacesKept
  <2>3. rxq[1] = FinishPacket(g) /\ ~IsPrint(rxq[1])
    BY <1>9, ReceivedIsIdle, SignalIsNoPrint
  <2>4. ASSUME NEW i \in DOMAIN rxq', ~IsPrint(rxq'[i]) PROVE rxq'[i] # FinishPacket(g)
    BY <2>1, <2>3, <2>4, TailSignals DEF SignalsDiffer
  <2>5. SignalsOfIdleGroups'
    <3> SUFFICES ASSUME NEW i \in DOMAIN rxq', ~IsPrint(rxq'[i])
                 PROVE  \E h \in Slot : /\ status'[h] = "LAUNCHED" /\ rxq'[i] = FinishPacket(h)'
                                        /\ \A t \in TilesOf(h)' : Clear(t)'
      BY DEF SignalsOfIdleGroups, IsPrint
    <3>1. i + 1 \in DOMAIN rxq /\ rxq'[i] = rxq[i + 1]
      BY <2>1, TailSignals
    <3>2. PICK h \in Slot : /\ status[h] = "LAUNCHED" /\ rxq'[i] = FinishPacket(h)
                            /\ \A t \in TilesOf(h) : Clear(t)
      BY <3>1 DEF SignalsOfIdleGroups, IsPrint
    <3>3. h # g
      BY <2>4, <3>2
    <3>4. status'[h] = "LAUNCHED" /\ \A t \in TilesOf(h) : Clear(t)'
      BY <2>1, <3>2, <3>3 DEF Clear
    <3>5. QED
      BY <2>2, <3>2, <3>4
  <2>6. SignalsDiffer'
    BY <2>1, TailSignals DEF SignalsDiffer, IsPrint
  <2>7. QED
    BY <2>5, <2>6
<1>10. ASSUME NEW o \in Tiles, AllocateTiles(o) PROVE SignalsOfIdleGroups' /\ SignalsDiffer'
  BY <1>10, <1>3 DEF AllocateTiles
<1>11. ASSUME NEW o \in Tiles, NEW n \in 0 .. MeshDim.x * MeshDim.y, AllocateTilesFails(o, n)
       PROVE SignalsOfIdleGroups' /\ SignalsDiffer'
  BY <1>11, <1>3 DEF AllocateTilesFails
<1>12. QED
  BY <1>1, <1>2, <1>4, <1>5, <1>6, <1>7, <1>8, <1>9, <1>10, <1>11
     DEF Next, Program, HostStep, HostFails, vars, KernelEnqueue, Execute, TileGroupEnqueueFails,
         CheckAllFinished, SkipGroup, LaunchPrepare, SetArguments, EndSweep, LaunchFails,
         ReceiveFails, groups, device

-----------------------------------------------------------------------------
(***************************************************************************)
(* The theorems.                                                           *)
(***************************************************************************)

\* The invariant of runs: symbols, launches and finish packets fit together.
THEOREM RunsInOrder == Spec => []RunInv
<1>1. Init => RunInv
  BY DEF Init, RunInv, HeldTilesRun, LaunchesInOrder, AllocatedIsIncomplete,
         SignalsOfIdleGroups, SignalsDiffer, Clear
<1>2. TypeInv /\ ExclusiveTiles /\ RunInv /\ [Next]_vars => RunInv'
  BY NextHeld, NextLaunches, NextIncomplete, NextSignals DEF RunInv
<1>3. QED
  BY <1>1, <1>2, TypeCorrect, TilesAreExclusive, PTL DEF Spec

\* A tile runs a kernel only for the group that holds it, whichever calls fail and however
\* launches and tiles interleave.
THEOREM TilesRunForTheirGroup == Spec => []RunsForItsGroup
<1>1. RunInv => RunsForItsGroup
  BY DEF RunInv, HeldTilesRun, RunsForItsGroup, Clear
<1>2. QED
  BY <1>1, RunsInOrder, PTL

\* While a kernel runs on a tile, no step changes the symbols it was started with.
THEOREM SymbolsDoNotChange == Spec => SymbolsStable
<1> DEFINE Stable == \A t \in Tiles : core[t] # "waiting" => args'[t] = args[t] /\ conf'[t] = conf[t]
<1>1. TypeInv /\ ExclusiveTiles /\ RunInv /\ [Next]_vars => Stable
  <2> SUFFICES ASSUME TypeInv, ExclusiveTiles, RunInv, [Next]_vars PROVE Stable
    OBVIOUS
  <2> USE DEF TypeInv, TypeOK, RunInv
  <2>1. ASSUME NEW o \in Tiles, Claim(o), UNCHANGED args,
               \A t \in Tiles : t \notin Rect(o, desc[cur].dim) => conf'[t] = conf[t]
        PROVE  Stable
    <3>1. \A t \in Rect(o, desc[cur].dim) : t \in Tiles /\ tiles[t] = "FREE"
      BY <2>1 DEF Claim, FirstFit, FreeOrigins, Rect
    <3>2. QED
      BY <2>1, <3>1, FreeIsClear DEF Clear
  <2>2. ASSUME NEW t \in Tiles, SetArguments(t) PROVE Stable
    <3>1. Clear(t)
      BY <2>2 DEF SetArguments, LaunchTile, LaunchesInOrder, Index
    <3>2. QED
      BY <2>2, <3>1 DEF SetArguments, Clear
  <2>3. ASSUME NEW o \in Tiles, AllocateTiles(o) PROVE Stable
    BY <2>1, <2>3 DEF AllocateTiles
  <2>4. ASSUME NEW o \in Tiles, NEW n \in 0 .. MeshDim.x * MeshDim.y, AllocateTilesFails(o, n)
        PROVE  Stable
    BY <2>1, <2>4 DEF AllocateTilesFails
  <2>5. CASE UNCHANGED <<conf, args>>
    BY <2>5
  <2>6. QED
    BY <2>2, <2>3, <2>4, <2>5
       DEF Next, Program, HostStep, HostFails, vars, KernelEnqueue, Execute, TileGroupEnqueue,
           TileGroupEnqueueFails, CheckAllFinished, SkipGroup, LaunchPrepare, SetKernelPointer,
           EndSweep, DropPacket, LaunchFails, ReceiveFinish, ReceiveFails, TileStep, TileStart,
           TileEnd, TilePrint, GroupFinish, device
<1>2. TypeInv /\ ExclusiveTiles /\ RunInv /\ [Next]_vars => [Stable]_vars
  BY <1>1
<1>3. QED
  BY <1>2, RunsInOrder, TypeCorrect, TilesAreExclusive, PTL DEF Spec, SymbolsStable

-----------------------------------------------------------------------------
(***************************************************************************)
(* Every step of the scheduler is a step of GridExecution, or none.        *)
(***************************************************************************)

\* A group's place in the abstract state.
Region(g) == IF Placed(g) THEN TilesOf(g) ELSE {}
Worked(g) == {t \in Tiles : args[t] = g /\ core[t] = "barrier"}
SameGroup(g) == Phase(g)' = Phase(g) /\ Region(g)' = Region(g) /\ Worked(g)' = Worked(g)

\* Steps that change no group's place, or that of one group only.
LEMMA NoStep ==
  ASSUME \A g \in Slot : SameGroup(g)
  PROVE  UNCHANGED Abstract!vars
BY DEF SameGroup, Region, Worked, Abstract!vars

LEMMA OneGroupStep ==
  ASSUME NEW g \in Slot, \A h \in Slot \ {g} : SameGroup(h)
  PROVE  LET phases  == [h \in Slot |-> Phase(h)]
             regions == [h \in Slot |-> IF Placed(h) THEN TilesOf(h) ELSE {}]
             works   == [h \in Slot |-> {t \in Tiles : args[t] = h /\ core[t] = "barrier"}]
         IN  /\ phases'  = [phases  EXCEPT ![g] = Phase(g)']
             /\ regions' = [regions EXCEPT ![g] = Region(g)']
             /\ works'   = [works   EXCEPT ![g] = Worked(g)']
             /\ Region(g)' = Region(g) => UNCHANGED regions
             /\ Worked(g)' = Worked(g) => UNCHANGED works
             /\ Phase(g)' = Phase(g) => UNCHANGED phases
BY DEF SameGroup, Region, Worked

\* A placed group is complete when its packet is in the FIFO; then its tiles are clear.
LEMMA SignalledIsIdle ==
  ASSUME TypeInv, ExclusiveTiles, RunInv, NEW g \in Slot, Placed(g), Signalled(g)
  PROVE  status[g] = "LAUNCHED" /\ \A t \in TilesOf(g) : Clear(t)
<1>1. PICK i \in DOMAIN rxq : rxq[i] = FinishPacket(g)
  BY DEF Signalled
<1>2. PICK h \in Slot : /\ status[h] = "LAUNCHED" /\ rxq[i] = FinishPacket(h)
                        /\ \A t \in TilesOf(h) : Clear(t)
  BY <1>1, SignalIsNoPrint DEF RunInv, SignalsOfIdleGroups
<1>3. h = g
  BY <1>1, <1>2, SignalNamesGroup DEF Placed
<1>4. QED
  BY <1>2, <1>3

LEMMA InitRefines == Init => Abstract!Init
<1> SUFFICES ASSUME Init PROVE Abstract!Init
  OBVIOUS
<1>1. \A g \in Slot : /\ Phase(g) = "absent" /\ ~Placed(g)
                      /\ {t \in Tiles : args[t] = g /\ core[t] = "barrier"} = {}
  BY DEF Init, Phase, Placed
<1>2. QED
  BY <1>1 DEF Abstract!Init

\* What a group's phase and place are made of.
LEMMA SamePlace ==
  ASSUME NEW g \in Slot, Phase(g) = Phase(g)', UNCHANGED <<args, core>>,
         Placed(g)' <=> Placed(g), Placed(g) => TilesOf(g)' = TilesOf(g)
  PROVE  SameGroup(g)
BY DEF SameGroup, Region, Worked

LEMMA SamePhase ==
  ASSUME NEW g \in Slot, UNCHANGED rxq,
         status'[g] = status[g] \/ (status[g] = "ALLOCATED" /\ status'[g] = "LAUNCHED"),
         Placed(g) => FinishPacket(g)' = FinishPacket(g),
         status[g] \in Status
  PROVE  Phase(g)' = Phase(g) /\ (Placed(g)' <=> Placed(g))
<1>1. CASE Placed(g)
  BY <1>1 DEF Phase, Signalled, Placed
<1>2. CASE ~Placed(g)
  BY <1>2 DEF Phase, Placed, Status
<1>3. QED
  BY <1>1, <1>2

LEMMA EnqueueRefines ==
  ASSUME TypeInv, TileGroupEnqueue
  PROVE  \E g \in Slot : Abstract!Submit(g)
<1> USE DEF TypeInv, TypeOK
<1> PICK g \in Slot : g = num + 1
  BY DEF TileGroupEnqueue
<1>1. /\ status[g] = "NONE" /\ status' = [status EXCEPT ![g] = "INITIALIZED"]
      /\ UNCHANGED <<args, core, rxq>>
      /\ \A h \in Slot : h # g => UNCHANGED <<status[h], desc[h], origin[h]>>
  BY BoundsAssumption DEF TileGroupEnqueue, device, Slot
<1>2. \A h \in Slot \ {g} : SameGroup(h)
  BY <1>1, PlacesKept, SamePhase, SamePlace
<1>3. /\ Phase(g) = "absent" /\ Phase(g)' = "pending"
      /\ Region(g)' = Region(g) /\ Worked(g)' = Worked(g)
  BY <1>1 DEF Phase, Region, Worked, Placed
<1>4. QED
  BY <1>1, <1>2, <1>3, OneGroupStep DEF Abstract!Submit

\* No packet under way is that of a group about to be placed.
LEMMA ClaimedHasNoSignal ==
  ASSUME TypeInv, ExclusiveTiles, RunInv, NEW o \in Tiles, Claim(o), UNCHANGED <<desc, rxq>>,
         NEW c \in Slot, c = cur
  PROVE  ~Signalled(c)'
<1> USE DEF TypeInv, RunInv
<1>1. SUFFICES ASSUME NEW i \in DOMAIN rxq, rxq[i] = FinishPacket(c)' PROVE FALSE
  BY DEF Signalled
<1>2. /\ origin' = [origin EXCEPT ![c] = o] /\ FinishPacket(c)'.src = o
      /\ FinishPacket(c)'.addr = FinishPacket(c).addr
      /\ o \in TilesOf(c)' /\ \A t \in TilesOf(c)' : tiles[t] = "FREE"
  <2>1. origin' = [origin EXCEPT ![c] = o] /\ origin \in [Slot -> Tiles]
    BY DEF Claim, TypeOK
  <2>2. FinishPacket(c)'.src = o /\ FinishPacket(c)'.addr = FinishPacket(c).addr
    BY <2>1 DEF FinishPacket, FinishAddr
  <2>3. desc[c].dim.x \in Nat \ {0} /\ desc[c].dim.y \in Nat \ {0}
    BY DEF TypeOK, Desc, Dimension
  <2>4. o.x \in Int /\ o.y \in Int
    BY MeshAssumption DEF Tiles, Dimension
  <2>5. o \in Rect(o, desc[c].dim)
    BY <2>3, <2>4 DEF Rect
  <2>6. TilesOf(c)' = Rect(o, desc[c].dim)
    BY <2>1 DEF TilesOf, Rect
  <2>7. QED
    BY <2>1, <2>2, <2>5, <2>6 DEF Claim, FirstFit, FreeOrigins
<1>3. ~IsPrint(rxq[i])
  BY <1>1, <1>2, SignalIsNoPrint DEF IsPrint
<1>4. PICK h \in Slot : status[h] = "LAUNCHED" /\ rxq[i] = FinishPacket(h)
  BY <1>3 DEF SignalsOfIdleGroups
<1>5. origin[h] = o
  BY <1>1, <1>2, <1>4 DEF FinishPacket
<1>6. tiles[o] = "BUSY"
  BY <1>4, <1>5, OriginIsHeld DEF ExclusiveTiles, Placed
<1>7. QED
  BY <1>2, <1>6

LEMMA AllocateRefines ==
  ASSUME TypeInv, ExclusiveTiles, RunInv, NEW o \in Tiles, AllocateTiles(o)
  PROVE  \E g \in Slot : \E R \in SUBSET Tiles : Abstract!Start(g, R)
<1> USE DEF TypeInv, TypeOK
<1>1. PICK c \in Slot : c = cur
  BY BoundsAssumption DEF AllocateTiles, Claim, Slot
<1>2. /\ Claim(o) /\ UNCHANGED <<desc, args, core, rxq>>
      /\ status[c] = "INITIALIZED" /\ status' = [status EXCEPT ![c] = "ALLOCATED"]
      /\ \A h \in Slot : h # c => UNCHANGED <<status[h], desc[h], origin[h]>>
  BY <1>1 DEF AllocateTiles, Claim
<1>3. \A h \in Slot \ {c} : SameGroup(h)
  BY <1>2, PlacesKept, SamePhase, SamePlace
<1>4. /\ Phase(c) = "pending" /\ Phase(c)' = "running" /\ Worked(c)' = Worked(c)
      /\ Region(c)' = TilesOf(c)'
  BY <1>1, <1>2, ClaimedHasNoSignal DEF Phase, Region, Worked, Placed
<1>5. /\ TilesOf(c)' = Rect(o, desc[c].dim) /\ TilesOf(c)' \in SUBSET Tiles /\ TilesOf(c)' # {}
  BY <1>1, <1>2, ClaimedIsClear DEF RunInv
<1>6. \A h \in Slot : TilesOf(c)' \cap Region(h) = {}
  <2> TAKE h \in Slot
  <2>1. CASE Placed(h)
    <3>1. TilesOf(h) \cap Rect(o, desc[cur].dim) = {}
      BY <1>2, <2>1, ClaimedWasFree
    <3>2. QED
      BY <1>1, <1>5, <2>1, <3>1 DEF Region
  <2>2. CASE ~Placed(h)
    BY <2>2 DEF Region
  <2>3. QED
    BY <2>1, <2>2
<1> DEFINE R == Rect(o, desc[c].dim)
<1>7. /\ R \in SUBSET Tiles /\ R # {} /\ Region(c)' = R
      /\ \A h \in Slot : R \cap Region(h) = {}
  BY <1>4, <1>5, <1>6
<1> HIDE DEF R
<1>8. Abstract!Start(c, R)
  BY <1>3, <1>4, <1>7, OneGroupStep DEF Abstract!Start, Region
<1>9. QED
  BY <1>7, <1>8

LEMMA WorkRefines ==
  ASSUME TypeInv, ExclusiveTiles, RunInv, NEW t \in Tiles, TileEnd(t)
  PROVE  \E g \in Slot : \E u \in Tiles : Abstract!Work(g, u)
<1> USE DEF TypeInv, TypeOK, RunInv
<1>1. core[t] = "running" /\ ~Clear(t)
  BY DEF TileEnd, Clear
<1>2. PICK g \in Slot : g = args[t] /\ Placed(g) /\ t \in TilesOf(g)
  BY <1>1 DEF HeldTilesRun
<1>3. /\ UNCHANGED <<status, desc, origin, args, rxq>>
      /\ core' = [core EXCEPT ![t] = "barrier"]
  BY DEF TileEnd, groups
<1>4. \A h \in Slot : Phase(h)' = Phase(h) /\ Region(h)' = Region(h)
  BY <1>3, PlacesKept DEF Phase, Signalled, Region, Placed
<1>5. \A h \in Slot \ {g} : SameGroup(h)
  BY <1>2, <1>3, <1>4 DEF SameGroup, Worked
<1>6. Phase(g) = "running"
  BY <1>1, <1>2, SignalledIsIdle DEF Phase, Placed
<1>7. t \in Region(g) \ Worked(g) /\ Worked(g)' = Worked(g) \cup {t}
  BY <1>1, <1>2, <1>3 DEF Region, Worked
<1>8. QED
  BY <1>4, <1>5, <1>6, <1>7, OneGroupStep DEF Abstract!Work, Region, Worked

LEMMA CompleteRefines ==
  ASSUME TypeInv, ExclusiveTiles, RunInv, NEW g \in Slot, GroupFinish(g)
  PROVE  Abstract!Complete(g)
<1> USE DEF TypeInv, RunInv
<1>1. /\ status[g] = "LAUNCHED" /\ Placed(g) /\ \A i \in DOMAIN rxq : rxq[i] # FinishPacket(g)
      /\ UNCHANGED <<status, desc, origin, args>> /\ rxq' = Append(rxq, FinishPacket(g))
      /\ \A t \in TilesOf(g) : core[t] = "barrier" /\ args[t] = g
      /\ core' = [t \in Tiles |-> IF t \in TilesOf(g) THEN "waiting" ELSE core[t]]
  BY FinishIsNew DEF GroupFinish, groups, Placed
<1>2. \A h \in Slot : FinishPacket(h)' = FinishPacket(h) /\ TilesOf(h)' = TilesOf(h)
  BY <1>1, PlacesKept
<1>3. \A h \in Slot \ {g} : Placed(h) => FinishPacket(h) # FinishPacket(g)
  BY <1>1, SignalNamesGroup
<1>4. \A h \in Slot \ {g} : Placed(h) => (Signalled(h)' <=> Signalled(h))
  BY <1>1, <1>2, <1>3, AppendSignals DEF Signalled
<1>5. \A h \in Slot \ {g} : Worked(h)' = Worked(h)
  BY <1>1 DEF Worked, TypeOK
<1>6. \A h \in Slot \ {g} : SameGroup(h)
  <2> SUFFICES ASSUME NEW h \in Slot \ {g} PROVE SameGroup(h)
    OBVIOUS
  <2>1. CASE Placed(h)
    BY <1>1, <1>2, <1>4, <1>5, <2>1 DEF SameGroup, Phase, Region, Placed
  <2>2. CASE ~Placed(h)
    BY <1>1, <1>5, <2>2 DEF SameGroup, Phase, Region, Placed, TypeOK, Status
  <2>3. QED
    BY <2>1, <2>2
<1>7. Phase(g) = "running" /\ Phase(g)' = "complete"
  BY <1>1, <1>2, AppendSignals DEF Phase, Signalled
<1>8. Worked(g) = Region(g) /\ Region(g)' = Region(g) /\ Worked(g)' = {}
  <2>1. TilesOf(g) \subseteq Tiles
    BY DEF TilesOf, Rect
  <2>2. \A t \in Worked(g) : t \in TilesOf(g)
    BY DEF Worked, HeldTilesRun, Clear
  <2>3. QED
    BY <1>1, <1>2, <2>1, <2>2 DEF Worked, Region, Placed
<1>9. QED
  BY <1>6, <1>7, <1>8, OneGroupStep DEF Abstract!Complete, Region, Worked

LEMMA RetireRefines ==
  ASSUME TypeInv, ExclusiveTiles, RunInv, NEW g \in Slot, ReceiveFinish(g)
  PROVE  Abstract!Retire(g)
<1> USE DEF TypeInv, RunInv
<1>1. /\ status[g] = "LAUNCHED" /\ rxq[1] = FinishPacket(g)
      /\ UNCHANGED <<desc, origin, args, core>> /\ rxq # <<>> /\ rxq' = Tail(rxq)
      /\ status' = [status EXCEPT ![g] = "FINISHED"]
  BY ReceivedIsIdle DEF ReceiveFinish, DeallocateTiles, device
<1>2. \A h \in Slot : FinishPacket(h)' = FinishPacket(h) /\ TilesOf(h)' = TilesOf(h)
  BY <1>1, PlacesKept
<1>3. \A h \in Slot \ {g} : Placed(h) => FinishPacket(h) # rxq[1]
  BY <1>1, SignalNamesGroup DEF Placed
<1>4. \A h \in Slot \ {g} : Placed(h) => (Signalled(h)' <=> Signalled(h))
  <2> SUFFICES ASSUME NEW h \in Slot \ {g}, Placed(h) PROVE Signalled(h)' <=> Signalled(h)
    OBVIOUS
  <2>1. ASSUME NEW i \in DOMAIN rxq, rxq[i] = FinishPacket(h) PROVE Signalled(h)'
    BY <1>1, <1>2, <1>3, <2>1, TailSignals DEF Signalled
  <2>2. ASSUME NEW i \in DOMAIN rxq', rxq'[i] = FinishPacket(h)' PROVE Signalled(h)
    BY <1>1, <1>2, <2>2, TailSignals DEF Signalled
  <2>3. QED
    BY <2>1, <2>2 DEF Signalled
<1>5. \A h \in Slot \ {g} : status'[h] = status[h] /\ status[h] \in Status
  BY <1>1 DEF TypeOK
<1>6. \A h \in Slot \ {g} : SameGroup(h)
  <2> SUFFICES ASSUME NEW h \in Slot \ {g} PROVE SameGroup(h)
    OBVIOUS
  <2>1. CASE Placed(h)
    BY <1>1, <1>2, <1>4, <1>5, <2>1 DEF SameGroup, Phase, Region, Worked, Placed
  <2>2. CASE ~Placed(h)
    BY <1>1, <1>5, <2>2 DEF SameGroup, Phase, Region, Worked, Placed, Status
  <2>3. QED
    BY <2>1, <2>2
<1>7. Phase(g) = "complete" /\ Phase(g)' = "done"
  <2>1. Signalled(g)
    BY <1>1, TailSignals DEF Signalled
  <2>2. QED
    BY <1>1, <2>1 DEF Phase, TypeOK
<1>8. Region(g)' = {} /\ Worked(g)' = Worked(g)
  BY <1>1 DEF Region, Worked, Placed, TypeOK
<1>9. QED
  BY <1>6, <1>7, <1>8, OneGroupStep DEF Abstract!Retire

LEMMA StepRefines ==
  ASSUME TypeInv, ExclusiveTiles, RunInv, [Next]_vars
  PROVE  [Abstract!Next]_(Abstract!vars)
<1> USE DEF TypeInv, RunInv
<1>1. CASE UNCHANGED <<status, desc, origin, args, core, rxq>>
  <2>1. \A g \in Slot : SameGroup(g)
    BY <1>1, PlacesKept DEF SameGroup, Phase, Signalled, Region, Worked, Placed
  <2>2. QED
    BY <2>1, NoStep
<1>2. CASE TileGroupEnqueue
  BY <1>2, EnqueueRefines DEF Abstract!Next
<1>3. ASSUME NEW o \in Tiles, AllocateTiles(o) PROVE Abstract!Next
  BY <1>3, AllocateRefines DEF Abstract!Next
<1>4. ASSUME NEW o \in Tiles, NEW n \in 0 .. MeshDim.x * MeshDim.y, AllocateTilesFails(o, n)
      PROVE UNCHANGED Abstract!vars
  <2>1. /\ status[cur] = "INITIALIZED" /\ UNCHANGED <<status, desc, args, core, rxq>>
        /\ \A g \in Slot : g # cur => origin'[g] = origin[g]
    BY <1>4 DEF AllocateTilesFails, Claim
  <2>2. \A g \in Slot : Placed(g) => FinishPacket(g)' = FinishPacket(g) /\ TilesOf(g)' = TilesOf(g)
    BY <2>1, PlacesKept DEF Placed
  <2>3. \A g \in Slot : SameGroup(g)
    BY <2>1, <2>2, SamePhase, SamePlace DEF TypeOK
  <2>4. QED
    BY <2>3, NoStep
<1>5. ASSUME NEW t \in Tiles, SetArguments(t) PROVE UNCHANGED Abstract!vars
  <2>1. Clear(t)
    BY <1>5 DEF SetArguments, LaunchTile, LaunchesInOrder, Index, TypeOK
  <2>2. UNCHANGED <<status, desc, origin, core, rxq>> /\ args' = [args EXCEPT ![t] = cur]
    BY <1>5 DEF SetArguments, groups
  <2>3. \A g \in Slot : Worked(g)' = Worked(g)
    BY <2>1, <2>2 DEF Worked, Clear, TypeOK
  <2>4. \A g \in Slot : SameGroup(g)
    BY <2>2, <2>3, PlacesKept DEF SameGroup, Phase, Signalled, Region, Placed
  <2>5. QED
    BY <2>4, NoStep
<1>6. ASSUME NEW t \in Tiles, SetKernelPointer(t) PROVE UNCHANGED Abstract!vars
  <2>1. /\ UNCHANGED <<desc, origin, args, core, rxq>> /\ status[cur] = "ALLOCATED"
        /\ status' = [status EXCEPT ![cur] = "LAUNCHED"] \/ status' = status
    BY <1>6 DEF SetKernelPointer, LaunchesPlaced
  <2>2. \A g \in Slot : status'[g] = status[g] \/ (status[g] = "ALLOCATED" /\ status'[g] = "LAUNCHED")
    BY <2>1 DEF TypeOK
  <2>3. \A g \in Slot : SameGroup(g)
    BY <2>1, <2>2, PlacesKept, SamePhase, SamePlace DEF TypeOK
  <2>4. QED
    BY <2>3, NoStep
<1>7. ASSUME NEW g \in Slot, ReceiveFinish(g) PROVE Abstract!Next
  BY <1>7, RetireRefines DEF Abstract!Next
<1>8. CASE DropPacket
  <2>1. /\ UNCHANGED <<status, desc, origin, args, core>> /\ rxq # <<>> /\ rxq' = Tail(rxq)
        /\ Matching(rxq[1]) = {}
    BY <1>8 DEF DropPacket, groups, device, TypeOK
  <2>2. IsPrint(rxq[1])
    <3>1. 1 \in DOMAIN rxq
      BY <2>1, TailSignals
    <3>2. ASSUME NEW g \in Slot, status[g] = "LAUNCHED" PROVE rxq[1] # FinishPacket(g)
      <4>1. g \in 1 .. num
        BY <3>2, BoundsAssumption DEF TypeOK, Slot
      <4>2. QED
        BY <2>1, <3>2, <4>1 DEF Matching, PacketEquals
    <3>3. QED
      BY <3>1, <3>2 DEF SignalsOfIdleGroups
  <2>3. \A g \in Slot : FinishPacket(g)' = FinishPacket(g) /\ FinishPacket(g) # rxq[1]
    BY <2>1, <2>2, PlacesKept, SignalIsNoPrint
  <2>4. ASSUME NEW g \in Slot PROVE Signalled(g)' <=> Signalled(g)
    <3>1. ASSUME NEW i \in DOMAIN rxq, rxq[i] = FinishPacket(g) PROVE Signalled(g)'
      BY <2>1, <2>3, <3>1, TailSignals DEF Signalled
    <3>2. ASSUME NEW i \in DOMAIN rxq', rxq'[i] = FinishPacket(g)' PROVE Signalled(g)
      BY <2>1, <2>3, <3>2, TailSignals DEF Signalled
    <3>3. QED
      BY <3>1, <3>2 DEF Signalled
  <2>5. \A g \in Slot : SameGroup(g)
    BY <2>1, <2>4, PlacesKept DEF SameGroup, Phase, Region, Worked, Placed
  <2>6. QED
    BY <2>5, NoStep
<1>9. ASSUME NEW t \in Tiles, TileStart(t) PROVE UNCHANGED Abstract!vars
  <2>1. /\ UNCHANGED <<status, desc, origin, args, rxq>> /\ core[t] = "waiting"
        /\ core' = [core EXCEPT ![t] = "running"]
    BY <1>9 DEF TileStart, groups
  <2>2. \A g \in Slot : Worked(g)' = Worked(g)
    BY <2>1 DEF Worked, TypeOK
  <2>3. \A g \in Slot : SameGroup(g)
    BY <2>1, <2>2, PlacesKept DEF SameGroup, Phase, Signalled, Region, Placed
  <2>4. QED
    BY <2>3, NoStep
<1>10. ASSUME NEW t \in Tiles, TileEnd(t) PROVE Abstract!Next
  BY <1>10, WorkRefines DEF Abstract!Next
<1>11. ASSUME NEW t \in Tiles, TilePrint(t) PROVE UNCHANGED Abstract!vars
  <2>1. /\ UNCHANGED <<status, desc, origin, args, core>> /\ rxq' = Append(rxq, PrintPacket(t))
        /\ IsPrint(PrintPacket(t))
    BY <1>11 DEF TilePrint, groups, device, PrintPacket, IsPrint
  <2>2. \A g \in Slot : FinishPacket(g)' = FinishPacket(g) /\ FinishPacket(g) # PrintPacket(t)
    BY <2>1, PlacesKept, SignalIsNoPrint
  <2>3. \A g \in Slot : Signalled(g)' <=> Signalled(g)
    BY <2>1, <2>2, AppendSignals DEF Signalled
  <2>4. \A g \in Slot : SameGroup(g)
    BY <2>1, <2>3, PlacesKept DEF SameGroup, Phase, Region, Worked, Placed
  <2>5. QED
    BY <2>4, NoStep
<1>12. ASSUME NEW g \in Slot, GroupFinish(g) PROVE Abstract!Next
  BY <1>12, CompleteRefines DEF Abstract!Next
<1>13. QED
  BY <1>1, <1>2, <1>3, <1>4, <1>5, <1>6, <1>7, <1>8, <1>9, <1>10, <1>11, <1>12
     DEF Next, Program, HostStep, HostFails, vars, KernelEnqueue, Execute, TileGroupEnqueueFails,
         CheckAllFinished, SkipGroup, LaunchPrepare, EndSweep, LaunchFails, ReceiveFails, TileStep,
         groups, device

\* The scheduler implements GridExecution: each group runs once, on tiles no other group has
\* meanwhile, its kernel ends on every one of them before the host takes the group for finished,
\* and a finished group stays so; whichever calls fail.
THEOREM SchedulerImplementsGridExecution == Spec => ImplementsGridExecution
<1>1. TypeInv /\ ExclusiveTiles /\ RunInv /\ [Next]_vars => [Abstract!Next]_(Abstract!vars)
  BY StepRefines
<1>2. QED
  BY <1>1, InitRefines, TypeCorrect, TilesAreExclusive, RunsInOrder, PTL
     DEF Spec, ImplementsGridExecution, Abstract!Spec

=============================================================================
