----------------------------- MODULE TileGroups -----------------------------
(***************************************************************************)
(* The CUDA-Lite tile-group scheduler of bsg_manycore_cuda.cpp.            *)
(*                                                                         *)
(* A host thread enqueues kernels (grids of tile groups), then executes    *)
(* them: it sweeps its list of groups, places each waiting group on the    *)
(* first free rectangle of tiles, writes the group's runtime symbols tile  *)
(* by tile, and blocks until one group's origin tile sends a finish packet *)
(* to the host's request FIFO.  The tiles run concurrently: a tile starts  *)
(* as soon as its own cuda_kernel_ptr is written, while the host is still  *)
(* writing the symbols of its neighbours.                                  *)
(***************************************************************************)
EXTENDS Integers, Sequences

CONSTANTS
  MeshOrigin,   \* device->mesh->origin, a record [x, y]
  MeshDim,      \* device->mesh->dim, a record [x, y]
  Launches,     \* the kernels the program may enqueue: records [grid_dim, dim]
  MaxGroups,    \* bound: tile groups a program enqueues in total
  MaxFaults,    \* bound: calls into the device that return an error
  MaxPrints     \* bound: packets, other than finish packets, the tiles send

Dimension == [x : Nat \ {0}, y : Nat \ {0}]

ASSUME MeshAssumption ==
  /\ MeshOrigin \in [x : Nat, y : Nat]
  /\ MeshDim \in Dimension

ASSUME LaunchesAssumption == Launches \subseteq [grid_dim : Dimension, dim : Dimension]

ASSUME BoundsAssumption == MaxGroups \in Nat /\ MaxFaults \in Nat /\ MaxPrints \in Nat

VARIABLES
  num,        \* device->num_tile_groups
  capacity,   \* device->tile_group_capacity
  status,     \* tile_groups[g].status; "NONE" in the slots not yet used
  desc,       \* tile_groups[g].{id, grid_dim, dim}
  origin,     \* tile_groups[g].origin
  tiles,      \* device->mesh->tiles[t].status
  conf,       \* the group whose configuration symbols tile t holds (0: none)
  args,       \* the group whose cuda_argc, cuda_argv_ptr and finish address it holds
  kptr,       \* is tile t's cuda_kernel_ptr loaded?
  core,       \* what tile t does
  rxq,        \* the host's request FIFO: packets the tiles sent
  pc,         \* where the host thread is
  cur,        \* tg_num + 1 in hb_mc_device_tile_groups_execute's sweep
  tile_id,    \* tile_id in hb_mc_device_tiles_set_runtime_symbols
  grid,       \* the kernel being enqueued and the number of its groups done
  faults, prints

host    == <<pc, cur, tile_id, grid>>
groups  == <<num, capacity, status, desc, origin>>
device  == <<conf, args, kptr, core>>
bounds  == <<faults, prints>>
vars    == <<groups, tiles, device, rxq, host, bounds>>

Slot   == 1 .. MaxGroups
Status == {"NONE", "INITIALIZED", "ALLOCATED", "LAUNCHED", "FINISHED"}
Host   == {"idle", "enqueue", "check", "scan", "launch", "args", "pointer", "wait"}

Tiles == [x : MeshOrigin.x .. MeshOrigin.x + MeshDim.x - 1,
          y : MeshOrigin.y .. MeshOrigin.y + MeshDim.y - 1]

Desc == [id : [x : Nat, y : Nat], grid_dim : Dimension, dim : Dimension]

NoDesc == LET one == [x |-> 1, y |-> 1]
          IN  [id |-> [x |-> 0, y |-> 0], grid_dim |-> one, dim |-> one]

\* The tiles of a group of dimension d placed at o.
Rect(o, d) == {t \in Tiles : /\ o.x <= t.x /\ t.x < o.x + d.x
                             /\ o.y <= t.y /\ t.y < o.y + d.y}

TilesOf(g) == Rect(origin[g], desc[g].dim)

Fits(d) == d.x <= MeshDim.x /\ d.y <= MeshDim.y

\* (variant) only the tile at the origin is looked at
FreeOriginsFirstTileOnly(d) ==
  {o \in Tiles : /\ o.x + d.x <= MeshOrigin.x + MeshDim.x
                 /\ o.y + d.y <= MeshOrigin.y + MeshDim.y
                 /\ tiles[o] = "FREE"}

\* (variant) the last row and column of origins are not searched
FreeOriginsStrict(d) ==
  {o \in Tiles : /\ o.x + d.x < MeshOrigin.x + MeshDim.x
                 /\ o.y + d.y < MeshOrigin.y + MeshDim.y
                 /\ \A t \in Rect(o, d) : tiles[t] = "FREE"}

\* The origins at which a group of dimension d lies within the mesh and every tile is free.
FreeOrigins(d) ==
  {o \in Tiles : /\ o.x + d.x <= MeshOrigin.x + MeshDim.x
                 /\ o.y + d.y <= MeshOrigin.y + MeshDim.y
                 /\ \A t \in Rect(o, d) : tiles[t] = "FREE"}

\* The search goes row by row.
ScannedBefore(o, p) == o.y < p.y \/ (o.y = p.y /\ o.x <= p.x)

FirstFit(o, d) == /\ o \in FreeOrigins(d)
                  /\ \A p \in FreeOrigins(d) : ScannedBefore(o, p)

\* hb_mc_tile_group_get_finish_signal_addr: the base is 0xF000 in the host's space.
FinishAddr(dsc) == 61440 + 4 * (dsc.id.y * dsc.grid_dim.x + dsc.id.x)

\* The packet group g's origin tile sends when the group is done (destination, mask and
\* data are the same for every group).
FinishPacket(g) == [src |-> origin[g], addr |-> FinishAddr(desc[g])]

\* A print-int packet of tile t (SINT_EPA, 0xEAE0): not a finish packet of any group.
PrintPacket(t) == [src |-> t, addr |-> 60128]

\* (variant) the source of a packet is not compared
PacketEqualsAddressOnly(p, q) == p.addr = q.addr

PacketEquals(p, q) == p.src = q.src /\ p.addr = q.addr

Init ==
  /\ num = 0 /\ capacity = 1
  /\ status = [g \in Slot |-> "NONE"]
  /\ desc = [g \in Slot |-> NoDesc]
  /\ origin = [g \in Slot |-> MeshOrigin]
  /\ tiles = [t \in Tiles |-> "FREE"]
  /\ conf = [t \in Tiles |-> 0]
  /\ args = [t \in Tiles |-> 0]
  /\ kptr = [t \in Tiles |-> FALSE]
  /\ core = [t \in Tiles |-> "waiting"]
  /\ rxq = <<>>
  /\ pc = "idle" /\ cur = 1 /\ tile_id = 0
  /\ grid = [grid_dim |-> NoDesc.grid_dim, dim |-> NoDesc.dim, next |-> 0]
  /\ faults = 0 /\ prints = 0

(***************************************************************************)
(* The host enqueues a kernel.                                             *)
(***************************************************************************)

GridSize(l) == l.grid_dim.x * l.grid_dim.y

KernelEnqueue(l) ==
  /\ pc = "idle"
  /\ num + GridSize(l) <= MaxGroups
  /\ grid' = [grid_dim |-> l.grid_dim, dim |-> l.dim, next |-> 0]
  /\ pc' = "enqueue"
  /\ UNCHANGED <<groups, tiles, device, rxq, cur, tile_id, bounds>>

\* (variant) the list is found full one group too late
GrowLate == capacity' = IF num > capacity THEN 2 * capacity ELSE capacity

\* The list doubles when it is full, before the new group is written.
Grow == capacity' = IF num = capacity THEN 2 * capacity ELSE capacity

\* One group of the grid, x outer and y inner; the last one ends the call.
TileGroupEnqueue ==
  LET g  == num + 1
      n  == grid.next
      id == [x |-> n \div grid.grid_dim.y, y |-> n % grid.grid_dim.y]
  IN
  /\ pc = "enqueue" /\ g \in Slot
  /\ Grow
  /\ num' = g
  /\ status' = [status EXCEPT ![g] = "INITIALIZED"]
  /\ desc' = [desc EXCEPT ![g] = [id |-> id, grid_dim |-> grid.grid_dim, dim |-> grid.dim]]
  /\ origin' = [origin EXCEPT ![g] = MeshOrigin]
  /\ grid' = [grid EXCEPT !.next = n + 1]
  /\ pc' = IF n + 1 < GridSize(grid) THEN "enqueue" ELSE "idle"
  /\ UNCHANGED <<tiles, device, rxq, cur, tile_id, bounds>>

Fault == faults < MaxFaults /\ faults' = faults + 1 /\ UNCHANGED prints

\* No memory for the group's map or kernel: the call fails and the groups of this grid that
\* were already counted stay in the list.
TileGroupEnqueueFails ==
  /\ pc = "enqueue"
  /\ Grow
  /\ pc' = "idle"
  /\ Fault
  /\ UNCHANGED <<num, status, desc, origin, tiles, device, rxq, cur, tile_id, grid>>

(***************************************************************************)
(* hb_mc_device_tile_groups_execute.                                       *)
(***************************************************************************)

Execute ==
  /\ pc = "idle"
  /\ pc' = "check"
  /\ UNCHANGED <<groups, tiles, device, rxq, cur, tile_id, grid, bounds>>

AllFinished == \A g \in 1 .. num : status[g] = "FINISHED"

CheckAllFinished ==
  /\ pc = "check"
  /\ IF AllFinished THEN pc' = "idle" /\ UNCHANGED cur
                    ELSE pc' = "scan" /\ cur' = 1
  /\ UNCHANGED <<groups, tiles, device, rxq, tile_id, grid, bounds>>

\* A group that is not waiting, is larger than the mesh, or finds no free rectangle.
SkipGroup ==
  /\ pc = "scan" /\ cur \in 1 .. num
  /\ \/ status[cur] # "INITIALIZED"
     \/ ~Fits(desc[cur].dim)
     \/ FreeOrigins(desc[cur].dim) = {}
  /\ cur' = cur + 1
  /\ UNCHANGED <<groups, tiles, device, rxq, pc, tile_id, grid, bounds>>

\* The rectangle found is claimed before anything is sent to its tiles.
Claim(o) ==
  /\ pc = "scan" /\ cur \in 1 .. num
  /\ status[cur] = "INITIALIZED"
  /\ Fits(desc[cur].dim)
  /\ FirstFit(o, desc[cur].dim)
  /\ origin' = [origin EXCEPT ![cur] = o]
  /\ tiles' = [t \in Tiles |-> IF t \in Rect(o, desc[cur].dim) THEN "BUSY" ELSE tiles[t]]

AllocateTiles(o) ==
  /\ Claim(o)
  /\ conf' = [t \in Tiles |-> IF t \in Rect(o, desc[cur].dim) THEN cur ELSE conf[t]]
  /\ status' = [status EXCEPT ![cur] = "ALLOCATED"]
  /\ pc' = "launch"
  /\ UNCHANGED <<num, capacity, desc, args, kptr, core, rxq, cur, tile_id, grid, bounds>>

\* Writing the configuration symbols fails after n tiles (columns first): the sweep ignores
\* the error, the group stays INITIALIZED and its tiles stay BUSY.
AllocateTilesFails(o, n) ==
  LET d == desc[cur].dim
      Reached == {t \in Rect(o, d) : (t.x - o.x) * d.y + (t.y - o.y) < n}
  IN
  /\ Claim(o)
  /\ n \in 0 .. d.x * d.y - 1
  /\ conf' = [t \in Tiles |-> IF t \in Reached THEN cur ELSE conf[t]]
  /\ cur' = cur + 1
  /\ Fault
  /\ UNCHANGED <<num, capacity, status, desc, args, kptr, core, rxq, pc, tile_id, grid>>

\* hb_mc_tile_group_launch: the arguments are allocated and copied, the kernel looked up.
LaunchPrepare ==
  /\ pc = "launch"
  /\ pc' = "args" /\ tile_id' = 0
  /\ UNCHANGED <<groups, tiles, device, rxq, cur, grid, bounds>>

\* The tile_id-th tile of the group being launched, rows first.
LaunchTile(t) ==
  /\ t \in TilesOf(cur)
  /\ tile_id = (t.y - origin[cur].y) * desc[cur].dim.x + (t.x - origin[cur].x)

\* (variant) only the first tile of the group is given the arguments
SetArgumentsOnce(t) ==
  /\ pc = "args" /\ LaunchTile(t)
  /\ args' = IF tile_id = 0 THEN [args EXCEPT ![t] = cur] ELSE args
  /\ pc' = "pointer"
  /\ UNCHANGED <<groups, tiles, conf, kptr, core, rxq, cur, tile_id, grid, bounds>>

SetArguments(t) ==
  /\ pc = "args" /\ LaunchTile(t)
  /\ args' = [args EXCEPT ![t] = cur]
  /\ pc' = "pointer"
  /\ UNCHANGED <<groups, tiles, conf, kptr, core, rxq, cur, tile_id, grid, bounds>>

LastTile == tile_id + 1 = desc[cur].dim.x * desc[cur].dim.y

\* The kernel pointer goes last.  After the last tile the group is LAUNCHED.
SetKernelPointer(t) ==
  /\ pc = "pointer" /\ LaunchTile(t)
  /\ kptr' = [kptr EXCEPT ![t] = TRUE]
  /\ IF LastTile
       THEN /\ status' = [status EXCEPT ![cur] = "LAUNCHED"]
            /\ pc' = "scan" /\ cur' = cur + 1 /\ UNCHANGED tile_id
       ELSE pc' = "args" /\ tile_id' = tile_id + 1 /\ UNCHANGED <<status, cur>>
  /\ UNCHANGED <<num, capacity, desc, origin, tiles, conf, args, core, rxq, grid, bounds>>

\* Any step of the launch fails: execute returns the error, the group stays ALLOCATED.
LaunchFails ==
  /\ pc \in {"launch", "args", "pointer"}
  /\ pc' = "idle"
  /\ Fault
  /\ UNCHANGED <<groups, tiles, device, rxq, cur, tile_id, grid>>

EndSweep ==
  /\ pc = "scan" /\ cur > num
  /\ pc' = "wait"
  /\ UNCHANGED <<groups, tiles, device, rxq, cur, tile_id, grid, bounds>>

(***************************************************************************)
(* hb_mc_device_wait_for_tile_group_finish_any.                            *)
(***************************************************************************)

\* (variant) groups that have already finished are compared too
MatchingAnyStatus(p) == {g \in 1 .. num : PacketEquals(p, FinishPacket(g))}

\* The groups whose finish packet p is.
Matching(p) ==
  {g \in 1 .. num : status[g] = "LAUNCHED" /\ PacketEquals(p, FinishPacket(g))}

\* (variant) the tiles are not given back
DeallocateTilesKeepsBusy(g) ==
  UNCHANGED tiles /\ status' = [status EXCEPT ![g] = "FINISHED"]

DeallocateTiles(g) ==
  /\ tiles' = [t \in Tiles |-> IF t \in TilesOf(g) THEN "FREE" ELSE tiles[t]]
  /\ status' = [status EXCEPT ![g] = "FINISHED"]

\* The first group the packet matches is deallocated and the wait ends.
ReceiveFinish(g) ==
  /\ pc = "wait" /\ rxq # <<>>
  /\ g \in Matching(Head(rxq))
  /\ \A h \in Matching(Head(rxq)) : g <= h
  /\ DeallocateTiles(g)
  /\ rxq' = Tail(rxq)
  /\ pc' = "check"
  /\ UNCHANGED <<num, capacity, desc, origin, device, cur, tile_id, grid, bounds>>

\* A packet that matches no launched group is dropped and the host waits on.
DropPacket ==
  /\ pc = "wait" /\ rxq # <<>>
  /\ Matching(Head(rxq)) = {}
  /\ rxq' = Tail(rxq)
  /\ UNCHANGED <<groups, tiles, device, host, bounds>>

ReceiveFails ==
  /\ pc = "wait"
  /\ pc' = "idle"
  /\ Fault
  /\ UNCHANGED <<groups, tiles, device, rxq, cur, tile_id, grid>>

(***************************************************************************)
(* The tiles (their runtime is not part of the repository).                *)
(***************************************************************************)

TileStart(t) ==
  /\ core[t] = "waiting" /\ kptr[t]
  /\ core' = [core EXCEPT ![t] = "running"]
  /\ UNCHANGED <<groups, tiles, conf, args, kptr, rxq, host, bounds>>

TileEnd(t) ==
  /\ core[t] = "running"
  /\ core' = [core EXCEPT ![t] = "barrier"]
  /\ UNCHANGED <<groups, tiles, conf, args, kptr, rxq, host, bounds>>

TilePrint(t) ==
  /\ core[t] = "running" /\ prints < MaxPrints
  /\ prints' = prints + 1
  /\ rxq' = Append(rxq, PrintPacket(t))
  /\ UNCHANGED <<groups, tiles, device, host, faults>>

\* The group's tiles meet at the barrier, clear their kernel pointers, and the origin tile
\* stores to the finish address it was given.
GroupFinish(g) ==
  /\ status[g] \in {"ALLOCATED", "LAUNCHED"}
  /\ \A t \in TilesOf(g) : core[t] = "barrier" /\ args[t] = g
  /\ core' = [t \in Tiles |-> IF t \in TilesOf(g) THEN "waiting" ELSE core[t]]
  /\ kptr' = [t \in Tiles |-> IF t \in TilesOf(g) THEN FALSE ELSE kptr[t]]
  /\ rxq' = Append(rxq, FinishPacket(g))
  /\ UNCHANGED <<groups, tiles, conf, args, host, bounds>>

-----------------------------------------------------------------------------

Program == Execute \/ \E l \in Launches : KernelEnqueue(l)

HostStep ==
  \/ TileGroupEnqueue \/ CheckAllFinished \/ SkipGroup \/ LaunchPrepare
  \/ EndSweep \/ DropPacket
  \/ \E t \in Tiles : AllocateTiles(t) \/ SetArguments(t) \/ SetKernelPointer(t)
  \/ \E g \in Slot : ReceiveFinish(g)

HostFails ==
  \/ TileGroupEnqueueFails \/ LaunchFails \/ ReceiveFails
  \/ \E o \in Tiles : \E n \in 0 .. MeshDim.x * MeshDim.y : AllocateTilesFails(o, n)

TileStep(t) == TileStart(t) \/ TileEnd(t)

Next ==
  \/ Program \/ HostStep \/ HostFails
  \/ \E t \in Tiles : TileStep(t) \/ TilePrint(t)
  \/ \E g \in Slot : GroupFinish(g)

Spec == Init /\ [][Next]_vars

\* The host thread never stops inside a call, a kernel ends on every tile it starts on, and a
\* group whose tiles are all at the barrier sends its finish packet.  Nothing is assumed of
\* the program: it need not call anything.
Fairness ==
  /\ WF_vars(HostStep)
  /\ \A t \in Tiles : WF_vars(TileStep(t))
  /\ \A g \in Slot : WF_vars(GroupFinish(g))

FairSpec == Spec /\ Fairness

-----------------------------------------------------------------------------
(***************************************************************************)
(* Properties.                                                             *)
(***************************************************************************)

\* The variables have their types, the list of groups has room for the groups in it, and
\* exactly the slots in use hold a group.
TypeOK ==
  /\ num \in 0 .. MaxGroups /\ capacity \in Nat \ {0} /\ num <= capacity
  /\ status \in [Slot -> Status]
  /\ \A g \in Slot : status[g] = "NONE" <=> g > num
  /\ desc \in [Slot -> Desc]
  /\ origin \in [Slot -> Tiles]
  /\ tiles \in [Tiles -> {"FREE", "BUSY"}]
  /\ conf \in [Tiles -> 0 .. MaxGroups]
  /\ args \in [Tiles -> 0 .. MaxGroups]
  /\ kptr \in [Tiles -> BOOLEAN]
  /\ core \in [Tiles -> {"waiting", "running", "barrier"}]
  /\ rxq \in Seq([src : Tiles, addr : Nat])
  /\ pc \in Host /\ cur \in 1 .. MaxGroups + 1 /\ tile_id \in Nat
  /\ grid \in [grid_dim : Dimension, dim : Dimension, next : Nat]
  /\ faults \in Nat /\ prints \in Nat

Placed(g) == status[g] \in {"ALLOCATED", "LAUNCHED"}

\* Two groups that are placed share no tile, and the mesh's bookkeeping shows every tile of a
\* placed group BUSY (so that no later search of hb_mc_tile_group_allocate_tiles takes it).
ExclusiveTiles ==
  /\ \A g \in Slot : Placed(g) => \A t \in TilesOf(g) : tiles[t] = "BUSY"
  /\ \A g, h \in Slot : g # h /\ Placed(g) /\ Placed(h) => TilesOf(g) \cap TilesOf(h) = {}

\* The host tells launched groups apart by (source, address) alone and finish addresses repeat
\* from grid to grid: still no packet matches two of them.
FinishIdentifiesGroup ==
  \A g, h \in Slot : /\ status[g] = "LAUNCHED" /\ status[h] = "LAUNCHED"
                     /\ PacketEquals(FinishPacket(g), FinishPacket(h))
                     => g = h

\* The symbols of a tile (its group's place and its kernel's arguments) do not change from
\* the start of a kernel on it until its group's barrier: the host never hands a tile out
\* while the previous kernel still runs there.
SymbolsStable ==
  [][\A t \in Tiles : core[t] # "waiting" => args'[t] = args[t] /\ conf'[t] = conf[t]]_vars

\* A tile runs a kernel only with the arguments of the group that holds it.
RunsForItsGroup ==
  \A t \in Tiles : core[t] # "waiting" =>
     /\ args[t] \in Slot /\ Placed(args[t]) /\ t \in TilesOf(args[t])
     /\ conf[t] = args[t]

\* The blocking wait of hb_mc_device_tile_groups_execute always has a launched group to wait
\* for, as long as no call failed and every group fits the mesh.
WaitIsForSomeone ==
  pc = "wait" /\ faults = 0 /\ (\A g \in 1 .. num : Fits(desc[g].dim))
    => \E g \in Slot : status[g] = "LAUNCHED"

\* An execute call returns, and when it does every group enqueued so far has finished, unless a
\* call failed or a group does not fit the mesh: the host then waits for ever for a packet that
\* nobody sends.
ExecuteFinishesAll ==
  (pc = "check") ~> \/ pc = "idle" /\ AllFinished
                    \/ faults # 0
                    \/ \E g \in 1 .. num : ~Fits(desc[g].dim)

\* The scheduler implements GridExecution.  A group is complete once its finish packet is in
\* the request FIFO and done once the host has taken it.
Signalled(g) == \E i \in DOMAIN rxq : rxq[i] = FinishPacket(g)

Phase(g) ==
  CASE status[g] = "NONE"        -> "absent"
    [] status[g] = "INITIALIZED" -> "pending"
    [] status[g] = "FINISHED"    -> "done"
    [] OTHER                     -> IF Signalled(g) THEN "complete" ELSE "running"

Abstract == INSTANCE GridExecution WITH
  Group  <- Slot,
  Tile   <- Tiles,
  phase  <- [g \in Slot |-> Phase(g)],
  region <- [g \in Slot |-> IF Placed(g) THEN TilesOf(g) ELSE {}],
  worked <- [g \in Slot |-> {t \in Tiles : args[t] = g /\ core[t] = "barrier"}]

ImplementsGridExecution == Abstract!Spec
=============================================================================
