# bsg_replicant in TLA+

bsg_replicant is the host side of the HammerBlade manycore: C++ libraries (`src/libraries`)
with which a program on the host loads binaries, moves data and runs kernels on a mesh of
tiles, and the hardware (`src/hardware`) that connects the host's MMIO bus to the manycore's
network. This directory holds TLA+ specifications of its core, TLC configurations that check
them, and proofs for TLAPS.

Every definition is translated from the source; `PROJECT.json` names, for each, the lines it
stands for, and lists components, runs, mutants, findings, hazards and theorems.

## 1. Inventory

Paths are relative to `src/libraries`, unless they start with `hardware/`.

| component | source | state | operations | talks to |
|---|---|---|---|---|
| CUDA-Lite scheduler | `bsg_manycore_cuda.cpp` | list of tile groups (id, dimensions, origin, status), capacity; status of each tile of the mesh | `hb_mc_kernel_enqueue`, `hb_mc_device_tile_groups_execute` and, inside it, allocate, launch, wait, deallocate | tiles (symbols written to their memory, finish packets), device memory, request FIFO |
| device memory | `bsg_manycore_memory_manager.*`, `hb_mc_device_malloc/free` | free list, busy list, free size | alloc, free, coalesce (reserve, reset and lookup have no caller) | its callers; the launch of a group allocates its arguments |
| host link | `bsg_manycore.cpp`, `hardware/bsg_mcl_axil_fifos_master.v`, `bsg_manycore_endpoint_to_fifos.v`, `bsg_manycore_link_to_axil.v` | `htod_requests`; transmit FIFO, response FIFO, endpoint credits, read credits | single and block reads and writes, fence | memories, through the network |
| victim caches and DMA | `bsg_manycore.cpp`, `bsg_manycore_cuda.cpp`, `bsg_manycore_vcache.h` | lines in each cache, DRAM, cache operations under way | `dma_write`, `dma_read`, `dma_to_device`, `dma_to_host`, flush, invalidate | host link (cache operations are requests), kernels (tiles load and store through the caches) |
| request FIFO, responders | `bsg_manycore.cpp`, `bsg_manycore_responder.cpp`, `*_responder.cpp` | packets from tiles; a list of responders | `request_rx`, drain, add/delete/init/quit/respond | scheduler (finish packets), tiles |
| life cycle | `hb_mc_manycore_init/exit`, `hb_mc_device_init*`, `program_init*`, `hb_mc_device_finish` | what of the manycore and the device is set up | the same | everything |
| EVA map | `bsg_manycore_eva.cpp`, `bsg_manycore_origin_eva_map.cpp` | none (pure), and the position in the loops of `eva_write/read/memset` | EVA to NPA and back, size of a segment (`eva_size`, no caller) | host link |
| loader | `bsg_manycore_loader.cpp`, `bsg_manycore_elf.cpp` | none of its own | load segments, icaches, tile registers; look up symbols | EVA map, host link, tile CSRs |
| tile CSRs | `bsg_manycore_tile.cpp` | none | freeze, unfreeze, origin, DRAM enable | host link |
| configuration | `bsg_manycore_config.*`, `bsg_manycore_memsys.h` | a table read once from the ROM | accessors | everything reads it |
| packets, NPAs, coordinates, printing | headers, `bsg_manycore_printing.cpp`, `bsg_manycore_bits.cpp` | none | accessors, formatting | |
| other RTL, tests, machines, build | `hardware/cl_manycore.sv`, ... | | | wiring of modules that are not in the repository; tests; Makefiles |

The host program is single-threaded (only the memory manager has a lock); the concurrency is
between that thread, the tiles and the hardware. What is hard here, and what each component must
get right:

- **Scheduler.** Tiles start while the host is still writing their neighbours' symbols. The host
  learns that a group is done from a packet whose address repeats from grid to grid. Any call to
  the device may fail halfway. It must never give a tile to two groups, never mistake one group's
  packet for another's, never touch a tile that runs, and must end with every group finished when
  nothing fails.
- **Device memory.** Splitting, freeing in any order and lazy coalescing must neither lose nor
  duplicate a byte; failure must be told to the caller.
- **Host link.** The number of outstanding requests is a cached guess; loads come back in any order;
  a block write ends with a fence that reads two counters one after the other, while requests move
  from one to the other. A read must return the last write, a fenced write must be in memory, the
  bus must not stall for ever.
- **Caches and DMA.** DMA bypasses write-back caches; the cache operations that repair this are
  posted and take effect later, in competition with kernels.
- **Life cycle and responders.** Any step of an initialisation, a load or a finish may fail, or the
  process be killed; tiles of an earlier session send packets while the FIFO is drained; responders
  outlive a manycore. The BAR must be detached once, every call must return, and a session must see
  its own packets only.
- **Loader.** Registers, freezes and the release from reset are posted without waiting, segments and
  symbols are waited for, and tiles start one by one. A tile must not start before its image is there,
  nor be written to while it runs, even when the load before failed halfway.
- **EVA map.** A range that crosses stripes, caches or tiles must be split where the map says.

`PROJECT.json` lists these hazards one by one, at their lines.

## 2. Modules

| module | what it is | lines of code it models |
|---|---|---|
| `GridExecution` | abstract specification: what the scheduler promises a program | the contract of `hb_mc_kernel_enqueue` and `hb_mc_device_tile_groups_execute` |
| `TileGroups` | the scheduler, and the tiles as it sees them | `bsg_manycore_cuda.cpp` 196-603, 620-859, 1398-1514, 1726-1731, 1904-2287 |
| `TileGroups_proofs` | theorems about `TileGroups`: types, tiles, finish packets, the wait, running tiles, refinement of `GridExecution` | |
| `MemoryManager` | the allocator and its two callers | `bsg_manycore_memory_manager.cpp`, `hb_mc_device_malloc/free` |
| `MemoryManager_proofs` | theorems about `MemoryManager`: the partition of the range, the free size, coalescing | |
| `HostLink` | word reads and writes, from the host's loops to the memories | `bsg_manycore.cpp` 385-455, 874-1006, 1117-1145, 1744-2249; `bsg_mcl_axil_fifos_master.v` |
| `HostLink_proofs` | theorems about `HostLink`: types, credits, the fence, room and counts, load ids, what reads return | |
| `VCacheDma` | caches, DRAM, DMA and kernels | `bsg_manycore.cpp` 1147-1711, `hb_mc_device_dma_to_device/to_host` |
| `VCacheDma_proofs` | theorems about `VCacheDma`: coherence, reads of the latest value | |
| `LinearMemory` | abstract specification: what a transfer to a range of EVAs promises | the contract of `hb_mc_manycore_eva_write/read/memset` |
| `EvaMap` | the default map, in both directions, as operators | `bsg_manycore_eva.cpp` 41-878 |
| `EvaTransfer` | the loops over segments, and questions for an EVA | `bsg_manycore_eva.cpp` 937-1251 |
| `EvaTransfer_proofs` | theorems about `EvaMap` and `EvaTransfer`: types, refinement of `LinearMemory`, there and back | |
| `Manycore` | opening and closing the link, responders, the request FIFO, the nodes posted writes go to | `bsg_manycore.cpp` 130-383, 457-570, 874-1006, `bsg_manycore_responder.cpp`, `bsg_manycore_tile.cpp` |
| `Loader` (extends `Manycore`) | `hb_mc_loader_load`, symbols | `bsg_manycore_loader.cpp` |
| `Device` (extends `Loader`) | a device from init to finish, programs that run meanwhile, kills | `bsg_manycore_cuda.cpp`: `hb_mc_device_init*`, `program_init*`, `program_load`, `finish`, and what they call |
| `Device_proofs` | theorems about `Device`: the host thread, the BAR, responders | |
| `Device_memory` | theorems about `Device`: what is written to tiles, packets received, types | |
| `Device_image` | theorems about `Device`: what a tile finds when it starts | |
| `MC...` | constants for TLC | |

### TileGroups

The variables keep the source's names: `num`, `capacity`, `status`, `desc`, `origin` are the list of
groups, `tiles` the mesh's bookkeeping, `conf`, `args` and `kptr` what the host has written into each
tile's memory (configuration symbols; arguments and finish address; kernel pointer), `core` what the
tile does, `rxq` the request FIFO. `pc`, `cur`, `tile_id`, `grid` are where the host thread is. One
action is one iteration of a loop or one call that other actors can interleave with:

| action | code |
|---|---|
| `KernelEnqueue`, `TileGroupEnqueue` | `hb_mc_kernel_enqueue`, one `hb_mc_tile_group_enqueue` per group |
| `CheckAllFinished`, `SkipGroup`, `EndSweep` | the loop of `hb_mc_device_tile_groups_execute` |
| `AllocateTiles` | `hb_mc_tile_group_allocate_tiles`: search row by row, claim, configuration symbols (no tile of the rectangle runs meanwhile, so one step) |
| `LaunchPrepare`, `SetArguments`, `SetKernelPointer` | `hb_mc_tile_group_launch`, tile by tile: the tile may start right after its kernel pointer |
| `ReceiveFinish`, `DropPacket` | `hb_mc_device_wait_for_tile_group_finish_any` |
| `...Fails` | the error paths, with what they leave behind |
| `TileStart`, `TileEnd`, `TilePrint`, `GroupFinish` | the tiles. Their runtime is not in the repository: they wait for the kernel pointer, run, meet at the group's barrier, clear the pointer, and the origin stores to the finish address it was given |

`TileGroups` implements `GridExecution` (`ImplementsGridExecution`) under the mapping at its end: a
group is *running* from its allocation until its finish packet is in the FIFO, *complete* until the
host takes the packet, then *done*. A group whose launch failed stays running for ever: the abstract
specification has no liveness, progress is a property of its own.

### MemoryManager

`free` is the free list in its order (first fit depends on it), `busy` a set (its order is never
seen). The mutex makes each operation one step. `EvaSpace` is the number of values of an `hb_mc_eva_t`;
addresses of the manager have the square of that, as 32 and 64 bits in the code, so that the conversion
in `hb_mc_device_malloc` is what it is. `coalesce` sorts the list (`Sorted`: an entry's place is the
number of entries that come before it) and folds `Join` along it.

### HostLink

One host thread executes calls; the program's calls are `[kind, addrs]`. `write_mem` and `memset`
are one kind (`write_mem`): they differ only in the data. `read_mem` and the scatter-gather read
share `read_mem_internal`. A single read is its case of one word and one id. Between any two MMIO
accesses the hardware may move: `txq` is the transmit FIFO, in packets (`vacancy` counts down when a
word enters and up when a packet leaves, so the FIFO and the shift register behind it together hold
`HostCredits` packets), `net[d]` the requests on their way to destination `d`, in order, `rsp` and
`piso` the response path. Memories and network are external: a destination serves its requests in
order, different destinations in any order, and each returns the credit.

### VCacheDma

Each bank has its ways and its DRAM, and a queue of the host's requests: what `HostLink` shows of one
destination. A cache is write-back and write-allocate (`bsg_cache`, external); any way may be the
victim. Posting a batch of operations is one step, as posted requests do not wait; reading DRAM by
DMA is one step, as the simulation does not advance during the copy. A kernel's tiles load and store
any word while the host waits. `Careful` is what `dma_write` leaves to its caller, see section 6.
Any job of `dma_to_device` may fail (`ToDeviceFails`): the jobs before it are in DRAM and no cache was
invalidated. `doubt` remembers those words until they are written again; the properties are about all
others, and about these again once the call is repeated.

### EvaMap, EvaTransfer and LinearMemory

`EvaMap` has one operator per function of the default map, with the source's names; a translation gives
the NPA and the bytes left in its segment. `pow2` is `1ULL << k`, as a recursive function, since the
provers know nothing of exponents. Field widths, stripe and memory sizes are constants, and the
layout is the code's: the group bit is the top bit of the global Y field, DRAM is interleaved over the
caches of both rows by stripes. Fields that the code joins with `|` are added where they cannot overlap; the
one that can, the upper part of an address behind a cache against the DRAM bit, is `EpaTop`. The map of another origin is the default map with that `origin`.

`EvaTransfer` runs the loops: `call` is what was asked, `curr_eva` and `left` the loop's variables,
`memory` every word behind a cache and in a tile. A segment is one step, because `HostLink` shows that
a block transfer ends with its stores performed and its loads answered. `Refused` is every error
return, with whatever was done before it. Between calls the program asks `hb_mc_npa_to_eva`.

`LinearMemory` has *places* instead of banks: a call has a list of places to work through, does the
first few at a time, and gives up only in front of an item that names no place. `Named` says which
place an EVA names, by the layout alone and without the map's functions; `HeldBy` says which cell holds
a place. DRAM as a range of places is the whole of the interleaving: `ImplementsLinearMemory` fails if
two EVAs share a cell, if a segment is too long or too short, or if an error comes too early or late.

### Manycore, Loader and Device

The three modules are one state machine in three files: `Device` extends `Loader` extends `Manycore`.
`pc` is the step of the procedure the host thread is in; a procedure that another module calls ends at
a `pc` where the caller goes on (`hb_mc_manycore_init` at "initialized", `hb_mc_loader_load` at
"config_symbols", `hb_mc_manycore_exit` at "exited").

| variables | code |
|---|---|
| `private_data`, `handle`, `attached`, `mmio`, `dram_enabled` | `hb_mc_manycore_t`, its private data, and what the driver has attached |
| `responders`, `ready`, `it` | the global list, whose `responder_data` is set, and the iterators of all loops |
| `why`, `drains`, `occupancy`, `got` | locals of `rx_fifo_drain` and `packet_rx_internal` |
| `rxq` | the request FIFO, in words of packets: each word knows its packet's session, kind and position |
| `posted`, `mem` | writes on their way to each tile or cache, in order per node, and the memories and registers they reach |
| `bin`, `mesh`, `seg`, `after` | the program's binary, the tiles to load, the loader's position, where a block write returns to |
| `session`, `made`, `sym` | what a program may do with the device, the parts of `hb_mc_device_t`, the position in the symbols of a tile |
| `runs`, `epoch`, `mishaps`, `image` | history, for the properties only: `image` is the binary that tiles were last started with, which `bin` no longer is when another load has begun |

| action | code |
|---|---|
| `Attach`, `MapBar`, `InitConfig`, `RespondersInit`, `EnableDram` | the steps of `hb_mc_manycore_init`, each with its failure and its way to the cleanup |
| `DrainOccupancy`, `DrainWord`, `DrainCheck` | `hb_mc_manycore_rx_fifo_drain`: read the occupancy, as many packets word by word, at most `DrainRounds` times, then check |
| `ReceiveWord`, `Respond` | `hb_mc_manycore_request_rx`: the packet, then responder after responder |
| `RespondersQuit`, `CleanupMmio` | `hb_mc_manycore_exit`, and the end of a failed init |
| `ResponderAdd`, `ResponderDel`, `DisableDram` | what programs call in between |
| `ElfValidate`, `TilesInitialize`, `ValidateVcache`, `LoadSegment`, `ZeroSegment`, `LoadIcache`, ... | `hb_mc_loader_load`; a block write ends with `Fence`, which waits until all posted writes have arrived (`HostLink` shows that it does) |
| `DeviceInit`, `MeshInit`, `ProgramInit`, `ProgramFreeze`, `SetOriginRegisters`, `SetConfigSymbol`, `SetKernelPointer`, `Unfreeze`, `DeviceFinish`, `FreeDevice` | `hb_mc_device_*`, tile by tile and symbol by symbol |
| `Deliver` | a posted write arrives: writes to one node in order, to different nodes in any order |
| `Send`, `Store` | a tile that is not frozen sends a packet or writes its variables, at any time |
| `Die` | the process is killed; what is posted still arrives and tiles go on |

A binary is what the loader reads of an ELF file: its program headers with their data, its sections
with their symbols, and whether each lies within the file. What happens between `program_init` and
`finish` to run kernels is `TileGroups`.

## 3. Runs

| run | checks | result | size |
|---|---|---|---|
| `tilegroups` | types, exclusive tiles, unambiguous finish packets, tiles run for their group, stable symbols, refinement; without failures, the wait is for someone and execute finishes all | holds | 482 000 states |
| `memory_heap` | partition of the range, exact free size, coalescing | holds | 22 000 states |
| `malloc_exhausted` | `SuccessIsAllocated` | violated: finding | |
| `host_link` | reads, fence, room in the FIFO, load ids, every call returns | holds | 58 000 states |
| `host_fence` | `FencedStoresPerformed`, any value in the fence's locals | violated: finding | |
| `host_stale_response` | `ReadsReturnMemory`, a gather read refused midway | violated: finding | |
| `vcache_dma` | coherence, reads of the latest value, kernels after DMA, with jobs that fail | holds | 1.5 million states |
| `dma_range` | `ReadsLatest`, a DMA read of two lines | violated: finding | |
| `eva_map` | refinement of `LinearMemory`, EVAs given for NPAs they have room for, every call returns | holds | 13 000 states |
| `eva_width` | `EveryNpaComesBack`, addresses one bit wider than an EVA has room for | violated: finding | |
| `device` | types, images at start, freezing, own packets, responders ready, BAR released, tiles stopped, every call returns | holds | 1.02 million states |
| `eva_group` | `GroupWritesTiles`, a group EVA one row below the array | violated: finding | |

Bounds, and why they suffice:

- `tilegroups`: a 2 x 2 mesh whose origin is (0, 2), as the vcore's is not 0; three groups
  out of kernels of one tile, a column of two groups (the second group's finish address differs, the
  first one's repeats), the whole mesh, and one that does not fit. Three groups are the least for a
  group to finish, its tiles to be reused and a third to wait; one failure anywhere (`MaxFaults`)
  and one packet that is not a finish packet (`MaxPrints`). The capacity of the list grows twice.
  `WaitIsForSomeone` and `ExecuteFinishesAll` speak of behaviours in which nothing failed and all groups fit. In
  the others the wait blocks for ever after a failed launch or for a group
  that does not fit, and that is what the code does; so deadlock is not checked (in the former,
  `ExecuteFinishesAll` excludes it).
- `memory_heap`: seven aligned blocks, so that the free list can exceed the threshold of 4, which is
  the code's; requests of zero, of one padded block, of two, and of more than there is.
- `host_link`: two host credits and two endpoint credits against three load ids and reads of up to
  four words: ids, FIFO and credits all run out, and the fourth word reuses an id while others are under
  way. Three words at two destinations give both the ordered and the overtaking case. Four calls are a write, an overlapping write and two reads. The program
  then stops, which is why deadlock is not checked.
- `vcache_dma`: two banks, one way, two lines of two words: every miss evicts the other line, and a
  line has a word the transfer does not touch. Three calls: a store, a DMA call, an observer, or
  a transfer that fails, its repetition, an observer; two accesses of tiles. `dma_range` has two ways, since the missed line must still be cached.
- `eva_map`, `eva_width`: 2 x 2 tiles, two columns with a cache at each end, stripes of two words. An EVA
  has room for 8 bits of the address behind a cache, such an address has 9 and a bank 2^9 bytes: the relation
  of the 4x4 machines with banks of 2^29 bytes, where it is 28 bits and 29. A transfer of ten words
  crosses stripes, columns, rows of caches and comes round again. The
  calls reach the end of each kind of memory, go over it, start unaligned, and name CSRs, holes and
  nodes outside the network. Three calls are two writes that may overlap and a read. The program then
  stops, which is why deadlock is not checked. The questions are about
  the first words behind each cache, those at both sides of the room's end and the last, words of the tiles'
  memories and registers, and some of the host's addresses.
- `device`: two tiles, so that one runs while its neighbour is still being written, and one cache. A
  binary has a note, data and zeroes in each tile, two words of text against one word of icache, and
  data in DRAM; four others cannot be loaded, each for a reason of its own (not ELF, a segment too
  large, no text, no kernel pointer), so that loads fail before, in and after
  the segments. A fifth, cut off in its third segment, may be loaded at any time and as often as the
  program likes: also over a program some of whose tiles are about to start, with another text. `MaxEvents` = 2 counts devices opened and calls that fail: one session with one
  failure anywhere, or two sessions, the second of them after a finish or after a kill at any point (a kill that nothing can
  follow is left out).
  Packets of two words in a FIFO for one packet, drained twice at most, let tiles refill the FIFO while it
  is drained. The program asks for the whole array or for a mesh that does not fit. It need not call
  anything, which is why deadlock is not checked.

Fairness: `TileGroups` assumes that the host thread does not stop inside a call, that a kernel ends on
every tile it starts on and that a group at its barrier sends its packet; nothing about the program.
`HostLink` assumes that the host thread and the hardware keep running, `EvaTransfer` that a loop of the
host goes on, `Device` that the host thread goes on inside a call and that posted writes arrive; it
assumes nothing of tiles (they may never send, or send without end) and leaves out the wait for a
packet in `request_rx`, which may last for ever. Weak fairness is enough: no
step that is enabled is disabled by others for ever.

Every property of a passing run has a mutant, a plausible mistake in a mapped definition (its
`(variant)`, just above it) that makes TLC find the property violated.

## 4. Findings

1. `hb_mc_device_malloc` truncates the 64-bit failure value before it compares it, and reports success
   with the address 0xFFFFFFFF when memory is exhausted (`malloc_exhausted`).
2. The request fence tests two uninitialized locals (`host_fence`).
3. A gather read that returns an error leaves responses of its earlier loads behind; the next read
   takes them for its own (`host_stale_response`).
4. `hb_mc_manycore_vcache_apply_to_npa_range` computes the address of each line and does not use it: a
   DMA read of a range of several lines returns stale words (`dma_range`; `dma_write` invalidates
   through the same loop).
5. The bounds of a group EVA's coordinates are off by one: the row just below the array of tiles passes
   the test, and it is the southern row of caches. A write to such an EVA stores to DRAM and returns
   success (`eva_group`). The calls of `eva_map` stay within the array's rows, or beyond its columns,
   where the next check (the network's size) refuses them.

6. `hb_mc_npa_to_eva` does not compare the address behind a cache with the room an EVA has for it. In a
   DRAM EVA, bit 31 says that it is one, and below it lie the column (2 or 3 bits), the north/south bit
   and the address: 28 bits of it on machines with four columns, 27 with eight. All machines of
   `src/machines` have addresses of 29 bits. The banks of `4x4_blocking_dramsim3_hbm2_512mb` (2^26 bytes) and
   `8x4_blocking_dramsim3_hbm2_4gb` (2^27) fit; those of `4x4_blocking_vcache_f1_model` and
   `4x4_infinite_memory` (2^29) do not, and bit 28 of an address is or-ed onto bit 31, where it is lost: the
   call returns success and the EVA of an address 2^28 lower (`eva_width`).

Seen on the way, without a run of their own: `rx_fifo_get_occupancy` means to refuse a FIFO whose words
are no whole packets but compares a constant with itself, so that a process killed in the middle of a
packet leaves its successor misaligned (`OwnPackets` excludes that case); `MemoryManager::reserve` of
the front of a free buffer would lose the rest (no caller).

## 5. Proofs

All theorems hold for every value of the constants, from the named assumptions of the modules only.

`TileGroups_proofs` (every mesh, every set of kernels, any `MaxGroups`, `MaxFaults`, `MaxPrints`):

- `TypesHold`: `Spec => []TypeOK`, including that the list of groups has room for the groups in it.
  `TypeOK` is not inductive: `cur` stays within the list during a launch only because the host
  launches what it has just placed. `TypeInv` adds that (`LaunchesPlaced`).
- `TilesAreExclusive`: `Spec => []ExclusiveTiles`. With `TypeInv` it is inductive as it stands: a
  claim takes free tiles only (`ClaimedWasFree`), tiles of placed groups are busy, so the new
  rectangle is disjoint from all others (`ClaimExclusive`); giving back one group's tiles takes none
  from another (`DeallocateExclusive`) since they share none. Failed calls leave tiles busy,
  which keeps the invariant.
- `FinishPacketsDiffer`: `Spec => []FinishIdentifiesGroup`. Finish addresses repeat; but packets also
  carry the origin, every group holds its origin tile (`OriginIsHeld`), and two launched groups
  share no tile.
- `WaitHasLaunchedGroup`: `Spec => []WaitIsForSomeone`. `WaitInv` says, as long as nothing has
  failed, that every busy tile belongs to a placed group, that a sweep starts only when a group
  is unfinished, and that a group that fits and was passed over in this sweep has some other group
  placed. The step that needs it is `SkipGroup`: with no group placed all tiles are free and the
  mesh's own origin is room for whatever fits (`RoomWhenNonePlaced`).

- `RunsInOrder`: `Spec => []RunInv`, which follows each tile through a launch: a tile that runs or may
  start holds the symbols of the placed group it belongs to (`HeldTilesRun`); during a launch the tiles
  still to come are at rest, in the order of their index (`LaunchesInOrder`, `IndexInjective`); a group
  whose launch failed never started its last tile, so it never sends a finish packet
  (`AllocatedIsIncomplete`); a finish packet in the FIFO belongs to a launched group whose tiles are at
  rest, and there is one of each (`SignalsOfIdleGroups`, `SignalsDiffer`).
- `TilesRunForTheirGroup` and `SymbolsDoNotChange` (`RunsForItsGroup`, `SymbolsStable`) follow: the
  host writes symbols only of tiles that are at rest.
- `SchedulerImplementsGridExecution`: initial states map to initial states and every step to a step or
  a stutter of `GridExecution`; it needs that a packet names one group and that a finished group's
  packet has left the FIFO.

`Device_proofs` (every array, list of responders, set of binaries; any `MaxEvents`):

- `BarIsReleased`: `Spec => []BarReleased`, and `RespondersAnswerWhenReady`:
  `Spec => []AnswersWhenReady`. Both follow from `HostInv`: where the host thread can be in each session
  (`PlaceInv`), what is attached and mapped there (`BarInv`), the list and the iterator (`ListInv`), and
  which responders are ready in a walk and in an open session (`ReadyInv`). Removal needs that the list
  names each responder once (`RemovedFromList`).

`Device_memory` (every array, mesh asked for, binary, packet length and FIFO size; any `MaxEvents`):

- `WritesFindTilesFrozen` and `TilesAreStopped`: `Spec => []FrozenWhileWritten`, `Spec => []TilesStopped`, from
  `MemoryInv`. `FrozenWhileWritten` alone is not inductive: a write is added to the end of what is under way
  to a tile, so the invariant says what a tile's freeze register will hear *last* in each place of
  `program_init` (`FreezeInv`), which tiles may run between calls (`StopInv`), that the mesh names each tile
  once, or starting one tile would say something of another (`MeshInv`), and that the walks through tiles, segments and symbols
  are inside their lists, so that what is written is inside the memory it is meant for (`LoadInv`, `MemInv`): a segment that
  ran past a tile's memory would reach its freeze register. A failed call has sent any prefix of its
  writes; `Control` and `Content` are the lists any prefix of which keeps the invariant (`SendEffect`).
- `PacketsAreOwn`: `Spec => []OwnPackets`. What the host has read of a packet and what is in the FIFO are
  together one list of whole packets (`StreamInv`, stated from word to word so that reading a word leaves
  it as it is); after init's drain they are of this session, because the drain ends with an empty FIFO
  or an error, and until a tile is started in this session all are frozen (`RunsInv`, from `TilesStopped`).
- `TypeCorrect`: `Spec => []TypeOK`, from all of these and `DrainInv`, `FifoInv`.
- The lemmas are about lists of any length: what `Sent` and `ForEach` select and collect (recursive
  functions: `BuiltExists`, then induction over a set of numbers), what a freeze register hears last when
  a list is sent or a write arrives (`FreezeInSame`, `FreezeInArrives`), and that a mesh of tiles is a list that names
  each tile once (`MeshOfTiles`, from division).

`Device_image` (every array, mesh asked for, binary; any `MaxEvents`):

- `TilesStartWithTheirImage`: `Spec => StartsWithItsImage`, from `ImageInvariant`. Loading sends most of its
  writes without looking back, a failed call has sent any prefix of them, and tiles of a load before may run
  and store meanwhile. So the invariant does not say what memories hold, but what they hold or *will* hold:
  `Holds(n, a, v)` says that the last write under way to address `a` of node `n` has value `v`, or none
  goes there and `v` is there; and in the part of a tile's memory that programs write to, that the tile is frozen
  for as long as the value is there already.
- `WalkInv` says how far each stage of `program_init` can be and what it has found loadable. `ImageInv`
  says what is held at each stage: the words of the segments passed, tile by tile, and of the text
  behind the icache (`SegmentsHeld`, `IcachesHeld`), the symbols (`SymbolsHeld`, `PointerHeld`), the
  registers (`OriginsHeld`, `EnablesHeld`, `TagsHeld`). Each write must leave alone what is held before:
  two words of the tiles' and of DRAM's addresses are the same place only if they are the same address
  of the same tile (or of DRAM), so writes to other segments and symbols keep it (`LayoutAssumption`). Data in DRAM is
  held only as long as no program of this session has run, which may store to it; text is held throughout.
- `StartInv` is the bridge to the property, which speaks of the step at which a tile starts. The next write that
  reaches a tile may be the one that starts it long after the host has moved on, even failed and begun the next
  load. It says of such a tile that all of its image is in its own memory, and, unless a freeze is right
  behind, that nothing is under way to DRAM and the text is there (`StartingInv`): the fence behind
  a tile's kernel pointer waits for all that was sent before, so an unfreeze is always the first write under
  way to its tile (`FirstInv`).
- The lemmas are about lists of writes: which addresses those of `EvaWrites`, `ZeroWrites` and the icache
  touch and what they leave there (`EvaWords`, `SegmentWords`), that sending a list that sets a word makes it
  held and one that skips it keeps it held, and so does the arrival of a write.

`MemoryManager_proofs` (every range, alignment, threshold, set of sizes; `Start` is aligned, `Size` need not
be):

- `HeapHolds`: `Spec => []HeapInv`. The free list has aligned, non-empty buffers that do not overlap
  (`FreeInv`), the busy ones likewise (`BusyInv`), the bytes of both are the managed range, each once
  (`CoverInv`), the free size is the number of free bytes (`CountInv`), and a list longer than the
  threshold has no neighbours (`CoalescedInv`). The last part needs that an allocation makes none
  (`CutList`), as coalescing is done only when a buffer is freed.
- `RangeIsPartitioned`, `FreeSizeExact`, `LongListCoalesced`, `TypeCorrect` follow
  (`BuffersPartitionRange`, `FreeSizeIsExact`, `LongListIsCoalesced`, `TypeOK`): the sum of the lengths is the
  number of free bytes as buffers do not overlap (`SumIsCount`).
- The lemmas under them are about the algorithms, for lists of any length: `Padded` is a multiple of the
  alignment (`PaddedSize`); sorting by places is a permutation in order (`SortedList`); `Coalesce` keeps
  the bytes and leaves a gap behind every buffer (`CoalesceList`). A fold is shown to have a solution
  (`FoldExists`) and to be the last of a sequence of intermediate results; induction is over a *set* of
  numbers (`SetInduction`, from the well-foundedness of `<`), which needs no operator as a parameter.

`HostLink_proofs` (every set of words and homes, any number of ids, credits and calls):

- `TypeCorrect`: `Spec => []TypeOK`. The bounds of the credits need their conservation: `LinkInv` adds to
  the types what a call may look like (`CallInv`) and that credits and requests in the network add up
  (`CreditInv`), counted by the places of the requests in the queues.
- `FencedStores`: `FencedStoresPerformed`, if the fence's uninitialized locals do not hold what it waits
  for (`CleanLocals`; the run `host_fence` is the other case). `FenceInv`: when the first counter was full
  the FIFO was empty, and it stays so as the host sends nothing; when the second is full too the network
  is empty. `StoresInv`: the last store on its way to a word, or else its memory, holds what was last
  written; requests to one home arrive in order.
- `NoUnderflow`, `StoresFindRoom` (`NeverUnderflows`, `StoreHasRoom`), if no gather read is refused midway
  (`WholeReads`; the run `host_stale_response` is the other case). `LoadsInv`: the loads under way are
  those a read has sent and not received, and the cached count covers them and the FIFO. `RoomInv`: a
  store is sent only after the count was below the FIFO's size.

- Under `WholeReads` too, `NoIdTwice` (`IdsFreeOrInFlight`): there are as many places for ids (stack, FIFO, network, responses) as
  ids, and every id has one, so each has exactly one (`IdsInv`).
- `ReadsAreRight` (`ReadsReturnMemory`): no store follows a load (`OrderInv`), a response finds the entry its
  load wrote (`AnswersInv`), and each word of the buffer has been received, or its load is under way
  (`BufferInv`).

`EvaTransfer_proofs` (every mesh, widths of the fields of an EVA, stripe, cache and bank size, registers, and any
sets of calls and questions):

- `TransfersImplementLinearMemory`: `Spec => ImplementsLinearMemory`, and `TypeCorrect`: `Spec => []TypeOK`, under two
  hypotheses, which the constants of `eva_map` satisfy. `ColumnsFillField`: the number of columns is a power
  of two. `RowsAreOfTiles`: no address of a call names a row of caches or of the I/O by a group or global EVA
  (the run `eva_group` is the other case). What carries the proof is `Segments`: from an EVA that the map and the
  transfer take, the words up to the end of the segment are *places* that follow each other in one node,
  and an EVA that is refused names nothing. The invariant (`TransferInv`) says where the loop is: the address
  follows from what is left of the call (`AtItsPlace`), so that the words to come can be named; a turn takes the
  words of the segment from the front of them (`TurnOfTodo`).
- DRAM, for any stripe and number of columns: the offset is its parts, stripe behind a cache, row of caches,
  column and byte (`BankParts`), so no two words share a cell (`BankAgain`, `HeldApart`); what lies behind the caches is
  what lies below the end of DRAM (`DramReached`); the rest of a stripe is at the next addresses of the same cache
  and the next stripe starts where it ends (`DramSame`, `DramSegments`).
- `NpasComeBack`: `Spec => []RoundTrip`, without those hypotheses: NPAs that have room come back (all but
  the upper half of each bank on the two machines of finding 6). `BeyondRoomIsLower` is the other half: the EVA
  of any NPA beyond the room names the address without the bits that do not fit, behind the same cache.
- The lemmas under them: `pow2` exists and has its values (`Pow2Is`, by induction over a set of numbers, as a
  recursive definition says nothing by itself), a shift by a sum (`Pow2Sum`), quotients of quotients and of
  numbers in one block (`QuotientOfQuotient`, `SameBlock`), the zones of the EVAs by their top bits (`Zones`).
- Nothing is assumed of how wide the addresses behind a cache are, except that a stripe fits (`EvaAssumption`):
  `ReachBits` is the lesser of their width and the room, and DRAM is what EVAs reach of it (`ReachWithin`,
  `AllReached`). Wider ones, as all of `src/machines` have, are or-ed past the room (`EpaTop`); narrower ones
  leave bits unused, which the map tests (`DramTested`).

`VCacheDma_proofs` (any number of banks, ways, lines, words and calls), when the range of each DMA access
lies in one line (`OneLine`; the run `dma_range` is the other case):

- `TypeCorrect`, `CoherentCaches`, `ReadLatest`, `TilesReadLatest` (`TypeOK`, `Coherent`, `ReadsLatest`,
  `TilesLoadLatest`). The invariant says of each word not in doubt what it will be when the requests on
  their way to its cache are served (`CellsInv`). It rests on their order, drops before stores before flushes
  before the load that is waited for (`QueueInv`), and on what flushes still to be served leave in
  DRAM (`FlushInv`): tiles may load, store and evict at any point between them.

Only model-checked:

- the liveness properties (`ExecuteFinishesAll`, `EveryCallReturns`, `CallsReturn`): fairness and ENABLED are
  out of the prover's reach.

## 6. Assumptions and limits

- A failing call of the model has no effect on the device besides what it wrote before; a write that
  reaches the device and still reports an error is not modelled. MMIO errors are not modelled in
  `HostLink`.
- `HostLink` assumes that the ROM's load capacity is at most twice the host credits plus one
  (`LinkAssumption`): a batch of loads must fit the two FIFOs and the register between them.
  `hb_mc_config_init` does not check this.
- `VCacheDma`: the caller of `hb_mc_manycore_dma_write` sees to it that the lines of the range are not
  dirty. Otherwise stores to neighbouring words are lost, or a write-back overwrites the transfer.
  `dma_to_device` needs no such care as it flushes first. Ranges of more than one line are checked
  in `dma_range` only, where the property fails.
- `EvaTransfer`: sizes are multiples of a word, and EVAs of DMA calls are aligned to words (the other
  calls need not be: unaligned ones are refused). NPAs asked about exist: `default_dram_epa_is_valid`
  compares with the size of a whole row of caches, not of one cache, and would accept more. The map lets through
  every EVA that the address bits can hold, without a look at the size of a bank, and so the model has a word for
  each address that an EVA reaches. The runs have the wide shape (addresses wider than the room); the narrow one,
  with bits unused and the test of `bsg_manycore_eva.cpp:412` failing, is covered by the theorems only.
  The number
  of columns is a power of two, as in every machine of `src/machines` (`ColumnsFillField`, a hypothesis of the
  theorems, not of the model); then the test `x > dram_max_x_coord`, which is off by one, never matters. A
  tile's memory is a whole number of words, at a word's address, and the registers lie outside it, as the
  constants of `bsg_manycore_tile.h` do (`EvaAssumption`). Stores to the I/O row are not transfers.
- `Device` starts a session when nothing is posted any more: reading the ROM takes far longer than
  writes are under way. `finish` does not fence its freezes, so a kill or a retry may overlap with them.
  That DRAM holds the program's data is claimed for the first tile started since all were frozen,
  without mishaps: after a failed load, tiles that still run may store to DRAM until their freeze arrives.
  And what DRAM holds is claimed only of a tile that is not about to be frozen again: nothing fences the
  last unfreeze of a load that fails, so the next load's text may be in DRAM before that tile starts,
  for the few cycles until it is frozen.
- `Loader`'s `Fence` is the fence of the run `host_link`, whose uninitialized locals do not happen to hold
  the awaited values (finding 2).
- `OwnPackets` is about sessions that follow a closed one. After a kill, which may be in the middle of reading a
  packet, it claims nothing; that the drain of the next init ends is claimed (`CallsReturn`).
- A process killed in the middle of sending a packet would misalign the transmit side too; the model's
  kill happens between packets sent.
- What the code does and no property objects to: a failed init leaves responders initialised;
  `hb_mc_manycore_exit` returns before its cleanup when a responder fails to quit; when the mesh's
  dimensions are refused the manycore stays attached and cannot be finished ("broken"); after an
  incomplete `program_init` a finish would free pointers nobody set, so programs of the model do not call
  it; `__bsg_id` is the sum of a tile's coordinates, as `program_load` makes each tile a group of its
  own; detaching errors are printed only; tiles outside the mesh asked for are left as they are.
- Programs come from a linker: the symbols that `program_load` writes lie in a tile's memory
  (`SymbolsAssumption`), no two of them and no two loaded segments share a word, and programs do not write to
  program text (`LayoutAssumption`; symbols may lie inside segments). Otherwise what a tile finds depends on the order of
  the segments in the file, which the loader does not look at.
- A binary with program headers has a segment of program text (`BinariesAssumption`): otherwise the
  loader would index with a variable it never set.

Not modelled, and why:

- configuration ROM and memory system: a table read once, its values are constants here; packets,
  coordinates, NPAs, printing: accessors and formatting without state; RTL: mostly wiring of modules
  that are not in the repository; tests, machines, build files: no logic of the runtime;
- `MemoryManager::reserve`, `reset` and `lookup`, `hb_mc_eva_size`, `default_npa_to_eva_dram_dep`: nothing
  calls them;
- `malloc` of the host failing (in `realloc` of the list of groups, in init): the calls after it would
  read through null pointers, which is no behaviour to state properties of;
- MMIO errors in `HostLink` and of a single cache operation, whose error is dropped: after them the
  counts of requests are unknown to the host and nothing is promised;
- two devices open at once: they share nothing but the list of responders.

## 7. Plan

A module is written so that it can be proved about (no RECURSIVE operators, constants with named
assumptions).

1. Done: `GridExecution`, `TileGroups` with its proofs and refinement, `MemoryManager`, `HostLink`,
   `VCacheDma` with failing jobs, `EvaMap` with `EvaTransfer` and `LinearMemory`, `Manycore`, `Loader`
   and `Device`, and the proofs of section 5.
2. Proofs left: liveness, when a prover for it is at hand. Every safety property of a passing run is a theorem.
3. MMIO errors in `HostLink`, if the code comes to promise anything after them.
