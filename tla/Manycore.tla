------------------------------ MODULE Manycore ------------------------------
(* A manycore's life: hb_mc_manycore_init and hb_mc_manycore_exit, draining   *)
(* the request FIFO, the responders, hb_mc_manycore_request_rx. And what they *)
(* talk to: the memories of tiles and caches, which posted writes reach in    *)
(* order, and the programs of tiles, which send packets while not frozen.     *)
(*                                                                            *)
(* pc says where the host thread is; a procedure that hb_mc_device_* calls    *)
(* ends at a pc from which module Device goes on.                             *)
EXTENDS Naturals, Sequences, FiniteSets

CONSTANTS Origin, ArrayDim, \* first coordinate and dimensions of the array of tiles
          Cache,        \* coordinate of the cache that holds the program
          DmemWords, IcacheWords, DramWords,
          Responders,   \* responders that may be in the list; each has packets of its own
          Linked,       \* the list when main starts (static constructors)
          PacketWords,  \* words of a packet (4)
          RxCapacity,   \* packets that fit into the request FIFO
          DrainRounds,  \* how often rx_fifo_drain reads the occupancy (20)
          Junk,         \* what memory holds before anybody writes it
          MaxEvents     \* bound: devices opened and calls that fail, together

(* Tiles of a mesh, in the order of their ids. *)
MeshTiles(dim) ==
    [i \in 1..dim[1] * dim[2] |->
        <<Origin[1] + ((i - 1) % dim[1]), Origin[2] + ((i - 1) \div dim[1])>>]
Array == MeshTiles(ArrayDim)
Tiles == {Array[i] : i \in DOMAIN Array}
Nodes == Tiles \cup {Cache}

ASSUME ArrayAssumption ==
    /\ Origin \in Nat \X Nat
    /\ ArrayDim \in (Nat \ {0}) \X (Nat \ {0})
    /\ Cache \in (Nat \X Nat) \ Tiles
ASSUME MemoryAssumption ==
    /\ DmemWords \in Nat \ {0}
    /\ IcacheWords \in Nat \ {0}
    /\ DramWords \in Nat \ {0}
    /\ Junk \in Nat
ASSUME RespondersAssumption ==
    /\ Linked \in Seq(Responders)
    /\ \A i, j \in DOMAIN Linked : Linked[i] = Linked[j] => i = j
ASSUME ManycoreBounds ==
    /\ PacketWords \in Nat \ {0}
    /\ RxCapacity \in Nat \ {0}
    /\ DrainRounds \in Nat \ {0}
    /\ MaxEvents \in Nat \ {0}

VARIABLES pc,           \* where the host thread is, "idle" between calls
          private_data, \* private_data and name point to allocated memory
          handle,       \* pdata->handle is that of an attached BAR
          attached,     \* BARs the driver has attached for this process
          mmio,         \* mc->mmio is mapped
          dram_enabled, \* mc->dram_enabled
          responders,   \* the global list
          ready,        \* responders whose responder_data is set
          it,           \* position in a list the host walks through
          why,          \* who drains: "init", "cleanup" or "exit"
          drains,       \* rounds of the drain
          occupancy,    \* packets still to be read in this round
          got,          \* words read of the packet that is being received
          rxq,          \* the words in the request FIFO
          posted,       \* posted[n]: writes to node n under way
          mem,          \* mem[n]: memory and registers of node n
          runs,         \* runs[t]: the session whose program tile t was started with
          epoch,        \* number of the session
          mishaps,      \* history: "died", a process was killed; "torn", a receive failed
          faults        \* failures so far

barVars == <<private_data, handle, attached, mmio>>
listVars == <<responders, ready>>
drainVars == <<why, drains, occupancy>>
fifoVars == <<got, rxq>>
nodeVars == <<posted, mem, runs>>
historyVars == <<epoch, mishaps>>
manycoreVars == <<pc, barVars, dram_enabled, listVars, it, drainVars, fifoVars, nodeVars,
                  historyVars, faults>>

(* Addresses: a tile's data memory, its registers, its instruction cache. *)
EPA_FREEZE == DmemWords
EPA_ORIGIN_X == DmemWords + 1
EPA_ORIGIN_Y == DmemWords + 2
EPA_DRAM_ENABLE == DmemWords + 3
EPA_ICACHE == DmemWords + 4
TileEpas == 0..EPA_ICACHE + IcacheWords - 1
(* And of a cache: DRAM, and its tags. *)
EPA_TAGS == DramWords
CacheEpas == 0..DramWords
Epas(n) == IF n \in Tiles THEN TileEpas ELSE CacheEpas

(* The FPGA's reset: tiles are frozen. *)
ManycoreInit ==
    /\ pc = "idle"
    /\ private_data = FALSE /\ handle = FALSE /\ attached = 0 /\ mmio = FALSE
    /\ dram_enabled = FALSE
    /\ responders = Linked /\ ready = {}
    /\ it = 1
    /\ why = "init" /\ drains = 0 /\ occupancy = 0
    /\ got = <<>> /\ rxq = <<>>
    /\ posted = [n \in Nodes |-> <<>>]
    /\ mem = [n \in Nodes |-> [a \in Epas(n) |->
                  IF n \in Tiles /\ a = EPA_FREEZE THEN 1 ELSE Junk]]
    /\ runs = [t \in Tiles |-> 0]
    /\ epoch = 0 /\ mishaps = {}
    /\ faults = 0

-----------------------------------------------------------------------------
(* Nodes, and posted writes.                                                  *)

(* A call to the driver, to the device or to a responder may fail. *)
Fault == epoch + faults < MaxEvents /\ faults' = faults + 1
NoFault == faults' = faults

(* Back in the program. Locals of procedures have their first values there. *)
Return == pc' = "idle" /\ it' = 1

(* A write is sent without waiting: writes to one node arrive in order, those *)
(* to different nodes in any order.                                           *)
Write(n, epa, val) == [to |-> n, epa |-> epa, val |-> val]
FreezeTile(t) == <<Write(t, EPA_FREEZE, 1)>>
UnfreezeTile(t) == <<Write(t, EPA_FREEZE, 0)>>
SetOrigin(t, o) == <<Write(t, EPA_ORIGIN_X, o[1]), Write(t, EPA_ORIGIN_Y, o[2])>>
SetDramEnabled(t) == <<Write(t, EPA_DRAM_ENABLE, 1)>>
ClearDramEnabled(t) == <<Write(t, EPA_DRAM_ENABLE, 0)>>

(* Those of a list of writes that go to node n, in their order. *)
Sent(writes, n) ==
    LET f[i \in 0..Len(writes)] ==
            IF i = 0 THEN <<>>
            ELSE IF writes[i].to = n THEN Append(f[i - 1], writes[i]) ELSE f[i - 1]
    IN f[Len(writes)]
Post(writes) == posted' = [n \in Nodes |-> posted[n] \o Sent(writes, n)]
(* Writes sent one after the other until one cannot be sent. *)
PostSome(writes) == \E n \in 0..Len(writes) - 1 : Post(SubSeq(writes, 1, n))
(* What a block write waits for before it returns. *)
Quiet == \A n \in Nodes : posted[n] = <<>>

Deliver(n) ==
    /\ posted[n] # <<>>
    /\ LET w == Head(posted[n]) IN
         /\ mem' = [mem EXCEPT ![n][w.epa] = w.val]
         /\ runs' = IF n \in Tiles /\ w.epa = EPA_FREEZE /\ w.val = 0
                    THEN [runs EXCEPT ![n] = epoch] ELSE runs
    /\ posted' = [posted EXCEPT ![n] = Tail(@)]
    /\ UNCHANGED <<pc, barVars, dram_enabled, listVars, it, drainVars, fifoVars, historyVars,
                   faults>>

Frozen(t) == mem[t][EPA_FREEZE] = 1

(* A running program sends a packet, at any time. It enters the FIFO whole. *)
PacketOf(t, r) == [i \in 1..PacketWords |-> [epoch |-> runs[t], kind |-> r, word |-> i]]
Send(t) ==
    /\ ~Frozen(t)
    /\ Len(rxq) + PacketWords <= RxCapacity * PacketWords
    /\ \E r \in Responders : rxq' = rxq \o PacketOf(t, r)
    /\ UNCHANGED <<pc, barVars, dram_enabled, listVars, it, drainVars, got, nodeVars,
                   historyVars, faults>>

-----------------------------------------------------------------------------
(* hb_mc_manycore_init: attach the BAR, map it, read the ROM, drain, ready    *)
(* the responders, enable DRAM. Each step may fail.                           *)

StartInit ==
    /\ private_data' = TRUE
    /\ handle' = FALSE /\ mmio' = FALSE /\ UNCHANGED attached
    /\ dram_enabled' = FALSE
    /\ pc' = "attach"

StartDrain(by) == pc' = "drain" /\ why' = by /\ drains' = 0 /\ occupancy' = 0
InitFails == StartDrain("cleanup")

Attach ==
    /\ pc = "attach"
    /\ \/ NoFault /\ attached' = attached + 1 /\ handle' = TRUE /\ pc' = "map"
          /\ UNCHANGED drainVars
       \/ Fault /\ InitFails /\ UNCHANGED <<attached, handle>>
    /\ UNCHANGED <<private_data, mmio, dram_enabled, listVars, it, fifoVars, nodeVars,
                   historyVars>>

(* (variant) the handle is not reset *)
DetachKeepsHandle == attached' = attached - 1 /\ UNCHANGED handle
Detach == attached' = attached - 1 /\ handle' = FALSE

(* The address of the BAR; without it init_mmio detaches by itself. *)
MapBar ==
    /\ pc = "map"
    /\ \/ NoFault /\ mmio' = TRUE /\ pc' = "config" /\ UNCHANGED <<attached, handle, drainVars>>
       \/ Fault /\ Detach /\ InitFails /\ UNCHANGED mmio
    /\ UNCHANGED <<private_data, dram_enabled, listVars, it, fifoVars, nodeVars, historyVars>>

(* (variant) the request FIFO is not drained *)
InitConfigUndrained ==
    /\ pc = "config"
    /\ \/ NoFault /\ pc' = "responders_init" /\ UNCHANGED drainVars
       \/ Fault /\ InitFails
    /\ UNCHANGED <<barVars, dram_enabled, listVars, it, fifoVars, nodeVars, historyVars>>

InitConfig ==
    /\ pc = "config"
    /\ \/ NoFault /\ StartDrain("init")
       \/ Fault /\ InitFails
    /\ UNCHANGED <<barVars, dram_enabled, listVars, it, fifoVars, nodeVars, historyVars>>

(* What a responder's init and quit do to its responder_data. *)
SetUp(r) == ready' = ready \cup {r}
ShutDown(r) == ready' = ready \ {r}

(* (variant) the walk ends before the last responder *)
WalkedEarly == it >= Len(responders)
Walked == it > Len(responders)

RespondersInit ==
    /\ pc = "responders_init"
    /\ IF Walked
       THEN NoFault /\ pc' = "enable_dram" /\ it' = 1 /\ UNCHANGED <<ready, drainVars>>
       ELSE \/ NoFault /\ SetUp(responders[it]) /\ it' = it + 1
               /\ UNCHANGED <<pc, drainVars>>
            \/ Fault /\ InitFails /\ it' = 1 /\ UNCHANGED ready
    /\ UNCHANGED <<barVars, dram_enabled, responders, fifoVars, nodeVars, historyVars>>

(* The writes of a list of tiles, in its order. *)
ForEach(tiles, writes) ==
    LET f[i \in 0..Len(tiles)] == IF i = 0 THEN <<>> ELSE f[i - 1] \o writes[tiles[i]]
    IN f[Len(tiles)]

EnableDram ==
    /\ pc = "enable_dram"
    /\ LET writes == ForEach(Array, [t \in Tiles |-> SetDramEnabled(t)]) IN
       \/ NoFault /\ Post(writes) /\ dram_enabled' = TRUE
          /\ pc' = "initialized" /\ UNCHANGED drainVars
       \/ Fault /\ PostSome(writes) /\ InitFails /\ UNCHANGED dram_enabled
    /\ UNCHANGED <<barVars, listVars, it, fifoVars, mem, runs, historyVars>>

-----------------------------------------------------------------------------
(* Reading the request FIFO, word by word.                                    *)

(* (variant) the occupancy is taken for a number of packets as it is *)
Words == Len(rxq)
(* The occupancy is in packets, rounded down. *)
Packets == Len(rxq) \div PacketWords

(* The next word of a packet; its first one is waited for. *)
ReadWord ==
    /\ got = <<>> => Packets >= 1
    /\ rxq # <<>>
    /\ rxq' = Tail(rxq)

(* Without MMIO the first read of a drain fails. *)
DrainReturns(ok) ==
    /\ drains' = 0 /\ occupancy' = 0
    /\ IF why # "init"
       THEN pc' = "cleanup" /\ UNCHANGED why
       ELSE IF ok
            THEN pc' = "responders_init" /\ UNCHANGED why
            ELSE InitFails

DrainOccupancy ==
    /\ pc = "drain"
    /\ \/ /\ mmio /\ NoFault
          /\ pc' = IF Packets = 0 THEN "drain_check" ELSE "drain_packet"
          /\ occupancy' = Packets
          /\ UNCHANGED <<why, drains>>
       \/ mmio /\ Fault /\ DrainReturns(FALSE)
       \/ ~mmio /\ NoFault /\ DrainReturns(FALSE)
    /\ UNCHANGED <<barVars, dram_enabled, listVars, it, fifoVars, nodeVars, historyVars>>

(* A read that fails in the middle of a packet leaves the rest in the FIFO. *)
Torn == mishaps' = IF got = <<>> THEN mishaps ELSE mishaps \cup {"torn"}

EndRound ==
    /\ drains' = drains + 1
    /\ pc' = IF drains + 1 < DrainRounds THEN "drain" ELSE "drain_check"

DrainWord ==
    /\ pc = "drain_packet"
    /\ \/ /\ NoFault /\ ReadWord
          /\ IF Len(got) + 1 < PacketWords
             THEN got' = Append(got, Head(rxq)) /\ UNCHANGED <<pc, drains, occupancy>>
             ELSE /\ got' = <<>>
                  /\ occupancy' = occupancy - 1
                  /\ IF occupancy > 1 THEN UNCHANGED <<pc, drains>> ELSE EndRound
          /\ UNCHANGED <<why, mishaps>>
       \/ Fault /\ Torn /\ got' = <<>> /\ DrainReturns(FALSE) /\ UNCHANGED rxq
    /\ UNCHANGED <<barVars, dram_enabled, listVars, it, nodeVars, epoch>>

DrainCheck ==
    /\ pc = "drain_check"
    /\ \/ NoFault /\ DrainReturns(Packets = 0)
       \/ Fault /\ DrainReturns(FALSE)
    /\ UNCHANGED <<barVars, dram_enabled, listVars, it, fifoVars, nodeVars, historyVars>>

(* hb_mc_manycore_request_rx, called with pc = "rx". *)
ReceiveWord ==
    /\ pc = "rx"
    /\ \/ /\ NoFault /\ ReadWord
          /\ got' = Append(got, Head(rxq))
          /\ pc' = IF Len(got) + 1 < PacketWords THEN "rx" ELSE "respond"
          /\ UNCHANGED mishaps
       \/ Fault /\ Torn /\ got' = <<>> /\ pc' = "idle" /\ UNCHANGED rxq
    /\ UNCHANGED <<barVars, dram_enabled, listVars, it, drainVars, nodeVars, epoch>>

(* The address, by which responders know their packets, is in the last word. *)
Matches(r) == got[PacketWords].kind = r

(* Responders see the packet in the order of the list. An error ends that; it *)
(* is printed and request_rx succeeds all the same.                           *)
Respond ==
    /\ pc = "respond"
    /\ IF Walked
       THEN NoFault /\ Return /\ got' = <<>>
       ELSE \/ NoFault /\ it' = it + 1 /\ UNCHANGED <<pc, got>>
            \/ Matches(responders[it]) /\ Fault /\ Return /\ got' = <<>>
    /\ UNCHANGED <<barVars, dram_enabled, listVars, drainVars, rxq, nodeVars, historyVars>>

-----------------------------------------------------------------------------
(* hb_mc_manycore_exit, from responders_quit, and the end of a failed init.   *)

StartExit == pc' = "responders_quit"

RespondersQuit ==
    /\ pc = "responders_quit"
    /\ IF Walked
       THEN NoFault /\ StartDrain("exit") /\ it' = 1 /\ UNCHANGED ready
       ELSE \/ NoFault /\ ShutDown(responders[it]) /\ it' = it + 1
               /\ UNCHANGED <<pc, drainVars>>
            \/ Fault /\ Return /\ UNCHANGED <<ready, drainVars>>
    /\ UNCHANGED <<barVars, dram_enabled, responders, fifoVars, nodeVars, historyVars>>

CleanupMmio ==
    /\ pc = "cleanup"
    /\ IF handle
       THEN Detach /\ mmio' = FALSE
       ELSE UNCHANGED <<attached, handle, mmio>>
    /\ private_data' = FALSE
    /\ pc' = IF why = "exit" THEN "exited" ELSE "idle"
    /\ why' = "init"
    /\ UNCHANGED <<dram_enabled, listVars, it, drains, occupancy, fifoVars, nodeVars, historyVars,
                   faults>>

-----------------------------------------------------------------------------
(* What a program may call between calls of the device.                       *)

(* Adding a responder at the front; with the manycore open the program inits  *)
(* it, and removes it if that fails.                                          *)
ResponderAdd(r) ==
    /\ \A i \in DOMAIN responders : responders[i] # r
    /\ \/ /\ NoFault
          /\ responders' = <<r>> \o responders
          /\ IF mmio THEN SetUp(r) ELSE UNCHANGED ready
       \/ mmio /\ Fault /\ UNCHANGED listVars
    /\ UNCHANGED <<pc, barVars, dram_enabled, it, drainVars, fifoVars, nodeVars, historyVars>>

(* std::list::remove; the list names no responder twice *)
Without(list, i) == SubSeq(list, 1, i - 1) \o SubSeq(list, i + 1, Len(list))

(* Removing one: with the manycore open the program makes it quit first. *)
ResponderDel(r) ==
    /\ \E i \in DOMAIN responders : responders[i] = r
    /\ \/ /\ NoFault
          /\ \E i \in DOMAIN responders :
                responders[i] = r /\ responders' = Without(responders, i)
          /\ ShutDown(r)
       \/ mmio /\ Fault /\ UNCHANGED listVars
    /\ UNCHANGED <<pc, barVars, dram_enabled, it, drainVars, fifoVars, nodeVars, historyVars>>

DisableDram ==
    /\ LET writes == ForEach(Array, [t \in Tiles |-> ClearDramEnabled(t)]) IN
       \/ NoFault /\ Post(writes) /\ dram_enabled' = FALSE
       \/ Fault /\ PostSome(writes) /\ UNCHANGED dram_enabled
    /\ UNCHANGED <<pc, barVars, listVars, it, drainVars, fifoVars, mem, runs, historyVars>>

ManycoreStep ==
    \/ Attach \/ MapBar \/ InitConfig \/ RespondersInit \/ EnableDram
    \/ DrainOccupancy \/ DrainWord \/ DrainCheck
    \/ ReceiveWord \/ Respond
    \/ RespondersQuit \/ CleanupMmio

=============================================================================
