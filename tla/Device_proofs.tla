---------------------------- MODULE Device_proofs ----------------------------
(***************************************************************************)
(* Theorems about Device, for every array of tiles, every set of binaries  *)
(* and responders, and any number of devices opened and calls that fail:   *)
(* the BAR is attached at most once and released by a failed init and by a *)
(* finish, and responders answer only between their init and their quit.   *)
(* Both follow from one inductive invariant of the host thread, HostInv.   *)
(***************************************************************************)
EXTENDS Device, TLAPS

DrainPcs == {"drain", "drain_packet", "drain_check"}
InitPcs == DrainPcs \cup {"attach", "map", "config", "responders_init", "enable_dram",
                          "initialized", "cleanup"}
LoadPcs == {"freeze", "load", "tiles_initialize", "validate_vcache", "segment", "zeros",
            "icache", "config_symbols", "unfreeze", "unfreeze_tile", "fence"}

\* Where the host thread can be, given what the program may do with the device.
PlaceInv ==
  /\ session = "none" => pc \in InitPcs \cup {"idle"} /\ why # "exit"
  /\ pc \in InitPcs => session \in {"none", "closing"}
  /\ pc \in LoadPcs => session = "open"
  /\ pc \in {"rx", "respond"} => session = "loaded"
  /\ pc \in {"responders_quit", "exited"} => session = "closing"
  /\ pc = "exited" => why # "exit"
  /\ pc = "fence" => after \in LoadPcs \ {"fence"}

\* The BAR is attached when the handle says so, and mapped only then; it is mapped while a
\* session is open, and init drains only what it has mapped.
BarInv ==
  /\ handle \in BOOLEAN /\ mmio \in BOOLEAN
  /\ attached = IF handle THEN 1 ELSE 0
  /\ mmio => handle
  /\ pc \in {"attach", "exited"} => ~handle
  /\ pc = "idle" /\ session = "none" => ~handle
  /\ pc = "map" => handle /\ ~mmio
  /\ pc \in {"config", "responders_init", "enable_dram", "initialized"} => mmio
  /\ pc \in DrainPcs /\ why = "init" => mmio
  /\ session \in {"open", "loaded"} => mmio

\* The list names each responder once, and a walk through it starts at its front.
ListInv ==
  /\ responders \in Seq(Responders)
  /\ \A i, j \in DOMAIN responders : responders[i] = responders[j] => i = j
  /\ it \in Nat \ {0}
  /\ pc \notin {"responders_init", "respond", "responders_quit"} \cup LoadPcs => it = 1

\* Init has readied the responders it has passed; in an open session all are ready.
ReadyInv ==
  /\ pc = "responders_init" => \A i \in DOMAIN responders : i < it => responders[i] \in ready
  /\ pc \in {"enable_dram", "initialized"} \/ session \in {"open", "loaded"} =>
       \A i \in DOMAIN responders : responders[i] \in ready

HostInv == PlaceInv /\ BarInv /\ ListInv /\ ReadyInv

LEMMA InitHostInv == Init => HostInv
<1> SUFFICES ASSUME Init PROVE HostInv
  OBVIOUS
<1>1. /\ pc = "idle" /\ session = "none" /\ why = "init" /\ it = 1
      /\ handle = FALSE /\ mmio = FALSE /\ attached = 0 /\ responders = Linked
  BY DEF Init, ManycoreInit
<1>2. PlaceInv
  BY <1>1 DEF PlaceInv, DrainPcs, InitPcs, LoadPcs
<1>3. BarInv
  BY <1>1 DEF BarInv, DrainPcs
<1>4. ListInv
  BY <1>1, RespondersAssumption DEF ListInv
<1>5. ReadyInv
  BY <1>1 DEF ReadyInv
<1>6. QED
  BY <1>2, <1>3, <1>4, <1>5 DEF HostInv

\* Steps of the network and of tiles.
LEMMA HostKept ==
  ASSUME HostInv, UNCHANGED <<pc, barVars, listVars, it, why, after, session>>
  PROVE  HostInv'
BY DEF HostInv, PlaceInv, BarInv, ListInv, ReadyInv, barVars, listVars

\* Steps of program_init: on to another place in it, or back in the program.
LEMMA LoadKept ==
  ASSUME HostInv, UNCHANGED <<barVars, listVars, why, session>>, pc \in LoadPcs,
         \/ pc' \in LoadPcs /\ it' \in {it, it + 1, 1} /\ (pc' = "fence" => after' \in LoadPcs \ {"fence"})
         \/ pc' = "idle" /\ it' = 1
  PROVE  HostInv'
BY DEF HostInv, PlaceInv, BarInv, ListInv, ReadyInv, barVars, listVars,
       DrainPcs, InitPcs, LoadPcs

\* Draining ends in the cleanup, or goes on with init.
LEMMA DrainKept ==
  ASSUME HostInv, UNCHANGED <<barVars, listVars, it, after, session>>, pc \in DrainPcs,
         \/ pc' \in DrainPcs /\ why' = why
         \/ DrainReturns(FALSE)
         \/ mmio /\ DrainReturns(TRUE)
  PROVE  HostInv'
<1>1. CASE pc' \in DrainPcs /\ why' = why
  BY <1>1 DEF HostInv, PlaceInv, BarInv, ListInv, ReadyInv, barVars, listVars,
         DrainPcs, InitPcs, LoadPcs
<1>2. CASE why # "init" /\ pc' = "cleanup" /\ why' = why
  BY <1>2 DEF HostInv, PlaceInv, BarInv, ListInv, ReadyInv, barVars, listVars,
         DrainPcs, InitPcs, LoadPcs
<1>3. CASE mmio /\ why = "init" /\ pc' = "responders_init" /\ why' = why
  BY <1>3 DEF HostInv, PlaceInv, BarInv, ListInv, ReadyInv, barVars, listVars,
         DrainPcs, InitPcs, LoadPcs
<1>4. CASE why = "init" /\ pc' = "drain" /\ why' = "cleanup"
  BY <1>4 DEF HostInv, PlaceInv, BarInv, ListInv, ReadyInv, barVars, listVars,
         DrainPcs, InitPcs, LoadPcs
<1>5. QED
  BY <1>1, <1>2, <1>3, <1>4 DEF DrainReturns, InitFails, StartDrain

\* hb_mc_manycore_init, apart from draining.
LEMMA InitSteps ==
  ASSUME HostInv, Attach \/ MapBar \/ InitConfig \/ RespondersInit \/ EnableDram,
         UNCHANGED <<loaderVars, deviceVars>>
  PROVE  HostInv'
<1> USE DEF HostInv, PlaceInv, DrainPcs, InitPcs, LoadPcs, loaderVars, loadVars, deviceVars
<1>1. CASE Attach
  <2>1. /\ pc = "attach" /\ UNCHANGED <<mmio, responders, ready, it, after, session>>
        /\ \/ pc' = "map" /\ attached' = attached + 1 /\ handle' = TRUE /\ why' = why
           \/ pc' = "drain" /\ why' = "cleanup" /\ attached' = attached /\ handle' = handle
    BY <1>1 DEF Attach, InitFails, StartDrain, drainVars, listVars
  <2>2. PlaceInv'
    BY <2>1
  <2>3. BarInv'
    <3>1. ~handle /\ attached = 0 /\ ~mmio /\ session \in {"none", "closing"}
      BY <2>1 DEF BarInv
    <3>2. CASE pc' = "map" /\ attached' = attached + 1 /\ handle' = TRUE
      BY <2>1, <3>1, <3>2 DEF BarInv
    <3>3. CASE pc' = "drain" /\ why' = "cleanup" /\ attached' = attached /\ handle' = handle
      BY <2>1, <3>1, <3>3 DEF BarInv
    <3>4. QED
      BY <2>1, <3>2, <3>3
  <2>4. ListInv' /\ ReadyInv'
    BY <2>1 DEF ListInv, ReadyInv
  <2>5. QED
    BY <2>2, <2>3, <2>4
<1>2. CASE MapBar
  <2>1. /\ pc = "map" /\ UNCHANGED <<responders, ready, it, after, session>>
        /\ \/ /\ pc' = "config" /\ mmio' = TRUE /\ why' = why
              /\ attached' = attached /\ handle' = handle
           \/ /\ pc' = "drain" /\ why' = "cleanup" /\ mmio' = mmio
              /\ attached' = attached - 1 /\ handle' = FALSE
    BY <1>2 DEF MapBar, Detach, InitFails, StartDrain, drainVars, listVars
  <2>2. PlaceInv'
    BY <2>1
  <2>3. BarInv'
    <3>1. handle /\ attached = 1 /\ ~mmio /\ session \in {"none", "closing"}
      BY <2>1 DEF BarInv
    <3>2. CASE pc' = "config" /\ attached' = attached /\ handle' = handle /\ mmio' = TRUE
      BY <2>1, <3>1, <3>2 DEF BarInv
    <3>3. CASE /\ pc' = "drain" /\ why' = "cleanup" /\ mmio' = mmio
               /\ attached' = attached - 1 /\ handle' = FALSE
      <4>1. attached' = 0
        BY <3>1, <3>3
      <4>2. QED
        BY <2>1, <3>1, <3>3, <4>1 DEF BarInv
    <3>4. QED
      BY <2>1, <3>2, <3>3
  <2>4. ListInv' /\ ReadyInv'
    BY <2>1 DEF ListInv, ReadyInv
  <2>5. QED
    BY <2>2, <2>3, <2>4
<1>3. CASE InitConfig
  <2>1. /\ pc = "config" /\ UNCHANGED <<barVars, listVars, it, after, session>>
        /\ pc' = "drain" /\ why' \in {"init", "cleanup"}
    BY <1>3 DEF InitConfig, InitFails, StartDrain
  <2>2. PlaceInv' /\ BarInv'
    BY <2>1 DEF BarInv, barVars
  <2>3. ListInv' /\ ReadyInv'
    BY <2>1 DEF ListInv, ReadyInv, listVars
  <2>4. QED
    BY <2>2, <2>3
<1>4. CASE RespondersInit
  <2>1. /\ pc = "responders_init" /\ UNCHANGED <<barVars, responders, after, session>>
        /\ \/ /\ pc' = "enable_dram" /\ it' = 1 /\ UNCHANGED <<ready, why>>
              /\ it > Len(responders)
           \/ /\ pc' = pc /\ it' = it + 1 /\ ready' = ready \cup {responders[it]} /\ why' = why
           \/ pc' = "drain" /\ it' = 1 /\ why' = "cleanup" /\ UNCHANGED ready
    BY <1>4 DEF RespondersInit, Walked, SetUp, InitFails, StartDrain, drainVars
  <2>2. PlaceInv' /\ BarInv'
    BY <2>1 DEF BarInv, barVars
  <2>3. ListInv'
    BY <2>1 DEF ListInv
  <2>4. ReadyInv'
    BY <2>1 DEF ReadyInv, ListInv
  <2>5. QED
    BY <2>2, <2>3, <2>4
<1>5. CASE EnableDram
  <2>1. /\ pc = "enable_dram" /\ UNCHANGED <<barVars, listVars, it, after, session>>
        /\ \/ pc' = "initialized" /\ why' = why
           \/ pc' = "drain" /\ why' = "cleanup"
    BY <1>5 DEF EnableDram, InitFails, StartDrain, drainVars
  <2>2. PlaceInv' /\ BarInv'
    BY <2>1 DEF BarInv, barVars
  <2>3. ListInv' /\ ReadyInv'
    BY <2>1 DEF ListInv, ReadyInv, listVars
  <2>4. QED
    BY <2>2, <2>3
<1>6. QED
  BY <1>1, <1>2, <1>3, <1>4, <1>5

LEMMA DrainSteps ==
  ASSUME HostInv, DrainOccupancy \/ DrainWord \/ DrainCheck,
         UNCHANGED <<loaderVars, deviceVars>>
  PROVE  HostInv'
<1>1. UNCHANGED <<after, session>>
  BY DEF loaderVars, loadVars, deviceVars
<1>2. CASE DrainOccupancy
  BY <1>1, <1>2, DrainKept DEF DrainOccupancy, DrainPcs
<1>3. CASE DrainWord
  <2>1. \/ pc' \in DrainPcs /\ why' = why
        \/ DrainReturns(FALSE)
    BY <1>3 DEF DrainWord, EndRound, DrainPcs
  <2>2. UNCHANGED <<barVars, listVars, it>> /\ pc \in DrainPcs
    BY <1>3 DEF DrainWord, DrainPcs
  <2>3. QED
    BY <1>1, <2>1, <2>2, DrainKept
<1>4. CASE DrainCheck
  <2>1. pc = "drain_check" /\ UNCHANGED <<barVars, listVars, it>>
    BY <1>4 DEF DrainCheck
  <2>2. DrainReturns(TRUE) \/ DrainReturns(FALSE)
    BY <1>4 DEF DrainCheck, DrainReturns
  <2>3. CASE mmio \/ DrainReturns(FALSE)
    BY <1>1, <2>1, <2>2, <2>3, DrainKept DEF DrainPcs
  <2>4. CASE ~mmio /\ DrainReturns(TRUE)
    BY <2>1, <2>4, <1>1, DrainKept DEF DrainReturns, HostInv, BarInv, DrainPcs
  <2>5. QED
    BY <2>2, <2>3, <2>4
<1>5. QED
  BY <1>2, <1>3, <1>4

\* hb_mc_manycore_request_rx, and hb_mc_manycore_exit apart from draining.
LEMMA ReceiveAndExitSteps ==
  ASSUME HostInv, ReceiveWord \/ Respond \/ RespondersQuit \/ CleanupMmio,
         UNCHANGED <<loaderVars, deviceVars>>
  PROVE  HostInv'
<1> USE DEF HostInv, PlaceInv, DrainPcs, InitPcs, LoadPcs, loaderVars, loadVars, deviceVars
<1>1. CASE ReceiveWord
  <2>1. /\ pc = "rx" /\ UNCHANGED <<barVars, listVars, it, why, after, session>>
        /\ pc' \in {"rx", "respond", "idle"}
    BY <1>1 DEF ReceiveWord, drainVars
  <2>2. PlaceInv' /\ BarInv'
    BY <2>1 DEF BarInv, barVars
  <2>3. ListInv' /\ ReadyInv'
    BY <2>1 DEF ListInv, ReadyInv, listVars
  <2>4. QED
    BY <2>2, <2>3
<1>2. CASE Respond
  <2>1. /\ pc = "respond" /\ UNCHANGED <<barVars, listVars, why, after, session>>
        /\ \/ pc' = pc /\ it' = it + 1
           \/ pc' = "idle" /\ it' = 1
    BY <1>2 DEF Respond, Return, drainVars
  <2>2. PlaceInv' /\ BarInv'
    BY <2>1 DEF BarInv, barVars
  <2>3. ListInv' /\ ReadyInv'
    BY <2>1 DEF ListInv, ReadyInv, listVars
  <2>4. QED
    BY <2>2, <2>3
<1>3. CASE RespondersQuit
  <2>1. /\ pc = "responders_quit" /\ UNCHANGED <<barVars, responders, after, session>>
        /\ \/ pc' = "drain" /\ why' = "exit" /\ it' = 1
           \/ pc' = pc /\ why' = why /\ it' = it + 1
           \/ pc' = "idle" /\ why' = why /\ it' = 1
    BY <1>3 DEF RespondersQuit, Return, StartDrain, drainVars
  <2>2. PlaceInv' /\ BarInv'
    BY <2>1 DEF BarInv, barVars
  <2>3. ListInv' /\ ReadyInv'
    BY <2>1 DEF ListInv, ReadyInv
  <2>4. QED
    BY <2>2, <2>3
<1>4. CASE CleanupMmio
  <2>1. /\ pc = "cleanup" /\ UNCHANGED <<listVars, it, after, session>>
        /\ \/ handle /\ attached' = attached - 1 /\ handle' = FALSE /\ mmio' = FALSE
           \/ ~handle /\ UNCHANGED <<attached, handle, mmio>>
        /\ pc' = (IF why = "exit" THEN "exited" ELSE "idle") /\ why' = "init"
    BY <1>4 DEF CleanupMmio, Detach
  <2>2. session \in {"none", "closing"} /\ (session = "none" => why # "exit")
    BY <2>1
  <2>3. PlaceInv'
    <3>1. CASE why = "exit"
      BY <2>1, <2>2, <3>1
    <3>2. CASE why # "exit"
      BY <2>1, <2>2, <3>2
    <3>3. QED
      BY <3>1, <3>2
  <2>4. handle' = FALSE /\ attached' = 0 /\ mmio' = FALSE
    BY <2>1 DEF BarInv
  <2>5. BarInv'
    BY <2>1, <2>2, <2>4 DEF BarInv
  <2>6. ListInv' /\ ReadyInv'
    BY <2>1, <2>2 DEF ListInv, ReadyInv, listVars
  <2>7. QED
    BY <2>3, <2>5, <2>6
<1>5. QED
  BY <1>1, <1>2, <1>3, <1>4

\* program_init, after its first step.
LEMMA LoadSteps ==
  ASSUME HostInv,
         \/ LoaderStep /\ UNCHANGED deviceVars
         \/ ProgramFreeze \/ SetOriginRegisters \/ SetConfigSymbol \/ ConfigDone
         \/ SetKernelPointer
  PROVE  HostInv'
<1> USE DEF LoadPcs, loaderUnchanged, programUnchanged, hostUnchanged, drainVars, LoadFails,
            Return, SendFails, SendBlock, SymbolFails
<1> DEFINE Stays == \/ /\ pc' \in LoadPcs /\ it' \in {it, it + 1, 1}
                       /\ pc' = "fence" => after' \in LoadPcs \ {"fence"}
                    \/ pc' = "idle" /\ it' = 1
<1>1. CASE LoaderStep /\ UNCHANGED deviceVars
  <2>1. CASE Fence
    <3>1. pc = "fence" /\ pc' = after /\ after' = "idle"
          /\ UNCHANGED <<barVars, listVars, why, it, session>>
      BY <1>1, <2>1 DEF Fence, deviceVars
    <3>2. after \in LoadPcs \ {"fence"}
      BY <3>1 DEF HostInv, PlaceInv
    <3>3. QED
      BY <3>1, <3>2, LoadKept
  <2>2. CASE ~Fence
    <3>1. UNCHANGED <<barVars, listVars, why, session>> /\ pc \in LoadPcs
      BY <1>1, <2>2 DEF LoaderStep, deviceVars, ElfValidate, TilesInitialize, ValidateVcache,
            LoadSegment, ZeroSegment, SegmentsDone, LoadIcache, IcachesDone
    <3>2. Stays
      BY <1>1, <2>2 DEF LoaderStep, ElfValidate, TilesInitialize, ValidateVcache,
            LoadSegment, ZeroSegment, NextSegmentOrTile, SegmentsDone, LoadIcache, IcachesDone
    <3>3. QED
      BY <3>1, <3>2, LoadKept
  <2>3. QED
    BY <2>1, <2>2
<1>2. CASE ProgramFreeze \/ SetOriginRegisters \/ SetConfigSymbol \/ ConfigDone \/ SetKernelPointer
  <2>1. UNCHANGED <<barVars, listVars, why, session>> /\ pc \in LoadPcs
    BY <1>2 DEF ProgramFreeze, SetOriginRegisters, SetConfigSymbol, ConfigDone, SetKernelPointer
  <2>2. Stays
    BY <1>2 DEF ProgramFreeze, SetOriginRegisters, SetConfigSymbol, ConfigDone, SetKernelPointer
  <2>3. QED
    BY <2>1, <2>2, LoadKept
<1>3. QED
  BY <1>1, <1>2

\* What the device calls do themselves.
LEMMA DeviceSteps ==
  ASSUME HostInv,
         DeviceInit \/ MeshInit \/ ProgramInit \/ Unfreeze \/ RequestRx \/ DeviceFinish \/ FreeDevice
  PROVE  HostInv'
<1> USE DEF HostInv, PlaceInv, DrainPcs, InitPcs, LoadPcs, hostUnchanged, programUnchanged,
            loaderVars, loadVars, deviceVars, barVars, listVars, drainVars
<1>1. CASE DeviceInit
  <2>1. /\ pc = "idle" /\ session = "none" /\ pc' = "attach" /\ handle' = FALSE /\ mmio' = FALSE
        /\ UNCHANGED <<attached, responders, ready, it, why, session, after>>
    BY <1>1 DEF DeviceInit, StartInit
  <2>2. attached = 0
    BY <2>1 DEF BarInv
  <2>3. PlaceInv' /\ BarInv'
    BY <2>1, <2>2 DEF BarInv
  <2>4. ListInv' /\ ReadyInv'
    BY <2>1 DEF ListInv, ReadyInv
  <2>5. QED
    BY <2>3, <2>4
<1>2. CASE MeshInit
  <2>1. /\ pc = "initialized" /\ pc' = "idle" /\ session' \in {"open", "broken"}
        /\ UNCHANGED <<handle, attached, mmio, responders, ready, it, why, after>>
    BY <1>2 DEF MeshInit
  <2>2. PlaceInv'
    BY <2>1
  <2>3. BarInv'
    BY <2>1 DEF BarInv
  <2>4. ListInv' /\ ReadyInv'
    BY <2>1 DEF ListInv, ReadyInv
  <2>5. QED
    BY <2>2, <2>3, <2>4
<1>3. CASE ProgramInit
  <2>1. /\ pc = "idle" /\ session = "open" /\ pc' \in {"idle", "freeze"}
        /\ UNCHANGED <<handle, attached, mmio, responders, ready, it, why, session, after>>
    BY <1>3 DEF ProgramInit
  <2>2. PlaceInv' /\ BarInv'
    BY <2>1 DEF BarInv
  <2>3. ListInv' /\ ReadyInv'
    BY <2>1 DEF ListInv, ReadyInv
  <2>4. QED
    BY <2>2, <2>3
<1>4. CASE Unfreeze
  <2>1. /\ pc = "unfreeze_tile" /\ UNCHANGED <<handle, attached, mmio, responders, ready, why>>
        /\ \/ pc' = "idle" /\ it' = 1 /\ session' = "loaded" /\ after' = after
           \/ pc' = "unfreeze" /\ it' = it + 1 /\ session' = session /\ after' = after
           \/ pc' = "idle" /\ it' = 1 /\ session' = session
    BY <1>4 DEF Unfreeze, Return, SendFails, LoadFails
  <2>2. PlaceInv' /\ BarInv'
    BY <2>1 DEF BarInv
  <2>3. ListInv' /\ ReadyInv'
    BY <2>1 DEF ListInv, ReadyInv
  <2>4. QED
    BY <2>2, <2>3
<1>5. CASE RequestRx
  <2>1. /\ pc = "idle" /\ session = "loaded" /\ pc' = "rx"
        /\ UNCHANGED <<handle, attached, mmio, responders, ready, it, why, session, after>>
    BY <1>5 DEF RequestRx
  <2>2. PlaceInv' /\ BarInv'
    BY <2>1 DEF BarInv
  <2>3. ListInv' /\ ReadyInv'
    BY <2>1 DEF ListInv, ReadyInv
  <2>4. QED
    BY <2>2, <2>3
<1>6. CASE DeviceFinish
  <2>1. /\ pc = "idle" /\ pc' \in {"idle", "responders_quit"} /\ session' = "closing"
        /\ UNCHANGED <<handle, attached, mmio, responders, ready, it, why, after>>
    BY <1>6 DEF DeviceFinish, StartExit
  <2>2. PlaceInv' /\ BarInv'
    BY <2>1 DEF BarInv
  <2>3. ListInv' /\ ReadyInv'
    BY <2>1 DEF ListInv, ReadyInv
  <2>4. QED
    BY <2>2, <2>3
<1>7. CASE FreeDevice
  <2>1. /\ pc = "exited" /\ pc' = "idle" /\ session' = "none"
        /\ UNCHANGED <<handle, attached, mmio, responders, ready, it, why, after>>
    BY <1>7 DEF FreeDevice
  <2>2. PlaceInv' /\ BarInv'
    BY <2>1 DEF BarInv
  <2>3. ListInv' /\ ReadyInv'
    BY <2>1 DEF ListInv, ReadyInv
  <2>4. QED
    BY <2>2, <2>3
<1>8. QED
  BY <1>1, <1>2, <1>3, <1>4, <1>5, <1>6, <1>7

\* Removing an element of a list that names each once removes its name.
LEMMA RemovedFromList ==
  ASSUME NEW S, NEW s \in Seq(S), NEW i \in DOMAIN s,
         \A j, k \in DOMAIN s : s[j] = s[k] => j = k
  PROVE  /\ Without(s, i) \in Seq(S)
         /\ \A j, k \in DOMAIN Without(s, i) : Without(s, i)[j] = Without(s, i)[k] => j = k
         /\ \A j \in DOMAIN Without(s, i) :
               \E k \in DOMAIN s : Without(s, i)[j] = s[k] /\ s[k] # s[i]
<1> DEFINE a == SubSeq(s, 1, i - 1)
           b == SubSeq(s, i + 1, Len(s))
           q == a \o b
<1>1. /\ a \in Seq(S) /\ Len(a) = i - 1
      /\ \A j \in 1 .. i - 1 : a[j] = s[j]
  OBVIOUS
<1>2. /\ b \in Seq(S) /\ Len(b) = Len(s) - i
      /\ \A j \in 1 .. Len(s) - i : b[j] = s[i + j]
  OBVIOUS
<1>3. i \in Nat \ {0} /\ Len(s) \in Nat /\ i <= Len(s) /\ DOMAIN s = 1 .. Len(s)
  OBVIOUS
<1> HIDE DEF a, b
<1>4. q \in Seq(S) /\ DOMAIN q = 1 .. Len(s) - 1
  <2>1. a \o b \in Seq(S) /\ Len(a \o b) = Len(a) + Len(b)
    <3>1. a \in Seq(S) /\ b \in Seq(S)
      BY <1>1, <1>2
    <3>2. QED
      BY <3>1
  <2>2. Len(a) + Len(b) = Len(s) - 1
    BY <1>1, <1>2, <1>3
  <2>3. DOMAIN q = 1 .. Len(q)
    BY <2>1
  <2>4. QED
    BY <2>1, <2>2, <2>3
<1>5. \A j \in 1 .. Len(s) - 1 : q[j] = IF j < i THEN s[j] ELSE s[j + 1]
  <2> TAKE j \in 1 .. Len(s) - 1
  <2>1. CASE j < i
    BY <1>1, <1>2, <1>3, <2>1
  <2>2. CASE ~(j < i)
    <3>1. q[j] = b[j - Len(a)] /\ j - Len(a) \in 1 .. Len(s) - i
      BY <1>1, <1>2, <1>3, <2>2
    <3>2. b[j - Len(a)] = s[i + (j - Len(a))] /\ i + (j - Len(a)) = j + 1
      BY <1>1, <1>2, <1>3, <3>1
    <3>3. QED
      BY <2>2, <3>1, <3>2
  <2>3. QED
    BY <2>1, <2>2
<1> DEFINE At(j) == IF j < i THEN j ELSE j + 1
<1> HIDE DEF q
<1>6. \A j \in 1 .. Len(s) - 1 : At(j) \in DOMAIN s /\ At(j) # i /\ q[j] = s[At(j)]
  <2> TAKE j \in 1 .. Len(s) - 1
  <2>1. CASE j < i
    BY <1>3, <1>5, <2>1
  <2>2. CASE ~(j < i)
    BY <1>3, <1>5, <2>2
  <2>3. QED
    BY <2>1, <2>2
<1>7. \A j, k \in 1 .. Len(s) - 1 : At(j) = At(k) => j = k
  BY <1>3
<1> HIDE DEF At
<1>8. /\ \A j, k \in DOMAIN q : q[j] = q[k] => j = k
      /\ \A j \in DOMAIN q : \E k \in DOMAIN s : q[j] = s[k] /\ s[k] # s[i]
  BY <1>4, <1>6, <1>7
<1>9. QED
  <2>1. Without(s, i) = q
    BY DEF Without, q, a, b
  <2>2. QED
    BY <1>4, <1>8, <2>1

\* The program's own responders, between calls.
LEMMA ProgramSteps == HostInv /\ ProgramCalls => HostInv'
<1> SUFFICES ASSUME HostInv, ProgramCalls PROVE HostInv'
  OBVIOUS
<1> USE DEF HostInv, deviceVars, loaderVars, loadVars, barVars, listVars, drainVars
<1>1. CASE \E r \in Responders : ResponderAdd(r)
  <2>1. PICK r \in Responders : ResponderAdd(r)
    BY <1>1
  <2>2. /\ pc = "idle" /\ UNCHANGED <<pc, barVars, it, why, after, session>>
        /\ \A i \in DOMAIN responders : responders[i] # r
        /\ \/ UNCHANGED listVars
           \/ /\ responders' = <<r>> \o responders
              /\ ready' = IF mmio THEN ready \cup {r} ELSE ready
    BY <2>1 DEF ProgramCalls, ResponderAdd, SetUp
  <2>3. PlaceInv' /\ BarInv'
    BY <2>2 DEF PlaceInv, BarInv, DrainPcs, InitPcs, LoadPcs
  <2>4. CASE UNCHANGED listVars
    BY <2>2, <2>4, HostKept
  <2>5. CASE responders' = <<r>> \o responders /\ ready' = IF mmio THEN ready \cup {r} ELSE ready
    <3>1. /\ responders' \in Seq(Responders) /\ Len(responders') = Len(responders) + 1
          /\ \A i \in 1 .. Len(responders') :
                responders'[i] = IF i = 1 THEN r ELSE responders[i - 1]
      BY <2>5 DEF ListInv
    <3>2. ListInv'
      BY <2>2, <3>1 DEF ListInv
    <3>3. ReadyInv'
      BY <2>2, <2>5, <3>1 DEF ReadyInv, ListInv, BarInv
    <3>4. QED
      BY <2>3, <3>2, <3>3
  <2>6. QED
    BY <2>2, <2>3, <2>4, <2>5
<1>2. CASE \E r \in Responders : ResponderDel(r)
  <2>1. PICK r \in Responders : ResponderDel(r)
    BY <1>2
  <2>2. /\ pc = "idle" /\ UNCHANGED <<pc, barVars, it, why, after, session>>
        /\ \/ UNCHANGED listVars
           \/ /\ \E i \in DOMAIN responders :
                    responders[i] = r /\ responders' = Without(responders, i)
              /\ ready' = ready \ {r}
    BY <2>1 DEF ProgramCalls, ResponderDel, ShutDown
  <2>3. PlaceInv' /\ BarInv'
    BY <2>2 DEF PlaceInv, BarInv, DrainPcs, InitPcs, LoadPcs
  <2>4. CASE UNCHANGED listVars
    BY <2>2, <2>4, HostKept
  <2>5. ASSUME NEW i \in DOMAIN responders, responders[i] = r, ready' = ready \ {r},
               responders' = Without(responders, i)
        PROVE  HostInv'
    <3>1. /\ responders' \in Seq(Responders)
          /\ \A j, k \in DOMAIN responders' : responders'[j] = responders'[k] => j = k
          /\ \A j \in DOMAIN responders' :
                \E k \in DOMAIN responders : responders'[j] = responders[k] /\ responders[k] # r
      <4>1. /\ responders \in Seq(Responders)
            /\ \A j, k \in DOMAIN responders : responders[j] = responders[k] => j = k
        BY DEF ListInv
      <4>2. /\ responders' \in Seq(Responders)
            /\ \A j, k \in DOMAIN responders' : responders'[j] = responders'[k] => j = k
            /\ \A j \in DOMAIN responders' :
                  \E k \in DOMAIN responders :
                     responders'[j] = responders[k] /\ responders[k] # responders[i]
        BY <2>5, <4>1, RemovedFromList
      <4>3. QED
        BY <2>5, <4>2
    <3>2. ListInv'
      BY <2>2, <3>1 DEF ListInv
    <3>3. ReadyInv'
      BY <2>2, <2>5, <3>1 DEF ReadyInv
    <3>4. QED
      BY <2>3, <3>2, <3>3
  <2>6. QED
    BY <2>2, <2>3, <2>4, <2>5
<1>3. CASE DisableDram
  <2>1. UNCHANGED <<pc, barVars, listVars, it, why, after, session>>
    BY <1>3 DEF ProgramCalls, DisableDram
  <2>2. QED
    BY <2>1, HostKept
<1>4. QED
  BY <1>1, <1>2, <1>3 DEF ProgramCalls

LEMMA NextHostInv == HostInv /\ [Next]_vars => HostInv'
<1> SUFFICES ASSUME HostInv, [Next]_vars PROVE HostInv'
  OBVIOUS
<1>1. CASE HostStep
  <2>1. CASE ManycoreStep /\ UNCHANGED <<loaderVars, deviceVars>>
    BY <2>1, InitSteps, DrainSteps, ReceiveAndExitSteps DEF ManycoreStep
  <2>2. CASE ~(ManycoreStep /\ UNCHANGED <<loaderVars, deviceVars>>)
    BY <1>1, <2>2, LoadSteps, DeviceSteps DEF HostStep
  <2>3. QED
    BY <2>1, <2>2
<1>2. CASE Call
  BY <1>2, DeviceSteps, ProgramSteps DEF Call
<1>3. CASE Die
  <2>1. /\ pc' = "idle" /\ it' = 1 /\ session' = "none" /\ why' = "init"
        /\ handle' = FALSE /\ attached' = 0 /\ mmio' = FALSE /\ responders' = Linked
    BY <1>3 DEF Die, Return
  <2>2. PlaceInv'
    BY <2>1 DEF PlaceInv, InitPcs, LoadPcs
  <2>3. BarInv'
    BY <2>1 DEF BarInv, DrainPcs
  <2>4. ListInv'
    BY <2>1, RespondersAssumption DEF ListInv
  <2>5. ReadyInv'
    BY <2>1 DEF ReadyInv
  <2>6. QED
    BY <2>2, <2>3, <2>4, <2>5 DEF HostInv
<1>4. ASSUME NEW n \in Nodes, Delivery(n) PROVE HostInv'
  BY <1>4, HostKept DEF Delivery, Deliver, loaderVars, loadVars, deviceVars, drainVars
<1>5. ASSUME NEW t \in Tiles, TileStep(t) PROVE HostInv'
  BY <1>5, HostKept
     DEF TileStep, Store, Send, loaderVars, loadVars, deviceVars, drainVars, hostUnchanged
<1>6. CASE UNCHANGED vars
  BY <1>6, HostKept DEF vars, manycoreVars, loaderVars, loadVars, deviceVars, drainVars
<1>7. QED
  BY <1>1, <1>2, <1>3, <1>4, <1>5, <1>6 DEF Next

THEOREM HostInvariant == Spec => []HostInv
BY InitHostInv, NextHostInv, PTL DEF Spec

\* A process has the BAR attached at most once and its handle says so; after an init that failed
\* anywhere, and after a finish, it is detached and unmapped.
THEOREM BarIsReleased == Spec => []BarReleased
<1>1. HostInv => BarReleased
  BY DEF HostInv, BarInv, BarReleased
<1>2. QED
  BY <1>1, HostInvariant, PTL

\* A responder that is shown a packet of its own has been initialised and has not quit, whatever
\* responders the program adds and removes and whichever of their calls fail.
THEOREM RespondersAnswerWhenReady == Spec => []AnswersWhenReady
<1>1. HostInv => AnswersWhenReady
  BY DEF HostInv, PlaceInv, ListInv, ReadyInv, AnswersWhenReady
<1>2. QED
  BY <1>1, HostInvariant, PTL

=============================================================================
