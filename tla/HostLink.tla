------------------------------ MODULE HostLink ------------------------------
(***************************************************************************)
(* Host access to the manycore's memory: the word loops of bsg_manycore.cpp *)
(* (write_mem, memset, read_mem, single reads and writes) and the hardware *)
(* they talk to.  A request goes through the host's transmit FIFO onto the *)
(* network; requests to different destinations overtake one another, those *)
(* to one destination do not.  The host limits its stores with a cached    *)
(* count of outstanding requests, its loads with a stack of load ids, and  *)
(* ends a write with a fence that polls two counters of the hardware.      *)
(***************************************************************************)
EXTENDS Integers, Sequences

CONSTANTS
  Addr,            \* the words (NPAs) within the network
  Home,            \* the destination of each of them
  HostCredits,     \* mcl_host_credits_gp, in the ROM IO_HOST_CREDITS_CAP
  MaxOutCredits,   \* max_out_credits_p, in the ROM IO_EP_MAX_OUT_CREDITS
  LoadCap,         \* IO_REMOTE_LOAD_CAP
  FenceLocals,     \* what the fence's two uninitialized locals may hold, as pairs
  Calls,           \* the calls a program may make: records [kind, addrs]
  MaxCalls         \* bound: the calls it makes

Kinds == {"write_mem", "read_mem", "write", "read"}

ASSUME LinkAssumption ==
  /\ HostCredits \in Nat \ {0} /\ MaxOutCredits \in Nat \ {0} /\ LoadCap \in Nat \ {0}
  /\ LoadCap <= 2 * HostCredits + 1
  /\ FenceLocals \subseteq Nat \X Nat

ASSUME CallsAssumption ==
  /\ MaxCalls \in Nat
  /\ DOMAIN Home = Addr
  /\ \A c \in Calls : /\ c.kind \in Kinds
                      /\ Len(c.addrs) \in Nat /\ DOMAIN c.addrs = 1 .. Len(c.addrs)
                      /\ c.kind \in {"read", "write"} => Len(c.addrs) = 1

VARIABLES
  htod,          \* mc->htod_requests
  pc,            \* where the host is; "idle" between calls
  call,          \* the call it executes, or executed last
  calls,         \* the number of calls made; each writes its own number
  sent, got,     \* rqst_i (i in the loops of write_mem and memset) and rsp_i
  ids,           \* the stack of load ids, top first
  slot,          \* id_to_rsp_i, from 1; 0: not initialized
  data,          \* the caller's buffer
  vacancy,       \* the fence's locals vacancy and ep_out_credits
  ep_out_credits,
  result,        \* what the call returned
  txq,           \* hardware: the transmit FIFO
  net,           \* the requests under way to each destination
  out_credits,   \* out_credits_o of the endpoint
  read_credits,  \* read_credits_lo
  rsp, piso,     \* the response FIFO and the register the host reads it through
  mem,           \* the memory
  written        \* for the properties: the value last written to each word

local == <<call, calls, sent, got, ids, slot, data, vacancy, ep_out_credits>>
link  == <<txq, net, out_credits, read_credits, rsp, piso, mem>>
vars  == <<htod, pc, local, result, link, written>>

Dest  == {Home[a] : a \in Addr}
Value == 0 .. MaxCalls
Id    == 0 .. LoadCap - 1

Init ==
  /\ htod = 0 /\ pc = "idle" /\ calls = 0 /\ result = "none"
  /\ call = [kind |-> "write", addrs |-> <<>>]
  /\ sent = 0 /\ got = 0 /\ ids = <<>> /\ slot = [id \in Id |-> 0] /\ data = <<>>
  /\ vacancy = 0 /\ ep_out_credits = 0
  /\ txq = <<>> /\ net = [d \in Dest |-> <<>>]
  /\ out_credits = MaxOutCredits /\ read_credits = HostCredits
  /\ rsp = <<>> /\ piso = <<>>
  /\ mem = [a \in Addr |-> 0] /\ written = mem

(***************************************************************************)
(* The host.                                                               *)
(***************************************************************************)

\* A call is made: each function's locals get their first values.
Call(c) ==
  /\ pc = "idle" /\ calls < MaxCalls
  /\ calls' = calls + 1
  /\ call' = c /\ result' = "none"
  /\ sent' = 0 /\ got' = 0
  /\ pc' = CASE c.kind = "write_mem" -> "update"
             [] c.kind = "write"     -> "store"
             [] OTHER                -> "request"
  /\ ids' = CASE c.kind = "read_mem" -> [k \in 1 .. LoadCap |-> k - 1]
              [] c.kind = "read"     -> <<0>>
              [] OTHER               -> <<>>
  /\ slot' = [id \in Id |-> 0]
  /\ data' = [k \in DOMAIN c.addrs |-> 0]
  /\ UNCHANGED <<htod, vacancy, ep_out_credits, link, written>>

Return(r) == pc' = "idle" /\ result' = r

Words == Len(call.addrs)

NextWord == call.addrs[sent + 1]

\* hb_mc_manycore_packet_tx_internal: the bus stalls the host while the FIFO is full.
Transmit(op, arg) ==
  /\ Len(txq) < HostCredits
  /\ txq' = Append(txq, [op |-> op, addr |-> NextWord, arg |-> arg])
  /\ sent' = sent + 1

\* (variant) what is polled is not kept
PollDiscarded == htod' = htod

\* The capacity less the vacancy.
Poll == htod' = Len(txq)

\* hb_mc_manycore_update_requests polls the hardware only when the cached count says there is
\* no room.
UpdateRequests ==
  /\ pc = "update" /\ sent < Words
  /\ htod >= HostCredits
  /\ Poll
  /\ UNCHANGED <<pc, local, result, link, written>>

HaveCapacity ==
  /\ pc = "update" /\ sent < Words
  /\ htod < HostCredits
  /\ pc' = "store"
  /\ UNCHANGED <<htod, local, result, link, written>>

\* (variant) only the loop of write_mem counts
CountStoreOnce == htod' = htod + (IF call.kind = "write_mem" THEN 1 ELSE 0)

\* request_tx counts the store, and so does the loop of write_mem.
CountStore == htod' = htod + (IF call.kind = "write_mem" THEN 2 ELSE 1)

Store ==
  /\ pc = "store" /\ NextWord \in Addr
  /\ Transmit("store", calls)
  /\ CountStore
  /\ written' = [written EXCEPT ![NextWord] = calls]
  /\ IF call.kind = "write_mem" THEN pc' = "update" /\ UNCHANGED result
                                ELSE Return("SUCCESS")
  /\ UNCHANGED <<call, calls, got, ids, slot, data, vacancy, ep_out_credits,
                 net, out_credits, read_credits, rsp, piso, mem>>

\* A word outside the network (or not aligned) ends the call.
Refuse ==
  /\ pc \in {"store", "request"} /\ sent < Words /\ NextWord \notin Addr
  /\ pc = "request" => ids # <<>>
  /\ slot' = IF pc = "request" THEN [slot EXCEPT ![Head(ids)] = sent + 1] ELSE slot
  /\ Return("INVALID")
  /\ UNCHANGED <<htod, call, calls, sent, got, ids, data, vacancy, ep_out_credits, link, written>>

EnterFence ==
  /\ pc = "update" /\ sent = Words
  /\ \E l \in FenceLocals : vacancy' = l[1] /\ ep_out_credits' = l[2]
  /\ pc' = "fence"
  /\ UNCHANGED <<htod, call, calls, sent, got, ids, slot, data, result, link, written>>

FenceTest ==
  /\ pc = "fence"
  /\ IF vacancy = HostCredits /\ ep_out_credits = MaxOutCredits
       THEN Return("SUCCESS")
       ELSE pc' = "vacancy" /\ UNCHANGED result
  /\ UNCHANGED <<htod, local, link, written>>

\* (variant) the credits are read before the vacancy
FenceReadsSwapped ==
  \/ pc = "vacancy" /\ ep_out_credits' = out_credits /\ pc' = "credits" /\ UNCHANGED vacancy
  \/ pc = "credits" /\ vacancy' = HostCredits - Len(txq) /\ pc' = "fence" /\ UNCHANGED ep_out_credits

\* The two counters are read one after the other.
FenceReads ==
  \/ pc = "vacancy" /\ vacancy' = HostCredits - Len(txq) /\ pc' = "credits" /\ UNCHANGED ep_out_credits
  \/ pc = "credits" /\ ep_out_credits' = out_credits /\ pc' = "fence" /\ UNCHANGED vacancy

FencePoll ==
  /\ FenceReads
  /\ UNCHANGED <<htod, call, calls, sent, got, ids, slot, data, result, link, written>>

\* (variant) request_tx does not count loads
CountLoadNot == htod' = htod

CountLoad == htod' = htod + 1

\* (variant) the id stays on the stack
KeepId == ids' = ids

TakeId == ids' = Tail(ids)

\* read_mem_internal sends loads while it has ids; a single read is its case of one word and id 0.
\* (The code also handles HB_MC_BUSY, which no function it calls returns.)
RequestLoad ==
  /\ pc = "request" /\ sent < Words /\ ids # <<>> /\ NextWord \in Addr
  /\ Transmit("load", Head(ids))
  /\ slot' = [slot EXCEPT ![Head(ids)] = sent + 1]
  /\ TakeId
  /\ CountLoad
  /\ UNCHANGED <<pc, call, calls, got, data, vacancy, ep_out_credits, result,
                 net, out_credits, read_credits, rsp, piso, mem, written>>

EndRequests ==
  /\ pc = "request" /\ (sent = Words \/ ids = <<>>)
  /\ pc' = "response"
  /\ UNCHANGED <<htod, local, result, link, written>>

\* (variant) responses are stored in the order they arrive
InOrder(r) == data' = [data EXCEPT ![got + 1] = r.data]

\* The word goes where its id says.  An id this call never used indexes with garbage: any word,
\* or memory outside the buffer.
Deliver(r) ==
  LET k == IF call.kind = "read" THEN 1 ELSE slot[r.id]
  IN  IF k # 0 THEN data' = [data EXCEPT ![k] = r.data]
               ELSE data' \in {data} \cup {[data EXCEPT ![j] = r.data] : j \in DOMAIN data}

ReceiveResponse ==
  /\ pc = "response" /\ got < sent
  /\ piso # <<>> /\ piso' = <<>>
  /\ LET r == Head(piso)
     IN  IF htod = 0
           THEN Return("FAIL") /\ UNCHANGED <<htod, got, ids, data>>
           ELSE /\ htod' = htod - 1
                /\ Deliver(r)
                /\ got' = got + 1
                /\ ids' = <<r.id>> \o ids
                /\ UNCHANGED <<pc, result>>
  /\ UNCHANGED <<call, calls, sent, slot, vacancy, ep_out_credits,
                 txq, net, out_credits, read_credits, rsp, mem, written>>

EndResponses ==
  /\ pc = "response" /\ got = sent
  /\ IF got = Words THEN Return("SUCCESS") ELSE pc' = "request" /\ UNCHANGED result
  /\ UNCHANGED <<htod, local, link, written>>

(***************************************************************************)
(* The hardware between the host and the memories.                         *)
(***************************************************************************)

\* (variant) loads need no read credit
HasCreditsOut(r) == out_credits > 0

\* A request leaves the FIFO with a credit of the endpoint; a load also with a read credit.
HasCredits(r) == out_credits > 0 /\ (r.op = "load" => read_credits > 0)

Depart ==
  /\ txq # <<>>
  /\ LET r == Head(txq)
     IN  /\ HasCredits(r)
         /\ net' = [net EXCEPT ![Home[r.addr]] = Append(@, r)]
         /\ out_credits' = out_credits - 1
         /\ read_credits' = IF r.op = "load" THEN read_credits - 1 ELSE read_credits
  /\ txq' = Tail(txq)
  /\ UNCHANGED <<htod, pc, local, result, rsp, piso, mem, written>>

\* A destination serves its oldest request and returns the credit, with the data of a load.
Serve(d) ==
  /\ net[d] # <<>>
  /\ LET r == Head(net[d])
     IN  IF r.op = "store"
           THEN mem' = [mem EXCEPT ![r.addr] = r.arg] /\ UNCHANGED rsp
           ELSE rsp' = Append(rsp, [id |-> r.arg, data |-> mem[r.addr]]) /\ UNCHANGED mem
  /\ net' = [net EXCEPT ![d] = Tail(@)]
  /\ out_credits' = out_credits + 1
  /\ UNCHANGED <<htod, pc, local, result, txq, read_credits, piso, written>>

\* A response moves to the register; its read credit is free.
Serialize ==
  /\ piso = <<>> /\ rsp # <<>>
  /\ piso' = <<Head(rsp)>> /\ rsp' = Tail(rsp)
  /\ read_credits' = read_credits + 1
  /\ UNCHANGED <<htod, pc, local, result, txq, net, out_credits, mem, written>>

HostStep == \/ UpdateRequests \/ HaveCapacity \/ Store \/ Refuse
            \/ EnterFence \/ FenceTest \/ FencePoll
            \/ RequestLoad \/ EndRequests \/ ReceiveResponse \/ EndResponses

LinkStep == Depart \/ Serialize \/ \E d \in Dest : Serve(d)

Next == (\E c \in Calls : Call(c)) \/ HostStep \/ LinkStep

Spec == Init /\ [][Next]_vars

\* The host thread and the hardware keep running; nothing makes the program call.
Fairness == /\ WF_vars(HostStep)
            /\ WF_vars(Depart) /\ WF_vars(Serialize)
            /\ \A d \in Dest : WF_vars(Serve(d))

FairSpec == Spec /\ Fairness

-----------------------------------------------------------------------------
(***************************************************************************)
(* Properties.                                                             *)
(***************************************************************************)

Request  == [op : {"store"}, addr : Addr, arg : Value] \cup [op : {"load"}, addr : Addr, arg : Id]
Response == [id : Id, data : Value]

\* Every variable has its type; the FIFOs and the counters are within their limits.
TypeOK ==
  /\ htod \in Nat
  /\ pc \in {"idle", "update", "store", "fence", "vacancy", "credits", "request", "response"}
  /\ call.kind \in Kinds /\ calls \in 0 .. MaxCalls
  /\ sent \in 0 .. Words /\ got \in 0 .. sent
  /\ ids \in Seq(Id) /\ slot \in [Id -> 0 .. Words]
  /\ result \in {"none", "SUCCESS", "INVALID", "FAIL"}
  /\ vacancy \in Nat /\ ep_out_credits \in Nat
  /\ txq \in Seq(Request) /\ Len(txq) <= HostCredits
  /\ net \in [Dest -> Seq(Request)]
  /\ out_credits \in 0 .. MaxOutCredits /\ read_credits \in 0 .. HostCredits
  /\ rsp \in Seq(Response) /\ Len(rsp) <= HostCredits
  /\ piso \in Seq(Response) /\ Len(piso) <= 1
  /\ mem \in [Addr -> Value] /\ written \in [Addr -> Value]

Succeeded(kinds) == pc = "idle" /\ result = "SUCCESS" /\ call.kind \in kinds

\* A read that succeeds returns, word for word, what the program last wrote, in whatever order
\* the responses arrive and whether or not the writes were fenced ("After returning success,
\* #data[i] shall be the data read from the NPA given by #npa(i)").
ReadsReturnMemory ==
  Succeeded({"read", "read_mem"}) => \A k \in 1 .. Words : data[k] = written[call.addrs[k]]

\* When write_mem or memset returns, its stores have been performed, and so have all before them:
\* the fence waits "until out credts are fully resumed, and the tx fifo vacancy equals to host
\* credits".
FencedStoresPerformed == Succeeded({"write_mem"}) => mem = written

\* write_mem never stalls the bus: when it goes on to a store the FIFO has room, though the count
\* it looks at is neither exact nor always refreshed.
StoreHasRoom == (pc = "store" /\ call.kind = "write_mem") => Len(txq) < HostCredits

\* A request on its way never finds its response unaccounted for: decr_host_requests, which fails
\* on a count of zero, never ends a read.
NeverUnderflows == result # "FAIL"

\* The ids of the loads under way, wherever they are.
InFlight(id) ==
  \/ \E k \in 1 .. Len(txq) : txq[k].op = "load" /\ txq[k].arg = id
  \/ \E d \in Dest : \E k \in 1 .. Len(net[d]) : net[d][k].op = "load" /\ net[d][k].arg = id
  \/ \E k \in 1 .. Len(rsp) : rsp[k].id = id
  \/ \E k \in 1 .. Len(piso) : piso[k].id = id

\* While a call reads, an id is free or in flight and never both, and an id is on the stack at
\* most once: no two loads under way share an entry of id_to_rsp_i.
IdsFreeOrInFlight ==
  pc \in {"request", "response"} =>
    /\ \A j, k \in 1 .. Len(ids) : ids[j] = ids[k] => j = k
    /\ \A k \in 1 .. Len(ids) : ~InFlight(ids[k])

\* Every call returns: the polls of update_requests and of the fence end, and no read waits for a
\* response that cannot come.
CallsReturn == pc # "idle" ~> pc = "idle"
=============================================================================
