----------------------------- MODULE VCacheDma ------------------------------
(***************************************************************************)
(* DMA to DRAM behind the victim caches: the cache operations and the DMA  *)
(* functions of bsg_manycore.cpp, and hb_mc_device_dma_to_device and       *)
(* _to_host of bsg_manycore_cuda.cpp.  Tiles and the host's loads and      *)
(* stores go through write-back caches; DMA bypasses them.  The host keeps *)
(* the two views in step with cache operations, which are posted: they     *)
(* queue behind the host's earlier requests to that cache and take effect  *)
(* later.  (HostLink shows that requests to one destination keep their     *)
(* order, and what the fence waits for.)                                   *)
(***************************************************************************)
EXTENDS Integers, Sequences

CONSTANTS
  NumBanks, NumWays,      \* vcache_num_caches, vcache_num_ways; one set of ways
  NumLines, LineWords,    \* the lines of DRAM behind each cache, and their words
  Calls,                  \* the calls a program may make: records [kind, jobs]
  MaxCalls,               \* bound: the calls it makes
  MaxTileSteps            \* bound: the loads and stores of one kernel's tiles

Bank == 1 .. NumBanks
Way  == 1 .. NumWays
Line == 0 .. NumLines - 1
Word == 0 .. NumLines * LineWords - 1

\* A job is a range of words of one bank: it starts at word first.
Job == [bank : Bank, first : Word, words : Nat \ {0}]

Kinds == {"write", "read", "kernel", "dma_write", "dma_read", "dma_to_device", "dma_to_host"}

ASSUME CacheAssumption ==
  /\ {NumBanks, NumWays, NumLines, LineWords} \subseteq Nat \ {0}
  /\ MaxCalls \in Nat /\ MaxTileSteps \in Nat
  /\ \A c \in Calls :
       /\ c.kind \in Kinds
       /\ c.jobs \in Seq(Job) /\ (c.kind # "kernel" => c.jobs # <<>>)
       /\ c.kind \in {"write", "read"} => c.jobs[1].words = 1
       /\ \A k \in 1 .. Len(c.jobs) : c.jobs[k].first + c.jobs[k].words - 1 \in Word

VARIABLES
  bank,     \* bank[b].way[v]: a line and its state; bank[b].dram[w]: a word of DRAM
  queue,    \* the host's requests on their way to cache b
  rsp,      \* the responses of loads
  pc, call, calls,
  next,     \* the cache flush_vcache reads a word of next
  buffer,   \* the caller's buffer: the values read
  seen,     \* what a tile loaded last
  steps,    \* the loads and stores of the kernel that runs
  latest,   \* history: the value last written to each word
  doubt     \* history: the words that a failed dma_to_device has written since

host == <<pc, call, calls, next, buffer>>
tile == <<seen, steps>>
history == <<latest, doubt>>
vars == <<bank, queue, rsp, host, tile, history>>

Value   == 0 .. MaxCalls
LineOf(w) == w \div LineWords
WordsOf(l) == l * LineWords .. l * LineWords + LineWords - 1

Empty == [line |-> 0, state |-> "invalid", data |-> [w \in WordsOf(0) |-> 0]]

NoTile == [bank |-> 1, word |-> 0, value |-> 0]

Init ==
  /\ bank = [b \in Bank |-> [way |-> [v \in Way |-> Empty], dram |-> [w \in Word |-> 0]]]
  /\ queue = [b \in Bank |-> <<>>] /\ rsp = <<>>
  /\ pc = "idle" /\ call = [kind |-> "kernel", jobs |-> <<>>] /\ calls = 0
  /\ next = 1 /\ buffer = <<>>
  /\ seen = NoTile /\ steps = 0
  /\ latest = [b \in Bank |-> [w \in Word |-> 0]]
  /\ doubt = {}

(***************************************************************************)
(* A cache: each operator gives what a bank may become.                    *)
(***************************************************************************)

Holds(s, v, l) == s.way[v].state # "invalid" /\ s.way[v].line = l

Hits(s, l) == {v \in Way : Holds(s, v, l)}

\* Way v's line is written to DRAM if it is dirty.
WriteBack(s, v) ==
  LET e == s.way[v]
  IN  IF e.state # "dirty" THEN s
      ELSE [way  |-> [s.way EXCEPT ![v].state = "clean"],
            dram |-> [w \in Word |-> IF w \in WordsOf(e.line) THEN e.data[w] ELSE s.dram[w]]]

Drop(s, v) == [s EXCEPT !.way[v] = Empty]

\* Line l is brought into some way, whose line is written back first.
Fill(s, l) ==
  IF Hits(s, l) # {} THEN {s}
  ELSE {LET t == WriteBack(s, v)
        IN  [t EXCEPT !.way[v] = [line |-> l, state |-> "clean",
                                  data |-> [w \in WordsOf(l) |-> t.dram[w]]]] : v \in Way}

Loaded(s, w) == LET v == CHOOSE v \in Way : Holds(s, v, LineOf(w)) IN s.way[v].data[w]

Stored(s, w, x) ==
  LET v == CHOOSE v \in Way : Holds(s, v, LineOf(w))
  IN  [s EXCEPT !.way[v].state = "dirty", !.way[v].data[w] = x]

\* AINV drops the line of a word, AFL writes it back; TAGFL writes a way back; a tag of zero
\* drops the line of a way.
Operate(s, r) ==
  LET vs == IF r.op \in {"AINV", "AFL"} THEN Hits(s, LineOf(r.at)) ELSE {r.at}
  IN  IF vs = {} THEN s
      ELSE LET v == CHOOSE v \in vs : TRUE
           IN  IF r.op \in {"AINV", "TAG"} THEN Drop(s, v) ELSE WriteBack(s, v)

Serve(b) ==
  /\ queue[b] # <<>>
  /\ LET r == Head(queue[b])
     IN  \/ /\ r.op = "store"
            /\ \E s \in Fill(bank[b], LineOf(r.at)) : bank' = [bank EXCEPT ![b] = Stored(s, r.at, r.val)]
            /\ UNCHANGED rsp
         \/ /\ r.op = "load"
            /\ \E s \in Fill(bank[b], LineOf(r.at)) :
                 /\ bank' = [bank EXCEPT ![b] = s]
                 /\ rsp' = Append(rsp, Loaded(s, r.at))
         \/ /\ r.op \notin {"store", "load"}
            /\ bank' = [bank EXCEPT ![b] = Operate(@, r)]
            /\ UNCHANGED rsp
  /\ queue' = [queue EXCEPT ![b] = Tail(@)]
  /\ UNCHANGED <<host, tile, history>>

(***************************************************************************)
(* The host.  What a loop posts without waiting is posted in one step.     *)
(***************************************************************************)

Msg(op, at, val) == [op |-> op, at |-> at, val |-> val]

Post(b, msgs) == queue' = [queue EXCEPT ![b] = @ \o msgs]

\* One operation for each way of each cache.
PostToWays(op) ==
  queue' = [b \in Bank |-> queue[b] \o [v \in Way |-> Msg(op, v, 0)]]

TheJob == call.jobs[1]

Jobs == {call.jobs[k] : k \in 1 .. Len(call.jobs)}

InJob(j, b, w) == b = j.bank /\ w \in j.first .. j.first + j.words - 1

\* The lines hb_mc_manycore_vcache_apply_to_npa_range counts: the range is aligned down to the
\* line of its first word.
LinesOf(j) == LET sz == j.words + (j.first % LineWords) IN (sz + LineWords - 1) \div LineWords

\* One operation per line of the range.  The loop computes each line's address, line_npa, and
\* passes on npa, the first word.
RangeOps(j, op) == [k \in 1 .. LinesOf(j) |-> Msg(op, j.first, 0)]

Ask(b, w) == Post(b, <<Msg("load", w, 0)>>)

Return == pc' = "idle"

\* x is written to the words of the jobs js.
Overlay(old, b, js, x) ==
  [w \in Word |-> IF \E j \in js : InJob(j, b, w) THEN x ELSE old[w]]

\* The words of the jobs js.
Cells(js) == {c \in Bank \X Word : \E j \in js : InJob(j, c[1], c[2])}

Written(js, x) ==
  /\ latest' = [b \in Bank |-> Overlay(latest[b], b, js, x)]
  /\ doubt' = doubt \ Cells(js)

\* DMA writes to DRAM, and reads it, at once: the simulation does not advance meanwhile.
DramWritten(js, x) ==
  bank' = [b \in Bank |-> [bank[b] EXCEPT !.dram = Overlay(@, b, js, x)]]

DramRead(j) == [k \in 1 .. j.words |-> bank[j.bank].dram[j.first + k - 1]]

Begin(c) ==
  /\ pc = "idle" /\ calls < MaxCalls
  /\ call' = c /\ calls' = calls + 1
  /\ buffer' = <<>>

\* hb_mc_manycore_write32 posts a store.
Write(c) ==
  /\ Begin(c) /\ c.kind = "write"
  /\ Post(c.jobs[1].bank, <<Msg("store", c.jobs[1].first, calls + 1)>>)
  /\ Written({c.jobs[1]}, calls + 1)
  /\ UNCHANGED <<bank, rsp, pc, next, tile>>

\* hb_mc_manycore_read32 posts a load and waits for the response.
Read(c) ==
  /\ Begin(c) /\ c.kind = "read"
  /\ Ask(c.jobs[1].bank, c.jobs[1].first)
  /\ pc' = "word"
  /\ UNCHANGED <<bank, rsp, next, tile, history>>

\* hb_mc_manycore_dma_write writes, then posts the invalidations.
DmaWrite(c) ==
  /\ Begin(c) /\ c.kind = "dma_write"
  /\ DramWritten({c.jobs[1]}, calls + 1)
  /\ Post(c.jobs[1].bank, RangeOps(c.jobs[1], "AINV"))
  /\ Written({c.jobs[1]}, calls + 1)
  /\ UNCHANGED <<rsp, pc, next, tile>>

\* (variant) the word is not waited for
DmaReadNoWait(c) ==
  /\ Begin(c) /\ c.kind = "dma_read"
  /\ Post(c.jobs[1].bank, RangeOps(c.jobs[1], "AFL"))
  /\ pc' = "dram"
  /\ UNCHANGED <<bank, rsp, next, tile, history>>

\* hb_mc_manycore_dma_read posts the flushes, and a load: when it is answered the flushes are done.
DmaRead(c) ==
  /\ Begin(c) /\ c.kind = "dma_read"
  /\ LET j == c.jobs[1]
     IN  Post(j.bank, RangeOps(j, "AFL") \o <<Msg("load", j.first, 0)>>)
  /\ pc' = "word"
  /\ UNCHANGED <<bank, rsp, next, tile, history>>

\* read32's response: the caller's word, or the sign that dma_read may go on.
ReceiveWord ==
  /\ pc = "word" /\ rsp # <<>>
  /\ rsp' = Tail(rsp)
  /\ IF call.kind = "read" THEN buffer' = <<Head(rsp)>> /\ Return
                           ELSE pc' = "dram" /\ UNCHANGED buffer
  /\ UNCHANGED <<bank, queue, call, calls, next, tile, history>>

DmaReadDram ==
  /\ pc = "dram"
  /\ buffer' = DramRead(TheJob)
  /\ Return
  /\ UNCHANGED <<bank, queue, rsp, call, calls, next, tile, history>>

\* dma_to_device and dma_to_host flush all caches first: hb_mc_manycore_flush_vcache.
FlushVCache(c) ==
  /\ Begin(c) /\ c.kind \in {"dma_to_device", "dma_to_host"}
  /\ PostToWays("TAGFL")
  /\ next' = 1 /\ pc' = "ask"
  /\ UNCHANGED <<bank, rsp, tile, history>>

\* It reads word 0 of one cache after the other.
FlushAsk ==
  /\ pc = "ask" /\ next <= NumBanks
  /\ Ask(next, 0)
  /\ pc' = "answer"
  /\ UNCHANGED <<bank, rsp, call, calls, next, buffer, tile, history>>

\* (variant) the response is not taken
FlushAnswerKept ==
  /\ pc = "answer" /\ rsp # <<>>
  /\ next' = next + 1 /\ pc' = "ask"
  /\ UNCHANGED <<bank, queue, rsp, call, calls, buffer, tile, history>>

FlushAnswer ==
  /\ pc = "answer" /\ rsp # <<>>
  /\ rsp' = Tail(rsp)
  /\ next' = next + 1 /\ pc' = "ask"
  /\ UNCHANGED <<bank, queue, call, calls, buffer, tile, history>>

\* (variant) the caches are not invalidated
ToDeviceNoInvalidate ==
  /\ pc = "ask" /\ next > NumBanks /\ call.kind = "dma_to_device"
  /\ DramWritten(Jobs, calls) /\ Written(Jobs, calls)
  /\ Return
  /\ UNCHANGED <<queue, rsp, call, calls, next, buffer, tile>>

\* The jobs' data is written and every way's tag cleared; dma_to_device does not wait for the tags.
ToDevice ==
  /\ pc = "ask" /\ next > NumBanks /\ call.kind = "dma_to_device"
  /\ DramWritten(Jobs, calls) /\ Written(Jobs, calls)
  /\ PostToWays("TAG")
  /\ Return
  /\ UNCHANGED <<rsp, call, calls, next, buffer, tile>>

\* A job of dma_to_device fails: those before it are written, and nothing is invalidated.
ToDeviceFails ==
  /\ pc = "ask" /\ next > NumBanks /\ call.kind = "dma_to_device"
  /\ \E k \in 1 .. Len(call.jobs) :
       LET done == {call.jobs[i] : i \in 1 .. k - 1}
       IN  /\ DramWritten(done, calls)
           /\ doubt' = doubt \cup Cells(done)
  /\ Return
  /\ UNCHANGED <<queue, rsp, call, calls, next, buffer, tile, latest>>

\* dma_to_host reads the jobs, or those before one that fails; the buffer shows the first one's.
ToHost ==
  /\ pc = "ask" /\ next > NumBanks /\ call.kind = "dma_to_host"
  /\ buffer' \in {<<>>, DramRead(TheJob)}
  /\ Return
  /\ UNCHANGED <<bank, queue, rsp, call, calls, next, tile, history>>

(***************************************************************************)
(* A kernel, between its launch and its end (TileGroups).                  *)
(***************************************************************************)

\* (variant) the launch does not wait
FencedNot == TRUE

\* The last symbol of a launch is written with write_mem, whose fence waits for every request.
Fenced == \A b \in Bank : queue[b] = <<>>

Launch(c) ==
  /\ Begin(c) /\ c.kind = "kernel"
  /\ pc' = "launch"
  /\ UNCHANGED <<bank, queue, rsp, next, tile, history>>

Start ==
  /\ pc = "launch" /\ Fenced
  /\ pc' = "run" /\ steps' = 0
  /\ UNCHANGED <<bank, queue, rsp, call, calls, next, buffer, seen, history>>

\* The tiles load and store through the caches while the host waits for the finish packet.
TileLoad(b, w) ==
  /\ pc = "run" /\ steps < MaxTileSteps
  /\ \E s \in Fill(bank[b], LineOf(w)) :
       /\ bank' = [bank EXCEPT ![b] = s]
       /\ seen' = [bank |-> b, word |-> w, value |-> Loaded(s, w)]
  /\ steps' = steps + 1
  /\ UNCHANGED <<queue, rsp, host, history>>

TileStore(b, w) ==
  /\ pc = "run" /\ steps < MaxTileSteps
  /\ \E s \in Fill(bank[b], LineOf(w)) : bank' = [bank EXCEPT ![b] = Stored(s, w, calls)]
  /\ latest' = [latest EXCEPT ![b][w] = calls]
  /\ doubt' = doubt \ {<<b, w>>}
  /\ steps' = steps + 1
  /\ UNCHANGED <<queue, rsp, host, seen>>

Finish ==
  /\ pc = "run"
  /\ Return
  /\ UNCHANGED <<bank, queue, rsp, call, calls, next, buffer, tile, history>>

\* What dma_write asks of its caller: no line of the range holds, or is about to hold, stores
\* not yet in DRAM.  (The invalidation would discard them, those next to the range as well; and
\* a line written back between the transfer and the invalidation would overwrite the transfer.)
Careful(c) ==
  c.kind = "dma_write" =>
    LET j == c.jobs[1]
        lines == {LineOf(w) : w \in j.first .. j.first + j.words - 1}
    IN  /\ \A k \in 1 .. Len(queue[j.bank]) : queue[j.bank][k].op # "store"
        /\ \A l \in lines : \A v \in Hits(bank[j.bank], l) : bank[j.bank].way[v].state = "clean"

Program(c) == Write(c) \/ Read(c) \/ DmaWrite(c) \/ DmaRead(c) \/ FlushVCache(c) \/ Launch(c)

Next ==
  \/ \E c \in Calls : Careful(c) /\ Program(c)
  \/ ReceiveWord \/ DmaReadDram \/ FlushAsk \/ FlushAnswer \/ ToDevice \/ ToDeviceFails \/ ToHost
  \/ Start \/ Finish
  \/ \E b \in Bank : Serve(b) \/ \E w \in Word : TileLoad(b, w) \/ TileStore(b, w)

Spec == Init /\ [][Next]_vars

-----------------------------------------------------------------------------
(***************************************************************************)
(* Properties.                                                             *)
(***************************************************************************)

\* Every variable has its type; at most one response is not yet taken.
TypeOK ==
  /\ \A b \in Bank :
       /\ bank[b].dram \in [Word -> Value]
       /\ \A v \in Way : LET e == bank[b].way[v]
                         IN  /\ e.line \in Line /\ e.state \in {"invalid", "clean", "dirty"}
                             /\ e.data \in [WordsOf(e.line) -> Value]
       /\ \A v, u \in Way : \A l \in Line : Holds(bank[b], v, l) /\ Holds(bank[b], u, l) => v = u
       /\ \A k \in 1 .. Len(queue[b]) :
            LET r == queue[b][k]
            IN  /\ r.op \in {"store", "load", "AINV", "AFL", "TAGFL", "TAG"}
                /\ r.at \in (IF r.op \in {"TAGFL", "TAG"} THEN Way ELSE Word)
                /\ r.val \in Value
  /\ rsp \in Seq(Value) /\ Len(rsp) <= 1
  /\ pc \in {"idle", "word", "dram", "ask", "answer", "launch", "run"}
  /\ calls \in 0 .. MaxCalls /\ next \in 1 .. NumBanks + 1
  /\ buffer \in Seq(Value) /\ steps \in 0 .. MaxTileSteps
  /\ latest \in [Bank -> [Word -> Value]] /\ doubt \subseteq Bank \X Word

\* Whenever no request is under way, a cached word is the one last written, and so is a word of
\* DRAM that no cache holds dirty: neither a DMA transfer nor a cache operation leaves a stale
\* copy or loses a store. A dma_to_device that fails leaves in doubt only the words its first
\* jobs have written, until they are written again: repeating the call repairs everything.
Coherent ==
  (pc \in {"idle", "run"} /\ Fenced) =>
    \A b \in Bank : \A w \in {x \in Word : <<b, x>> \notin doubt} :
      LET vs == Hits(bank[b], LineOf(w))
      IN  /\ \A v \in vs : bank[b].way[v].data[w] = latest[b][w]
          /\ (\A v \in vs : bank[b].way[v].state = "clean") => bank[b].dram[w] = latest[b][w]

Reads == {"read", "dma_read", "dma_to_host"}

\* A read, also one that goes to DRAM, returns what was last written to each word, through
\* whatever way it was written ("Any cached data for this memory range will be flushed").
ReadsLatest ==
  (pc = "idle" /\ call.kind \in Reads) =>
    \A k \in 1 .. Len(buffer) :
      LET w == TheJob.first + k - 1
      IN  <<TheJob.bank, w>> \notin doubt => buffer[k] = latest[TheJob.bank][w]

\* A tile of a kernel launched after dma_to_device returned never loads what the transfer
\* replaced, though dma_to_device returns before the caches are invalidated.
TilesLoadLatest ==
  [][\A b \in Bank : \A w \in {x \in Word : <<b, x>> \notin doubt} :
       TileLoad(b, w) => seen'.value = latest[b][w]]_vars
=============================================================================
