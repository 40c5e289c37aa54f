---------------------------- MODULE MemoryManager ----------------------------
(***************************************************************************)
(* The allocator of device DRAM: awsbwhal::MemoryManager, which keeps a    *)
(* list of free and a list of busy buffers, and its two users of           *)
(* bsg_manycore_cuda.cpp, hb_mc_device_malloc and hb_mc_device_free.  The  *)
(* manager's mutex makes each operation one step.                          *)
(***************************************************************************)
EXTENDS Integers, Sequences, FiniteSets, SequencesExt

CONSTANTS
  Start, Size,         \* the range managed: mStart, mSize
  Alignment,           \* mAlignment
  CoalesceThreshold,   \* mCoalesceThreshold (4 in the code)
  Requests,            \* sizes the program asks for
  EvaSpace             \* how many values an hb_mc_eva_t has; the manager's addresses have the square

ASSUME RangeAssumption ==
  /\ Start \in Nat /\ Size \in Nat \ {0} /\ Alignment \in Nat \ {0}
  /\ Start % Alignment = 0
  /\ CoalesceThreshold \in Nat /\ EvaSpace \in Nat \ {0}
  /\ Requests \subseteq Nat

VARIABLES
  free,       \* mFreeBufferList
  busy,       \* mBusyBufferList: its order is never seen
  freeSize,   \* mFreeSize
  reply       \* what the last hb_mc_device_malloc returned

vars == <<free, busy, freeSize, reply>>

Buffer == [base : Nat, len : Nat]

\* MemoryManager::mNull, all ones, and the conversion of an address to an hb_mc_eva_t.
mNull    == EvaSpace * EvaSpace - 1
ToEva(a) == a % EvaSpace

NoReply == [rc |-> "none", eva |-> 0]

Init == /\ free = <<[base |-> Start, len |-> Size]>>
        /\ busy = {}
        /\ freeSize = Size
        /\ reply = NoReply

\* The size that is really allocated.
Padded(size) == LET s == IF size = 0 THEN Alignment ELSE size
                    m == s % Alignment
                IN  IF m > 0 THEN s + (Alignment - m) ELSE s

Candidates(n) == {i \in DOMAIN free : free[i].len >= n}

\* (variant) the rest of a split buffer keeps its base
CutFrontKeepsBase(i, n) ==
  IF free[i].len > n THEN [free EXCEPT ![i].len = @ - n] ELSE RemoveAt(free, i)

\* The free list after n bytes are cut off the front of entry i.
CutFront(i, n) ==
  IF free[i].len > n
    THEN [free EXCEPT ![i] = [base |-> @.base + n, len |-> @.len - n]]
    ELSE RemoveAt(free, i)

\* alloc finds the first entry that is large enough.  hb_mc_device_malloc keeps the address in
\* an hb_mc_eva_t and compares that with mNull.
Allocate(size, i) ==
  LET n == Padded(size)
  IN
  /\ i \in Candidates(n) /\ \A j \in Candidates(n) : i <= j
  /\ free' = CutFront(i, n)
  /\ busy' = busy \cup {[base |-> free[i].base, len |-> n]}
  /\ freeSize' = freeSize - n
  /\ reply' = [rc |-> "SUCCESS", eva |-> ToEva(free[i].base)]

Exhausted(size) ==
  /\ Candidates(Padded(size)) = {}
  /\ reply' = IF ToEva(mNull) = mNull THEN [rc |-> "NOMEM", eva |-> 0]
                                      ELSE [rc |-> "SUCCESS", eva |-> ToEva(mNull)]
  /\ UNCHANGED <<free, busy, freeSize>>

DeviceMalloc(size) == Exhausted(size) \/ \E i \in DOMAIN free : Allocate(size, i)

\* std::list::sort with the order of pairs: an entry's place is behind those before it.
Before(a, b) == a.base < b.base \/ (a.base = b.base /\ a.len < b.len)

PlaceOf(list, i) ==
  Cardinality({j \in DOMAIN list : Before(list[j], list[i]) \/ (list[j] = list[i] /\ j <= i)})

Sorted(list) ==
  [k \in DOMAIN list |-> list[CHOOSE i \in DOMAIN list : PlaceOf(list, i) = k]]

\* The list so far, with the next entry: it joins the last one if it starts where that ends.
Join(acc, b) ==
  IF acc # <<>> /\ Last(acc).base + Last(acc).len = b.base
    THEN [acc EXCEPT ![Len(acc)].len = @ + b.len]
    ELSE Append(acc, b)

\* (variant) the list is not sorted before neighbours are joined
CoalesceUnsorted(list) == FoldLeft(Join, <<>>, list)

Coalesce(list) == FoldLeft(Join, <<>>, Sorted(list))

\* (variant) the size given back is not counted
CountNothing(b) == UNCHANGED freeSize

Count(b) == freeSize' = freeSize + b.len

DeviceFree(eva) ==
  /\ reply' = NoReply
  /\ IF \E b \in busy : b.base = eva
       THEN \E b \in busy :
              LET list == Append(free, b)
              IN  /\ b.base = eva
                  /\ Count(b)
                  /\ busy' = busy \ {b}
                  /\ free' = IF Len(list) > CoalesceThreshold THEN Coalesce(list) ELSE list
       ELSE UNCHANGED <<free, busy, freeSize>>

\* The program frees what it was given, or, in error, anything else.
Addresses == {b.base : b \in busy} \cup {ToEva(mNull)} \cup Start .. Start + Size - 1

Next == \/ \E size \in Requests : DeviceMalloc(size)
        \/ \E eva \in Addresses : DeviceFree(eva)

Spec == Init /\ [][Next]_vars

-----------------------------------------------------------------------------
(***************************************************************************)
(* Properties.                                                             *)
(***************************************************************************)

TypeOK == /\ free \in Seq(Buffer)
          /\ busy \subseteq Buffer
          /\ freeSize \in 0 .. Size
          /\ reply \in [rc : {"none", "SUCCESS", "NOMEM"}, eva : 0 .. EvaSpace - 1]

Extent(b) == b.base .. b.base + b.len - 1

Buffers == ToSet(free) \cup busy

\* Free and busy buffers are aligned and not empty, no two overlap, and together they are the
\* managed range: no byte is handed out twice, and none is lost.
BuffersPartitionRange ==
  /\ \A b \in Buffers : b.len > 0 /\ b.base % Alignment = 0
  /\ \A b, c \in Buffers : b # c => Extent(b) \cap Extent(c) = {}
  /\ IsInjective(free) /\ ToSet(free) \cap busy = {}
  /\ UNION {Extent(b) : b \in Buffers} = Start .. Start + Size - 1

\* mFreeSize is the size of the free list.
FreeSizeIsExact == freeSize = FoldLeft(LAMBDA n, b : n + b.len, 0, free)

\* A list longer than the threshold has been coalesced since a buffer was added: no entry ends
\* where another one begins.
LongListIsCoalesced ==
  Len(free) > CoalesceThreshold =>
    \A b, c \in ToSet(free) : b.base + b.len # c.base

\* hb_mc_device_malloc: the address it returns with HB_MC_SUCCESS is that of an allocated
\* buffer ("HB_MC_SUCCESS if succesful. Otherwise an error code is returned").
SuccessIsAllocated ==
  reply.rc = "SUCCESS" => \E b \in busy : ToEva(b.base) = reply.eva
=============================================================================
