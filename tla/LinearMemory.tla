---------------------------- MODULE LinearMemory ----------------------------
(***************************************************************************)
(* What hb_mc_manycore_eva_write, _read and _memset promise: whatever      *)
(* banks and tiles an address range is spread over, a call works through   *)
(* the places it names in order, touches no other place, and gives up      *)
(* early only in front of an address that names no place.                  *)
(***************************************************************************)
EXTENDS Naturals, Sequences

CONSTANTS Place, Nowhere, Value, Zero

VARIABLES
  memory,   \* the value at each place
  todo,     \* what the call has left: the place, and the value to write there
  writes,   \* whether the call writes or reads
  got       \* the values the call has read

vars == <<memory, todo, writes, got>>

Item == [at : Place \cup {Nowhere}, val : Value]

Init == memory = [p \in Place |-> Zero] /\ todo = <<>> /\ writes = FALSE /\ got = <<>>

Begin ==
  /\ todo = <<>>
  /\ todo' \in Seq(Item)
  /\ writes' \in BOOLEAN
  /\ got' = <<>>
  /\ UNCHANGED memory

\* The first k items are done in one go.
Advance(k) ==
  LET done == SubSeq(todo, 1, k)
      last(p) == CHOOSE i \in 1 .. k : done[i].at = p /\ \A j \in i + 1 .. k : done[j].at # p
  IN  /\ \A i \in 1 .. k : done[i].at \in Place
      /\ todo' = SubSeq(todo, k + 1, Len(todo))
      /\ IF writes
         THEN /\ memory' = [p \in Place |-> IF \E i \in 1 .. k : done[i].at = p
                                            THEN done[last(p)].val ELSE memory[p]]
              /\ UNCHANGED got
         ELSE /\ got' = got \o [i \in 1 .. k |-> memory[done[i].at]]
              /\ UNCHANGED memory
      /\ UNCHANGED writes

GiveUp ==
  /\ todo # <<>> /\ todo[1].at = Nowhere
  /\ todo' = <<>>
  /\ UNCHANGED <<memory, writes, got>>

Next == Begin \/ GiveUp \/ \E k \in 1 .. Len(todo) : Advance(k)

Spec == Init /\ [][Next]_vars
=============================================================================
