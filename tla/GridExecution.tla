--------------------------- MODULE GridExecution ---------------------------
(***************************************************************************)
(* What the tile-group scheduler promises a program: every group it        *)
(* enqueued runs once, on tiles that no other group has meanwhile, its     *)
(* kernel ends on every one of them before the group counts as done, and a *)
(* group that is done stays done.  Nothing here says how tiles are found,  *)
(* how a group is started or how the host learns that it ended.            *)
(***************************************************************************)
EXTENDS Naturals

CONSTANTS Group, Tile

VARIABLES
  phase,    \* where each group is
  region,   \* the tiles a group holds
  worked    \* the tiles on which the group's kernel has ended

vars == <<phase, region, worked>>

Init == /\ phase = [g \in Group |-> "absent"]
        /\ region = [g \in Group |-> {}]
        /\ worked = [g \in Group |-> {}]

Submit(g) ==
  /\ phase[g] = "absent"
  /\ phase' = [phase EXCEPT ![g] = "pending"]
  /\ UNCHANGED <<region, worked>>

Start(g, R) ==
  /\ phase[g] = "pending"
  /\ R # {} /\ \A h \in Group : R \cap region[h] = {}
  /\ phase' = [phase EXCEPT ![g] = "running"]
  /\ region' = [region EXCEPT ![g] = R]
  /\ UNCHANGED worked

Work(g, t) ==
  /\ phase[g] = "running"
  /\ t \in region[g] \ worked[g]
  /\ worked' = [worked EXCEPT ![g] = @ \cup {t}]
  /\ UNCHANGED <<phase, region>>

Complete(g) ==
  /\ phase[g] = "running"
  /\ worked[g] = region[g]
  /\ phase' = [phase EXCEPT ![g] = "complete"]
  /\ worked' = [worked EXCEPT ![g] = {}]
  /\ UNCHANGED region

Retire(g) ==
  /\ phase[g] = "complete"
  /\ phase' = [phase EXCEPT ![g] = "done"]
  /\ region' = [region EXCEPT ![g] = {}]
  /\ UNCHANGED worked

Next == \E g \in Group :
          \/ Submit(g) \/ Complete(g) \/ Retire(g)
          \/ \E R \in SUBSET Tile : Start(g, R)
          \/ \E t \in Tile : Work(g, t)

Spec == Init /\ [][Next]_vars
=============================================================================
