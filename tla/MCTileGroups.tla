---------------------------- MODULE MCTileGroups ----------------------------
(***************************************************************************)
(* Instances of TileGroups for TLC: a 2 x 2 mesh at vcore origin (0, 2).   *)
(***************************************************************************)
EXTENDS TileGroups

XY(a, b) == [x |-> a, y |-> b]
Kernel(gx, gy, dx, dy) == [grid_dim |-> XY(gx, gy), dim |-> XY(dx, dy)]

Origin02 == XY(0, 2)
Mesh2x2  == XY(2, 2)

\* A single tile and a column (both finish at the same address), the whole mesh, and a group
\* too wide for it.
MixedKernels == {Kernel(1, 1, 1, 1), Kernel(2, 1, 1, 2), Kernel(1, 1, 2, 2), Kernel(1, 1, 3, 1)}
=============================================================================
