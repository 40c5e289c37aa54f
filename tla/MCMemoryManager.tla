--------------------------- MODULE MCMemoryManager ---------------------------
(***************************************************************************)
(* Instances of MemoryManager for TLC.  Seven aligned blocks leave room    *)
(* for a free list longer than the code's threshold of 4.                  *)
(***************************************************************************)
EXTENDS MemoryManager

\* One block by the zero-size rule, one by padding, two exactly, and more than is ever free.
SomeSizes == {0, 1, 4, 16}
=============================================================================
