---------------------------- MODULE MCVCacheDma -----------------------------
(* Two caches; two lines of two words behind each, and one way: every other line conflicts. *)
EXTENDS VCacheDma, TLC

On(kind, b, first, words) ==
  [kind |-> kind, jobs |-> <<[bank |-> b, first |-> first, words |-> words]>>]

Both(kind) == [kind |-> kind, jobs |-> <<[bank |-> 2, first |-> 1, words |-> 2],
                                         [bank |-> 1, first |-> 0, words |-> 1]>>]

\* Ranges for dma_read and dma_write lie in one line.
MCCalls == {On("write", 2, 1, 1), On("write", 1, 0, 1), On("read", 2, 1, 1),
            On("dma_write", 2, 0, 1), On("dma_read", 2, 0, 2),
            Both("dma_to_device"), Both("dma_to_host"),
            [kind |-> "kernel", jobs |-> <<>>]}

\* A range of two lines.
LongCalls == {On("write", 2, 1, 1), On("write", 2, 2, 1), On("dma_read", 2, 1, 2)}
=============================================================================
