------------------------------ MODULE MCDevice ------------------------------
(* Constants for TLC: an array of two tiles, whose programs are one word of   *)
(* text more than an icache holds, with a variable and a zeroed word in each  *)
(* tile and a variable in DRAM; and binaries that cannot be loaded.           *)
EXTENDS Device, TLC

MCOrigin == <<0, 1>>
MCArrayDim == <<2, 1>>
MCCache == <<0, 2>>
MCDims == {<<0, 0>>, <<3, 1>>}
MCLinked == <<"print">>

(* Tile memory: a variable, a zeroed word, the kernel pointer, then the       *)
(* configuration symbols. DRAM: text, a variable.                             *)
Segment(load, paddr, data, memsz, exec) ==
    [load |-> load, paddr |-> paddr, data |-> data, memsz |-> memsz, exec |-> exec,
     inbounds |-> TRUE]
Note == Segment(FALSE, 0, <<>>, 0, FALSE)
TextSegment == Segment(TRUE, DramEva, <<11, 12>>, 2, TRUE)
DramData == Segment(TRUE, DramEva + 2, <<13>>, 1, FALSE)
TileData == Segment(TRUE, 0, <<14>>, DmemWords, FALSE)

SymbolAt ==
    [name \in {ConfigSymbols[i] : i \in DOMAIN ConfigSymbols} |->
        2 + CHOOSE i \in DOMAIN ConfigSymbols : ConfigSymbols[i] = name]
    @@ ("cuda_kernel_ptr" :> 2)
Section(symbols) == [inbounds |-> TRUE, symbols |-> symbols]
Names == SymbolAt @@ ("_bsg_dram_end_addr" :> DramEva + 3)

Good == [elf |-> TRUE, segments |-> <<Note, TileData, TextSegment, DramData>>,
         sections |-> <<Section([n \in {} |-> 0]), Section(Names)>>]
NotElf == [Good EXCEPT !.elf = FALSE]
TooLarge == [Good EXCEPT !.segments = <<Segment(TRUE, 0, <<14>>, DmemWords + 1, FALSE),
                                        TextSegment>>]
NoText == [Good EXCEPT !.segments = <<Segment(TRUE, DramEva, <<>>, 0, TRUE)>>]
NoKernelPointer ==
    [Good EXCEPT !.sections = <<Section([n \in DOMAIN Names \ {"cuda_kernel_ptr"} |-> Names[n]])>>]
(* It can be loaded any number of times, also over a program whose tiles are  *)
(* not yet started, and puts its own text into their memory before it fails.  *)
CutOff == [Good EXCEPT !.segments = <<TileData, Segment(TRUE, DramEva, <<21>>, 1, TRUE),
                                      [TextSegment EXCEPT !.inbounds = FALSE]>>]
MCBadBinaries == {NotElf, TooLarge, NoText, NoKernelPointer}
MCBinaries == {Good, CutOff} \cup MCBadBinaries

MCProgramData == {DramEva + 2}

=============================================================================
