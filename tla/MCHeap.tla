------------------------------- MODULE MCHeap -------------------------------
(***************************************************************************)
(* Instances of the heap for TLC: pages of 8 cells, the first page of the  *)
(* address range for the index, and sizes given in pages by the cfg files. *)
(***************************************************************************)
EXTENDS HeapProperties
CONSTANTS MinPages, InitialPages, MaxPages
MCPageSize == 8
MCStart == MCPageSize
MCMapped == 0..InitialPages
MCMinSize == MinPages * MCPageSize
MCInitialEnd == MCStart + InitialPages * MCPageSize
MCMaxAddress == MCStart + MaxPages * MCPageSize
MCWordSize == 256
MCMagic == 128
=============================================================================
