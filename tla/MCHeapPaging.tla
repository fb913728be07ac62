---------------------------- MODULE MCHeapPaging ----------------------------
(***************************************************************************)
(* An instance of HeapPaging for TLC: pages of eight cells, page tables    *)
(* that span nine pages.  Of the first table the boot maps five pages      *)
(* (one for the index), four are left for growth; a growth beyond them     *)
(* needs a table from the heap.                                            *)
(***************************************************************************)
EXTENDS HeapPaging
MCPageSize == 8
MCStart == (HeapFirst + 1) * MCPageSize
MCMinSize == 2 * MCPageSize
MCInitialEnd == (HeapFirst + HeapInitial) * MCPageSize
MCHeapPages == 11
MCNPages == HeapFirst + MCHeapPages
MCMaxAddress == MCNPages * MCPageSize
MCWordSize == 280
MCMagic == 100
MCTableSpan == 9
MCWordBits == 4
MCFrameSize == 64
WordsReturned == {NFrames \div WordBits}
=============================================================================
