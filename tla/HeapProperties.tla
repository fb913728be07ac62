--------------------------- MODULE HeapProperties ---------------------------
(***************************************************************************)
(* What makes the heap of Heap.tla correct, and what the comments of       *)
(* kernel/heap.c say of it.                                                *)
(***************************************************************************)
EXTENDS Heap

Holes == ToSet(index)
HoleCells(h) == h..(h + mem[h + 2] - 1)
BlockHeader(b) == b.ptr - Hdr
BlockCells(b) == BlockHeader(b)..(BlockHeader(b) + mem[BlockHeader(b) + 2] - 1)
Arena == Start..(endAddress - 1)

TypeOK ==
  /\ mem \in [Cells -> Int]
  /\ index \in Seq(Cells)
  /\ endAddress \in Nat
  /\ present \subseteq Pages
  /\ live \subseteq [ptr : Int, size : Sizes]
  /\ requests \in 0..MaxRequests
  /\ pending \in [size : Sizes, align : Aligns] \union {NoRequest}
  /\ status \in {"running", "panic"}

(* Every cell of the arena belongs to exactly one block in use or hole of  *)
(* the index: what alloc's splits and free's merges must keep between them *)
(* (heap.c:205-258, 284-348).                                              *)
Tiling ==
  status = "running" =>
    /\ \A c \in Arena :
         \/ /\ \E b \in live : c \in BlockCells(b)
            /\ \A h \in Holes : c \notin HoleCells(h)
         \/ /\ \E h \in Holes : c \in HoleCells(h)
            /\ \A b \in live : c \notin BlockCells(b)
    /\ \A b \in live : BlockCells(b) \subseteq Arena
    /\ \A h \in Holes : HoleCells(h) \subseteq Arena
    /\ \A b, c \in live : b # c => BlockCells(b) \intersect BlockCells(c) = {}
    /\ \A h, g \in Holes : h # g => HoleCells(h) \intersect HoleCells(g) = {}
    /\ Len(index) = Cardinality(Holes)

(* free leaves no two holes side by side: the unifications of              *)
(* heap.c:284-317 see every neighbour.                                     *)
Coalesced ==
  status = "running" => \A h, g \in Holes : h + mem[h + 2] # g

(* The index never needs more places than there are blocks in use, and one: *)
(* insertOrderedArray stores without looking at max_size (orderedArray.c:47,*)
(* 59), so the number of blocks is all that keeps it inside its array: with *)
(* more than max_size of them nothing does.                                 *)
IndexFits == status = "running" => Len(index) <= Cardinality(live) + 1

(* Each block, and each hole with something on its right, can be found     *)
(* from both of its ends: the footer points to the header (heap.c:237-240, *)
(* 250-255, 292, 304).                                                     *)
Tagged(h, isHole) ==
  /\ mem[h] = Magic /\ mem[h + 1] = isHole
  /\ LET footer == h + mem[h + 2] - Ftr
     IN footer + Ftr # endAddress => mem[footer] = Magic /\ mem[footer + 1] = h
TagsConsistent ==
  status = "running" =>
    /\ \A b \in live : Tagged(BlockHeader(b), 0)
    /\ \A h \in Holes : Tagged(h, 1)

(* No allocator operation writes in the cells a client owns.               *)
PayloadKept ==
  \A b \in live : \A c \in b.ptr..(b.ptr + b.size - 1) :
    c \in Cells /\ mem[c] = Payload

(* The arena stays between its minimum and its maximum whatever the        *)
(* clients ask for and free (heap.c:24-25 and 52-54).                      *)
EndInBounds == Start + MinSize <= endAddress /\ endAddress <= MaxAddress

(* alloc panics only where expand asserts that the arena cannot grow, or    *)
(* where its loop, stepping by whole pages from an end inside a page, passes *)
(* over the page the arena then ends in, and the footer of the last hole is  *)
(* written there (heap.c:18, 31-36, 192).  Every size the kernel asks for is *)
(* even, so that its arena does end inside pages.  free panics only for the  *)
(* block the arena ends with, when it looks for a header behind the end      *)
(* (heap.c:47-48, 298-301).                                                  *)
PassesOver(length) ==
  LET last == Start + length - 1
  IN SamePlace(last \div PageSize) > last
PanicsAtTheEdgeOnly ==
  [][/\ Place => status' = "running"
     /\ Expand /\ ExpandAsserts(Length, Length + Need) =>
          \/ status' = "running"
          \/ PassesOver(ExpandedLength(Word(Length + Need)))
     /\ \A b \in live :
          Free(b) /\ ~IsLast(BlockHeader(b)) => status' = "running"]_vars

(* The heap implements the abstract one: clients see a set of disjoint     *)
(* blocks inside the arena.                                                *)
Abstract == INSTANCE AbstractHeap WITH
  Low <- Start, High <- MaxAddress, live <- live
ImplementsAbstractHeap == Abstract!Spec
-----------------------------------------------------------------------------
(***************************************************************************)
(* What a comment says of the heap and the code does not do.               *)
(***************************************************************************)

(* orderedArray.h:11: the index "always remains in a sorted state (between *)
(* calls)"; but merges and expansions change a hole's size in place.       *)
IndexSorted ==
  status = "running" /\ pending = NoRequest => SortedBy(index, SizeKey(mem))
=============================================================================
