---------------------------- MODULE AbstractHeap ----------------------------
(***************************************************************************)
(* What the clients of kmalloc and kfree rely on, with nothing of how the  *)
(* heap keeps its books: the blocks handed out lie in the arena and share  *)
(* no cell, and a block stays as it is until its owner frees it.           *)
(***************************************************************************)
EXTENDS Integers

CONSTANTS Low, High, Sizes

VARIABLE live     \* blocks held by clients: [ptr, size]

Range(b) == b.ptr..(b.ptr + b.size - 1)
Disjoint(b, c) == Range(b) \intersect Range(c) = {}
Blocks == [ptr : Low..High, size : Sizes]

Init == live = {}

(* alloc returns a block that overlaps none of the blocks in use.          *)
Alloc ==
  \E b \in Blocks :
    /\ b.ptr + b.size <= High
    /\ \A c \in live : Disjoint(b, c)
    /\ live' = live \union {b}

(* free takes one block away and touches no other.                         *)
Free == \E b \in live : live' = live \ {b}

Next == Alloc \/ Free
Spec == Init /\ [][Next]_live

=============================================================================
