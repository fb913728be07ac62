-------------------------------- MODULE Heap --------------------------------
(***************************************************************************)
(* The kernel heap of kernel/heap.c: boundary-tagged blocks and holes in a *)
(* paged arena, with an index of the holes kept by kernel/orderedArray.c.  *)
(*                                                                         *)
(* Memory is modelled cell by cell because the allocator's own bookkeeping *)
(* lives in it: a header_t is three cells (magic, is_hole, size) and a     *)
(* footer_t two (magic, header).  One cell stands for one field and for    *)
(* one byte of size arithmetic.  Pages are PageSize cells, and addresses   *)
(* and sizes wrap at WordSize as uint32_t does at 2^32.  The cells below   *)
(* the heap are low memory, where a store that has lost its way may end.   *)
(***************************************************************************)
EXTENDS OrderedArray, FiniteSets

CONSTANTS
  PageSize,       \* 0x1000
  Magic,          \* HEAP_MAGIC, 0x123890AB: more than the heap is long
  Mapped,         \* pages that are mapped when the heap is created
  Start,          \* heap->start_address, after the page(s) of the index
  InitialEnd,     \* heap->end_address after createHeap
  MaxAddress,     \* heap->max_address
  MinSize,        \* HEAP_MIN_SIZE
  WordSize,       \* 2^32
  Sizes,          \* sizes the clients ask for
  Aligns,         \* values of page_align the clients pass
  MaxLive,        \* bound: blocks the clients hold at once
  MaxRequests,    \* bound: calls of alloc in a behaviour
  Regime          \* what the clients may ask for and free: see MayAsk, MayFree

Hdr == 3          \* sizeof(header_t)
Ftr == 2          \* sizeof(footer_t)
Overhead == Hdr + Ftr
Payload == -2     \* what a client stores in its block
NoRequest == [size |-> 0, align |-> FALSE]

ASSUME HeapParameters ==
  /\ PageSize \in Nat \ {0} /\ PageSize > Overhead
  /\ Start \in Nat /\ Start >= PageSize
  /\ MinSize \in Nat /\ MinSize >= 2 * PageSize /\ MinSize % PageSize = 0
  /\ InitialEnd \in Nat /\ Start + MinSize <= InitialEnd
  /\ Start % PageSize = 0 /\ InitialEnd % PageSize = 0
  /\ MaxAddress \in Nat /\ InitialEnd <= MaxAddress
  /\ WordSize \in Nat /\ MaxAddress < WordSize
  /\ Magic \in Nat /\ MaxAddress - Start < Magic /\ Magic < WordSize
ASSUME MappedPages ==
  /\ {c \div PageSize : c \in (Start - PageSize)..(InitialEnd - 1)} \subseteq Mapped
  /\ Mapped \subseteq {c \div PageSize : c \in 0..(MaxAddress - 1)}
ASSUME ClientParameters ==
  /\ Sizes \subseteq Nat \ {0}
  /\ Aligns \subseteq BOOLEAN
  /\ MaxLive \in Nat /\ MaxRequests \in Nat
  /\ Regime \in {"none", "contained", "no_right_hole", "any"}

VARIABLES
  mem,            \* the cells of the heap's address range
  index,          \* heap->index: the addresses of the holes' headers
  endAddress,     \* heap->end_address
  present,        \* pages whose page table entry is present
  live,           \* blocks the clients hold: [ptr, size] as they see them
  requests,       \* how many requests there were (for the bound)
  pending,        \* the request alloc is working on, NoRequest when none
  status          \* "running", or "panic" after a page fault or an assert
vars == <<mem, index, endAddress, present, live, requests, pending, status>>

Cells == 0..(MaxAddress - 1)
Pages == {c \div PageSize : c \in Cells}
Word(x) == x % WordSize

(* A contiguous range the processor can access without a page fault.       *)
Accessible(a, n, pages) ==
  \A c \in a..(a + n - 1) : c \in Cells /\ c \div PageSize \in pages

PutHeader(m, a, isHole, size) ==
  [m EXCEPT ![a] = Magic, ![a + 1] = isHole, ![a + 2] = size]
PutFooter(m, a, header) == [m EXCEPT ![a] = Magic, ![a + 1] = header]
SizeKey(m) == [a \in Cells |-> IF a + 2 \in Cells THEN m[a + 2] ELSE 0]

Length == endAddress - Start
Need == Word(pending.size + Overhead)     \* new_size of alloc

Panic ==
  /\ status' = "panic"
  /\ UNCHANGED <<mem, index, endAddress, present, live, requests, pending>>

(***************************************************************************)
(* createHeap: one hole header at the start of the arena, without footer.  *)
(* The cells hold zero, the index area because createHeap clears it, the   *)
(* others because memory that was never written holds no HEAP_MAGIC.       *)
(***************************************************************************)
Created ==
  /\ mem = PutHeader([c \in Cells |-> 0], Start, 1, InitialEnd - Start)
  /\ index = <<Start>>
  /\ endAddress = InitialEnd
  /\ live = {}
  /\ requests = 0
  /\ pending = NoRequest
  /\ status = "running"
Init == Created /\ present = Mapped

(***************************************************************************)
(* find_smallest_hole: the first hole of the index that fits, 0 for the    *)
(* code's -1.  The aligned test reads the size as an int32_t.              *)
(***************************************************************************)
AlignOffset(h) == PageSize - ((h + Hdr) % PageSize)
Signed(x) == IF x < WordSize \div 2 THEN x ELSE x - WordSize
Fits(h, size, align) ==
  IF align THEN Signed(mem[h + 2]) - AlignOffset(h) >= size ELSE mem[h + 2] >= size
FindSmallestHole(size, align) ==
  SelectInSeq(index, LAMBDA h : Fits(h, size, align))

(***************************************************************************)
(* The client's side.  In the regime "contained" a client that asks for    *)
(* more than any hole has finds a hole at the end of the arena, or no hole *)
(* at all: alloc gives the growth to the endmost hole wherever it lies     *)
(* (heap.c:158-196).                                                       *)
(***************************************************************************)
RightOf(h) == h + mem[h + 2]
IsLast(h) == RightOf(h) = endAddress
EndsInHole == \E h \in ToSet(index) : IsLast(h)
MayAsk(size, align) ==
  Regime = "contained" =>
    \/ FindSmallestHole(Word(size + Overhead), align) # 0
    \/ index = <<>> \/ EndsInHole

(* alloc is called: the request it will work on until it returns.          *)
Request ==
  /\ status = "running" /\ pending = NoRequest
  /\ Cardinality(live) < MaxLive /\ requests < MaxRequests
  /\ requests' = requests + 1
  /\ \E size \in Sizes, align \in Aligns :
       /\ MayAsk(size, align)
       /\ pending' = [size |-> size, align |-> align]
  /\ UNCHANGED <<mem, index, endAddress, present, live, status>>

(***************************************************************************)
(* expand: "new_size&0xFFFFF000 != 0" parses as "new_size & 1", so only an *)
(* odd length is rounded (down, then one page up).  The mapping loop steps *)
(* from the old end by whole pages: it reaches, in every page, the place   *)
(* the old end has in its own.                                             *)
(***************************************************************************)
ExpandedLength(need) ==
  IF need % 2 # 0 THEN (need \div PageSize) * PageSize + PageSize ELSE need
SamePlace(p) == p * PageSize + (endAddress % PageSize)
ExpandedPages(newEnd) ==
  {p \in Pages : endAddress <= SamePlace(p) /\ SamePlace(p) < newEnd}
ExpandAsserts(old, need) ==
  /\ Word(need) > old
  /\ Word(Start + ExpandedLength(Word(need))) <= MaxAddress

(* The hole with the highest address, which alloc takes for the last one.  *)
EndmostHole == CHOOSE h \in ToSet(index) : \A g \in ToSet(index) : g <= h

(***************************************************************************)
(* The part of alloc that runs when no hole fits: expand the arena, give   *)
(* the growth to the endmost hole (or to a new one when the index is       *)
(* empty), rewrite its footer and call alloc again.                        *)
(***************************************************************************)
GiveGrowth(oldEnd, new, pages) ==
  LET growth == new - (oldEnd - Start)
      fresh  == index = <<>>
      h      == IF fresh THEN oldEnd ELSE EndmostHole
      size   == IF fresh THEN growth ELSE Word(mem[h + 2] + growth)
      footer == Word(h + size - Ftr)
  IN /\ endAddress' = Word(Start + new)
     /\ IF Accessible(h, Hdr, pages) /\ Accessible(footer, Ftr, pages)
        THEN LET m == IF fresh THEN PutHeader(mem, h, 1, size)
                      ELSE [mem EXCEPT ![h + 2] = size]
             IN /\ mem' = PutFooter(m, footer, h)
                /\ index' = IF fresh THEN InsertOrderedArray(index, h, SizeKey(m))
                            ELSE index
                /\ UNCHANGED status
        ELSE status' = "panic" /\ UNCHANGED <<mem, index>>

ExpandHeap(new) ==
  LET grown == present \union ExpandedPages(Start + new)
  IN /\ GiveGrowth(endAddress, new, grown)
     /\ present' = grown
     /\ UNCHANGED <<live, requests, pending>>

Expand ==
  LET need == Length + Need
  IN /\ status = "running" /\ pending # NoRequest
     /\ FindSmallestHole(Need, pending.align) = 0
     /\ IF ExpandAsserts(Length, need)
        THEN ExpandHeap(ExpandedLength(Word(need)))
        ELSE Panic

(***************************************************************************)
(* The part of alloc that runs when a hole fits.  Cut describes what it    *)
(* does to the hole at h: "pos" is where the block's header goes (behind a *)
(* front hole of "front" cells when the data must start on a page), "size" *)
(* the block's size, "rest" the size of the hole written behind it.  What  *)
(* remains behind a front hole is worked out with the size in its header   *)
(* (heap.c:224), which its footer, stored before, lies on when the front   *)
(* hole is shorter than both.                                              *)
(***************************************************************************)
FrontWrites(m, c, h) ==
  IF c.split THEN PutFooter(PutHeader(m, h, 1, c.front), c.pos - Ftr, h) ELSE m
Cut(h) ==
  LET orig   == mem[h + 2]
      size   == IF orig - Need < Overhead THEN orig ELSE Need
      split  == pending.align
      front  == Word(PageSize - (h % PageSize) - Hdr)
      pos    == IF split THEN Word(h + front) ELSE h
      after  == FrontWrites(mem, [split |-> split, front |-> front, pos |-> pos], h)
      remain == IF split THEN Word(orig - after[h + 2]) ELSE orig
  IN [split |-> split, front |-> front, pos |-> pos, size |-> size,
      rest |-> Word(remain - size)]

BlockWrites(m, c) ==
  PutFooter(PutHeader(m, c.pos, 0, c.size), c.pos + c.size - Ftr, c.pos)
RestWrites(m, c, hole) ==
  LET footer == Word(hole + c.rest - Ftr)
      header == PutHeader(m, hole, 1, c.rest)
  IN IF c.rest = 0 THEN m
     ELSE IF footer < endAddress THEN PutFooter(header, footer, hole) ELSE header
PlaceTouches(c, h) ==
  /\ Accessible(h, Hdr, present) /\ Accessible(c.pos, Hdr, present)
  /\ c.split => Accessible(c.pos - Ftr, Ftr, present)
  /\ Accessible(c.pos + c.size - Ftr, Ftr, present)
  /\ c.rest # 0 =>
       LET hole   == c.pos + c.size
           footer == Word(hole + c.rest - Ftr)
       IN /\ Accessible(hole, Hdr, present)
          /\ footer < endAddress => Accessible(footer, Ftr, present)

(* alloc returns: the client owns the block and fills it with its data.    *)
GrantedWhole(c) == [ptr |-> c.pos + Hdr, size |-> c.size]
Granted(c) == [ptr |-> c.pos + Hdr, size |-> pending.size]
FillPayload(m, b) ==
  [c \in Cells |-> IF c \in b.ptr..(b.ptr + b.size - 1) THEN Payload ELSE m[c]]

(* What alloc does with the hole at h once it is cut as c: "kept" is the    *)
(* index without the hole, or with it when it stays as the front hole.     *)
CutWrites(c, h) ==
  RestWrites(BlockWrites(FrontWrites(mem, c, h), c), c, c.pos + c.size)
PlaceIn(c, h, kept) ==
  IF PlaceTouches(c, h) /\ Accessible(Granted(c).ptr, pending.size, present)
  THEN /\ \E taken \in {CutWrites(c, h)} :
            /\ mem' = FillPayload(taken, Granted(c))
            /\ index' = IF c.rest = 0 THEN kept
                        ELSE InsertOrderedArray(kept, c.pos + c.size, SizeKey(taken))
       /\ live' = live \union {Granted(c)}
       /\ pending' = NoRequest
       /\ UNCHANGED <<endAddress, present, requests, status>>
  ELSE Panic
Place ==
  LET i == FindSmallestHole(Need, pending.align)
      h == index[i]
  IN /\ status = "running" /\ pending # NoRequest
     /\ i # 0
     /\ \E c \in {Cut(h)} :
          PlaceIn(c, h, IF c.split THEN index ELSE RemoveOrderedArray(index, i))

(***************************************************************************)
(* contract: a length with the page bit 0x1000 set becomes 2 * PageSize;   *)
(* the result is at least MinSize.  free_frame takes the pages above it    *)
(* away but leaves their entries present, so later accesses reach whatever *)
(* frame 0 holds: the model keeps such a page accessible and reads zero.   *)
(***************************************************************************)
PageBitSet(n) == (n \div PageSize) % 2 = 1
ContractedLengthNoMinimum(n) ==
  IF PageBitSet(n) THEN 2 * PageSize ELSE n
ContractedLength(n) ==
  LET aligned == IF PageBitSet(n) THEN 2 * PageSize ELSE n
  IN IF aligned < MinSize THEN MinSize ELSE aligned
Dropped(p, newEnd) ==
  SamePlace(p) + PageSize <= endAddress /\ newEnd < SamePlace(p)
DropPages(m, newEnd) ==
  [c \in Cells |-> IF Dropped(c \div PageSize, newEnd) THEN 0 ELSE m[c]]

(***************************************************************************)
(* free, in the order of the code: mark the block as a hole, unify with    *)
(* the hole on the left, unify with the hole on the right, contract when   *)
(* the hole ends the arena, insert the hole in the index.                  *)
(*                                                                         *)
(* UnifyLeft yields the hole's header after the first merge.  The footer   *)
(* tested lies just below the block.                                       *)
(***************************************************************************)
Marked(h) == [mem EXCEPT ![h + 1] = 1]
LeftFooter(h) == h - Ftr
IsLeftHoleNever(h) == FALSE
IsLeftHole(h) ==
  /\ mem[LeftFooter(h)] = Magic
  /\ Marked(h)[mem[LeftFooter(h) + 1] + 1] = 1
UnifyLeftAddedTwice(h) ==
  LET left == mem[LeftFooter(h) + 1]
  IN IF IsLeftHole(h)
     THEN [header |-> left, add |-> TRUE,
           mem |-> [Marked(h) EXCEPT ![h + mem[h + 2] - 1] = left, ![left + 2] = @ + mem[h + 2]]]
     ELSE [header |-> h, add |-> TRUE, mem |-> Marked(h)]
UnifyLeftOldFooter(h) ==
  LET left == mem[LeftFooter(h) + 1]
  IN IF IsLeftHole(h)
     THEN [header |-> left, add |-> FALSE,
           mem |-> [Marked(h) EXCEPT ![left + 2] = @ + mem[h + 2]]]
     ELSE [header |-> h, add |-> TRUE, mem |-> Marked(h)]
UnifyLeft(h) ==
  LET size == mem[h + 2]
      left == mem[LeftFooter(h) + 1]
      m    == [Marked(h) EXCEPT ![h + size - 1] = left]
  IN IF IsLeftHole(h)
     THEN [header |-> left, add |-> FALSE,
           mem |-> [m EXCEPT ![left + 2] = Word(m[left + 2] + size)]]
     ELSE [header |-> h, add |-> TRUE, mem |-> Marked(h)]

(* The hole after the merge with the hole at "right"; the footer of that   *)
(* hole is only located, not rewritten (heap.c:304-306).                   *)
IsRightHoleAnyHeader(m, right) == m[right] = Magic
IsRightHole(m, right) == m[right] = Magic /\ m[right + 1] # 0
UnifyRight(l, right) ==
  IF IsRightHole(l.mem, right)
  THEN [mem |-> [l.mem EXCEPT ![l.header + 2] = Word(@ + l.mem[right + 2])],
        end |-> Word(right + l.mem[right + 2]),
        index |-> IF PositionOf(index, right) = 0 THEN index
                  ELSE RemoveOrderedArray(index, PositionOf(index, right))]
  ELSE [mem |-> l.mem, end |-> right, index |-> index]

(* contract and the adjustment of the last hole.  When the hole does not   *)
(* survive, the code looks for "right" (test_header) instead of the hole.  *)
Contract(r, header, right) ==
  LET new    == ContractedLength(Word(header - Start))
      m      == DropPages(r.mem, Start + new)
      size   == Word(m[header + 2] - (Length - new))
      footer == Word(header + size - Ftr)
      i      == PositionOf(r.index, right)
  IN IF size # 0
     THEN [end |-> Start + new, index |-> r.index, footer |-> footer,
           mem |-> IF Accessible(footer, Ftr, present)
                   THEN PutFooter([m EXCEPT ![header + 2] = size], footer, header)
                   ELSE m]
     ELSE [end |-> Start + new, mem |-> m, footer |-> header,
           index |-> IF i = 0 THEN r.index ELSE RemoveOrderedArray(r.index, i)]

(* The asserts of free and contract, and the accesses that may fault.      *)
LeftSound(h) ==
  /\ Accessible(h, Hdr, present) /\ Accessible(h + mem[h + 2] - Ftr, Ftr, present)
  /\ mem[h] = Magic /\ mem[h + mem[h + 2] - Ftr] = Magic
  /\ Accessible(LeftFooter(h), Ftr, present)
  /\ mem[LeftFooter(h)] = Magic => Accessible(mem[LeftFooter(h) + 1], Hdr, present)
RightSound(l, right) ==
  /\ Accessible(right, Hdr, present)
  /\ IsRightHole(l.mem, right) => PositionOf(index, right) # 0
ContractSound(r, header) ==
  r.end = endAddress => Word(header - Start) < Length

(***************************************************************************)
(* The client's side: which of its blocks it frees.  In the regime         *)
(* "no_right_hole" it never frees a block with a hole other than the last  *)
(* one on its right, the case in which heap.c leaves a stale footer; in    *)
(* the regime "contained" it also gives the end of the arena back only     *)
(* from below the minimum, so that the hole survives contract.             *)
(***************************************************************************)
NoRightHole(h) == RightOf(h) \in ToSet(index) => IsLast(RightOf(h))
ReachesEnd(h) == IsLast(h) \/ (RightOf(h) \in ToSet(index) /\ IsLast(RightOf(h)))
Survives(h) == UnifyLeft(h).header + Overhead <= Start + MinSize
MayFree(h) ==
  CASE Regime = "none" -> FALSE
    [] Regime = "no_right_hole" -> NoRightHole(h)
    [] Regime = "contained" -> NoRightHole(h) /\ (ReachesEnd(h) => Survives(h))
    [] Regime = "any" -> TRUE

Free(b) ==
  LET h     == b.ptr - Hdr
      l     == UnifyLeft(h)
      right == h + mem[h + 2]
      r     == UnifyRight(l, right)
      c     == IF r.end = endAddress THEN Contract(r, l.header, right)
               ELSE [end |-> endAddress, index |-> r.index, mem |-> r.mem,
                     footer |-> l.header]
  IN /\ status = "running" /\ pending = NoRequest
     /\ MayFree(h)
     /\ IF /\ LeftSound(h) /\ RightSound(l, right) /\ ContractSound(r, l.header)
           /\ Accessible(c.footer, Ftr, present)
        THEN /\ mem' = c.mem
             /\ endAddress' = c.end
             /\ index' = IF l.add THEN InsertOrderedArray(c.index, l.header, SizeKey(c.mem))
                         ELSE c.index
             /\ live' = live \ {b}
             /\ UNCHANGED <<present, requests, pending, status>>
        ELSE Panic

Next ==
  \/ Request \/ Expand \/ Place
  \/ \E b \in live : Free(b)

(* alloc runs to its end: nothing but a panic stops the processor.         *)
Spec == Init /\ [][Next]_vars /\ WF_vars(Expand \/ Place)
=============================================================================
