----------------------------- MODULE HeapProofs -----------------------------
(***************************************************************************)
(* What holds of kernel/heap.c for every arena, every page size and every  *)
(* sequence of requests and frees.                                         *)
(*                                                                         *)
(* For all clients: the variables keep their types, and the end of the     *)
(* arena stays between its minimum and its maximum.  The typing is not     *)
(* obvious: the allocator follows pointers and sizes it reads from memory, *)
(* and only the page faults and the asserts keep what it reads an address. *)
(*                                                                         *)
(* For the clients of ContainedClients: the books are right.  Books says   *)
(* what that means of any memory; each write of alloc and free is a lemma  *)
(* that takes books to books (the ...Stage lemmas, all instances of        *)
(* Rewritten), and each action is a sequence of such writes.               *)
(***************************************************************************)
EXTENDS HeapProperties, Induction, SequenceTheorems, FiniteSetTheorems,
        FunctionTheorems, TLAPS

-----------------------------------------------------------------------------
(* The least element of a set of numbers, which SelectInSeq looks for.      *)
LEMMA MinProperties ==
  ASSUME NEW S, S \subseteq Nat, S # {}
  PROVE  Min(S) \in S /\ \A x \in S : Min(S) <= x
  BY LeastExists DEF Min

-----------------------------------------------------------------------------
(* The scan for an address stops inside the array or says that it did not   *)
(* (heap.c:308-314, 336-342).                                               *)
LEMMA PositionInRange ==
  ASSUME NEW S, NEW arr \in Seq(S), NEW item
  PROVE  PositionOf(arr, item) \in 0..Len(arr)
<1> DEFINE I == {i \in 1..Len(arr) : arr[i] = item}
<1>1. Len(arr) \in Nat
  OBVIOUS
<1>2. PositionOf(arr, item) = IF I # {} THEN Min(I) ELSE 0
  BY Zenon DEF PositionOf, SelectInSeq
<1>3. I \subseteq Nat
  BY <1>1
<1>4. I # {} => Min(I) \in I
  BY <1>3, MinProperties
<1> QED BY <1>1, <1>2, <1>4

(* So does find_smallest_hole (heap.c:68-97).                               *)
LEMMA HoleInRange ==
  ASSUME index \in Seq(Cells), NEW size, NEW align
  PROVE  FindSmallestHole(size, align) \in 0..Len(index)
<1> DEFINE I == {i \in 1..Len(index) : Fits(index[i], size, align)}
<1>1. Len(index) \in Nat
  OBVIOUS
<1>2. FindSmallestHole(size, align) = IF I # {} THEN Min(I) ELSE 0
  BY Zenon DEF FindSmallestHole, SelectInSeq
<1>3. I \subseteq Nat
  BY <1>1
<1>4. I # {} => Min(I) \in I
  BY <1>3, MinProperties
<1>5. CASE I = {}
  BY <1>1, <1>2, <1>5
<1>6. CASE I # {}
  <2>1. FindSmallestHole(size, align) \in I
    BY <1>2, <1>4, <1>6, Zenon
  <2>2. FindSmallestHole(size, align) \in 1..Len(index)
    BY <2>1, Zenon
  <2> QED BY <1>1, <2>2
<1> QED BY <1>5, <1>6

(* insertOrderedArray stores the item at a place of the array or behind it  *)
(* and keeps all the others (orderedArray.c:40-61).                         *)
LEMMA InsertPositionInRange ==
  ASSUME NEW S, NEW arr \in Seq(S), NEW item \in S, NEW key \in [S -> Int]
  PROVE  InsertPosition(arr, item, key) \in 1..(Len(arr) + 1)
<1> DEFINE T == {p \in 1..(Len(arr) + 1) : p <= Len(arr) => key[arr[p]] >= key[item]}
<1>1. Len(arr) \in Nat
  OBVIOUS
<1>2. T \subseteq Nat /\ Len(arr) + 1 \in T
  BY <1>1
<1>3. PICK m \in T : \A p \in T : m <= p
  <2> HIDE DEF T
  <2> QED BY <1>2, LeastExists
<1>4. ASSUME NEW i \in 1..(m - 1) PROVE key[arr[i]] < key[item]
  <2>1. i \in 1..Len(arr) /\ i \notin T
    BY <1>1, <1>3
  <2>2. arr[i] \in S
    BY <2>1
  <2> QED BY <2>1, <2>2, <1>1
<1>5. IsInsertPosition(arr, item, key, m)
  BY <1>4 DEF IsInsertPosition
<1> QED BY <1>5 DEF InsertPosition

LEMMA InsertTyped ==
  ASSUME NEW S, NEW arr \in Seq(S), NEW item \in S, NEW key \in [S -> Int]
  PROVE  InsertOrderedArray(arr, item, key) \in Seq(S)
<1> DEFINE p == InsertPosition(arr, item, key)
<1>1. Len(arr) \in Nat /\ p \in 1..(Len(arr) + 1)
  BY InsertPositionInRange
<1> HIDE DEF p
<1>2. SubSeq(arr, 1, p - 1) \in Seq(S)
  <2>1. \A i \in 1..(p - 1) : arr[i] \in S
    BY <1>1, ElementOfSeq
  <2> QED BY <2>1, <1>1, SubSeqProperties
<1>3. SubSeq(arr, p, Len(arr)) \in Seq(S)
  <2>1. \A i \in p..Len(arr) : arr[i] \in S
    BY <1>1, ElementOfSeq
  <2> QED BY <2>1, <1>1, SubSeqProperties
<1>4. <<item>> \in Seq(S)
  OBVIOUS
<1>5. SubSeq(arr, 1, p - 1) \o <<item>> \in Seq(S)
  BY <1>2, <1>4, ConcatProperties
<1>6. InsertAt(arr, p, item) \in Seq(S)
  BY <1>3, <1>5, ConcatProperties DEF InsertAt
<1> QED BY <1>6 DEF InsertOrderedArray, p

(* removeOrderedArray only moves items (orderedArray.c:69-77).              *)
LEMMA RemoveTyped ==
  ASSUME NEW S, NEW arr \in Seq(S), NEW i \in 1..Len(arr)
  PROVE  RemoveOrderedArray(arr, i) \in Seq(S)
<1>1. Len(arr) \in Nat /\ i \in Nat
  OBVIOUS
<1>2. SubSeq(arr, 1, i - 1) \in Seq(S)
  <2>1. \A k \in 1..(i - 1) : arr[k] \in S
    BY <1>1, ElementOfSeq
  <2> QED BY <2>1, <1>1, SubSeqProperties
<1>3. SubSeq(arr, i + 1, Len(arr)) \in Seq(S)
  <2>1. \A k \in (i + 1)..Len(arr) : arr[k] \in S
    BY <1>1, ElementOfSeq
  <2> QED BY <2>1, <1>1, SubSeqProperties
<1> QED BY <1>2, <1>3, ConcatProperties DEF RemoveOrderedArray, RemoveAt

-----------------------------------------------------------------------------
(* Machine words are natural numbers; sizes that fit are kept.              *)
LEMMA WordTyped ==
  ASSUME NEW x \in Int
  PROVE  Word(x) \in Nat /\ Word(x) < WordSize
  BY HeapParameters DEF Word

LEMMA WordKept ==
  ASSUME NEW x \in Nat, x < WordSize
  PROVE  Word(x) = x
  BY HeapParameters DEF Word

(* Writing tags keeps memory a memory, wherever they are written.           *)
Memory == [Cells -> Int]

LEMMA StoreTyped ==
  ASSUME NEW m \in Memory, NEW a, NEW x \in Int
  PROVE  [m EXCEPT ![a] = x] \in Memory
  BY DEF Memory

LEMMA PutTyped ==
  ASSUME NEW m \in Memory, NEW a \in Int, NEW x \in Int, NEW y \in Int
  PROVE  PutHeader(m, a, x, y) \in Memory /\ PutFooter(m, a, x) \in Memory
<1>1. Magic \in Int
  BY HeapParameters
<1>2. PutHeader(m, a, x, y) \in Memory
  BY <1>1 DEF PutHeader, Memory
<1>3. PutFooter(m, a, x) \in Memory
  BY <1>1 DEF PutFooter, Memory
<1> QED BY <1>2, <1>3

LEMMA KeysTyped ==
  ASSUME NEW m \in Memory
  PROVE  SizeKey(m) \in [Cells -> Int]
  BY DEF SizeKey, Memory

(* What the processor reads without a page fault is a word of memory.       *)
LEMMA AccessibleCells ==
  ASSUME NEW a \in Int, NEW pages
  PROVE  /\ Accessible(a, Hdr, pages) => a \in Cells /\ a + 1 \in Cells /\ a + 2 \in Cells
         /\ Accessible(a, Ftr, pages) => a \in Cells /\ a + 1 \in Cells
<1>1. ASSUME Accessible(a, Hdr, pages) PROVE a \in Cells /\ a + 1 \in Cells /\ a + 2 \in Cells
  BY <1>1 DEF Accessible, Hdr
<1>2. ASSUME Accessible(a, Ftr, pages) PROVE a \in Cells /\ a + 1 \in Cells
  BY <1>2 DEF Accessible, Ftr
<1> QED BY <1>1, <1>2

LEMMA CellsAreNat == Cells \subseteq Nat
  BY HeapParameters DEF Cells

(* The endmost hole is one of the holes (heap.c:159-172).                   *)
LEMMA EndmostIsHole ==
  ASSUME index \in Seq(Cells), index # <<>>
  PROVE  EndmostHole \in Cells
<1> DEFINE H == ToSet(index)
           T == {MaxAddress - h : h \in H}
<1>1. H \subseteq Cells /\ H # {}
  <2>1. Len(index) \in Nat \ {0}
    BY EmptySeq
  <2>2. DOMAIN index = 1..Len(index)
    BY LenProperties
  <2>3. index[1] \in H
    BY <2>1, <2>2 DEF ToSet
  <2>4. H \subseteq Cells
    BY <2>2, ElementOfSeq DEF ToSet
  <2> QED BY <2>3, <2>4
<1>2. T \subseteq Nat /\ T # {}
  <2>1. ASSUME NEW h \in H PROVE MaxAddress - h \in Nat
    <3>1. h \in Cells
      BY <1>1, Zenon
    <3> QED BY <3>1, HeapParameters DEF Cells
  <2>2. T \subseteq Nat
    BY <2>1, Zenon
  <2>3. T # {}
    BY <1>1, Zenon
  <2> QED BY <2>2, <2>3
<1>3. PICK m \in T : \A x \in T : m <= x
  <2> HIDE DEF T
  <2> QED BY <1>2, LeastExists
<1>4. PICK e \in H : m = MaxAddress - e
  OBVIOUS
<1>5. ASSUME NEW g \in H PROVE g <= e
  <2>1. MaxAddress - g \in T
    BY Zenon
  <2>2. MaxAddress - e <= MaxAddress - g
    BY <1>3, <1>4, <2>1
  <2>3. g \in Nat /\ e \in Nat /\ MaxAddress \in Nat
    BY <1>1, CellsAreNat, HeapParameters, Zenon
  <2> QED BY <2>2, <2>3
<1>6. EndmostHole \in H
  BY <1>4, <1>5 DEF EndmostHole
<1> QED BY <1>1, <1>6

-----------------------------------------------------------------------------
(* The request alloc works on asks for a natural number of cells.           *)
LEMMA NeedTyped ==
  ASSUME TypeOK, pending # NoRequest
  PROVE  /\ pending \in [size : Sizes, align : Aligns]
         /\ pending.size \in Sizes /\ pending.size \in Nat
         /\ Need \in Nat /\ Need < WordSize
<1>1. pending \in [size : Sizes, align : Aligns]
  BY DEF TypeOK
<1>2. pending.size \in Sizes
  BY <1>1
<1>3. pending.size \in Nat
  BY <1>2, ClientParameters
<1>4. pending.size + Overhead \in Int
  BY <1>3 DEF Overhead, Hdr, Ftr
<1> QED BY <1>1, <1>2, <1>3, <1>4, WordTyped DEF Need

LEMMA PanicTyped ==
  ASSUME TypeOK, Panic
  PROVE  TypeOK'
  BY DEF TypeOK, Panic

LEMMA RequestTyped ==
  ASSUME TypeOK, Request
  PROVE  TypeOK'
<1>1. requests' \in 0..MaxRequests
  BY ClientParameters DEF TypeOK, Request
<1>2. pending' \in [size : Sizes, align : Aligns]
  BY DEF Request
<1> QED BY <1>1, <1>2 DEF TypeOK, Request

(* expand and the enlarged last hole (heap.c:149-197).                      *)
LEMMA ExpandedLengthTyped ==
  ASSUME NEW need \in Nat
  PROVE  ExpandedLength(need) \in Nat /\ ExpandedLength(need) >= need
         /\ ExpandedLength(need) <= need + PageSize
<1>1. PageSize \in Nat \ {0}
  BY HeapParameters
<1>2. /\ need \div PageSize \in Nat
      /\ (need \div PageSize) * PageSize <= need
      /\ need < (need \div PageSize) * PageSize + PageSize
  BY <1>1
<1> QED BY <1>1, <1>2 DEF ExpandedLength

LEMMA GiveGrowthTyped ==
  ASSUME TypeOK, NEW old \in Nat, NEW new \in Nat, NEW pages, GiveGrowth(old, new, pages)
  PROVE  /\ endAddress' = Word(Start + new) /\ endAddress' \in Nat
         /\ mem' \in Memory /\ index' \in Seq(Cells)
         /\ status' \in {status, "panic"}
<1> DEFINE growth == new - (old - Start)
           fresh  == index = <<>>
           h      == IF fresh THEN old ELSE EndmostHole
           size   == IF fresh THEN growth ELSE Word(mem[h + 2] + growth)
           footer == Word(h + size - Ftr)
           m      == IF fresh THEN PutHeader(mem, h, 1, size) ELSE [mem EXCEPT ![h + 2] = size]
<1>1. endAddress' = Word(Start + new) /\ endAddress' \in Nat
  <2>1. endAddress' = Word(Start + new)
    BY DEF GiveGrowth
  <2>2. Start + new \in Int
    BY HeapParameters
  <2> QED BY <2>1, <2>2, WordTyped
<1>2. mem' \in Memory /\ index' \in Seq(Cells) /\ status' \in {status, "panic"}
  <2>1. CASE Accessible(h, Hdr, pages) /\ Accessible(footer, Ftr, pages)
    <3>1. h \in Int /\ growth \in Int
      <4>1. index # <<>> => EndmostHole \in Nat
        BY EndmostIsHole, CellsAreNat DEF TypeOK
      <4>2. Start \in Nat
        BY HeapParameters
      <4> QED BY <4>1, <4>2
    <3>2. h \in Cells /\ h + 2 \in Cells
      BY <2>1, <3>1, AccessibleCells
    <3>3. mem \in Memory /\ mem[h + 2] \in Int
      BY <3>2 DEF TypeOK, Memory
    <3> HIDE DEF h, growth
    <3>4. size \in Int
      <4>1. mem[h + 2] + growth \in Int
        BY <3>1, <3>3
      <4>2. Word(mem[h + 2] + growth) \in Int
        BY <4>1, WordTyped
      <4> QED BY <3>1, <4>2
    <3>5. footer \in Int
      <4> HIDE DEF size
      <4> QED BY <3>1, <3>4, WordTyped DEF Ftr
    <3> HIDE DEF size, footer
    <3>6. m \in Memory
      <4>1. PutHeader(mem, h, 1, size) \in Memory
        BY <3>1, <3>3, <3>4, PutTyped
      <4>2. [mem EXCEPT ![h + 2] = size] \in Memory
        BY <3>3, <3>4 DEF Memory
      <4> QED BY <4>1, <4>2
    <3>7. PutFooter(m, footer, h) \in Memory
      BY <3>1, <3>5, <3>6, PutTyped
    <3>8. index \in Seq(Cells)
      BY DEF TypeOK
    <3>9. InsertOrderedArray(index, h, SizeKey(m)) \in Seq(Cells)
      BY <3>2, <3>6, <3>8, KeysTyped, InsertTyped
    <3>10. /\ mem' = PutFooter(m, footer, h)
           /\ index' = IF fresh THEN InsertOrderedArray(index, h, SizeKey(m)) ELSE index
           /\ status' = status
      BY <2>1 DEF GiveGrowth, h, size, footer, growth
    <3> QED BY <3>7, <3>8, <3>9, <3>10
  <2>2. CASE ~(Accessible(h, Hdr, pages) /\ Accessible(footer, Ftr, pages))
    BY <2>2 DEF GiveGrowth, TypeOK, Memory
  <2> QED BY <2>1, <2>2
<1> QED BY <1>1, <1>2

LEMMA ExpandHeapTyped ==
  ASSUME TypeOK, NEW new \in Nat, ExpandHeap(new)
  PROVE  TypeOK'
<1>1. endAddress \in Nat /\ status \in {"running", "panic"}
  BY DEF TypeOK
<1>2. GiveGrowth(endAddress, new, present \union ExpandedPages(Start + new))
  BY DEF ExpandHeap
<1>3. /\ endAddress' \in Nat /\ mem' \in Memory /\ index' \in Seq(Cells)
      /\ status' \in {status, "panic"}
  BY <1>1, <1>2, GiveGrowthTyped
<1>4. present' \subseteq Pages
  BY DEF ExpandHeap, ExpandedPages, TypeOK
<1> QED BY <1>1, <1>3, <1>4 DEF TypeOK, ExpandHeap, Memory

LEMMA ExpandTyped ==
  ASSUME TypeOK, Expand
  PROVE  TypeOK'
<1> DEFINE need == Length + Need
<1>1. pending # NoRequest
  BY DEF Expand
<1>2. need \in Int
  BY <1>1, NeedTyped, HeapParameters DEF TypeOK, Length
<1>3. ExpandedLength(Word(need)) \in Nat
  <2> HIDE DEF need
  <2> QED BY <1>2, WordTyped, ExpandedLengthTyped
<1>4. CASE Panic
  BY <1>4, PanicTyped
<1>5. CASE ExpandHeap(ExpandedLength(Word(need)))
  BY <1>3, <1>5, ExpandHeapTyped
<1> QED BY <1>4, <1>5 DEF Expand

-----------------------------------------------------------------------------
(* The part of alloc that cuts a hole (heap.c:205-258).                     *)
LEMMA FrontWritesTyped ==
  ASSUME NEW m \in Memory, NEW c, NEW h \in Int, c.pos \in Int, c.front \in Int
  PROVE  FrontWrites(m, c, h) \in Memory
<1>1. c.pos - Ftr \in Int
  BY DEF Ftr
<1>2. PutHeader(m, h, 1, c.front) \in Memory
  BY PutTyped
<1>3. PutFooter(PutHeader(m, h, 1, c.front), c.pos - Ftr, h) \in Memory
  BY <1>1, <1>2, PutTyped
<1> QED BY <1>3 DEF FrontWrites

LEMMA CutTyped ==
  ASSUME TypeOK, pending # NoRequest, NEW h \in Cells, h + 2 \in Cells
  PROVE  /\ Cut(h).split \in BOOLEAN /\ Cut(h).front \in Int /\ Cut(h).pos \in Int
         /\ Cut(h).size \in Int /\ Cut(h).rest \in Int
<1> DEFINE orig   == mem[h + 2]
           size   == IF orig - Need < Overhead THEN orig ELSE Need
           front  == Word(PageSize - (h % PageSize) - Hdr)
           pos    == IF pending.align THEN Word(h + front) ELSE h
           after  == FrontWrites(mem, [split |-> pending.align, front |-> front, pos |-> pos], h)
           remain == IF pending.align THEN Word(orig - after[h + 2]) ELSE orig
<1>1. orig \in Int /\ h \in Nat /\ Need \in Nat /\ pending.align \in BOOLEAN
      /\ mem \in Memory
  BY NeedTyped, CellsAreNat, ClientParameters DEF TypeOK, Memory
<1>2. front \in Nat
  BY <1>1, WordTyped, HeapParameters DEF Hdr
<1>3. size \in Int
  BY <1>1 DEF Overhead
<1> HIDE DEF orig, front, size
<1>4. Word(h + front) \in Nat
  BY <1>1, <1>2, WordTyped
<1>5. pos \in Int
  BY <1>1, <1>4
<1> HIDE DEF pos
<1>6. after \in Memory
  BY <1>1, <1>2, <1>5, FrontWritesTyped
<1>7. after[h + 2] \in Int
  <2> HIDE DEF after
  <2> QED BY <1>6 DEF Memory
<1> HIDE DEF after
<1>8. Word(orig - after[h + 2]) \in Nat
  BY <1>1, <1>7, WordTyped
<1>9. remain \in Int
  BY <1>1, <1>8
<1> HIDE DEF remain
<1>10. Word(remain - size) \in Nat
  BY <1>3, <1>9, WordTyped
<1>11. Cut(h) = [split |-> pending.align, front |-> front, pos |-> pos, size |-> size,
                 rest |-> Word(remain - size)]
  BY DEF Cut, orig, front, size, after, remain, pos
<1> QED BY <1>1, <1>2, <1>3, <1>5, <1>10, <1>11

(* alloc takes the hole it has found, or the kernel stops.                  *)
LEMMA PlaceCases ==
  LET i     == FindSmallestHole(Need, pending.align)
      h     == index[i]
      c     == Cut(h)
      hole  == c.pos + c.size
      b     == Granted(c)
      taken == RestWrites(BlockWrites(FrontWrites(mem, c, h), c), c, hole)
      kept  == IF c.split THEN index ELSE RemoveOrderedArray(index, i)
  IN Place <=>
       /\ status = "running" /\ pending # NoRequest
       /\ i # 0
       /\ IF PlaceTouches(c, h) /\ Accessible(b.ptr, b.size, present)
          THEN /\ mem' = FillPayload(taken, b)
               /\ index' = IF c.rest = 0 THEN kept
                           ELSE InsertOrderedArray(kept, hole, SizeKey(taken))
               /\ live' = live \union {b}
               /\ pending' = NoRequest
               /\ UNCHANGED <<endAddress, present, requests, status>>
          ELSE Panic
<1> DEFINE i     == FindSmallestHole(Need, pending.align)
           h     == index[i]
           c     == Cut(h)
           kept  == IF c.split THEN index ELSE RemoveOrderedArray(index, i)
<1>1. Place <=> /\ status = "running" /\ pending # NoRequest
                /\ i # 0
                /\ PlaceIn(c, h, kept)
  BY DEF Place
<1>2. Granted(c).size = pending.size
  BY DEF Granted
<1> HIDE DEF i, h, c, kept
<1>3. PlaceIn(c, h, kept) <=>
        IF PlaceTouches(c, h) /\ Accessible(Granted(c).ptr, Granted(c).size, present)
        THEN /\ mem' = FillPayload(CutWrites(c, h), Granted(c))
             /\ index' = IF c.rest = 0 THEN kept
                         ELSE InsertOrderedArray(kept, c.pos + c.size, SizeKey(CutWrites(c, h)))
             /\ live' = live \union {Granted(c)}
             /\ pending' = NoRequest
             /\ UNCHANGED <<endAddress, present, requests, status>>
        ELSE Panic
  BY <1>2 DEF PlaceIn
<1> QED BY <1>1, <1>3 DEF CutWrites, i, h, c, kept

LEMMA PlaceWritesTyped ==
  ASSUME NEW m \in Memory, NEW c, NEW h \in Int, NEW hole \in Int,
         c.pos \in Int, c.size \in Int, c.front \in Int, c.rest \in Int
  PROVE  /\ FrontWrites(m, c, h) \in Memory
         /\ BlockWrites(m, c) \in Memory
         /\ RestWrites(m, c, hole) \in Memory
<1>1. c.pos - Ftr \in Int /\ c.pos + c.size - Ftr \in Int /\ hole + c.rest - Ftr \in Int
  BY DEF Ftr
<1>2. FrontWrites(m, c, h) \in Memory
  BY FrontWritesTyped
<1>3. BlockWrites(m, c) \in Memory
  <2>1. PutHeader(m, c.pos, 0, c.size) \in Memory
    BY PutTyped
  <2> QED BY <1>1, <2>1, PutTyped DEF BlockWrites
<1>4. RestWrites(m, c, hole) \in Memory
  <2>1. PutHeader(m, hole, 1, c.rest) \in Memory
    BY PutTyped
  <2>2. Word(hole + c.rest - Ftr) \in Int
    BY <1>1, WordTyped
  <2>3. PutFooter(PutHeader(m, hole, 1, c.rest), Word(hole + c.rest - Ftr), hole) \in Memory
    BY <2>1, <2>2, PutTyped
  <2> QED BY <2>1, <2>3 DEF RestWrites
<1> QED BY <1>2, <1>3, <1>4

LEMMA PlaceTyped ==
  ASSUME TypeOK, Place
  PROVE  TypeOK'
<1> DEFINE i     == FindSmallestHole(Need, pending.align)
           h     == index[i]
           c     == Cut(h)
           hole  == c.pos + c.size
           b     == Granted(c)
           taken == RestWrites(BlockWrites(FrontWrites(mem, c, h), c), c, hole)
           kept  == IF c.split THEN index ELSE RemoveOrderedArray(index, i)
<1>1. CASE Panic
  BY <1>1, PanicTyped
<1>2. CASE /\ PlaceTouches(c, h) /\ Accessible(b.ptr, b.size, present)
           /\ mem' = FillPayload(taken, b)
           /\ index' = IF c.rest = 0 THEN kept
                       ELSE InsertOrderedArray(kept, hole, SizeKey(taken))
           /\ live' = live \union {b}
           /\ pending' = NoRequest
           /\ UNCHANGED <<endAddress, present, requests, status>>
  <2>1. index \in Seq(Cells) /\ mem \in Memory /\ pending # NoRequest
    BY PlaceCases DEF TypeOK, Memory
  <2>2. i \in 1..Len(index)
    <3>1. i \in 0..Len(index)
      BY <2>1, HoleInRange
    <3>2. i # 0
      BY PlaceCases
    <3> HIDE DEF i
    <3> QED BY <2>1, <3>1, <3>2
  <2> HIDE DEF i
  <2>3. h \in Cells /\ h \in Int
    <3>1. h \in Cells
      BY <2>1, <2>2, ElementOfSeq
    <3> HIDE DEF h
    <3> QED BY <3>1, CellsAreNat
  <2>4. h + 2 \in Cells
    <3> HIDE DEF h, c
    <3>1. Accessible(h, Hdr, present)
      BY <1>2 DEF PlaceTouches
    <3> QED BY <2>3, <3>1, AccessibleCells
  <2> HIDE DEF h
  <2>5. /\ c.split \in BOOLEAN /\ c.front \in Int /\ c.pos \in Int
        /\ c.size \in Int /\ c.rest \in Int
    BY <2>1, <2>3, <2>4, CutTyped
  <2> HIDE DEF c
  <2>6. hole \in Int
    BY <2>5
  <2>7. taken \in Memory
    <3>1. FrontWrites(mem, c, h) \in Memory
      BY <2>1, <2>3, <2>5, <2>6, PlaceWritesTyped
    <3>2. BlockWrites(FrontWrites(mem, c, h), c) \in Memory
      BY <3>1, <2>3, <2>5, <2>6, PlaceWritesTyped
    <3> HIDE DEF hole
    <3> QED BY <3>2, <2>3, <2>5, <2>6, PlaceWritesTyped
  <2> HIDE DEF taken
  <2>8. mem' \in Memory
    <3>1. FillPayload(taken, b) \in Memory
      BY <2>7 DEF FillPayload, Memory, Payload
    <3> QED BY <1>2, <3>1
  <2>9. kept \in Seq(Cells)
    BY <2>1, <2>2, RemoveTyped
  <2> HIDE DEF kept
  <2>10. index' \in Seq(Cells)
    <3>1. CASE c.rest = 0
      BY <1>2, <2>9, <3>1
    <3>2. CASE c.rest # 0
      <4>1. Accessible(hole, Hdr, present)
        BY <1>2, <3>2 DEF PlaceTouches
      <4> HIDE DEF hole
      <4>2. hole \in Cells
        BY <4>1, <2>6, AccessibleCells
      <4>3. InsertOrderedArray(kept, hole, SizeKey(taken)) \in Seq(Cells)
        BY <4>2, <2>7, <2>9, KeysTyped, InsertTyped
      <4> QED BY <1>2, <3>2, <4>3
    <3> QED BY <3>1, <3>2
  <2>11. live' \subseteq [ptr : Int, size : Sizes]
    <3>1. b \in [ptr : Int, size : Sizes]
      <4>1. pending.size \in Sizes
        BY <2>1, NeedTyped
      <4>2. c.pos + Hdr \in Int
        BY <2>5 DEF Hdr
      <4> QED BY <4>1, <4>2 DEF Granted
    <3> HIDE DEF b
    <3> QED BY <1>2, <3>1 DEF TypeOK
  <2> QED BY <1>2, <2>8, <2>10, <2>11 DEF TypeOK, Memory
<1> QED BY <1>1, <1>2, PlaceCases

-----------------------------------------------------------------------------
(* free, one unification after the other (heap.c:284-348).  What the        *)
(* accesses do not fault on, and what the asserts let pass, is an address.  *)
LEMMA LeftTyped ==
  ASSUME TypeOK, NEW h \in Int, LeftSound(h)
  PROVE  /\ mem[h + 2] \in Int
         /\ UnifyLeft(h).header \in Cells /\ UnifyLeft(h).header + 2 \in Cells
         /\ UnifyLeft(h).add \in BOOLEAN
         /\ UnifyLeft(h).mem \in Memory
<1> DEFINE size == mem[h + 2]
           left == mem[LeftFooter(h) + 1]
           m    == [Marked(h) EXCEPT ![h + size - 1] = left]
<1>1. h \in Cells /\ h + 2 \in Cells
  BY AccessibleCells DEF LeftSound
<1>2. mem \in Memory /\ size \in Int
  BY <1>1 DEF TypeOK, Memory
<1>3. LeftFooter(h) + 1 \in Cells
  <2>1. LeftFooter(h) \in Int
    BY DEF LeftFooter, Ftr
  <2> QED BY <2>1, AccessibleCells DEF LeftSound
<1>4. left \in Int
  BY <1>2, <1>3 DEF Memory
<1>5. Marked(h) \in Memory
  <2> HIDE DEF size, left, m
  <2>1. [mem EXCEPT ![h + 1] = 1] \in Memory
    BY <1>2, StoreTyped
  <2> QED BY <2>1 DEF Marked
<1>6. m \in Memory
  BY <1>4, <1>5 DEF Memory
<1>7. CASE IsLeftHole(h)
  <2>1. Accessible(left, Hdr, present)
    BY <1>7 DEF LeftSound, IsLeftHole
  <2> HIDE DEF left, size
  <2>2. left \in Cells /\ left + 2 \in Cells
    BY <1>4, <2>1, AccessibleCells
  <2> HIDE DEF m
  <2>3. m[left + 2] + size \in Int
    BY <1>2, <1>6, <2>2 DEF Memory
  <2>4. Word(m[left + 2] + size) \in Int
    BY <2>3, WordTyped
  <2>5. [m EXCEPT ![left + 2] = Word(m[left + 2] + size)] \in Memory
    BY <1>6, <2>4 DEF Memory
  <2>6. UnifyLeft(h) = [header |-> left, add |-> FALSE,
                        mem |-> [m EXCEPT ![left + 2] = Word(m[left + 2] + size)]]
    BY <1>7 DEF UnifyLeft, m, left, size
  <2> QED BY <1>2, <2>2, <2>5, <2>6 DEF size
<1>8. CASE ~IsLeftHole(h)
  <2>1. UnifyLeft(h) = [header |-> h, add |-> TRUE, mem |-> Marked(h)]
    BY <1>8 DEF UnifyLeft
  <2> QED BY <1>1, <1>2, <1>5, <2>1
<1> QED BY <1>7, <1>8

LEMMA RightTyped ==
  ASSUME TypeOK, NEW l, l.mem \in Memory, l.header \in Cells, l.header + 2 \in Cells,
         NEW right \in Int, RightSound(l, right)
  PROVE  /\ UnifyRight(l, right).mem \in Memory
         /\ UnifyRight(l, right).end \in Int
         /\ UnifyRight(l, right).index \in Seq(Cells)
<1> DEFINE m   == [l.mem EXCEPT ![l.header + 2] = Word(l.mem[l.header + 2] + l.mem[right + 2])]
           pos == PositionOf(index, right)
           rest == IF pos = 0 THEN index ELSE RemoveOrderedArray(index, pos)
<1>1. index \in Seq(Cells)
  BY DEF TypeOK
<1>2. right + 2 \in Cells
  BY AccessibleCells DEF RightSound
<1>3. l.mem[l.header + 2] + l.mem[right + 2] \in Int /\ right + l.mem[right + 2] \in Int
  BY <1>2 DEF Memory
<1>4. m \in Memory
  <2>1. Word(l.mem[l.header + 2] + l.mem[right + 2]) \in Int
    BY <1>3, WordTyped
  <2> QED BY <2>1 DEF Memory
<1>5. rest \in Seq(Cells)
  <2>1. pos \in 0..Len(index)
    BY <1>1, PositionInRange
  <2> HIDE DEF pos
  <2>2. pos # 0 => pos \in 1..Len(index)
    BY <1>1, <2>1
  <2> QED BY <1>1, <2>2, RemoveTyped
<1>6. CASE IsRightHole(l.mem, right)
  <2>1. UnifyRight(l, right) = [mem |-> m, end |-> Word(right + l.mem[right + 2]), index |-> rest]
    BY <1>6 DEF UnifyRight
  <2>2. Word(right + l.mem[right + 2]) \in Int
    BY <1>3, WordTyped
  <2> HIDE DEF m, rest
  <2> QED BY <1>4, <1>5, <2>1, <2>2
<1>7. CASE ~IsRightHole(l.mem, right)
  BY <1>1, <1>7 DEF UnifyRight
<1> QED BY <1>6, <1>7

(* contract never goes below the minimum, and never above where it was.     *)
LEMMA ContractedLengthTyped ==
  ASSUME NEW n \in Nat
  PROVE  /\ ContractedLength(n) \in Nat
         /\ ContractedLength(n) >= MinSize
         /\ ContractedLength(n) <= n \/ ContractedLength(n) = MinSize
  BY HeapParameters DEF ContractedLength

LEMMA ContractTyped ==
  ASSUME TypeOK, NEW r, r.mem \in Memory, r.index \in Seq(Cells),
         NEW header \in Cells, header + 2 \in Cells, NEW right \in Int
  PROVE  LET c == Contract(r, header, right)
         IN /\ c.end = Start + ContractedLength(Word(header - Start))
            /\ c.end \in Nat /\ c.mem \in Memory /\ c.index \in Seq(Cells)
<1> DEFINE new    == ContractedLength(Word(header - Start))
           m      == DropPages(r.mem, Start + new)
           size   == Word(m[header + 2] - (Length - new))
           footer == Word(header + size - Ftr)
           pos    == PositionOf(r.index, right)
           kept   == IF pos = 0 THEN r.index ELSE RemoveOrderedArray(r.index, pos)
           shrunk == IF Accessible(footer, Ftr, present)
                     THEN PutFooter([m EXCEPT ![header + 2] = size], footer, header)
                     ELSE m
<1>1. header \in Nat /\ Start \in Nat /\ Length \in Int
  BY CellsAreNat, HeapParameters DEF TypeOK, Length
<1>2. Word(header - Start) \in Nat
  <2> HIDE DEF new, m, size, footer, pos, kept, shrunk
  <2>1. header - Start \in Int
    BY <1>1
  <2> QED BY <2>1, WordTyped
<1>3. new \in Nat
  BY <1>2, ContractedLengthTyped
<1> HIDE DEF new
<1>4. m \in Memory
  BY DEF DropPages, Memory
<1> HIDE DEF m
<1>5. size \in Int
  <2>1. m[header + 2] - (Length - new) \in Int
    BY <1>1, <1>3, <1>4 DEF Memory
  <2> QED BY <2>1, WordTyped
<1> HIDE DEF size
<1>6. footer \in Int
  <2>1. header + size - Ftr \in Int
    BY <1>1, <1>5 DEF Ftr
  <2> QED BY <2>1, WordTyped
<1> HIDE DEF footer
<1>7. shrunk \in Memory
  <2> DEFINE sized == [m EXCEPT ![header + 2] = size]
  <2>1. sized \in Memory
    BY <1>4, <1>5 DEF Memory
  <2> HIDE DEF sized
  <2>2. header \in Int
    BY <1>1
  <2>3. PutFooter(sized, footer, header) \in Memory
    BY <1>6, <2>1, <2>2, PutTyped
  <2> QED BY <1>4, <2>3 DEF sized
<1>8. kept \in Seq(Cells)
  <2>1. pos \in 0..Len(r.index)
    BY PositionInRange
  <2> HIDE DEF pos
  <2>2. pos # 0 => pos \in 1..Len(r.index)
    BY <2>1
  <2> QED BY <2>2, RemoveTyped
<1>9. Contract(r, header, right) =
        IF size # 0
        THEN [end |-> Start + new, index |-> r.index, footer |-> footer, mem |-> shrunk]
        ELSE [end |-> Start + new, mem |-> m, footer |-> header, index |-> kept]
  BY DEF Contract, new, m, size, footer, pos, kept, shrunk
<1> HIDE DEF shrunk, kept
<1>10. CASE size # 0
  BY <1>1, <1>3, <1>7, <1>9, <1>10 DEF new
<1>11. CASE size = 0
  BY <1>1, <1>3, <1>4, <1>8, <1>9, <1>11 DEF new
<1> QED BY <1>10, <1>11

(* What free leaves, for the block at h: named as in Free.                  *)
LEMMA FreeTyped ==
  ASSUME TypeOK, NEW b \in live, Free(b)
  PROVE  /\ TypeOK'
         /\ \/ endAddress' = endAddress
            \/ \E n \in Nat : n < Length /\ endAddress' = Start + ContractedLength(n)
<1> DEFINE h     == b.ptr - Hdr
           l     == UnifyLeft(h)
           right == h + mem[h + 2]
           r     == UnifyRight(l, right)
           c     == IF r.end = endAddress THEN Contract(r, l.header, right)
                    ELSE [end |-> endAddress, index |-> r.index, mem |-> r.mem,
                          footer |-> l.header]
<1>1. CASE Panic
  BY <1>1, PanicTyped DEF Panic
<1>2. CASE /\ LeftSound(h) /\ RightSound(l, right) /\ ContractSound(r, l.header)
           /\ mem' = c.mem
           /\ endAddress' = c.end
           /\ index' = IF l.add THEN InsertOrderedArray(c.index, l.header, SizeKey(c.mem))
                       ELSE c.index
           /\ live' = live \ {b}
           /\ UNCHANGED <<present, requests, pending, status>>
  <2>1. h \in Int
    <3>1. b \in [ptr : Int, size : Sizes]
      BY DEF TypeOK
    <3> QED BY <3>1 DEF Hdr
  <2> HIDE DEF h
  <2>2. /\ mem[h + 2] \in Int
        /\ l.header \in Cells /\ l.header + 2 \in Cells
        /\ l.add \in BOOLEAN /\ l.mem \in Memory
    BY <1>2, <2>1, LeftTyped
  <2>3. right \in Int
    BY <2>1, <2>2
  <2> HIDE DEF l, right
  <2>4. r.mem \in Memory /\ r.end \in Int /\ r.index \in Seq(Cells)
    BY <1>2, <2>2, <2>3, RightTyped
  <2> HIDE DEF r
  <2>5. /\ c.end \in Nat /\ c.mem \in Memory /\ c.index \in Seq(Cells)
        /\ \/ c.end = endAddress
           \/ \E n \in Nat : n < Length /\ c.end = Start + ContractedLength(n)
    <3>1. CASE r.end = endAddress
      <4>1. c = Contract(r, l.header, right)
        BY <3>1
      <4>2. /\ c.end = Start + ContractedLength(Word(l.header - Start))
            /\ c.end \in Nat /\ c.mem \in Memory /\ c.index \in Seq(Cells)
        BY <2>2, <2>3, <2>4, <4>1, ContractTyped
      <4> HIDE DEF c
      <4>3. l.header - Start \in Int
        <5>1. l.header \in Nat
          BY <2>2, CellsAreNat, Zenon
        <5>2. Start \in Nat
          BY HeapParameters
        <5> QED BY <5>1, <5>2
      <4>4. Word(l.header - Start) \in Nat
        BY <4>3, WordTyped
      <4>5. Word(l.header - Start) < Length
        BY <1>2, <3>1 DEF ContractSound
      <4> QED BY <4>2, <4>4, <4>5
    <3>2. CASE r.end # endAddress
      BY <2>4, <3>2 DEF TypeOK
    <3> QED BY <3>1, <3>2
  <2> HIDE DEF c
  <2>6. index' \in Seq(Cells)
    <3>1. InsertOrderedArray(c.index, l.header, SizeKey(c.mem)) \in Seq(Cells)
      BY <2>2, <2>5, KeysTyped, InsertTyped
    <3> QED BY <1>2, <2>5, <3>1
  <2>7. live' \subseteq [ptr : Int, size : Sizes]
    BY <1>2 DEF TypeOK
  <2>8. TypeOK'
    BY <1>2, <2>5, <2>6, <2>7 DEF TypeOK, Memory
  <2> QED BY <1>2, <2>5, <2>8
<1> QED BY <1>1, <1>2 DEF Free

-----------------------------------------------------------------------------
LEMMA CreatedTyped ==
  ASSUME Created, present \subseteq Pages
  PROVE  TypeOK
<1>1. mem \in Memory
  <2> DEFINE zero == [a \in Cells |-> 0]
  <2>1. zero \in Memory
    BY DEF Memory
  <2> HIDE DEF zero
  <2>2. PutHeader(zero, Start, 1, InitialEnd - Start) \in Memory
    BY <2>1, PutTyped, HeapParameters
  <2> QED BY <2>2 DEF Created, zero
<1>2. index \in Seq(Cells)
  <2>1. Start \in Cells
    BY HeapParameters DEF Cells
  <2> QED BY <2>1 DEF Created
<1>3. endAddress \in Nat /\ requests \in 0..MaxRequests
  BY HeapParameters, ClientParameters DEF Created
<1> QED BY <1>1, <1>2, <1>3 DEF Created, TypeOK, Memory

LEMMA InitTyped == Init => TypeOK
<1> SUFFICES ASSUME Init PROVE TypeOK
  OBVIOUS
<1>1. present \subseteq Pages
  BY MappedPages DEF Init, Pages, Cells
<1> QED BY <1>1, CreatedTyped DEF Init

LEMMA StepTyped == TypeOK /\ [Next]_vars => TypeOK'
<1> SUFFICES ASSUME TypeOK, [Next]_vars PROVE TypeOK'
  OBVIOUS
<1>1. CASE Request
  BY <1>1, RequestTyped
<1>2. CASE Expand
  BY <1>2, ExpandTyped
<1>3. CASE Place
  BY <1>3, PlaceTyped
<1>4. CASE \E b \in live : Free(b)
  BY <1>4, FreeTyped
<1>5. CASE UNCHANGED vars
  BY <1>5 DEF TypeOK, vars
<1> QED BY <1>1, <1>2, <1>3, <1>4, <1>5 DEF Next

(***************************************************************************)
(* Every variable of the heap keeps its type: memory keeps its domain, the *)
(* index holds addresses of the heap only, and no page is present outside  *)
(* the heap's range, whatever sizes the allocator reads from memory that   *)
(* it, or a wrap at WordSize, has spoiled (heap.c:149-352).                *)
(***************************************************************************)
THEOREM TypeCorrect == Spec => []TypeOK
<1>1. Init => TypeOK
  BY InitTyped
<1>2. TypeOK /\ [Next]_vars => TypeOK'
  BY StepTyped
<1> QED BY <1>1, <1>2, PTL DEF Spec

-----------------------------------------------------------------------------
(* The asserts of expand and contract are enough to keep the end of the     *)
(* arena in its bounds, provided no request is large enough for the sums    *)
(* of alloc to wrap.                                                        *)
RequestsCannotWrap == \A s \in Sizes : MaxAddress + s + Overhead + PageSize < WordSize

LEMMA ExpandedEnd ==
  ASSUME RequestsCannotWrap, TypeOK, EndInBounds, pending # NoRequest,
         ExpandAsserts(Length, Length + Need)
  PROVE  LET new == ExpandedLength(Word(Length + Need))
         IN /\ Length \in Nat /\ Start + Length = endAddress
            /\ Need = pending.size + Overhead
            /\ new \in Nat /\ new >= Length + Need /\ Start + MinSize <= Start + new
            /\ Word(Start + new) = Start + new /\ Start + new <= MaxAddress
<1> DEFINE need == Length + Need
           new  == ExpandedLength(Word(need))
<1>1. /\ Start \in Nat /\ MinSize \in Nat /\ MaxAddress \in Nat
      /\ WordSize \in Nat /\ PageSize \in Nat /\ MaxAddress < WordSize
  BY HeapParameters
<1>2. endAddress \in Nat /\ Start + MinSize <= endAddress /\ endAddress <= MaxAddress
  BY DEF TypeOK, EndInBounds
<1>3. Length \in Nat /\ Length >= MinSize /\ Start + Length = endAddress
  BY <1>1, <1>2 DEF Length
<1>4. pending.size \in Nat /\ pending.size \in Sizes
  BY NeedTyped
<1>5. MaxAddress + pending.size + Overhead + PageSize < WordSize
  BY <1>4 DEF RequestsCannotWrap
<1>6. Overhead \in Nat
  BY DEF Overhead, Hdr, Ftr
<1>7. Need = pending.size + Overhead
  <2>1. pending.size + Overhead \in Nat /\ pending.size + Overhead < WordSize
    BY <1>1, <1>4, <1>5, <1>6
  <2> QED BY <2>1, WordKept DEF Need
<1>8. need \in Nat /\ need < WordSize /\ Start + need + PageSize < WordSize
  BY <1>1, <1>2, <1>3, <1>4, <1>5, <1>6, <1>7
<1>9. Word(need) > Length /\ Word(Start + new) <= MaxAddress
  BY DEF ExpandAsserts
<1> HIDE DEF need
<1>10. Word(need) = need
  BY <1>8, WordKept
<1>11. new \in Nat /\ new >= need /\ new <= need + PageSize
  BY <1>8, <1>10, ExpandedLengthTyped
<1> HIDE DEF new
<1>12. Word(Start + new) = Start + new
  <2>1. Start + new \in Nat /\ Start + new < WordSize
    BY <1>1, <1>8, <1>11
  <2> QED BY <2>1, WordKept
<1>13. Start + MinSize <= Start + new /\ Start + new <= MaxAddress
  BY <1>1, <1>3, <1>8, <1>9, <1>10, <1>11, <1>12
<1> QED BY <1>3, <1>7, <1>11, <1>12, <1>13 DEF new, need

LEMMA ExpandKeepsBounds ==
  ASSUME RequestsCannotWrap, TypeOK, EndInBounds, Expand
  PROVE  EndInBounds'
<1> DEFINE new == ExpandedLength(Word(Length + Need))
<1>1. CASE Panic
  BY <1>1 DEF Panic, EndInBounds
<1>2. CASE ExpandAsserts(Length, Length + Need) /\ ExpandHeap(new)
  <2>1. /\ Word(Start + new) = Start + new /\ Start + new <= MaxAddress
        /\ Start + MinSize <= Start + new
    BY <1>2, ExpandedEnd DEF Expand
  <2>2. endAddress' = Word(Start + new)
    BY <1>2 DEF ExpandHeap, GiveGrowth
  <2> HIDE DEF new
  <2> QED BY <2>1, <2>2 DEF EndInBounds
<1> QED BY <1>1, <1>2 DEF Expand

LEMMA FreeKeepsBounds ==
  ASSUME TypeOK, EndInBounds, NEW b \in live, Free(b)
  PROVE  EndInBounds'
<1>1. CASE endAddress' = endAddress
  BY <1>1 DEF EndInBounds
<1>2. CASE \E n \in Nat : n < Length /\ endAddress' = Start + ContractedLength(n)
  <2>1. PICK n \in Nat : n < Length /\ endAddress' = Start + ContractedLength(n)
    BY <1>2
  <2>2. /\ ContractedLength(n) \in Nat /\ ContractedLength(n) >= MinSize
        /\ ContractedLength(n) <= n \/ ContractedLength(n) = MinSize
    BY ContractedLengthTyped
  <2>3. /\ Start \in Nat /\ MinSize \in Nat /\ MaxAddress \in Nat
        /\ endAddress \in Nat /\ Start + MinSize <= endAddress /\ endAddress <= MaxAddress
    BY HeapParameters DEF TypeOK, EndInBounds
  <2>4. /\ Start + MinSize <= Start + ContractedLength(n)
        /\ Start + ContractedLength(n) <= MaxAddress
    BY <2>1, <2>2, <2>3 DEF Length
  <2> QED BY <2>1, <2>4 DEF EndInBounds
<1> QED BY <1>1, <1>2, FreeTyped

(***************************************************************************)
(* expand never takes the arena above its maximum and contract never below *)
(* its minimum, in any order of requests and frees, with the blocks and    *)
(* holes in any state; the proof needs the asserts of both (heap.c:24-25,  *)
(* 46-54).                                                                 *)
(***************************************************************************)
THEOREM EndInBoundsHolds == RequestsCannotWrap /\ Spec => []EndInBounds
<1> SUFFICES ASSUME RequestsCannotWrap PROVE Spec => []EndInBounds
  OBVIOUS
<1>1. Init => TypeOK /\ EndInBounds
  BY InitTyped, HeapParameters DEF Init, Created, EndInBounds
<1>2. TypeOK /\ EndInBounds /\ [Next]_vars => (TypeOK /\ EndInBounds)'
  <2> SUFFICES ASSUME TypeOK, EndInBounds, [Next]_vars PROVE TypeOK' /\ EndInBounds'
    OBVIOUS
  <2>1. TypeOK'
    BY StepTyped
  <2>2. EndInBounds'
    <3>1. CASE Request
      BY <3>1 DEF Request, EndInBounds
    <3>2. CASE Expand
      BY <3>2, ExpandKeepsBounds
    <3>3. CASE Place
      BY <3>3, PlaceCases DEF Panic, EndInBounds
    <3>4. CASE \E b \in live : Free(b)
      BY <3>4, FreeKeepsBounds
    <3>5. CASE UNCHANGED vars
      BY <3>5 DEF EndInBounds, vars
    <3> QED BY <3>1, <3>2, <3>3, <3>4, <3>5 DEF Next
  <2> QED BY <2>1, <2>2
<1> QED BY <1>1, <1>2, PTL DEF Spec

-----------------------------------------------------------------------------
(* What the array operations do to the set of items (orderedArray.c:40-77). *)
Distinct(arr) == \A i, j \in 1..Len(arr) : arr[i] = arr[j] => i = j

LEMMA ItemsOf ==
  ASSUME NEW S, NEW arr \in Seq(S)
  PROVE  /\ ToSet(arr) = {arr[i] : i \in 1..Len(arr)}
         /\ ToSet(arr) \subseteq S
         /\ Len(arr) \in Nat
<1>1. DOMAIN arr = 1..Len(arr) /\ Len(arr) \in Nat
  BY LenProperties
<1>2. \A i \in 1..Len(arr) : arr[i] \in S
  BY ElementOfSeq
<1> QED BY <1>1, <1>2 DEF ToSet

LEMMA NoItems == ToSet(<<>>) = {}
<1>1. <<>> \in Seq({}) /\ Len(<<>>) = 0
  OBVIOUS
<1>2. ToSet(<<>>) = {<<>>[i] : i \in 1..Len(<<>>)}
  BY <1>1, ItemsOf
<1> QED BY <1>1, <1>2

LEMMA Joined ==
  ASSUME NEW S, NEW s \in Seq(S), NEW t \in Seq(S)
  PROVE  /\ s \o t \in Seq(S) /\ Len(s \o t) = Len(s) + Len(t)
         /\ \A i \in 1..Len(s) : (s \o t)[i] = s[i]
         /\ \A j \in 1..Len(t) : (s \o t)[Len(s) + j] = t[j]
<1>1. Len(s) \in Nat /\ Len(t) \in Nat
  OBVIOUS
<1>2. /\ s \o t \in Seq(S) /\ Len(s \o t) = Len(s) + Len(t)
      /\ \A i \in 1..(Len(s) + Len(t)) : (s \o t)[i] = IF i <= Len(s) THEN s[i] ELSE t[i - Len(s)]
  BY ConcatProperties
<1>3. ASSUME NEW i \in 1..Len(s) PROVE (s \o t)[i] = s[i]
  BY <1>1, <1>2
<1>4. ASSUME NEW j \in 1..Len(t) PROVE (s \o t)[Len(s) + j] = t[j]
  <2>1. Len(s) + j \in 1..(Len(s) + Len(t)) /\ ~(Len(s) + j <= Len(s)) /\ (Len(s) + j) - Len(s) = j
    BY <1>1
  <2> QED BY <1>2, <2>1
<1> QED BY <1>2, <1>3, <1>4

LEMMA Cutting ==
  ASSUME NEW S, NEW arr \in Seq(S), NEW a \in Int, NEW b \in Int, 1 <= a, b <= Len(arr), a <= b + 1
  PROVE  /\ SubSeq(arr, a, b) \in Seq(S) /\ Len(SubSeq(arr, a, b)) = b + 1 - a
         /\ \A i \in a..b : SubSeq(arr, a, b)[i + 1 - a] = arr[i]
<1>1. Len(arr) \in Nat
  OBVIOUS
<1>2. \A i \in a..b : arr[i] \in S
  BY <1>1, ElementOfSeq
<1>3. /\ SubSeq(arr, a, b) \in Seq(S)
      /\ Len(SubSeq(arr, a, b)) = IF a <= b THEN b - a + 1 ELSE 0
      /\ \A i \in 1..(b - a + 1) : SubSeq(arr, a, b)[i] = arr[a + i - 1]
  BY <1>2, SubSeqProperties
<1>4. ASSUME NEW i \in a..b PROVE SubSeq(arr, a, b)[i + 1 - a] = arr[i]
  <2>1. i + 1 - a \in 1..(b - a + 1) /\ a + (i + 1 - a) - 1 = i
    OBVIOUS
  <2> QED BY <1>3, <2>1
<1> QED BY <1>3, <1>4

LEMMA InsertItems ==
  ASSUME NEW S, NEW arr \in Seq(S), NEW item \in S, NEW key \in [S -> Int]
  PROVE  LET new == InsertOrderedArray(arr, item, key)
         IN /\ new \in Seq(S) /\ Len(new) = Len(arr) + 1
            /\ ToSet(new) = ToSet(arr) \union {item}
            /\ Distinct(arr) /\ item \notin ToSet(arr) => Distinct(new)
<1> DEFINE p   == InsertPosition(arr, item, key)
           n   == Len(arr)
           front == SubSeq(arr, 1, p - 1)
           back  == SubSeq(arr, p, n)
           new == (front \o <<item>>) \o back
<1>0. InsertOrderedArray(arr, item, key) = new
  BY DEF InsertOrderedArray, InsertAt
<1>1. n \in Nat /\ p \in 1..(n + 1)
  BY InsertPositionInRange
<1> HIDE DEF p
<1>2. front \in Seq(S) /\ Len(front) = p - 1 /\ \A i \in 1..(p - 1) : front[i] = arr[i]
  <2>1. /\ front \in Seq(S) /\ Len(front) = (p - 1) + 1 - 1
        /\ \A i \in 1..(p - 1) : front[i + 1 - 1] = arr[i]
    BY <1>1, Cutting
  <2> QED BY <1>1, <2>1
<1>3. back \in Seq(S) /\ Len(back) = n + 1 - p /\ \A i \in p..n : back[i + 1 - p] = arr[i]
  BY <1>1, Cutting
<1>4. <<item>> \in Seq(S) /\ Len(<<item>>) = 1 /\ <<item>>[1] = item
  OBVIOUS
<1> HIDE DEF front, back
<1>5. /\ front \o <<item>> \in Seq(S) /\ Len(front \o <<item>>) = p
      /\ \A i \in 1..(p - 1) : (front \o <<item>>)[i] = arr[i]
      /\ (front \o <<item>>)[p] = item
  <2>1. /\ front \o <<item>> \in Seq(S) /\ Len(front \o <<item>>) = Len(front) + Len(<<item>>)
        /\ \A i \in 1..Len(front) : (front \o <<item>>)[i] = front[i]
        /\ \A j \in 1..Len(<<item>>) : (front \o <<item>>)[Len(front) + j] = <<item>>[j]
    BY <1>2, <1>4, Joined
  <2>2. Len(front) + 1 = p /\ 1 \in 1..Len(<<item>>)
    BY <1>1, <1>2, <1>4
  <2>3. (front \o <<item>>)[p] = item
    BY <1>4, <2>1, <2>2
  <2> QED BY <1>2, <1>4, <2>1, <2>2, <2>3
<1> DEFINE head == front \o <<item>>
<1> HIDE DEF head
<1>6. /\ new \in Seq(S) /\ Len(new) = n + 1
      /\ \A i \in 1..(p - 1) : new[i] = arr[i]
      /\ new[p] = item
      /\ \A i \in p..n : new[i + 1] = arr[i]
  <2>0. new = head \o back
    BY DEF head
  <2> HIDE DEF new
  <2>1. /\ new \in Seq(S) /\ Len(new) = Len(head) + Len(back)
        /\ \A i \in 1..Len(head) : new[i] = head[i]
        /\ \A j \in 1..Len(back) : new[Len(head) + j] = back[j]
    <3>1. head \in Seq(S) /\ back \in Seq(S)
      BY <1>3, <1>5 DEF head
    <3> QED BY <2>0, <3>1, Joined
  <2>2. Len(head) = p /\ Len(back) = n + 1 - p
    BY <1>3, <1>5 DEF head
  <2>3. ASSUME NEW i \in 1..(p - 1) PROVE new[i] = arr[i]
    <3>1. i \in 1..Len(head)
      BY <1>1, <2>2
    <3> QED BY <1>5, <2>1, <3>1 DEF head
  <2>4. new[p] = item
    <3>1. p \in 1..Len(head)
      BY <1>1, <2>2
    <3> QED BY <1>5, <2>1, <3>1 DEF head
  <2>5. ASSUME NEW i \in p..n PROVE new[i + 1] = arr[i]
    <3>1. i + 1 - p \in 1..Len(back) /\ p + (i + 1 - p) = i + 1
      BY <1>1, <2>2
    <3>2. new[p + (i + 1 - p)] = back[i + 1 - p]
      BY <2>1, <2>2, <3>1
    <3> QED BY <1>3, <3>1, <3>2
  <2>6. Len(new) = n + 1
    BY <1>1, <2>1, <2>2
  <2> QED BY <2>1, <2>3, <2>4, <2>5, <2>6
<1> HIDE DEF new
<1>7. ToSet(arr) = {arr[i] : i \in 1..n} /\ ToSet(new) = {new[i] : i \in 1..(n + 1)}
  <2>1. ToSet(new) = {new[i] : i \in 1..Len(new)}
    BY <1>6, ItemsOf
  <2>2. Len(new) = n + 1
    BY <1>6
  <2> QED BY <2>1, <2>2, ItemsOf
<1>8. ToSet(new) = ToSet(arr) \union {item}
  <2> HIDE DEF n
  <2>1. ASSUME NEW x \in ToSet(new) PROVE x \in ToSet(arr) \union {item}
    <3>1. PICK i \in 1..(n + 1) : x = new[i]
      BY <1>7
    <3>2. CASE i < p
      <4>0. i \in 1..(p - 1) /\ i \in 1..n
        BY <1>1, <3>2
      <4>1. i \in 1..n /\ x = arr[i]
        BY <1>6, <3>1, <4>0
      <4>2. x \in {arr[j] : j \in 1..n}
        BY <4>1
      <4> QED BY <1>7, <4>2
    <3>3. CASE i = p
      BY <1>6, <3>1, <3>3
    <3>4. CASE i > p
      <4>1. i - 1 \in p..n /\ (i - 1) + 1 = i
        BY <1>1, <3>4
      <4>0. i - 1 \in 1..n
        BY <1>1, <4>1
      <4>2. i - 1 \in 1..n /\ x = arr[i - 1]
        BY <1>6, <3>1, <4>0, <4>1
      <4>3. x \in {arr[j] : j \in 1..n}
        BY <4>2
      <4> QED BY <1>7, <4>3
    <3> QED BY <1>1, <3>2, <3>3, <3>4
  <2>2. ASSUME NEW x \in ToSet(arr) PROVE x \in ToSet(new)
    <3>1. PICK i \in 1..n : x = arr[i]
      BY <1>7
    <3>2. CASE i < p
      <4>1. i \in 1..(n + 1) /\ x = new[i]
        BY <1>1, <1>6, <3>1, <3>2
      <4> QED BY <1>7, <4>1
    <3>3. CASE i >= p
      <4>1. i + 1 \in 1..(n + 1) /\ x = new[i + 1]
        BY <1>1, <1>6, <3>1, <3>3
      <4> QED BY <1>7, <4>1
    <3> QED BY <1>1, <3>2, <3>3
  <2>3. item \in ToSet(new)
    BY <1>1, <1>6, <1>7
  <2> QED BY <2>1, <2>2, <2>3
<1>9. ASSUME Distinct(arr), item \notin ToSet(arr) PROVE Distinct(new)
  <2>1. \A i \in 1..n : arr[i] # item
    BY <1>7, <1>9
  <2>2. \A i, j \in 1..n : arr[i] = arr[j] => i = j
    BY <1>9 DEF Distinct
  <2> DEFINE old(i) == IF i < p THEN i ELSE i - 1
  <2>3. ASSUME NEW i \in 1..(n + 1), i # p PROVE old(i) \in 1..n /\ new[i] = arr[old(i)]
    <3>1. CASE i < p
      BY <1>1, <1>6, <3>1
    <3>2. CASE i > p
      <4>1. i - 1 \in p..n /\ (i - 1) + 1 = i
        BY <1>1, <3>2
      <4>2. new[(i - 1) + 1] = arr[i - 1]
        BY <1>6, <4>1
      <4> QED BY <1>1, <3>2, <4>1, <4>2
    <3> QED BY <1>1, <2>3, <3>1, <3>2
  <2>4. ASSUME NEW i \in 1..(n + 1), NEW j \in 1..(n + 1), new[i] = new[j] PROVE i = j
    <3>1. CASE i = p /\ j = p
      BY <3>1
    <3>2. CASE i = p /\ j # p
      BY <1>6, <2>1, <2>3, <2>4, <3>2
    <3>3. CASE i # p /\ j = p
      BY <1>6, <2>1, <2>3, <2>4, <3>3
    <3>4. CASE i # p /\ j # p
      <4>1. old(i) = old(j)
        BY <2>2, <2>3, <2>4, <3>4
      <4> QED BY <1>1, <3>4, <4>1
    <3> QED BY <3>1, <3>2, <3>3, <3>4
  <2> QED BY <1>6, <2>4 DEF Distinct
<1> QED BY <1>0, <1>6, <1>8, <1>9

LEMMA Inserted ==
  ASSUME NEW S, NEW arr \in Seq(S), NEW item \in S, NEW key \in [S -> Int],
         NEW new, new = InsertOrderedArray(arr, item, key)
  PROVE  /\ new \in Seq(S) /\ Len(new) = Len(arr) + 1
         /\ ToSet(new) = ToSet(arr) \union {item}
         /\ Distinct(arr) /\ item \notin ToSet(arr) => Distinct(new)
<1>1. LET other == InsertOrderedArray(arr, item, key)
      IN /\ other \in Seq(S) /\ Len(other) = Len(arr) + 1
         /\ ToSet(other) = ToSet(arr) \union {item}
         /\ Distinct(arr) /\ item \notin ToSet(arr) => Distinct(other)
  BY InsertItems, Zenon
<1> QED BY <1>1

(* The same of an index of cells of the heap.                               *)
LEMMA InsertedCell ==
  ASSUME NEW arr \in Seq(Cells), NEW item \in Cells, NEW key \in [Cells -> Int],
         NEW new, new = InsertOrderedArray(arr, item, key)
  PROVE  /\ ToSet(new) = ToSet(arr) \union {item}
         /\ Distinct(arr) /\ item \notin ToSet(arr) => Distinct(new)
  BY Inserted

LEMMA RemoveItems ==
  ASSUME NEW S, NEW arr \in Seq(S), NEW k \in 1..Len(arr), Distinct(arr)
  PROVE  LET new == RemoveOrderedArray(arr, k)
         IN /\ new \in Seq(S) /\ Len(new) = Len(arr) - 1
            /\ ToSet(new) = ToSet(arr) \ {arr[k]}
            /\ Distinct(new)
<1> DEFINE n   == Len(arr)
           front == SubSeq(arr, 1, k - 1)
           back  == SubSeq(arr, k + 1, n)
           new   == front \o back
<1>0. RemoveOrderedArray(arr, k) = new
  BY DEF RemoveOrderedArray, RemoveAt
<1>1. n \in Nat /\ k \in 1..n
  OBVIOUS
<1>2. front \in Seq(S) /\ Len(front) = k - 1 /\ \A i \in 1..(k - 1) : front[i] = arr[i]
  <2>1. /\ front \in Seq(S) /\ Len(front) = (k - 1) + 1 - 1
        /\ \A i \in 1..(k - 1) : front[i + 1 - 1] = arr[i]
    BY <1>1, Cutting
  <2> QED BY <1>1, <2>1
<1>3. /\ back \in Seq(S) /\ Len(back) = n - k
      /\ \A i \in (k + 1)..n : back[i - k] = arr[i]
  <2>1. /\ back \in Seq(S) /\ Len(back) = n + 1 - (k + 1)
        /\ \A i \in (k + 1)..n : back[i + 1 - (k + 1)] = arr[i]
    BY <1>1, Cutting
  <2>2. n + 1 - (k + 1) = n - k /\ \A i \in (k + 1)..n : i + 1 - (k + 1) = i - k
    BY <1>1
  <2> QED BY <2>1, <2>2
<1> HIDE DEF front, back
<1>4. /\ new \in Seq(S) /\ Len(new) = Len(front) + Len(back)
      /\ \A i \in 1..Len(front) : new[i] = front[i]
      /\ \A j \in 1..Len(back) : new[Len(front) + j] = back[j]
  <2>1. front \in Seq(S) /\ back \in Seq(S)
    BY <1>2, <1>3
  <2> QED BY <2>1, Joined
<1> HIDE DEF new
<1>5. /\ Len(new) = n - 1
      /\ \A i \in 1..(k - 1) : new[i] = arr[i]
      /\ \A i \in (k + 1)..n : new[i - 1] = arr[i]
  <2>1. ASSUME NEW i \in 1..(k - 1) PROVE new[i] = arr[i]
    BY <1>2, <1>4
  <2>2. ASSUME NEW i \in (k + 1)..n PROVE new[i - 1] = arr[i]
    <3>1. i - k \in 1..Len(back) /\ Len(front) + (i - k) = i - 1
      BY <1>1, <1>2, <1>3
    <3>2. new[Len(front) + (i - k)] = back[i - k]
      BY <1>4, <3>1
    <3> QED BY <1>3, <3>1, <3>2
  <2> QED BY <1>1, <1>2, <1>3, <1>4, <2>1, <2>2
<1> DEFINE old(i) == IF i < k THEN i ELSE i + 1
<1>6. ASSUME NEW i \in 1..(n - 1)
      PROVE  old(i) \in 1..n /\ old(i) # k /\ new[i] = arr[old(i)]
  <2>1. CASE i < k
    BY <1>1, <1>5, <2>1
  <2>2. CASE i >= k
    <3>1. i + 1 \in (k + 1)..n /\ (i + 1) - 1 = i
      BY <1>1, <2>2
    <3>2. new[(i + 1) - 1] = arr[i + 1]
      BY <1>5, <3>1
    <3> QED BY <1>1, <2>2, <3>1, <3>2
  <2> QED BY <1>1, <1>6, <2>1, <2>2
<1>7. ToSet(arr) = {arr[i] : i \in 1..n} /\ ToSet(new) = {new[i] : i \in 1..(n - 1)}
  <2>1. ToSet(new) = {new[i] : i \in 1..Len(new)}
    BY <1>4, ItemsOf
  <2> QED BY <1>5, <2>1, ItemsOf
<1>8. \A i, j \in 1..n : arr[i] = arr[j] => i = j
  BY DEF Distinct
<1>9. ToSet(new) = ToSet(arr) \ {arr[k]}
  <2>1. ASSUME NEW x \in ToSet(new) PROVE x \in ToSet(arr) \ {arr[k]}
    <3>1. PICK i \in 1..(n - 1) : x = new[i]
      BY <1>7
    <3>2. old(i) \in 1..n /\ old(i) # k /\ x = arr[old(i)]
      BY <1>6, <3>1
    <3> HIDE DEF old
    <3>3. x \in ToSet(arr)
      BY <1>7, <3>2
    <3>4. x # arr[k]
      BY <1>1, <1>8, <3>2
    <3> QED BY <3>3, <3>4
  <2>2. ASSUME NEW x \in ToSet(arr) \ {arr[k]} PROVE x \in ToSet(new)
    <3>1. PICK i \in 1..n : x = arr[i]
      BY <1>7
    <3>2. CASE i < k
      <4>1. i \in 1..(n - 1) /\ new[i] = arr[i]
        BY <1>1, <1>5, <3>2
      <4> QED BY <1>7, <3>1, <4>1
    <3>3. CASE i > k
      <4>1. i - 1 \in 1..(n - 1) /\ new[i - 1] = arr[i]
        BY <1>1, <1>5, <3>3
      <4> QED BY <1>7, <3>1, <4>1
    <3> QED BY <1>1, <3>1, <3>2, <3>3
  <2> QED BY <2>1, <2>2
<1>10. Distinct(new)
  <2>1. ASSUME NEW i \in 1..(n - 1), NEW j \in 1..(n - 1), new[i] = new[j] PROVE i = j
    <3>1. old(i) = old(j)
      <4> HIDE DEF old
      <4> QED BY <1>6, <1>8, <2>1
    <3> QED BY <1>1, <3>1
  <2> QED BY <1>5, <2>1 DEF Distinct
<1> QED BY <1>0, <1>4, <1>5, <1>9, <1>10

LEMMA PositionFound ==
  ASSUME NEW S, NEW arr \in Seq(S), NEW item
  PROVE  /\ PositionOf(arr, item) = 0 <=> item \notin ToSet(arr)
         /\ item \in ToSet(arr) =>
              /\ PositionOf(arr, item) \in 1..Len(arr)
              /\ arr[PositionOf(arr, item)] = item
<1> DEFINE I == {i \in 1..Len(arr) : arr[i] = item}
<1>1. Len(arr) \in Nat /\ ToSet(arr) = {arr[i] : i \in 1..Len(arr)}
  BY ItemsOf
<1>2. PositionOf(arr, item) = IF I # {} THEN Min(I) ELSE 0
  BY Zenon DEF PositionOf, SelectInSeq
<1>3. I \subseteq Nat
  BY <1>1
<1>4. I # {} => Min(I) \in I
  BY <1>3, MinProperties
<1>5. I # {} <=> item \in ToSet(arr)
  BY <1>1
<1>6. CASE I = {}
  BY <1>2, <1>5, <1>6
<1>7. CASE I # {}
  <2> DEFINE p == PositionOf(arr, item)
  <2>1. p \in I
    BY <1>2, <1>4, <1>7, Zenon
  <2> HIDE DEF p
  <2>2. p \in 1..Len(arr) /\ arr[p] = item
    BY <2>1
  <2>3. p # 0
    BY <1>1, <2>2
  <2> QED BY <1>5, <1>7, <2>2, <2>3 DEF p
<1> QED BY <1>6, <1>7

-----------------------------------------------------------------------------
(***************************************************************************)
(* The books of the heap, of a memory m, the holes H the index names, the  *)
(* blocks L the clients hold and the end e of the arena.                   *)
(***************************************************************************)
Beyond(m, u) == u + m[u + 2]
HeadersOf(L) == {b.ptr - Hdr : b \in L}

(* The units of the arena, which are its holes and its blocks, follow one   *)
(* another from its start to its end.                                       *)
Laid(m, U, e) ==
  /\ Start \in U
  /\ \A u \in U : /\ u \in Start..(e - Overhead)
                  /\ u + Overhead <= Beyond(m, u) /\ Beyond(m, u) <= e
  /\ \A u, v \in U : u < v => Beyond(m, u) <= v
  /\ \A u \in U : Beyond(m, u) = e \/ Beyond(m, u) \in U

(* The tags of a unit; only the last hole may lack its footer.              *)
HasFooter(m, u) == m[Beyond(m, u) - 2] = Magic /\ m[Beyond(m, u) - 1] = u
TagsRight(m, H, B, e) ==
  /\ \A h \in H : m[h] = Magic /\ m[h + 1] = 1 /\ (Beyond(m, h) = e \/ HasFooter(m, h))
  /\ \A h \in B : m[h] = Magic /\ m[h + 1] = 0 /\ HasFooter(m, h)
  /\ m[Start - 2] # Magic

(* What the clients store lies between the tags of their blocks.            *)
Contents(m, L) ==
  \A b \in L : /\ b.size + Overhead <= m[b.ptr - Hdr + 2]
               /\ \A c \in b.ptr..(b.ptr + b.size - 1) : m[c] = Payload

Books(m, H, L, e) ==
  /\ m \in Memory /\ L \subseteq [ptr : Int, size : Sizes]
  /\ e \in Int /\ e <= MaxAddress
  /\ \A b, c \in L : b.ptr = c.ptr => b = c
  /\ H \intersect HeadersOf(L) = {}
  /\ Laid(m, H \union HeadersOf(L), e)
  /\ TagsRight(m, H, HeadersOf(L), e)
  /\ Contents(m, L)

(* No hole has a hole on its right, but for those in P.                     *)
Apart(m, H, P) == \A h \in H : Beyond(m, h) \in H => h \in P

-----------------------------------------------------------------------------
LEMMA UnitCells ==
  ASSUME NEW m, NEW H, NEW L, NEW e, Books(m, H, L, e),
         NEW u \in H \union HeadersOf(L)
  PROVE  /\ u \in Int /\ u >= Start /\ m[u + 2] \in Int
         /\ Beyond(m, u) \in Int /\ u + Overhead <= Beyond(m, u) /\ Beyond(m, u) <= e
         /\ u..(Beyond(m, u) - 1) \subseteq Cells
         /\ u \in Cells /\ u + 1 \in Cells /\ u + 2 \in Cells
         /\ Beyond(m, u) - 2 \in Cells /\ Beyond(m, u) - 1 \in Cells
         /\ Beyond(m, u) - 2 >= u + Hdr
<1>1. /\ u \in Start..(e - Overhead) /\ e \in Int /\ e <= MaxAddress
      /\ u + Overhead <= Beyond(m, u) /\ Beyond(m, u) <= e
  BY DEF Books, Laid
<1>2. Start \in Nat /\ MaxAddress \in Nat
  BY HeapParameters
<1>3. u \in Int /\ u + 2 \in Cells
  BY <1>1, <1>2 DEF Cells, Overhead, Hdr, Ftr
<1>4. m[u + 2] \in Int
  BY <1>3 DEF Books, Memory
<1>5. Beyond(m, u) \in Int
  BY <1>3, <1>4 DEF Beyond
<1> QED BY <1>1, <1>2, <1>3, <1>4, <1>5 DEF Cells, Overhead, Hdr, Ftr

(* Every cell of the arena belongs to a unit ...                            *)
LEMMA Covered ==
  ASSUME NEW m, NEW H, NEW L, NEW e, Books(m, H, L, e), NEW c \in Start..(e - 1)
  PROVE  \E u \in H \union HeadersOf(L) : u <= c /\ c < Beyond(m, u)
<1> DEFINE U == H \union HeadersOf(L)
           T == {c - u : u \in {v \in U : v <= c}}
<1>1. \A u \in U : u \in Int /\ Beyond(m, u) \in Int /\ u < Beyond(m, u)
  BY UnitCells DEF Overhead, Hdr, Ftr
<1>2. Start \in U /\ Start \in Nat
  BY HeapParameters DEF Books, Laid
<1>3. T \subseteq Nat /\ T # {}
  <2>1. \A u \in U : u <= c => c - u \in Nat
    BY <1>1
  <2> HIDE DEF U
  <2>2. Start <= c
    BY <1>2
  <2> QED BY <1>2, <2>1, <2>2
<1>4. PICK d \in T : \A x \in T : d <= x
  <2> HIDE DEF T
  <2> QED BY <1>3, LeastExists
<1> HIDE DEF U
<1>5. PICK u \in U : u <= c /\ d = c - u
  OBVIOUS
<1>6. c < Beyond(m, u)
  <2> SUFFICES ASSUME Beyond(m, u) <= c PROVE FALSE
    BY <1>1
  <2>1. Beyond(m, u) \in U
    BY <1>1 DEF Books, Laid, U
  <2>2. c - Beyond(m, u) \in T
    BY <2>1
  <2>3. d <= c - Beyond(m, u)
    BY <1>4, <2>2
  <2> QED BY <1>1, <1>5, <2>3
<1> QED BY <1>5, <1>6 DEF U

(* ... and every unit but the first has one on its left.                    *)
LEMMA OnTheLeft ==
  ASSUME NEW m, NEW H, NEW L, NEW e, Books(m, H, L, e),
         NEW h \in H \union HeadersOf(L), h # Start
  PROVE  \E u \in H \union HeadersOf(L) : Beyond(m, u) = h
<1> DEFINE U == H \union HeadersOf(L)
<1>1. \A u \in U : u \in Int /\ Beyond(m, u) \in Int /\ u < Beyond(m, u) /\ u >= Start
  BY UnitCells DEF Overhead, Hdr, Ftr
<1>2. h - 1 \in Start..(e - 1)
  <2>1. h \in Start..(e - Overhead) /\ e \in Int /\ Start \in Int
    BY HeapParameters DEF Books, Laid
  <2> QED BY <2>1 DEF Overhead, Hdr, Ftr
<1>3. PICK u \in U : u <= h - 1 /\ h - 1 < Beyond(m, u)
  BY <1>2, Covered
<1>4. Beyond(m, u) <= h
  BY <1>1, <1>3 DEF Books, Laid
<1>5. Beyond(m, u) = h
  BY <1>1, <1>3, <1>4
<1> QED BY <1>5

(* A unit outside the cells a change of memory touches stays what it was.   *)
Agree(m, n, lo, hi) == \A c \in Cells : c \notin lo..(hi - 1) => n[c] = m[c]
LEMMA Untouched ==
  ASSUME NEW m, NEW H, NEW L, NEW e, Books(m, H, L, e),
         NEW n, NEW lo \in Int, NEW hi \in Int, Agree(m, n, lo, hi),
         NEW u \in H \union HeadersOf(L), Beyond(m, u) <= lo \/ hi <= u
  PROVE  /\ n[u] = m[u] /\ n[u + 1] = m[u + 1] /\ n[u + 2] = m[u + 2]
         /\ Beyond(n, u) = Beyond(m, u)
         /\ HasFooter(n, u) <=> HasFooter(m, u)
         /\ \A c \in u..(Beyond(m, u) - 1) : n[c] = m[c]
<1>1. /\ u \in Int /\ Beyond(m, u) \in Int /\ u..(Beyond(m, u) - 1) \subseteq Cells
      /\ u + Overhead <= Beyond(m, u)
  BY UnitCells
<1>2. ASSUME NEW c \in u..(Beyond(m, u) - 1) PROVE n[c] = m[c]
  BY <1>1, <1>2 DEF Agree
<1>3. /\ u \in u..(Beyond(m, u) - 1) /\ u + 1 \in u..(Beyond(m, u) - 1)
      /\ u + 2 \in u..(Beyond(m, u) - 1)
      /\ Beyond(m, u) - 1 \in u..(Beyond(m, u) - 1) /\ Beyond(m, u) - 2 \in u..(Beyond(m, u) - 1)
  BY <1>1 DEF Overhead, Hdr, Ftr
<1>4. n[u] = m[u] /\ n[u + 1] = m[u + 1] /\ n[u + 2] = m[u + 2]
  BY <1>2, <1>3
<1>5. n[Beyond(m, u) - 1] = m[Beyond(m, u) - 1] /\ n[Beyond(m, u) - 2] = m[Beyond(m, u) - 2]
  BY <1>2, <1>3
<1>6. Beyond(n, u) = Beyond(m, u)
  BY <1>4 DEF Beyond
<1>7. HasFooter(n, u) <=> HasFooter(m, u)
  BY <1>5, <1>6 DEF HasFooter
<1> QED BY <1>2, <1>4, <1>6, <1>7

(* So does what its owner has stored.                                       *)
LEMMA ContentsStay ==
  ASSUME NEW m, NEW H, NEW L, NEW e, Books(m, H, L, e),
         NEW n, NEW lo \in Int, NEW hi \in Int, Agree(m, n, lo, hi),
         NEW b \in L, Beyond(m, b.ptr - Hdr) <= lo \/ hi <= b.ptr - Hdr
  PROVE  /\ b.size + Overhead <= n[b.ptr - Hdr + 2]
         /\ \A c \in b.ptr..(b.ptr + b.size - 1) : n[c] = Payload
<1> DEFINE u == b.ptr - Hdr
<1>1. u \in HeadersOf(L)
  BY DEF HeadersOf
<1>2. /\ n[u + 2] = m[u + 2]
      /\ \A c \in u..(Beyond(m, u) - 1) : n[c] = m[c]
  BY <1>1, Untouched
<1>3. /\ b.size + Overhead <= m[u + 2]
      /\ \A c \in b.ptr..(b.ptr + b.size - 1) : m[c] = Payload
  BY DEF Books, Contents
<1>4. b.ptr \in Int /\ b.size \in Int /\ m[u + 2] \in Int
  <2>1. b \in [ptr : Int, size : Sizes]
    BY DEF Books
  <2>2. b.ptr \in Int /\ b.size \in Nat
    BY <2>1, ClientParameters
  <2>3. m[u + 2] \in Int
    <3> HIDE DEF u
    <3> QED BY <1>1, UnitCells
  <2> QED BY <2>2, <2>3
<1>5. \A c \in b.ptr..(b.ptr + b.size - 1) : c \in u..(Beyond(m, u) - 1)
  BY <1>3, <1>4 DEF Beyond, Overhead, Hdr, Ftr
<1> QED BY <1>2, <1>3, <1>5

LEMMA Beside ==
  ASSUME NEW m, NEW H, NEW L, NEW e, Books(m, H, L, e),
         NEW u \in H \union HeadersOf(L), NEW v \in H \union HeadersOf(L), u # v
  PROVE  Beyond(m, u) <= v \/ Beyond(m, v) <= u
<1>1. u \in Int /\ v \in Int
  BY UnitCells
<1>2. u < v => Beyond(m, u) <= v
  BY DEF Books, Laid
<1>3. v < u => Beyond(m, v) <= u
  BY DEF Books, Laid
<1> QED BY <1>1, <1>2, <1>3

LEMMA HeaderOut ==
  ASSUME NEW L, L \subseteq [ptr : Int, size : Sizes],
         \A b, c \in L : b.ptr = c.ptr => b = c, NEW b \in L
  PROVE  HeadersOf(L \ {b}) = HeadersOf(L) \ {b.ptr - Hdr}
<1>1. \A c \in L : c.ptr \in Int
  OBVIOUS
<1>2. ASSUME NEW c \in L, c # b PROVE c.ptr - Hdr # b.ptr - Hdr
  BY <1>1, <1>2 DEF Hdr
<1> QED BY <1>2 DEF HeadersOf

LEMMA HeaderIn ==
  ASSUME NEW L, NEW b
  PROVE  HeadersOf(L \union {b}) = HeadersOf(L) \union {b.ptr - Hdr}
  BY DEF HeadersOf

(***************************************************************************)
(* A change of memory keeps the books when it leaves whole units alone and *)
(* the units it makes are laid and tagged.                                 *)
(***************************************************************************)
HoleTags(n, h, e) == n[h] = Magic /\ n[h + 1] = 1 /\ (Beyond(n, h) = e \/ HasFooter(n, h))
BlockTags(n, h) == n[h] = Magic /\ n[h + 1] = 0 /\ HasFooter(n, h)
Stored(n, b) ==
  /\ b.size + Overhead <= n[b.ptr - Hdr + 2]
  /\ \A c \in b.ptr..(b.ptr + b.size - 1) : n[c] = Payload
Clear(m, u, lo, hi) == Beyond(m, u) <= lo \/ hi <= u

Rewrites(m, H, L, e, n, lo, hi, H2, L2, e2) ==
  /\ n \in Memory /\ lo \in Int /\ hi \in Int /\ lo >= Start /\ Agree(m, n, lo, hi)
  /\ L2 \subseteq [ptr : Int, size : Sizes] /\ e2 \in Int /\ e2 <= MaxAddress
  /\ \A b, c \in L2 : b.ptr = c.ptr => b = c
  /\ H2 \intersect HeadersOf(L2) = {}
  /\ Laid(n, H2 \union HeadersOf(L2), e2)
  /\ \A h \in H2 : \/ HoleTags(n, h, e2)
                   \/ h \in H /\ Clear(m, h, lo, hi) /\ (Beyond(m, h) # e \/ e2 = e)
  /\ \A h \in HeadersOf(L2) : BlockTags(n, h) \/ (h \in HeadersOf(L) /\ Clear(m, h, lo, hi))
  /\ \A b \in L2 : Stored(n, b) \/ (b \in L /\ Clear(m, b.ptr - Hdr, lo, hi))

LEMMA Rewritten ==
  ASSUME NEW m, NEW H, NEW L, NEW e, Books(m, H, L, e),
         NEW n, NEW lo, NEW hi, NEW H2, NEW L2, NEW e2,
         Rewrites(m, H, L, e, n, lo, hi, H2, L2, e2)
  PROVE  Books(n, H2, L2, e2)
<1> USE DEF Rewrites
<1>1. ASSUME NEW h \in H2 PROVE HoleTags(n, h, e2)
  <2>1. CASE h \in H /\ Clear(m, h, lo, hi) /\ (Beyond(m, h) # e \/ e2 = e)
    <3>1. /\ n[h] = m[h] /\ n[h + 1] = m[h + 1] /\ Beyond(n, h) = Beyond(m, h)
          /\ HasFooter(n, h) <=> HasFooter(m, h)
      BY <2>1, Untouched DEF Clear
    <3>2. m[h] = Magic /\ m[h + 1] = 1 /\ (Beyond(m, h) = e \/ HasFooter(m, h))
      BY <2>1 DEF Books, TagsRight
    <3> QED BY <3>1, <3>2 DEF HoleTags
  <2> QED BY <2>1
<1>2. ASSUME NEW h \in HeadersOf(L2) PROVE BlockTags(n, h)
  <2>1. CASE h \in HeadersOf(L) /\ Clear(m, h, lo, hi)
    <3>1. /\ n[h] = m[h] /\ n[h + 1] = m[h + 1]
          /\ HasFooter(n, h) <=> HasFooter(m, h)
      BY <2>1, Untouched DEF Clear
    <3>2. m[h] = Magic /\ m[h + 1] = 0 /\ HasFooter(m, h)
      BY <2>1 DEF Books, TagsRight
    <3> QED BY <3>1, <3>2 DEF BlockTags
  <2> QED BY <2>1
<1>3. ASSUME NEW b \in L2 PROVE Stored(n, b)
  <2>1. CASE b \in L /\ Clear(m, b.ptr - Hdr, lo, hi)
    BY <2>1, ContentsStay DEF Clear, Stored
  <2> QED BY <2>1
<1>4. n[Start - 2] # Magic
  <2>1. Start - 2 \in Cells /\ Start - 2 \notin lo..(hi - 1)
    BY HeapParameters DEF Cells, Overhead, Hdr, Ftr
  <2>2. n[Start - 2] = m[Start - 2]
    BY <2>1 DEF Agree
  <2> QED BY <2>2 DEF Books, TagsRight
<1>5. TagsRight(n, H2, HeadersOf(L2), e2)
  BY <1>1, <1>2, <1>4 DEF TagsRight, HoleTags, BlockTags
<1>6. Contents(n, L2)
  BY <1>3 DEF Contents, Stored
<1> QED BY <1>5, <1>6 DEF Books

-----------------------------------------------------------------------------
(* free marks the block as a hole (heap.c:276).                             *)
LEMMA MarkStage ==
  ASSUME NEW m, NEW H, NEW L, NEW e, Books(m, H, L, e), NEW b \in L
  PROVE  LET h == b.ptr - Hdr
             n == [m EXCEPT ![h + 1] = 1]
         IN /\ Books(n, H \union {h}, L \ {b}, e)
            /\ HeadersOf(L \ {b}) = HeadersOf(L) \ {h}
            /\ h \in HeadersOf(L) /\ h \notin H
            /\ \A u \in H \union HeadersOf(L) : Beyond(n, u) = Beyond(m, u)
            /\ HasFooter(n, h)
<1> DEFINE h == b.ptr - Hdr
           n == [m EXCEPT ![h + 1] = 1]
           U == H \union HeadersOf(L)
<1>1. h \in HeadersOf(L) /\ h \notin H
  BY DEF HeadersOf, Books
<1>2. HeadersOf(L \ {b}) = HeadersOf(L) \ {h}
  <2>1. L \subseteq [ptr : Int, size : Sizes] /\ \A a, c \in L : a.ptr = c.ptr => a = c
    BY DEF Books
  <2> QED BY <2>1, HeaderOut
<1> HIDE DEF h
<1>3. /\ h \in Int /\ Beyond(m, h) \in Int /\ h >= Start /\ h + Overhead <= Beyond(m, h)
      /\ h \in Cells /\ h + 1 \in Cells /\ h + 2 \in Cells /\ m \in Memory
      /\ Beyond(m, h) - 2 \in Cells /\ Beyond(m, h) - 1 \in Cells
  BY <1>1, UnitCells DEF Books
<1>4. n \in Memory /\ Agree(m, n, h, Beyond(m, h))
  <2>1. n \in Memory
    BY <1>3, StoreTyped
  <2>2. \A c \in Cells : c # h + 1 => n[c] = m[c]
    BY <1>3 DEF Memory
  <2>3. h + 1 \in h..(Beyond(m, h) - 1)
    BY <1>3 DEF Overhead, Hdr, Ftr
  <2> HIDE DEF n
  <2> QED BY <2>1, <2>2, <2>3 DEF Agree
<1>5. /\ n[h] = m[h] /\ n[h + 1] = 1 /\ n[h + 2] = m[h + 2]
      /\ n[Beyond(m, h) - 2] = m[Beyond(m, h) - 2] /\ n[Beyond(m, h) - 1] = m[Beyond(m, h) - 1]
  <2>1. h # h + 1 /\ h + 2 # h + 1 /\ Beyond(m, h) - 2 # h + 1 /\ Beyond(m, h) - 1 # h + 1
    BY <1>3 DEF Overhead, Hdr, Ftr
  <2>2. \A c \in Cells : n[c] = IF c = h + 1 THEN 1 ELSE m[c]
    BY <1>3 DEF Memory
  <2> HIDE DEF n
  <2> QED BY <1>3, <2>1, <2>2
<1> HIDE DEF n
<1>6. ASSUME NEW u \in U, u # h PROVE Clear(m, u, h, Beyond(m, h))
  BY <1>1, <1>6, Beside DEF Clear
<1>7. ASSUME NEW u \in U PROVE Beyond(n, u) = Beyond(m, u)
  <2>1. CASE u = h
    BY <1>5, <2>1 DEF Beyond
  <2>2. CASE u # h
    BY <1>3, <1>4, <1>6, <2>2, Untouched DEF Clear
  <2> QED BY <2>1, <2>2
<1>8. (H \union {h}) \union HeadersOf(L \ {b}) = U
  BY <1>1, <1>2
<1>9. Laid(n, U, e)
  BY <1>7 DEF Books, Laid
<1>10. HasFooter(n, h) /\ n[h] = Magic
  <2>1. HasFooter(m, h) /\ m[h] = Magic
    BY <1>1 DEF Books, TagsRight
  <2> QED BY <1>1, <1>5, <1>7, <2>1 DEF HasFooter
<1>11. Books(n, H \union {h}, L \ {b}, e)
  <2>1. \A g \in H \union {h} :
          HoleTags(n, g, e) \/ (g \in H /\ Clear(m, g, h, Beyond(m, h)))
    <3>1. HoleTags(n, h, e)
      BY <1>5, <1>10 DEF HoleTags
    <3> QED BY <1>1, <1>6, <3>1
  <2>2. \A g \in HeadersOf(L \ {b}) :
          BlockTags(n, g) \/ (g \in HeadersOf(L) /\ Clear(m, g, h, Beyond(m, h)))
    BY <1>2, <1>6
  <2>3. \A a \in L \ {b} : Stored(n, a) \/ (a \in L /\ Clear(m, a.ptr - Hdr, h, Beyond(m, h)))
    <3>1. ASSUME NEW a \in L \ {b} PROVE a.ptr - Hdr \in HeadersOf(L) \ {h}
      BY <1>2 DEF HeadersOf
    <3> QED BY <1>6, <3>1
  <2>4. /\ L \ {b} \subseteq [ptr : Int, size : Sizes] /\ e \in Int /\ e <= MaxAddress
        /\ \A a, c \in L \ {b} : a.ptr = c.ptr => a = c
        /\ (H \union {h}) \intersect HeadersOf(L \ {b}) = {}
    <3>1. H \intersect HeadersOf(L) = {}
      BY DEF Books
    <3>2. (H \union {h}) \intersect (HeadersOf(L) \ {h}) = {}
      BY <3>1
    <3> QED BY <1>2, <3>2 DEF Books
  <2>5. Rewrites(m, H, L, e, n, h, Beyond(m, h), H \union {h}, L \ {b}, e)
    BY <1>3, <1>4, <1>8, <1>9, <2>1, <2>2, <2>3, <2>4 DEF Rewrites
  <2> QED BY <2>5, Rewritten
<1> QED BY <1>1, <1>2, <1>7, <1>10, <1>11 DEF n, h

(* free unifies a hole with the one behind it (heap.c:292-317); the footer  *)
(* of the second is rewritten unless it is the last.                        *)
Merges(m, n, u, h, e) ==
  /\ Beyond(m, u) = h
  /\ n \in Memory /\ n[u + 2] = m[u + 2] + m[h + 2]
  /\ \A c \in Cells : c # u + 2 /\ c # Beyond(m, h) - 1 => n[c] = m[c]
  /\ Beyond(m, h) = e \/ (HasFooter(m, h) /\ n[Beyond(m, h) - 1] = u)

LEMMA MergeStage ==
  ASSUME NEW m, NEW H, NEW L, NEW e, Books(m, H, L, e),
         NEW u \in H, NEW h \in H, NEW n, Merges(m, n, u, h, e)
  PROVE  /\ Books(n, H \ {h}, L, e)
         /\ Beyond(n, u) = Beyond(m, h)
         /\ \A v \in H \union HeadersOf(L) : v \notin {u, h} => Beyond(n, v) = Beyond(m, v)
<1> USE DEF Merges
<1> DEFINE U == H \union HeadersOf(L)
           z == Beyond(m, h)
<1>1. /\ u \in Int /\ u >= Start /\ u + Overhead <= h /\ u + 2 \in Cells /\ u \in Cells /\ u + 1 \in Cells
      /\ m[u + 2] \in Int /\ m[h + 2] \in Int
      /\ h \in Int /\ z \in Int /\ h + Overhead <= z /\ z <= e
      /\ z - 1 \in Cells /\ z - 2 \in Cells
  BY UnitCells
<1>2. Beyond(n, u) = z
  BY <1>1 DEF Beyond
<1>3. Agree(m, n, u, z)
  BY <1>1 DEF Agree, Overhead, Hdr, Ftr
<1>4. n[u] = m[u] /\ n[u + 1] = m[u + 1] /\ n[z - 2] = m[z - 2]
  BY <1>1 DEF Overhead, Hdr, Ftr
<1>5. u \in U /\ h \in U /\ u # h
  BY <1>1 DEF Overhead, Hdr, Ftr
<1>6. ASSUME NEW v \in U, v # u, v # h PROVE Clear(m, v, u, z)
  <2>1. v \in Int /\ Beyond(m, v) \in Int /\ v < Beyond(m, v)
    BY UnitCells DEF Overhead, Hdr, Ftr
  <2>2. Beyond(m, v) <= u \/ h <= v
    BY <1>5, <1>6, Beside
  <2>3. Beyond(m, v) <= h \/ z <= v
    BY <1>5, <1>6, Beside
  <2> QED BY <1>1, <2>1, <2>2, <2>3 DEF Clear
<1>7. ASSUME NEW v \in U, v # u, v # h PROVE Beyond(n, v) = Beyond(m, v)
  BY <1>1, <1>3, <1>6, <1>7, Untouched DEF Clear
<1>8. (H \ {h}) \union HeadersOf(L) = U \ {h}
  BY DEF Books
<1> DEFINE V == U \ {h}
<1>9. Laid(n, V, e)
  <2>1. Laid(m, U, e)
    BY DEF Books
  <2>2. \A v \in U : v \in Int /\ Beyond(m, v) \in Int /\ v < Beyond(m, v)
    BY UnitCells DEF Overhead, Hdr, Ftr
  <2>3. \A v \in V : Beyond(n, v) = IF v = u THEN z ELSE Beyond(m, v)
    BY <1>2, <1>7
  <2>4. Start \in V
    BY <1>1, <2>1 DEF Laid, Overhead, Hdr, Ftr
  <2>5. ASSUME NEW v \in V
        PROVE  v \in Start..(e - Overhead) /\ v + Overhead <= Beyond(n, v) /\ Beyond(n, v) <= e
    <3>1. v \in Start..(e - Overhead) /\ v + Overhead <= Beyond(m, v) /\ Beyond(m, v) <= e
      BY <2>1 DEF Laid
    <3>2. CASE v = u
      BY <1>1, <1>2, <3>1, <3>2 DEF Overhead, Hdr, Ftr
    <3> QED BY <2>3, <3>1, <3>2
  <2>6. ASSUME NEW v \in V, NEW w \in V, v < w PROVE Beyond(n, v) <= w
    <3>1. Beyond(m, v) <= w
      BY <2>1, <2>6 DEF Laid
    <3>2. CASE v = u
      <4>1. w # u /\ w # h
        BY <1>1, <2>6, <3>2
      <4>2. Beyond(m, w) <= u \/ z <= w
        BY <1>6, <4>1 DEF Clear
      <4>3. w \in Int /\ w < Beyond(m, w)
        BY <2>2
      <4> QED BY <1>1, <1>2, <2>2, <2>6, <3>2, <4>2, <4>3
    <3> QED BY <2>3, <3>1, <3>2
  <2>7. ASSUME NEW v \in V PROVE Beyond(n, v) = e \/ Beyond(n, v) \in V
    <3>1. \A w \in U : Beyond(m, w) = e \/ Beyond(m, w) \in U
      BY <2>1 DEF Laid
    <3>2. CASE v = u
      <4>1. z # h
        BY <1>1 DEF Overhead, Hdr, Ftr
      <4> QED BY <1>2, <1>5, <3>1, <3>2, <4>1
    <3>3. CASE v # u
      <4>1. Clear(m, v, u, z)
        BY <1>6, <3>3
      <4>2. Beyond(m, v) # h
        <5>1. v \in Int /\ Beyond(m, v) \in Int /\ v < Beyond(m, v)
          BY <2>2
        <5> QED BY <1>1, <4>1, <5>1 DEF Clear, Overhead, Hdr, Ftr
      <4> QED BY <2>3, <3>1, <3>3, <4>2
    <3> QED BY <3>2, <3>3
  <2> HIDE DEF V
  <2> QED BY <2>4, <2>5, <2>6, <2>7 DEF Laid
<1>10. Books(n, H \ {h}, L, e)
  <2>1. HoleTags(n, u, e)
    <3>1. m[u] = Magic /\ m[u + 1] = 1
      BY DEF Books, TagsRight
    <3> QED BY <1>2, <1>4, <3>1 DEF HoleTags, HasFooter
  <2>2. \A g \in H \ {h} : HoleTags(n, g, e) \/ (g \in H /\ Clear(m, g, u, z))
    BY <1>6, <2>1
  <2>3. \A g \in HeadersOf(L) : Clear(m, g, u, z)
    <3>1. H \intersect HeadersOf(L) = {}
      BY DEF Books
    <3> QED BY <1>6, <3>1
  <2>4. \A b \in L : Clear(m, b.ptr - Hdr, u, z)
    BY <2>3 DEF HeadersOf
  <2>5. /\ L \subseteq [ptr : Int, size : Sizes] /\ e \in Int /\ e <= MaxAddress
        /\ \A b, c \in L : b.ptr = c.ptr => b = c
        /\ (H \ {h}) \intersect HeadersOf(L) = {}
    BY DEF Books
  <2>6. Laid(n, (H \ {h}) \union HeadersOf(L), e)
    BY <1>8, <1>9
  <2>7. Rewrites(m, H, L, e, n, u, z, H \ {h}, L, e)
    BY <1>1, <1>3, <2>2, <2>3, <2>4, <2>5, <2>6 DEF Rewrites
  <2> QED BY <2>7, Rewritten
<1> QED BY <1>2, <1>7, <1>10

(* The last hole takes a new end: the growth of expand (heap.c:187-195), or *)
(* what contract leaves of it (heap.c:320-333).                             *)
LEMMA ResizeStage ==
  ASSUME NEW m, NEW H, NEW L, NEW e, Books(m, H, L, e),
         NEW l \in Int, l \in H, Beyond(m, l) = e,
         NEW e2 \in Int, l + Overhead <= e2, e2 <= MaxAddress,
         NEW n \in Memory, n[l] = m[l], n[l + 1] = m[l + 1], n[l + 2] = e2 - l,
         Agree(m, n, l, MaxAddress)
  PROVE  /\ Books(n, H, L, e2)
         /\ Beyond(n, l) = e2
         /\ \A v \in H \union HeadersOf(L) : v # l => Beyond(n, v) = Beyond(m, v)
<1> DEFINE U == H \union HeadersOf(L)
<1>1. l \in Int /\ l >= Start /\ l \in U /\ e \in Int /\ l + Overhead <= e
  BY UnitCells DEF Books
<1>2. Beyond(n, l) = e2
  BY <1>1 DEF Beyond
<1>3. ASSUME NEW v \in U, v # l
      PROVE  /\ v \in Int /\ Beyond(m, v) \in Int /\ v + Overhead <= Beyond(m, v) /\ v >= Start
             /\ Beyond(m, v) <= l
  <2>1. v \in Int /\ Beyond(m, v) \in Int /\ v + Overhead <= Beyond(m, v) /\ v >= Start /\ Beyond(m, v) <= e
    BY UnitCells
  <2>2. Beyond(m, v) <= l \/ e <= v
    BY <1>1, <1>3, Beside
  <2> QED BY <1>1, <2>1, <2>2 DEF Overhead, Hdr, Ftr
<1>4. MaxAddress \in Int
  BY HeapParameters
<1>5. ASSUME NEW v \in U, v # l PROVE Beyond(n, v) = Beyond(m, v)
  BY <1>1, <1>3, <1>4, <1>5, Untouched
<1>6. Laid(n, U, e2)
  <2>1. Laid(m, U, e)
    BY DEF Books
  <2>2. ASSUME NEW v \in U
        PROVE  v \in Start..(e2 - Overhead) /\ v + Overhead <= Beyond(n, v) /\ Beyond(n, v) <= e2
    <3>0. Start \in Int
      BY HeapParameters
    <3>1. CASE v = l
      BY <1>1, <1>2, <3>0, <3>1 DEF Overhead, Hdr, Ftr
    <3>2. CASE v # l
      BY <1>1, <1>3, <1>5, <3>0, <3>2 DEF Overhead, Hdr, Ftr
    <3> QED BY <3>1, <3>2
  <2>3. ASSUME NEW v \in U, NEW w \in U, v < w PROVE Beyond(n, v) <= w
    <3>1. CASE v = l
      BY <1>1, <1>3, <2>3, <3>1 DEF Overhead, Hdr, Ftr
    <3>2. CASE v # l
      BY <1>5, <2>1, <2>3, <3>2 DEF Laid
    <3> QED BY <3>1, <3>2
  <2>4. ASSUME NEW v \in U PROVE Beyond(n, v) = e2 \/ Beyond(n, v) \in U
    <3>1. CASE v = l
      BY <1>2, <3>1
    <3>2. CASE v # l
      BY <1>1, <1>3, <1>5, <2>1, <3>2 DEF Laid, Overhead, Hdr, Ftr
    <3> QED BY <3>1, <3>2
  <2>5. Start \in U
    BY <2>1 DEF Laid
  <2> HIDE DEF U
  <2> QED BY <2>2, <2>3, <2>4, <2>5 DEF Laid
<1>7. Books(n, H, L, e2)
  <2>1. HoleTags(n, l, e2)
    BY <1>2 DEF HoleTags, Books, TagsRight
  <2>2. \A g \in H : HoleTags(n, g, e2) \/ (g \in H /\ Clear(m, g, l, MaxAddress) /\ Beyond(m, g) # e)
    <3>1. ASSUME NEW g \in H, g # l PROVE Clear(m, g, l, MaxAddress) /\ Beyond(m, g) # e
      BY <1>1, <1>3, <3>1 DEF Clear, Overhead, Hdr, Ftr
    <3> QED BY <2>1, <3>1
  <2>3. \A g \in HeadersOf(L) : Clear(m, g, l, MaxAddress)
    <3>1. H \intersect HeadersOf(L) = {}
      BY DEF Books
    <3> QED BY <1>3, <3>1 DEF Clear
  <2>4. \A b \in L : Clear(m, b.ptr - Hdr, l, MaxAddress)
    BY <2>3 DEF HeadersOf
  <2>5. /\ L \subseteq [ptr : Int, size : Sizes]
        /\ \A b, c \in L : b.ptr = c.ptr => b = c
        /\ H \intersect HeadersOf(L) = {}
    BY DEF Books
  <2>6. Rewrites(m, H, L, e, n, l, MaxAddress, H, L, e2)
    BY <1>1, <1>4, <1>6, <2>2, <2>3, <2>4, <2>5 DEF Rewrites
  <2> QED BY <2>6, Rewritten
<1> QED BY <1>2, <1>5, <1>7

(* A first hole behind the last block, when there is none (heap.c:174-183). *)
LEMMA FreshStage ==
  ASSUME NEW m, NEW L, NEW e \in Int, Books(m, {}, L, e),
         NEW e2 \in Int, e + Overhead <= e2, e2 <= MaxAddress,
         NEW n \in Memory, n[e] = Magic, n[e + 1] = 1, n[e + 2] = e2 - e,
         Agree(m, n, e, MaxAddress)
  PROVE  /\ Books(n, {e}, L, e2)
         /\ Beyond(n, e) = e2
         /\ \A v \in HeadersOf(L) : Beyond(n, v) = Beyond(m, v)
<1> DEFINE U == HeadersOf(L)
<1>0. {} \union HeadersOf(L) = U
  OBVIOUS
<1>1. e \in Int /\ e >= Start /\ MaxAddress \in Int /\ Start \in Int
  <2>1. Start \in Start..(e - Overhead) /\ e \in Int
    BY <1>0 DEF Books, Laid
  <2> QED BY <2>1, HeapParameters DEF Overhead, Hdr, Ftr
<1>2. Beyond(n, e) = e2
  BY <1>1 DEF Beyond
<1>3. ASSUME NEW v \in U
      PROVE  /\ v \in Int /\ Beyond(m, v) \in Int /\ v + Overhead <= Beyond(m, v) /\ v >= Start
             /\ Beyond(m, v) <= e /\ v # e
  <2>1. v \in {} \union HeadersOf(L)
    BY <1>0
  <2>2. v \in Int /\ Beyond(m, v) \in Int /\ v + Overhead <= Beyond(m, v) /\ v >= Start /\ Beyond(m, v) <= e
    BY <2>1, UnitCells
  <2> QED BY <1>1, <2>2 DEF Overhead, Hdr, Ftr
<1>4. ASSUME NEW v \in U PROVE Beyond(n, v) = Beyond(m, v)
  <2>1. v \in {} \union HeadersOf(L)
    BY <1>0
  <2> QED BY <1>1, <1>3, <2>1, Untouched
<1> DEFINE V == {e} \union U
<1>5. Laid(n, V, e2)
  <2>1. Laid(m, U, e)
    BY <1>0 DEF Books
  <2>2. ASSUME NEW v \in V
        PROVE  v \in Start..(e2 - Overhead) /\ v + Overhead <= Beyond(n, v) /\ Beyond(n, v) <= e2
    <3>1. CASE v = e
      BY <1>1, <1>2, <3>1 DEF Overhead, Hdr, Ftr
    <3>2. CASE v \in U
      BY <1>1, <1>3, <1>4, <3>2 DEF Overhead, Hdr, Ftr
    <3> QED BY <3>1, <3>2
  <2>3. ASSUME NEW v \in V, NEW w \in V, v < w PROVE Beyond(n, v) <= w
    <3>1. CASE v = e
      BY <1>1, <1>3, <2>3, <3>1 DEF Overhead, Hdr, Ftr
    <3>2. CASE v \in U /\ w = e
      BY <1>3, <1>4, <3>2
    <3>3. CASE v \in U /\ w \in U
      BY <1>4, <2>1, <2>3, <3>3 DEF Laid
    <3> QED BY <3>1, <3>2, <3>3
  <2>4. ASSUME NEW v \in V PROVE Beyond(n, v) = e2 \/ Beyond(n, v) \in V
    <3>1. CASE v = e
      BY <1>2, <3>1
    <3>2. CASE v \in U
      BY <1>4, <2>1, <3>2 DEF Laid
    <3> QED BY <3>1, <3>2
  <2>5. Start \in V
    BY <2>1 DEF Laid
  <2> HIDE DEF V
  <2> QED BY <2>2, <2>3, <2>4, <2>5 DEF Laid
<1>6. Books(n, {e}, L, e2)
  <2>1. HoleTags(n, e, e2)
    BY <1>2 DEF HoleTags
  <2>2. \A g \in HeadersOf(L) : Clear(m, g, e, MaxAddress)
    BY <1>3 DEF Clear
  <2>3. \A b \in L : Clear(m, b.ptr - Hdr, e, MaxAddress)
    BY <2>2 DEF HeadersOf
  <2>4. {e} \intersect HeadersOf(L) = {}
    BY <1>3
  <2>5. /\ L \subseteq [ptr : Int, size : Sizes]
        /\ \A b, c \in L : b.ptr = c.ptr => b = c
    BY DEF Books
  <2>6. Rewrites(m, {}, L, e, n, e, MaxAddress, {e}, L, e2)
    BY <1>1, <1>5, <2>1, <2>2, <2>3, <2>4, <2>5 DEF Rewrites
  <2> QED BY <2>6, Rewritten
<1> QED BY <1>2, <1>4, <1>6

(* alloc takes a whole hole (heap.c:206-211) ...                            *)
Takes(m, n, h, b) ==
  /\ b \in [ptr : Int, size : Sizes] /\ b.ptr - Hdr = h
  /\ n \in Memory /\ n[h + 2] = m[h + 2] /\ BlockTags(n, h) /\ Stored(n, b)
  /\ Agree(m, n, h, Beyond(m, h))

LEMMA TakeStage ==
  ASSUME NEW m, NEW H, NEW L, NEW e, Books(m, H, L, e),
         NEW h \in H, NEW b, NEW n, Takes(m, n, h, b)
  PROVE  /\ Books(n, H \ {h}, L \union {b}, e)
         /\ \A v \in H \union HeadersOf(L) : Beyond(n, v) = Beyond(m, v)
<1> USE DEF Takes
<1> DEFINE U == H \union HeadersOf(L)
           z == Beyond(m, h)
<1>1. h \in Int /\ h >= Start /\ z \in Int /\ h \in U
  BY UnitCells
<1>2. HeadersOf(L \union {b}) = HeadersOf(L) \union {h}
  BY HeaderIn
<1>3. ASSUME NEW v \in U, v # h PROVE Clear(m, v, h, z)
  BY <1>1, <1>3, Beside DEF Clear
<1>4. ASSUME NEW v \in U PROVE Beyond(n, v) = Beyond(m, v)
  <2>1. CASE v = h
    BY <2>1 DEF Beyond
  <2>2. CASE v # h
    BY <1>1, <1>3, <2>2, Untouched DEF Clear
  <2> QED BY <2>1, <2>2
<1>5. (H \ {h}) \union HeadersOf(L \union {b}) = U
  BY <1>2
<1>6. Laid(n, U, e)
  BY <1>4 DEF Books, Laid
<1>7. H \intersect HeadersOf(L) = {} /\ L \subseteq [ptr : Int, size : Sizes]
  BY DEF Books
<1>8. \A g \in H \ {h} : g \in H /\ Clear(m, g, h, z)
  BY <1>3
<1>9. \A g \in HeadersOf(L \union {b}) : BlockTags(n, g) \/ (g \in HeadersOf(L) /\ Clear(m, g, h, z))
  BY <1>2, <1>3
<1>10. \A a \in L \union {b} : Stored(n, a) \/ (a \in L /\ Clear(m, a.ptr - Hdr, h, z))
  <2>1. ASSUME NEW a \in L PROVE Clear(m, a.ptr - Hdr, h, z)
    <3>1. a.ptr - Hdr \in HeadersOf(L)
      BY DEF HeadersOf
    <3>2. a.ptr - Hdr # h
      BY <1>7, <3>1
    <3> QED BY <1>3, <3>1, <3>2
  <2> QED BY <2>1
<1>11. \A a, c \in L \union {b} : a.ptr = c.ptr => a = c
  <2>1. \A a, c \in L : a.ptr = c.ptr => a = c
    BY DEF Books
  <2>2. ASSUME NEW a \in L PROVE a.ptr # b.ptr
    <3>1. a.ptr - Hdr \in HeadersOf(L)
      BY DEF HeadersOf
    <3> QED BY <1>7, <3>1
  <2> QED BY <2>1, <2>2
<1>12. (H \ {h}) \intersect HeadersOf(L \union {b}) = {}
  BY <1>2, <1>7
<1>13. L \union {b} \subseteq [ptr : Int, size : Sizes] /\ e \in Int /\ e <= MaxAddress
  BY DEF Books
<1>14. Rewrites(m, H, L, e, n, h, z, H \ {h}, L \union {b}, e)
  BY <1>1, <1>5, <1>6, <1>8, <1>9, <1>10, <1>11, <1>12, <1>13 DEF Rewrites
<1> QED BY <1>4, <1>14, Rewritten

(* ... or the front of one, and leaves a hole behind it (heap.c:237-257).   *)
Splits(m, n, h, b, k, e) ==
  /\ b \in [ptr : Int, size : Sizes] /\ b.ptr - Hdr = h
  /\ k \in Int /\ h + Overhead <= k /\ k + Overhead <= Beyond(m, h)
  /\ n \in Memory /\ n[h + 2] = k - h /\ BlockTags(n, h) /\ Stored(n, b)
  /\ n[k + 2] = Beyond(m, h) - k /\ HoleTags(n, k, e)
  /\ Agree(m, n, h, Beyond(m, h))

LEMMA SplitStage ==
  ASSUME NEW m, NEW H, NEW L, NEW e, Books(m, H, L, e),
         NEW h \in H, NEW b, NEW k, NEW n, Splits(m, n, h, b, k, e)
  PROVE  /\ Books(n, (H \ {h}) \union {k}, L \union {b}, e)
         /\ Beyond(n, h) = k /\ Beyond(n, k) = Beyond(m, h)
         /\ k \notin H \union HeadersOf(L)
         /\ \A v \in H \union HeadersOf(L) : v # h => Beyond(n, v) = Beyond(m, v)
<1> USE DEF Splits
<1> DEFINE U == H \union HeadersOf(L)
           z == Beyond(m, h)
           V == U \union {k}
<1>1. h \in Int /\ h >= Start /\ z \in Int /\ h \in U /\ z <= e /\ e \in Int /\ Start \in Int
  <2>1. e \in Int /\ Start \in Int
    BY HeapParameters DEF Books
  <2> QED BY <2>1, UnitCells
<1>2. HeadersOf(L \union {b}) = HeadersOf(L) \union {h}
  BY HeaderIn
<1>3. ASSUME NEW v \in U, v # h PROVE Clear(m, v, h, z)
  BY <1>1, <1>3, Beside DEF Clear
<1>4. Beyond(n, h) = k /\ Beyond(n, k) = z
  BY <1>1 DEF Beyond
<1>5. ASSUME NEW v \in U, v # h PROVE Beyond(n, v) = Beyond(m, v)
  BY <1>1, <1>3, <1>5, Untouched DEF Clear
<1>6. ASSUME NEW v \in U
      PROVE  v \in Int /\ Beyond(m, v) \in Int /\ v < Beyond(m, v)
  BY UnitCells DEF Overhead, Hdr, Ftr
<1>7. k \notin U
  <2> SUFFICES ASSUME k \in U PROVE FALSE
    OBVIOUS
  <2>1. k # h
    BY <1>1 DEF Overhead, Hdr, Ftr
  <2>2. Clear(m, k, h, z)
    BY <1>3, <2>1
  <2> QED BY <1>1, <1>6, <2>2 DEF Clear, Overhead, Hdr, Ftr
<1>8. ((H \ {h}) \union {k}) \union HeadersOf(L \union {b}) = V
  BY <1>2
<1>9. Laid(n, V, e)
  <2>1. Laid(m, U, e)
    BY DEF Books
  <2>2. ASSUME NEW v \in V
        PROVE  v \in Start..(e - Overhead) /\ v + Overhead <= Beyond(n, v) /\ Beyond(n, v) <= e
    <3>1. CASE v = k
      BY <1>1, <1>4, <3>1 DEF Overhead, Hdr, Ftr
    <3>2. CASE v = h
      BY <1>1, <1>4, <2>1, <3>2 DEF Laid, Overhead, Hdr, Ftr
    <3>3. CASE v \in U /\ v # h
      BY <1>5, <2>1, <3>3 DEF Laid
    <3> QED BY <3>1, <3>2, <3>3
  <2>3. ASSUME NEW v \in V, NEW w \in V, v < w PROVE Beyond(n, v) <= w
    <3>1. ASSUME NEW x \in U, x # h PROVE Beyond(m, x) <= h \/ z <= x
      BY <1>3, <3>1 DEF Clear
    <3>2. CASE v = h /\ w = k
      BY <1>1, <1>4, <3>2
    <3>3. CASE v = h /\ w # k
      BY <1>1, <1>4, <1>6, <2>3, <3>1, <3>3 DEF Overhead, Hdr, Ftr
    <3>4. CASE v = k
      BY <1>1, <1>4, <1>6, <2>3, <3>1, <3>4 DEF Overhead, Hdr, Ftr
    <3>5. CASE v \in U /\ v # h /\ w = k
      BY <1>1, <1>5, <1>6, <2>3, <3>1, <3>5 DEF Overhead, Hdr, Ftr
    <3>6. CASE v \in U /\ v # h /\ w \in U
      BY <1>5, <2>1, <2>3, <3>6 DEF Laid
    <3> QED BY <3>2, <3>3, <3>4, <3>5, <3>6
  <2>4. ASSUME NEW v \in V PROVE Beyond(n, v) = e \/ Beyond(n, v) \in V
    <3>1. CASE v = h
      BY <1>4, <3>1
    <3>2. CASE v = k
      BY <1>1, <1>4, <2>1, <3>2 DEF Laid
    <3>3. CASE v \in U /\ v # h
      BY <1>5, <2>1, <3>3 DEF Laid
    <3> QED BY <3>1, <3>2, <3>3
  <2>5. Start \in V
    BY <2>1 DEF Laid
  <2> HIDE DEF V
  <2> QED BY <2>2, <2>3, <2>4, <2>5 DEF Laid
<1>10. H \intersect HeadersOf(L) = {} /\ L \subseteq [ptr : Int, size : Sizes]
  BY DEF Books
<1>11. \A g \in (H \ {h}) \union {k} : HoleTags(n, g, e) \/ (g \in H /\ Clear(m, g, h, z))
  BY <1>3
<1>12. \A g \in HeadersOf(L \union {b}) : BlockTags(n, g) \/ (g \in HeadersOf(L) /\ Clear(m, g, h, z))
  BY <1>2, <1>3
<1>13. \A a \in L \union {b} : Stored(n, a) \/ (a \in L /\ Clear(m, a.ptr - Hdr, h, z))
  <2>1. ASSUME NEW a \in L PROVE Clear(m, a.ptr - Hdr, h, z)
    <3>1. a.ptr - Hdr \in HeadersOf(L)
      BY DEF HeadersOf
    <3>2. a.ptr - Hdr # h
      BY <1>10, <3>1
    <3> QED BY <1>3, <3>1, <3>2
  <2> QED BY <2>1
<1>14. \A a, c \in L \union {b} : a.ptr = c.ptr => a = c
  <2>1. \A a, c \in L : a.ptr = c.ptr => a = c
    BY DEF Books
  <2>2. ASSUME NEW a \in L PROVE a.ptr # b.ptr
    <3>1. a.ptr - Hdr \in HeadersOf(L)
      BY DEF HeadersOf
    <3> QED BY <1>10, <3>1
  <2> QED BY <2>1, <2>2
<1>15. ((H \ {h}) \union {k}) \intersect HeadersOf(L \union {b}) = {}
  <2>1. k # h
    BY <1>1 DEF Overhead, Hdr, Ftr
  <2> QED BY <1>2, <1>7, <1>10, <2>1
<1>16. L \union {b} \subseteq [ptr : Int, size : Sizes] /\ e <= MaxAddress
  BY DEF Books
<1>17. Rewrites(m, H, L, e, n, h, z, (H \ {h}) \union {k}, L \union {b}, e)
  BY <1>1, <1>8, <1>9, <1>11, <1>12, <1>13, <1>14, <1>15, <1>16 DEF Rewrites
<1> QED BY <1>4, <1>5, <1>7, <1>17, Rewritten

-----------------------------------------------------------------------------
(***************************************************************************)
(* The clients for whom the books are right: the regime "contained", or    *)
(* nobody frees, and nobody asks for a page of its own.                    *)
(***************************************************************************)
ContainedClients ==
  /\ Regime \in {"none", "contained"} /\ Aligns \subseteq {FALSE}
  /\ RequestsCannotWrap

(* The request alloc works on finds a hole, or one to enlarge at the end.   *)
Growing ==
  pending # NoRequest =>
    (\E h \in Holes : Fits(h, Need, pending.align)) \/ index = <<>> \/ EndsInHole
OnlyLast == Regime = "none" => \A h \in Holes : IsLast(h)

BooksRight ==
  /\ Books(mem, Holes, live, endAddress)
  /\ Distinct(index) /\ Apart(mem, Holes, {})
  /\ Growing /\ OnlyLast

BookInv ==
  /\ TypeOK /\ EndInBounds /\ IsFiniteSet(live) /\ PayloadKept
  /\ status = "running" => BooksRight

-----------------------------------------------------------------------------
(* What a store of a tag leaves in each cell.                               *)
LEMMA HeaderReads ==
  ASSUME NEW m \in Memory, NEW a \in Int, a \in Cells, a + 1 \in Cells, a + 2 \in Cells,
         NEW x \in Int, NEW y \in Int
  PROVE  LET n == PutHeader(m, a, x, y)
         IN /\ n[a] = Magic /\ n[a + 1] = x /\ n[a + 2] = y
            /\ \A c \in Cells : c \notin a..(a + 2) => n[c] = m[c]
<1> DEFINE n == PutHeader(m, a, x, y)
<1>1. \A c \in Cells : n[c] = IF c = a + 2 THEN y ELSE IF c = a + 1 THEN x
                              ELSE IF c = a THEN Magic ELSE m[c]
  BY DEF PutHeader, Memory
<1> HIDE DEF n
<1>2. a # a + 1 /\ a # a + 2 /\ a + 1 # a + 2 /\ a \in a..(a + 2) /\ a + 1 \in a..(a + 2) /\ a + 2 \in a..(a + 2)
  OBVIOUS
<1>3. n[a] = Magic /\ n[a + 1] = x /\ n[a + 2] = y
  BY <1>1, <1>2
<1>4. \A c \in Cells : c \notin a..(a + 2) => n[c] = m[c]
  BY <1>1, <1>2
<1> QED BY <1>3, <1>4 DEF n

LEMMA FooterReads ==
  ASSUME NEW m \in Memory, NEW a \in Int, a \in Cells, a + 1 \in Cells, NEW x \in Int
  PROVE  LET n == PutFooter(m, a, x)
         IN /\ n[a] = Magic /\ n[a + 1] = x
            /\ \A c \in Cells : c # a /\ c # a + 1 => n[c] = m[c]
<1> DEFINE n == PutFooter(m, a, x)
<1>1. \A c \in Cells : n[c] = IF c = a + 1 THEN x ELSE IF c = a THEN Magic ELSE m[c]
  BY DEF PutFooter, Memory
<1> HIDE DEF n
<1>2. a # a + 1
  OBVIOUS
<1>3. n[a] = Magic /\ n[a + 1] = x
  BY <1>1, <1>2
<1>4. \A c \in Cells : c # a /\ c # a + 1 => n[c] = m[c]
  BY <1>1
<1> QED BY <1>3, <1>4 DEF n

(* find_smallest_hole yields a hole that fits, when there is one.           *)
LEMMA HoleFits ==
  ASSUME index \in Seq(Cells), NEW size, NEW align, FindSmallestHole(size, align) # 0
  PROVE  LET k == FindSmallestHole(size, align)
         IN /\ k \in 1..Len(index) /\ index[k] \in Holes
            /\ Fits(index[k], size, align)
<1> DEFINE I == {i \in 1..Len(index) : Fits(index[i], size, align)}
           k == FindSmallestHole(size, align)
<1>1. Len(index) \in Nat
  OBVIOUS
<1>2. k = IF I # {} THEN Min(I) ELSE 0
  BY Zenon DEF FindSmallestHole, SelectInSeq
<1>3. I \subseteq Nat
  BY <1>1
<1>4. I # {} => Min(I) \in I
  BY <1>3, MinProperties
<1>5. k \in I
  BY <1>2, <1>4, Zenon
<1>6. index[k] \in Holes
  <2> HIDE DEF k
  <2>1. k \in 1..Len(index)
    BY <1>5
  <2> QED BY <2>1, ItemsOf DEF Holes
<1> HIDE DEF k
<1> QED BY <1>5, <1>6 DEF k

LEMMA NoHoleFits ==
  ASSUME index \in Seq(Cells), NEW size, NEW align, FindSmallestHole(size, align) = 0
  PROVE  \A h \in Holes : ~Fits(h, size, align)
<1> DEFINE I == {i \in 1..Len(index) : Fits(index[i], size, align)}
<1>1. Len(index) \in Nat
  OBVIOUS
<1>2. FindSmallestHole(size, align) = IF I # {} THEN Min(I) ELSE 0
  BY Zenon DEF FindSmallestHole, SelectInSeq
<1>3. I \subseteq 1..Len(index)
  OBVIOUS
<1>4. I # {} => Min(I) \in I
  <2>1. I \subseteq Nat
    BY <1>1, <1>3
  <2> HIDE DEF I
  <2> QED BY <2>1, MinProperties
<1>5. I = {}
  <2> DEFINE d == Min(I)
  <2>1. I # {} => d \in 1..Len(index) /\ d = 0
    <3>1. I # {} => d = 0
      BY <1>2, Zenon
    <3> HIDE DEF I
    <3> QED BY <1>3, <1>4, <3>1
  <2> HIDE DEF I, d
  <2> QED BY <1>1, <2>1
<1>6. ASSUME NEW h \in Holes PROVE ~Fits(h, size, align)
  <2>1. PICK i \in 1..Len(index) : h = index[i]
    BY ItemsOf DEF Holes
  <2> QED BY <1>5, <2>1
<1> QED BY <1>6

(* A request that is worked on needs more than the tags, and does not wrap. *)
LEMMA NeedIs ==
  ASSUME ContainedClients, TypeOK, pending # NoRequest
  PROVE  /\ pending.size \in Sizes /\ pending.size \in Nat \ {0} /\ pending.align = FALSE
         /\ Need = pending.size + Overhead
         /\ MaxAddress + pending.size + Overhead + PageSize < WordSize
<1>1. pending \in [size : Sizes, align : Aligns] /\ pending.size \in Sizes
  BY NeedTyped
<1>2. pending.align = FALSE
  BY <1>1 DEF ContainedClients
<1>3. pending.size \in Nat \ {0}
  BY <1>1, ClientParameters
<1>4. MaxAddress + pending.size + Overhead + PageSize < WordSize
  BY <1>1 DEF ContainedClients, RequestsCannotWrap
<1>5. Need = pending.size + Overhead
  <2>1. pending.size + Overhead \in Nat /\ pending.size + Overhead < WordSize
    BY <1>3, <1>4, HeapParameters DEF Overhead, Hdr, Ftr
  <2> QED BY <2>1, WordKept DEF Need
<1> QED BY <1>1, <1>2, <1>3, <1>4, <1>5

-----------------------------------------------------------------------------
(* Request changes nothing the books speak of.                              *)
LEMMA RequestKeepsBooks ==
  ASSUME ContainedClients, BookInv, Request
  PROVE  BooksRight'
<1>1. BooksRight /\ UNCHANGED <<mem, index, endAddress, present, live, status>>
  BY DEF BookInv, Request
<1>2. /\ Books(mem, Holes, live, endAddress)' /\ Distinct(index)' /\ Apart(mem, Holes, {})'
      /\ OnlyLast'
  BY <1>1 DEF BooksRight, OnlyLast, IsLast, RightOf, Holes
<1>3. PICK size \in Sizes, align \in Aligns :
        MayAsk(size, align) /\ pending' = [size |-> size, align |-> align]
  BY DEF Request
<1>4. Need' = Word(size + Overhead) /\ (pending').align = align
  BY <1>3 DEF Need
<1>5. index \in Seq(Cells)
  BY DEF BookInv, TypeOK
<1>6. (\E h \in Holes : Fits(h, Word(size + Overhead), align)) \/ index = <<>> \/ EndsInHole
  <2>1. CASE Regime = "contained" /\ FindSmallestHole(Word(size + Overhead), align) # 0
    BY <1>5, <2>1, HoleFits
  <2>2. CASE Regime = "contained" /\ FindSmallestHole(Word(size + Overhead), align) = 0
    BY <1>3, <2>2 DEF MayAsk
  <2>3. CASE Regime = "none" /\ index # <<>>
    <3>1. 1 \in 1..Len(index)
      BY <1>5, <2>3, EmptySeq
    <3>2. index[1] \in Holes
      BY <1>5, <3>1, ItemsOf DEF Holes
    <3> QED BY <1>1, <2>3, <3>2 DEF BooksRight, OnlyLast, EndsInHole, Holes
  <2> QED BY <2>1, <2>2, <2>3 DEF ContainedClients
<1>7. \A h : Fits(h, Need, pending.align)' <=> Fits(h, Word(size + Overhead), align)
  BY <1>1, <1>4 DEF Fits
<1>8. Growing'
  BY <1>1, <1>6, <1>7 DEF Growing, EndsInHole, IsLast, RightOf, Holes
<1> QED BY <1>2, <1>8 DEF BooksRight

-----------------------------------------------------------------------------
(* At most one unit ends where the arena does.                              *)
LEMMA LastIsOne ==
  ASSUME NEW m, NEW H, NEW L, NEW e, Books(m, H, L, e),
         NEW u \in H \union HeadersOf(L), Beyond(m, u) = e,
         NEW v \in H \union HeadersOf(L)
  PROVE  /\ v <= u
         /\ Beyond(m, v) = e => v = u
<1>1. /\ u \in Int /\ v \in Int /\ e \in Int /\ u + Overhead <= e
      /\ v + Overhead <= Beyond(m, v) /\ Beyond(m, v) \in Int /\ Beyond(m, v) <= e
  <2>1. e \in Int
    BY DEF Books
  <2> QED BY <2>1, UnitCells
<1>2. u # v => Beyond(m, v) <= u \/ e <= v
  BY Beside
<1> QED BY <1>1, <1>2 DEF Overhead, Hdr, Ftr

(* When the arena ends in a hole, that is the one alloc enlarges.           *)
LEMMA EndmostIsLast ==
  ASSUME Books(mem, Holes, live, endAddress), NEW h \in Holes, IsLast(h)
  PROVE  EndmostHole = h
<1>1. Beyond(mem, h) = endAddress
  BY DEF IsLast, RightOf, Beyond
<1>2. \A g \in Holes : g <= h /\ g \in Int
  BY <1>1, LastIsOne, UnitCells
<1>3. \A g \in Holes : (\A x \in Holes : x <= g) => g = h
  BY <1>2
<1> QED BY <1>2, <1>3 DEF EndmostHole, Holes

(* What alloc writes when the arena has grown (heap.c:174-195).             *)
LEMMA FreshWrites ==
  ASSUME NEW m, NEW L, NEW e \in Int, Books(m, {}, L, e), e >= Start,
         NEW e2 \in Int, e + Overhead <= e2, e2 <= MaxAddress
  PROVE  LET n == PutFooter(PutHeader(m, e, 1, e2 - e), e2 - 2, e)
         IN Books(n, {e}, L, e2) /\ Beyond(n, e) = e2
<1> DEFINE k == PutHeader(m, e, 1, e2 - e)
           n == PutFooter(k, e2 - 2, e)
<1>1. m \in Memory /\ e \in Int /\ Start \in Nat /\ MaxAddress \in Nat
  BY HeapParameters DEF Books
<1>2. /\ e \in Cells /\ e + 1 \in Cells /\ e + 2 \in Cells
      /\ e2 - 2 \in Cells /\ (e2 - 2) + 1 \in Cells
      /\ e2 - e \in Int /\ e2 - 2 \in Int /\ e2 - 2 > e + 2
  BY <1>1 DEF Cells, Overhead, Hdr, Ftr
<1>3. /\ k[e] = Magic /\ k[e + 1] = 1 /\ k[e + 2] = e2 - e
      /\ \A c \in Cells : c \notin e..(e + 2) => k[c] = m[c]
  BY <1>1, <1>2, HeaderReads
<1>4. k \in Memory
  BY <1>1, <1>2, PutTyped
<1> HIDE DEF k
<1>5. n \in Memory /\ \A c \in Cells : c # e2 - 2 /\ c # (e2 - 2) + 1 => n[c] = k[c]
  <2>1. n \in Memory
    BY <1>1, <1>2, <1>4, PutTyped
  <2>2. \A c \in Cells : c # e2 - 2 /\ c # (e2 - 2) + 1 => n[c] = k[c]
    BY <1>1, <1>2, <1>4, FooterReads
  <2> HIDE DEF n
  <2> QED BY <2>1, <2>2
<1> HIDE DEF n
<1>6. n[e] = Magic /\ n[e + 1] = 1 /\ n[e + 2] = e2 - e
  BY <1>1, <1>2, <1>3, <1>5
<1>7. Agree(m, n, e, MaxAddress)
  <2>1. \A c \in Cells : c \notin e..(MaxAddress - 1) =>
          c # e2 - 2 /\ c # (e2 - 2) + 1 /\ c \notin e..(e + 2)
    BY <1>1, <1>2 DEF Cells
  <2> QED BY <1>3, <1>5, <2>1 DEF Agree
<1>8. Books(n, {e}, L, e2) /\ Beyond(n, e) = e2
  BY <1>1, <1>5, <1>6, <1>7, FreshStage
<1> QED BY <1>8 DEF n, k

Enlarged(k, l, e2) == PutFooter([k EXCEPT ![l + 2] = e2 - l], e2 - 2, l)
LEMMA LastWrites ==
  ASSUME NEW m, NEW H, NEW L, NEW e, Books(m, H, L, e),
         NEW l \in Int, l \in H, Beyond(m, l) = e,
         NEW e2 \in Int, l + Overhead <= e2, e2 <= MaxAddress,
         NEW k \in Memory, k[l] = m[l], k[l + 1] = m[l + 1], Agree(m, k, l, MaxAddress)
  PROVE  LET n == Enlarged(k, l, e2)
         IN /\ Books(n, H, L, e2)
            /\ Beyond(n, l) = e2
            /\ \A v \in H \union HeadersOf(L) : v # l => Beyond(n, v) = Beyond(m, v)
<1> DEFINE j == [k EXCEPT ![l + 2] = e2 - l]
           n == PutFooter(j, e2 - 2, l)
<1>1. l \in Int /\ l >= Start /\ Start \in Nat /\ MaxAddress \in Nat
  BY UnitCells, HeapParameters
<1>2. /\ l \in Cells /\ l + 1 \in Cells /\ l + 2 \in Cells
      /\ e2 - 2 \in Cells /\ (e2 - 2) + 1 \in Cells
      /\ e2 - l \in Int /\ e2 - 2 \in Int /\ e2 - 2 > l + 2
  BY <1>1 DEF Cells, Overhead, Hdr, Ftr
<1>3. j \in Memory /\ \A c \in Cells : j[c] = IF c = l + 2 THEN e2 - l ELSE k[c]
  BY <1>2 DEF Memory
<1> HIDE DEF j
<1>4. n \in Memory /\ \A c \in Cells : c # e2 - 2 /\ c # (e2 - 2) + 1 => n[c] = j[c]
  <2>1. n \in Memory
    BY <1>1, <1>2, <1>3, PutTyped
  <2>2. \A c \in Cells : c # e2 - 2 /\ c # (e2 - 2) + 1 => n[c] = j[c]
    BY <1>1, <1>2, <1>3, FooterReads
  <2> HIDE DEF n
  <2> QED BY <2>1, <2>2
<1> HIDE DEF n
<1>5. n[l] = m[l] /\ n[l + 1] = m[l + 1] /\ n[l + 2] = e2 - l
  <2>1. /\ l # e2 - 2 /\ l # (e2 - 2) + 1 /\ l + 1 # e2 - 2 /\ l + 1 # (e2 - 2) + 1
        /\ l + 2 # e2 - 2 /\ l + 2 # (e2 - 2) + 1 /\ l # l + 2 /\ l + 1 # l + 2
    BY <1>1, <1>2
  <2> QED BY <1>2, <1>3, <1>4, <2>1
<1>6. Agree(m, n, l, MaxAddress)
  <2>1. \A c \in Cells : c \notin l..(MaxAddress - 1) =>
          c # e2 - 2 /\ c # (e2 - 2) + 1 /\ c # l + 2
    BY <1>1, <1>2 DEF Cells
  <2> QED BY <1>3, <1>4, <2>1 DEF Agree
<1>7. /\ Books(n, H, L, e2)
      /\ Beyond(n, l) = e2
      /\ \A v \in H \union HeadersOf(L) : v # l => Beyond(n, v) = Beyond(m, v)
  BY <1>1, <1>4, <1>5, <1>6, ResizeStage
<1> QED BY <1>7 DEF n, j, Enlarged

(* expand and the growth it gives to the last hole (heap.c:149-197).        *)
LEMMA ExpandKeepsBooks ==
  ASSUME ContainedClients, BookInv, Expand, status' = "running"
  PROVE  BooksRight'
<1> DEFINE new    == ExpandedLength(Word(Length + Need))
           growth == new - (endAddress - Start)
           e2     == Start + new
           H      == Holes
<1>0. PICK e \in Int : e = endAddress
  BY DEF BookInv, TypeOK
<1>1. /\ TypeOK /\ EndInBounds /\ BooksRight /\ pending # NoRequest
      /\ FindSmallestHole(Need, pending.align) = 0
  BY DEF BookInv, Expand
<1>2. ExpandAsserts(Length, Length + Need) /\ ExpandHeap(new)
  BY DEF Expand, Panic
<1>3. /\ growth \in Nat /\ growth >= Overhead /\ growth = e2 - e
      /\ Word(Start + new) = e2 /\ e2 <= MaxAddress /\ e2 \in Nat
  <2>1. /\ Length \in Nat /\ Start + Length = endAddress /\ Need = pending.size + Overhead
        /\ new \in Nat /\ new >= Length + Need
        /\ Word(Start + new) = Start + new /\ Start + new <= MaxAddress
    BY <1>1, <1>2, ExpandedEnd DEF ContainedClients
  <2>2. pending.size \in Nat /\ Start \in Nat /\ endAddress \in Nat
    BY <1>1, NeedTyped, HeapParameters DEF TypeOK
  <2> HIDE DEF new
  <2> QED BY <1>0, <2>1, <2>2 DEF Overhead, Hdr, Ftr
<1>4. endAddress' = e2 /\ live' = live /\ pending' = pending
  BY <1>2, <1>3 DEF ExpandHeap, GiveGrowth
<1>5. CASE index = <<>>
  <2> DEFINE k == PutHeader(mem, e, 1, growth)
  <2>1. /\ mem' = PutFooter(k, Word(e + growth - Ftr), e)
        /\ index' = InsertOrderedArray(index, e, SizeKey(k))
    BY <1>0, <1>2, <1>5 DEF ExpandHeap, GiveGrowth
  <2> HIDE DEF new, growth, e2, k
  <2>2. /\ mem \in Memory /\ e \in Nat /\ e >= Start /\ index \in Seq(Cells)
        /\ MaxAddress \in Nat /\ MaxAddress < WordSize /\ WordSize \in Nat /\ Start \in Nat
    BY <1>0, <1>1, HeapParameters DEF TypeOK, Memory, EndInBounds
  <2>3. Books(mem, {}, live, e)
    <3>1. Holes = {}
      BY <1>5, NoItems DEF Holes
    <3> QED BY <1>0, <1>1, <3>1 DEF BooksRight
  <2>4. Word(e + growth - Ftr) = e2 - 2 /\ e \in Cells /\ e + Overhead <= e2
    <3>1. e2 - 2 \in Nat /\ e2 - 2 < WordSize /\ e + growth - Ftr = e2 - 2
      BY <1>3, <2>2 DEF Overhead, Hdr, Ftr
    <3> QED BY <1>3, <2>2, <3>1, WordKept DEF Overhead, Hdr, Ftr, Cells
  <2>5. Books(mem', {e}, live, e2) /\ Beyond(mem', e) = e2
    <3> DEFINE n == PutFooter(PutHeader(mem, e, 1, e2 - e), e2 - 2, e)
    <3>1. mem' = n
      BY <1>3, <2>1, <2>4 DEF k
    <3>2. e2 \in Int
      BY <1>3
    <3>3. e >= Start /\ e2 <= MaxAddress
      BY <1>3, <2>2
    <3>4. Books(n, {e}, live, e2) /\ Beyond(n, e) = e2
      BY <2>3, <2>4, <3>2, <3>3, FreshWrites
    <3> HIDE DEF n
    <3> QED BY <3>1, <3>4
  <2>6. ToSet(index') = {e} /\ Distinct(index')
    <3>1. SizeKey(k) \in [Cells -> Int]
      <4>1. k \in Memory
        BY <1>3, <2>2, PutTyped DEF k
      <4> QED BY <4>1, KeysTyped
    <3>2. /\ ToSet(index') = ToSet(index) \union {e}
          /\ Distinct(index) /\ e \notin ToSet(index) => Distinct(index')
      BY <2>1, <2>2, <2>4, <3>1, InsertItems
    <3>3. ToSet(index) = {}
      BY <1>5, NoItems
    <3> QED BY <1>1, <3>2, <3>3 DEF BooksRight
  <2>7. e2 # e
    BY <1>3, <2>2 DEF Overhead, Hdr, Ftr
  <2>8. Holes' = {e} /\ RightOf(e)' = e2
    <3>1. RightOf(e)' = e + mem'[e + 2]
      BY DEF RightOf
    <3> QED BY <2>5, <2>6 DEF Holes, RightOf, Beyond
  <2>9. Apart(mem, Holes, {})'
    BY <2>5, <2>7, <2>8 DEF Apart
  <2>10. Growing' /\ OnlyLast'
    BY <1>4, <2>8 DEF Growing, EndsInHole, OnlyLast, Holes, IsLast
  <2> QED BY <1>4, <2>5, <2>6, <2>8, <2>9, <2>10 DEF BooksRight
<1>6. CASE index # <<>>
  <2> DEFINE s == Word(mem[EndmostHole + 2] + growth)
  <2>1. /\ mem' = PutFooter([mem EXCEPT ![EndmostHole + 2] = s], Word(EndmostHole + s - Ftr), EndmostHole)
        /\ index' = index
    BY <1>2, <1>6 DEF ExpandHeap, GiveGrowth
  <2> HIDE DEF new, growth, e2, s
  <2>2. /\ mem \in Memory /\ e \in Nat /\ e >= Start /\ index \in Seq(Cells)
        /\ MaxAddress \in Nat /\ MaxAddress < WordSize /\ WordSize \in Nat /\ Start \in Nat
    BY <1>0, <1>1, HeapParameters DEF TypeOK, Memory, EndInBounds
  <2>3. Books(mem, H, live, e) /\ Distinct(index) /\ Apart(mem, H, {}) /\ OnlyLast
    BY <1>0, <1>1 DEF BooksRight
  <2>4. PICK l \in H : IsLast(l)
    <3>1. \A x \in H : ~Fits(x, Need, pending.align)
      BY <1>1, <2>2, NoHoleFits
    <3> QED BY <1>1, <1>6, <3>1 DEF BooksRight, Growing, EndsInHole, Holes
  <2>5. EndmostHole = l
    BY <1>0, <2>3, <2>4, EndmostIsLast
  <2>6. Beyond(mem, l) = e
    BY <1>0, <2>4 DEF IsLast, RightOf, Beyond
  <2>7. /\ l \in Int /\ l >= Start /\ mem[l + 2] \in Int
        /\ l + Overhead <= e /\ l + mem[l + 2] = e
    BY <2>3, <2>6, UnitCells DEF Beyond
  <2>8. s = e2 - l
    <3>1. mem[l + 2] + growth = e2 - l /\ e2 - l \in Nat /\ e2 - l < WordSize
      BY <1>3, <2>2, <2>7, HeapParameters DEF Overhead, Hdr, Ftr
    <3> QED BY <2>5, <3>1, WordKept DEF s
  <2>9. Word(l + s - Ftr) = e2 - 2 /\ l + Overhead <= e2
    <3>1. e2 - 2 \in Nat /\ e2 - 2 < WordSize /\ l + s - Ftr = e2 - 2 /\ l + Overhead <= e2
      BY <1>3, <2>2, <2>7, <2>8, HeapParameters DEF Overhead, Hdr, Ftr
    <3> QED BY <3>1, WordKept
  <2>10. /\ Books(mem', H, live, e2) /\ Beyond(mem', l) = e2
         /\ \A v \in H \union HeadersOf(live) : v # l => Beyond(mem', v) = Beyond(mem, v)
    <3>1. mem' = Enlarged(mem, l, e2)
      BY <2>1, <2>5, <2>8, <2>9 DEF Enlarged
    <3>2. e2 \in Int /\ Agree(mem, mem, l, MaxAddress)
      BY <1>3 DEF Agree
    <3>3. mem \in Memory /\ e2 <= MaxAddress
      BY <1>3, <2>2
    <3> QED BY <2>3, <2>4, <2>6, <2>7, <2>9, <3>1, <3>2, <3>3, LastWrites
  <2>11. Holes' = H /\ \A v \in H : RightOf(v)' = Beyond(mem', v)
    BY <2>1 DEF Holes, RightOf, Beyond
  <2>12. Apart(mem, Holes, {})'
    <3>1. e2 \notin H
      <4>1. \A g \in H : g \in Int /\ g + Overhead <= Beyond(mem', g) /\ Beyond(mem', g) <= e2
                        /\ Beyond(mem', g) \in Int
        BY <2>10, UnitCells
      <4> QED BY <1>3, <4>1 DEF Overhead, Hdr, Ftr
    <3> QED BY <2>3, <2>10, <2>11, <3>1 DEF Apart
  <2>13. OnlyLast'
    <3>1. \A g \in H : Beyond(mem, g) = e => g = l
      BY <2>3, <2>6, LastIsOne
    <3>2. ASSUME Regime = "none", NEW g \in H PROVE g = l
      BY <1>0, <2>3, <3>1, <3>2 DEF OnlyLast, IsLast, RightOf, Beyond
    <3> QED BY <1>4, <2>10, <2>11, <3>2 DEF OnlyLast, IsLast
  <2>14. Growing'
    BY <1>4, <2>4, <2>10, <2>11 DEF Growing, EndsInHole, Holes, IsLast
  <2>15. Distinct(index')
    BY <2>1, <2>3
  <2> QED BY <1>4, <2>10, <2>11, <2>12, <2>13, <2>14, <2>15 DEF BooksRight
<1> QED BY <1>5, <1>6

-----------------------------------------------------------------------------
(* What alloc and its client write in the hole they take (heap.c:222-257).  *)
Whole(m, h) == PutFooter(PutHeader(m, h, 0, m[h + 2]), Beyond(m, h) - Ftr, h)
FrontBlock(m, h, k) == PutFooter(PutHeader(m, h, 0, k - h), k - Ftr, h)
Part(m, h, k, z) == PutFooter(PutHeader(FrontBlock(m, h, k), k, 1, z - k), z - Ftr, k)

LEMMA FillReads ==
  ASSUME NEW m \in Memory, NEW b
  PROVE  LET n == FillPayload(m, b)
         IN /\ n \in Memory
            /\ \A c \in Cells : c \in b.ptr..(b.ptr + b.size - 1) => n[c] = Payload
            /\ \A c \in Cells : c \notin b.ptr..(b.ptr + b.size - 1) => n[c] = m[c]
  BY DEF FillPayload, Memory, Payload

(* A block and what its client stores: its tags, and nothing outside it.    *)
LEMMA FrontReads ==
  ASSUME NEW m \in Memory, NEW h \in Int, NEW k \in Int,
         0 <= h, h + Overhead <= k, k <= MaxAddress
  PROVE  LET n == FrontBlock(m, h, k)
         IN /\ n \in Memory
            /\ n[h] = Magic /\ n[h + 1] = 0 /\ n[h + 2] = k - h
            /\ n[k - 2] = Magic /\ n[k - 1] = h
            /\ \A c \in Cells : c \notin h..(k - 1) => n[c] = m[c]
<1> DEFINE j == PutHeader(m, h, 0, k - h)
           n == PutFooter(j, k - Ftr, h)
<1>1. MaxAddress \in Nat /\ k - Ftr = k - 2 /\ (k - 2) + 1 = k - 1 /\ h + 5 <= k
  BY HeapParameters DEF Overhead, Hdr, Ftr
<1>2. /\ h \in Cells /\ h + 1 \in Cells /\ h + 2 \in Cells /\ k - 2 \in Cells /\ k - 1 \in Cells
      /\ k - h \in Int /\ k - 2 \in Int
  BY <1>1 DEF Cells
<1>3. /\ j[h] = Magic /\ j[h + 1] = 0 /\ j[h + 2] = k - h
      /\ \A c \in Cells : c \notin h..(h + 2) => j[c] = m[c]
  BY <1>2, HeaderReads
<1>4. j \in Memory
  BY <1>2, PutTyped
<1> HIDE DEF j
<1>5. n = PutFooter(j, k - 2, h)
  BY <1>1
<1> HIDE DEF n
<1>6. /\ n[k - 2] = Magic /\ n[k - 1] = h
      /\ \A c \in Cells : c # k - 2 /\ c # k - 1 => n[c] = j[c]
  BY <1>1, <1>2, <1>4, <1>5, FooterReads
<1>7. n \in Memory
  BY <1>2, <1>4, <1>5, PutTyped
<1>8. n[h] = Magic /\ n[h + 1] = 0 /\ n[h + 2] = k - h
  <2>1. /\ h # k - 2 /\ h # k - 1 /\ h + 1 # k - 2 /\ h + 1 # k - 1 /\ h + 2 # k - 2 /\ h + 2 # k - 1
    BY <1>1
  <2> QED BY <1>2, <1>3, <1>6, <2>1
<1>9. ASSUME NEW c \in Cells, c \notin h..(k - 1) PROVE n[c] = m[c]
  <2>1. c # k - 2 /\ c # k - 1 /\ c \notin h..(h + 2)
    BY <1>1, <1>9 DEF Cells
  <2> QED BY <1>3, <1>6, <2>1
<1> QED BY <1>6, <1>7, <1>8, <1>9 DEF FrontBlock, n, j

BlockAt(b, h) == b \in [ptr : Int, size : Sizes] /\ b.ptr = h + Hdr
HasRoom(m, h, b) == b.size + Overhead <= m[h + 2]

LEMMA WholeWrites ==
  ASSUME NEW m, NEW H, NEW L, NEW e, Books(m, H, L, e), NEW h \in Int, h \in H,
         NEW b, BlockAt(b, h), HasRoom(m, h, b)
  PROVE  LET n == FillPayload(Whole(m, h), b)
         IN /\ Books(n, H \ {h}, L \union {b}, e)
            /\ \A v \in H \union HeadersOf(L) : Beyond(n, v) = Beyond(m, v)
<1> USE DEF BlockAt, HasRoom
<1> DEFINE z == Beyond(m, h)
           w == Whole(m, h)
           n == FillPayload(w, b)
<1>1. /\ m \in Memory /\ h >= Start /\ m[h + 2] \in Int /\ z \in Int /\ h + Overhead <= z
      /\ z <= e /\ e <= MaxAddress /\ h..(z - 1) \subseteq Cells /\ e \in Int
  <2>1. m \in Memory /\ e <= MaxAddress /\ e \in Int
    BY DEF Books
  <2> QED BY <2>1, UnitCells
<1>2. /\ Start \in Nat /\ MaxAddress \in Nat /\ b.size \in Nat /\ b.ptr = h + 3
      /\ b.size + 5 <= m[h + 2] /\ h + 5 <= z /\ z = h + m[h + 2]
  <2>1. b.size \in Sizes
    OBVIOUS
  <2>2. b.size \in Nat
    BY <2>1, ClientParameters
  <2>3. b.ptr = h + 3 /\ b.size + 5 <= m[h + 2]
    BY DEF Overhead, Hdr, Ftr
  <2>4. z = h + m[h + 2]
    BY DEF Beyond
  <2> HIDE DEF z, w, n
  <2>5. h + 5 <= z
    BY <1>1 DEF Overhead, Hdr, Ftr
  <2> QED BY <2>2, <2>3, <2>4, <2>5, HeapParameters
<1>3. w = FrontBlock(m, h, z)
  <2>1. z - h = m[h + 2]
    BY <1>1, <1>2
  <2> QED BY <2>1 DEF Whole, FrontBlock
<1>4. /\ w \in Memory
      /\ w[h] = Magic /\ w[h + 1] = 0 /\ w[h + 2] = z - h
      /\ w[z - 2] = Magic /\ w[z - 1] = h
      /\ \A c \in Cells : c \notin h..(z - 1) => w[c] = m[c]
  <2> HIDE DEF z, w
  <2>1. 0 <= h /\ z <= MaxAddress /\ z \in Int
    BY <1>1, <1>2
  <2> QED BY <1>1, <1>3, <2>1, FrontReads
<1> HIDE DEF z, w
<1>5. /\ n \in Memory
      /\ \A c \in Cells : c \in b.ptr..(b.ptr + b.size - 1) => n[c] = Payload
      /\ \A c \in Cells : c \notin b.ptr..(b.ptr + b.size - 1) => n[c] = w[c]
  BY <1>4, FillReads
<1> HIDE DEF n
<1>6. /\ n[h] = Magic /\ n[h + 1] = 0 /\ n[h + 2] = m[h + 2] /\ Beyond(n, h) = z
      /\ n[z - 2] = Magic /\ n[z - 1] = h
  <2>1. /\ h \in Cells /\ h + 1 \in Cells /\ h + 2 \in Cells /\ z - 2 \in Cells /\ z - 1 \in Cells
    BY <1>1, <1>2
  <2>2. /\ h \notin b.ptr..(b.ptr + b.size - 1) /\ h + 1 \notin b.ptr..(b.ptr + b.size - 1)
        /\ h + 2 \notin b.ptr..(b.ptr + b.size - 1) /\ z - 2 \notin b.ptr..(b.ptr + b.size - 1)
        /\ z - 1 \notin b.ptr..(b.ptr + b.size - 1)
    BY <1>1, <1>2
  <2>3. /\ n[h] = w[h] /\ n[h + 1] = w[h + 1] /\ n[h + 2] = w[h + 2]
        /\ n[z - 2] = w[z - 2] /\ n[z - 1] = w[z - 1]
    BY <1>5, <2>1, <2>2
  <2>4. n[h + 2] = m[h + 2]
    BY <1>1, <1>2, <1>4, <2>3
  <2> QED BY <1>2, <1>4, <2>3, <2>4 DEF Beyond
<1>7. Agree(m, n, h, z)
  <2>1. \A c \in Cells : c \notin h..(z - 1) => c \notin b.ptr..(b.ptr + b.size - 1)
    BY <1>1, <1>2 DEF Cells
  <2> QED BY <1>4, <1>5, <2>1 DEF Agree
<1>8. BlockTags(n, h) /\ Stored(n, b)
  <2>1. BlockTags(n, h)
    BY <1>6 DEF BlockTags, HasFooter
  <2>2. b.ptr - Hdr = h
    BY <1>2 DEF Hdr
  <2>3. \A c \in b.ptr..(b.ptr + b.size - 1) : c \in Cells
    BY <1>1, <1>2
  <2> QED BY <1>5, <1>6, <2>1, <2>2, <2>3 DEF Stored
<1>9. b.ptr - Hdr = h
  BY <1>2 DEF Hdr
<1>10. /\ Books(n, H \ {h}, L \union {b}, e)
       /\ \A v \in H \union HeadersOf(L) : Beyond(n, v) = Beyond(m, v)
  <2>1. n \in Memory /\ n[h + 2] = m[h + 2] /\ Agree(m, n, h, Beyond(m, h))
    BY <1>5, <1>6, <1>7 DEF z
  <2>2. b.ptr - Hdr = h /\ BlockTags(n, h) /\ Stored(n, b)
    BY <1>8, <1>9
  <2>3. Takes(m, n, h, b)
    BY <2>1, <2>2 DEF Takes
  <2> QED BY <2>3, TakeStage
<1> QED BY <1>10 DEF n, w

EndsAt(m, b, h, k) == k = h + b.size + Overhead /\ k + Overhead <= Beyond(m, h)
LEMMA PartWrites ==
  ASSUME NEW m, NEW H, NEW L, NEW e, Books(m, H, L, e), NEW h \in Int, h \in H,
         NEW b, BlockAt(b, h), NEW k \in Int, EndsAt(m, b, h, k)
  PROVE  LET n == FillPayload(Part(m, h, k, Beyond(m, h)), b)
         IN /\ Books(n, (H \ {h}) \union {k}, L \union {b}, e)
            /\ Beyond(n, h) = k /\ Beyond(n, k) = Beyond(m, h)
            /\ k \notin H \union HeadersOf(L)
            /\ \A v \in H \union HeadersOf(L) : v # h => Beyond(n, v) = Beyond(m, v)
<1> DEFINE z == Beyond(m, h)
           f == FrontBlock(m, h, k)
           j == PutHeader(f, k, 1, z - k)
           w == PutFooter(j, z - Ftr, k)
           n == FillPayload(w, b)
           own == b.ptr..(b.ptr + b.size - 1)
<1>0. /\ b \in [ptr : Int, size : Sizes] /\ b.ptr = h + Hdr
      /\ k = h + b.size + Overhead /\ k + Overhead <= Beyond(m, h)
  BY DEF BlockAt, EndsAt
<1>1. /\ m \in Memory /\ h >= Start /\ m[h + 2] \in Int /\ z \in Int
      /\ z <= e /\ e <= MaxAddress /\ h..(z - 1) \subseteq Cells /\ e \in Int
  <2>1. m \in Memory /\ e <= MaxAddress /\ e \in Int
    BY DEF Books
  <2> QED BY <2>1, UnitCells
<1>2. /\ Start \in Nat /\ MaxAddress \in Nat /\ b.size \in Nat /\ b.ptr = h + 3
      /\ k = h + b.size + 5 /\ k + 5 <= z
  <2>1. b.size \in Sizes
    BY <1>0
  <2>2. b.size \in Nat
    BY <2>1, ClientParameters
  <2>3. b.ptr = h + 3 /\ k = h + b.size + 5 /\ k + 5 <= z
    BY <1>0 DEF Overhead, Hdr, Ftr
  <2> HIDE DEF z, f, j, w, n, own
  <2> QED BY <2>2, <2>3, HeapParameters
<1> HIDE DEF z
<1>3. /\ f \in Memory
      /\ f[h] = Magic /\ f[h + 1] = 0 /\ f[h + 2] = k - h
      /\ f[k - 2] = Magic /\ f[k - 1] = h
      /\ \A c \in Cells : c \notin h..(k - 1) => f[c] = m[c]
  <2>1. 0 <= h /\ k <= MaxAddress /\ h + Overhead <= k
    BY <1>1, <1>2 DEF Overhead, Hdr, Ftr
  <2> HIDE DEF f
  <2> QED BY <1>1, <2>1, FrontReads DEF f
<1> HIDE DEF f
<1>4. /\ k \in Cells /\ k + 1 \in Cells /\ k + 2 \in Cells /\ z - 2 \in Cells /\ z - 1 \in Cells
      /\ h \in Cells /\ h + 1 \in Cells /\ h + 2 \in Cells /\ k - 2 \in Cells /\ k - 1 \in Cells
      /\ z - Ftr = z - 2 /\ (z - 2) + 1 = z - 1 /\ z - k \in Int /\ z - 2 \in Int
  BY <1>1, <1>2 DEF Cells, Ftr
<1>5. /\ j \in Memory /\ j[k] = Magic /\ j[k + 1] = 1 /\ j[k + 2] = z - k
      /\ \A c \in Cells : c \notin k..(k + 2) => j[c] = f[c]
  BY <1>3, <1>4, HeaderReads, PutTyped
<1> HIDE DEF j
<1>6. /\ w \in Memory /\ w[z - 2] = Magic /\ w[z - 1] = k
      /\ \A c \in Cells : c # z - 2 /\ c # z - 1 => w[c] = j[c]
  <2>1. w = PutFooter(j, z - 2, k)
    BY <1>4
  <2> HIDE DEF w
  <2>2. w \in Memory
    BY <1>4, <1>5, <2>1, PutTyped
  <2>3. /\ w[z - 2] = Magic /\ w[(z - 2) + 1] = k
        /\ \A c \in Cells : c # z - 2 /\ c # (z - 2) + 1 => w[c] = j[c]
    BY <1>4, <1>5, <2>1, FooterReads
  <2> QED BY <1>4, <2>2, <2>3
<1> HIDE DEF w
<1>7. /\ n \in Memory
      /\ \A c \in Cells : c \in own => n[c] = Payload
      /\ \A c \in Cells : c \notin own => n[c] = w[c]
  BY <1>6, FillReads
<1> HIDE DEF n
<1>8. /\ n[h] = Magic /\ n[h + 1] = 0 /\ n[h + 2] = k - h /\ n[k - 2] = Magic /\ n[k - 1] = h
  <2>1. ASSUME NEW c \in {h, h + 1, h + 2, k - 2, k - 1} PROVE n[c] = f[c]
    <3>1. c \in Cells /\ c \notin own /\ c # z - 2 /\ c # z - 1 /\ c \notin k..(k + 2)
      BY <1>1, <1>2, <1>4
    <3> HIDE DEF own
    <3> QED BY <1>5, <1>6, <1>7, <3>1
  <2> HIDE DEF own
  <2> QED BY <1>3, <2>1
<1>9. n[k] = Magic /\ n[k + 1] = 1 /\ n[k + 2] = z - k
  <2>1. ASSUME NEW c \in {k, k + 1, k + 2} PROVE n[c] = j[c]
    <3>1. c \in Cells /\ c \notin own /\ c # z - 2 /\ c # z - 1
      BY <1>1, <1>2, <1>4
    <3> HIDE DEF own
    <3> QED BY <1>6, <1>7, <3>1
  <2> HIDE DEF own
  <2> QED BY <1>5, <2>1
<1>10. n[z - 2] = Magic /\ n[z - 1] = k
  <2>1. z - 2 \notin own /\ z - 1 \notin own
    BY <1>1, <1>2
  <2> HIDE DEF own
  <2> QED BY <1>4, <1>6, <1>7, <2>1
<1>11. Agree(m, n, h, z)
  <2>1. ASSUME NEW c \in Cells, c \notin h..(z - 1) PROVE n[c] = m[c]
    <3>1. /\ c \notin own /\ c # z - 2 /\ c # z - 1 /\ c \notin k..(k + 2) /\ c \notin h..(k - 1)
      BY <1>1, <1>2, <2>1 DEF Cells
    <3> HIDE DEF own
    <3> QED BY <1>3, <1>5, <1>6, <1>7, <3>1
  <2> QED BY <2>1 DEF Agree
<1>12. Beyond(n, h) = k /\ Beyond(n, k) = z
  BY <1>1, <1>2, <1>8, <1>9 DEF Beyond
<1>13. BlockTags(n, h) /\ HoleTags(n, k, e)
  BY <1>8, <1>9, <1>10, <1>12 DEF BlockTags, HoleTags, HasFooter
<1>14. b.ptr - Hdr = h
  BY <1>2 DEF Hdr
<1>15. Stored(n, b)
  <2>1. \A c \in own : c \in Cells
    BY <1>1, <1>2
  <2>2. b.size + Overhead = k - h
    BY <1>2 DEF Overhead, Hdr, Ftr
  <2>3. b.size + Overhead <= n[b.ptr - Hdr + 2]
    BY <1>2, <1>8, <1>14, <2>2
  <2> QED BY <1>7, <2>1, <2>3 DEF Stored
<1>16. Splits(m, n, h, b, k, e)
  <2>1. h + Overhead <= k
    BY <1>2 DEF Overhead, Hdr, Ftr
  <2> QED BY <1>0, <1>7, <1>8, <1>9, <1>11, <1>13, <1>14, <1>15, <2>1 DEF Splits, z
<1>17. /\ Books(n, (H \ {h}) \union {k}, L \union {b}, e)
       /\ k \notin H \union HeadersOf(L)
       /\ \A v \in H \union HeadersOf(L) : v # h => Beyond(n, v) = Beyond(m, v)
  BY <1>16, SplitStage
<1> QED BY <1>12, <1>17 DEF n, w, j, f, z, Part

(* alloc takes a hole, or the front of one (heap.c:205-258).                *)
LEMMA PlaceKeepsBooks ==
  ASSUME ContainedClients, BookInv, Place, status' = "running"
  PROVE  BooksRight'
<1> DEFINE i == FindSmallestHole(Need, pending.align)
           H == Holes
           e == endAddress
<1>0. PICK h : h = index[i]
  OBVIOUS
<1> DEFINE c     == Cut(h)
           hole  == c.pos + c.size
           b     == Granted(c)
           taken == RestWrites(BlockWrites(FrontWrites(mem, c, h), c), c, hole)
           kept  == IF c.split THEN index ELSE RemoveOrderedArray(index, i)
<1>1. /\ TypeOK /\ EndInBounds /\ BooksRight /\ pending # NoRequest /\ i # 0
  BY PlaceCases DEF BookInv
<1>2. /\ mem' = FillPayload(taken, b)
      /\ index' = IF c.rest = 0 THEN kept ELSE InsertOrderedArray(kept, hole, SizeKey(taken))
      /\ live' = live \union {b} /\ pending' = NoRequest
      /\ UNCHANGED endAddress
  BY <1>0, PlaceCases DEF Panic
<1>3. /\ pending.size \in Sizes /\ pending.size \in Nat \ {0} /\ pending.align = FALSE
      /\ Need = pending.size + Overhead
  BY <1>1, NeedIs
<1>4. /\ mem \in Memory /\ index \in Seq(Cells) /\ MaxAddress < WordSize
      /\ MaxAddress \in Nat /\ WordSize \in Nat /\ Start \in Nat /\ e \in Nat
      /\ Books(mem, H, live, e) /\ Distinct(index) /\ Apart(mem, H, {}) /\ OnlyLast
  BY <1>1, HeapParameters DEF TypeOK, Memory, BooksRight
<1>5. i \in 1..Len(index) /\ h \in H /\ Fits(h, Need, FALSE)
  <2> HIDE DEF c, hole, b, taken, kept, i
  <2>1. FindSmallestHole(Need, FALSE) = i
    BY <1>3 DEF i
  <2> QED BY <1>0, <1>1, <1>4, <2>1, HoleFits
<1> DEFINE z == Beyond(mem, h)
           orig == mem[h + 2]
<1>6. /\ h \in Int /\ h >= Start /\ orig \in Int /\ z \in Int /\ z <= e /\ e <= MaxAddress
      /\ h + Overhead <= z /\ z = h + orig /\ h \in Cells
  <2>1. e <= MaxAddress
    BY <1>1 DEF EndInBounds
  <2> QED BY <1>4, <1>5, <2>1, UnitCells DEF Beyond
<1>7. orig >= Need
  BY <1>3, <1>5, <1>6 DEF Fits
<1>8. /\ c.split = FALSE /\ c.pos = h
      /\ c.size = IF orig - Need < Overhead THEN orig ELSE Need
      /\ c.rest = Word(orig - c.size)
  BY <1>3 DEF Cut
<1>9. FrontWrites(mem, c, h) = mem /\ kept = RemoveOrderedArray(index, i)
  BY <1>8 DEF FrontWrites
<1>10. b = [ptr |-> h + Hdr, size |-> pending.size]
  BY <1>8 DEF Granted
<1>11. /\ b \in [ptr : Int, size : Sizes] /\ b.ptr = h + Hdr /\ b.size = pending.size /\ b.size \in Nat
       /\ b.ptr - Hdr = h
  <2>1. h + Hdr \in Int /\ (h + Hdr) - Hdr = h
    BY <1>6 DEF Hdr
  <2> QED BY <1>3, <1>10, <2>1
<1>12. /\ kept \in Seq(Cells) /\ ToSet(kept) = H \ {h} /\ Distinct(kept)
  <2>1. /\ RemoveOrderedArray(index, i) \in Seq(Cells)
        /\ ToSet(RemoveOrderedArray(index, i)) = ToSet(index) \ {index[i]}
        /\ Distinct(RemoveOrderedArray(index, i))
    <3> HIDE DEF i
    <3> QED BY <1>4, <1>5, RemoveItems
  <2> QED BY <1>0, <1>9, <2>1 DEF Holes
<1>13. \A g \in H : z # g
  BY <1>4, <1>5 DEF Apart
<1> HIDE DEF c, hole, b, taken, kept, z, orig, i
<1>14. CASE orig - Need < Overhead
  <2>1. c.size = orig /\ c.rest = 0
    <3>1. c.size = orig
      BY <1>8, <1>14
    <3>2. orig - orig = 0 /\ 0 \in Nat /\ 0 < WordSize
      BY <1>4, <1>6
    <3> QED BY <1>8, <3>1, <3>2, WordKept
  <2>2. taken = Whole(mem, h)
    <3>1. h + orig - Ftr = z - Ftr
      BY <1>6 DEF Ftr
    <3> QED BY <1>8, <1>9, <2>1, <3>1 DEF taken, RestWrites, BlockWrites, Whole, z, orig
  <2>3. b.size + Overhead <= mem[h + 2]
    BY <1>3, <1>6, <1>7, <1>11 DEF orig
  <2>4. /\ Books(mem', H \ {h}, live \union {b}, e)
        /\ \A v \in H \union HeadersOf(live) : Beyond(mem', v) = Beyond(mem, v)
    <3>1. mem' = FillPayload(Whole(mem, h), b)
      BY <1>2, <2>2
    <3>2. LET n == FillPayload(Whole(mem, h), b)
          IN /\ Books(n, H \ {h}, live \union {b}, e)
             /\ \A v \in H \union HeadersOf(live) : Beyond(n, v) = Beyond(mem, v)
      <4>1. BlockAt(b, h) /\ HasRoom(mem, h, b)
        BY <1>11, <2>3 DEF BlockAt, HasRoom
      <4> QED BY <1>4, <1>5, <1>6, <4>1, WholeWrites
    <3> QED BY <3>1, <3>2
  <2>5. index' = kept /\ Holes' = H \ {h}
    BY <1>2, <1>12, <2>1 DEF Holes
  <2>6. Apart(mem, Holes, {})'
    BY <1>4, <2>4, <2>5 DEF Apart
  <2>7. OnlyLast'
    BY <1>2, <1>4, <2>4, <2>5 DEF OnlyLast, IsLast, RightOf, Beyond
  <2> QED BY <1>2, <1>12, <2>4, <2>5, <2>6, <2>7 DEF BooksRight, Growing
<1>15. CASE ~(orig - Need < Overhead)
  <2>0. PICK k \in Int : k = h + b.size + Overhead
    BY <1>6, <1>11 DEF Overhead, Hdr, Ftr
  <2>1. /\ c.size = Need /\ hole = k /\ k + Overhead <= z /\ k > h /\ k < z /\ h + Overhead <= k
        /\ Need = k - h
    BY <1>3, <1>6, <1>8, <1>11, <1>15, <2>0 DEF hole, Overhead, Hdr, Ftr
  <2>2. c.rest = z - k /\ c.rest # 0
    <3>1. orig - c.size = z - k /\ z - k \in Nat /\ z - k < WordSize /\ z - k # 0
      BY <1>4, <1>6, <2>1
    <3> QED BY <1>8, <3>1, WordKept
  <2>3. taken = Part(mem, h, k, z)
    <3>1. h + c.size - Ftr = k - Ftr /\ c.size = k - h
      BY <1>6, <2>1 DEF Ftr
    <3>2. BlockWrites(mem, c) = FrontBlock(mem, h, k)
      BY <1>8, <3>1 DEF BlockWrites, FrontBlock
    <3>3. Word(k + (z - k) - Ftr) = z - Ftr /\ z - Ftr < e
      <4>1. k + (z - k) - Ftr = z - Ftr /\ z - Ftr \in Nat /\ z - Ftr < WordSize /\ z - Ftr < e
        BY <1>4, <1>6, <2>1 DEF Overhead, Hdr, Ftr
      <4> QED BY <4>1, WordKept
    <3> QED BY <1>9, <2>1, <2>2, <3>2, <3>3 DEF taken, RestWrites, Part
  <2>4. /\ Books(mem', (H \ {h}) \union {k}, live \union {b}, e)
        /\ Beyond(mem', h) = k /\ Beyond(mem', k) = z
        /\ k \notin H \union HeadersOf(live)
        /\ \A v \in H \union HeadersOf(live) : v # h => Beyond(mem', v) = Beyond(mem, v)
    <3>1. mem' = FillPayload(Part(mem, h, k, Beyond(mem, h)), b)
      BY <1>2, <2>3 DEF z
    <3>2. k + Overhead <= Beyond(mem, h)
      BY <2>1 DEF z
    <3>3. LET n == FillPayload(Part(mem, h, k, Beyond(mem, h)), b)
          IN /\ Books(n, (H \ {h}) \union {k}, live \union {b}, e)
             /\ Beyond(n, h) = k /\ Beyond(n, k) = Beyond(mem, h)
             /\ k \notin H \union HeadersOf(live)
             /\ \A v \in H \union HeadersOf(live) : v # h => Beyond(n, v) = Beyond(mem, v)
      <4>1. BlockAt(b, h) /\ EndsAt(mem, b, h, k)
        BY <1>11, <2>0, <3>2 DEF BlockAt, EndsAt
      <4>2. Books(mem, H, live, e) /\ h \in Int /\ h \in H
        BY <1>4, <1>5, <1>6
      <4> HIDE DEF H
      <4> QED BY <4>1, <4>2, PartWrites, SMTT(30)
    <3> QED BY <3>1, <3>3 DEF z
  <2>5. /\ index' = InsertOrderedArray(kept, k, SizeKey(taken))
        /\ ToSet(index') = (H \ {h}) \union {k} /\ Distinct(index')
    <3>1. index' = InsertOrderedArray(kept, k, SizeKey(taken))
      BY <1>2, <2>1, <2>2
    <3>2. k \in Cells
      BY <1>4, <1>6, <2>1 DEF Cells
    <3>3. SizeKey(taken) \in [Cells -> Int]
      <4>1. FrontBlock(mem, h, k) \in Memory
        <5>1. h + Overhead <= k /\ k <= MaxAddress /\ 0 <= h
          BY <1>4, <1>6, <2>1
        <5> QED BY <1>4, <1>6, <2>1, <5>1, FrontReads
      <4>2. z - k \in Int /\ z - Ftr \in Int
        BY <1>6, <2>1 DEF Ftr
      <4>3. PutHeader(FrontBlock(mem, h, k), k, 1, z - k) \in Memory
        BY <4>1, <4>2, PutTyped
      <4>4. PutFooter(PutHeader(FrontBlock(mem, h, k), k, 1, z - k), z - Ftr, k) \in Memory
        BY <4>2, <4>3, PutTyped
      <4>5. taken \in Memory
        BY <2>3, <4>4 DEF Part
      <4> QED BY <4>5, KeysTyped
    <3>4. k \notin ToSet(kept)
      BY <1>12, <2>4
    <3>5. /\ ToSet(index') = ToSet(kept) \union {k} /\ Distinct(index')
      <4> DEFINE key == SizeKey(taken)
      <4> HIDE DEF key
      <4>1. key \in [Cells -> Int] /\ index' = InsertOrderedArray(kept, k, key)
        BY <3>1, <3>3 DEF key
      <4>2. kept \in Seq(Cells) /\ Distinct(kept)
        BY <1>12
      <4>3. PICK new : new = InsertOrderedArray(kept, k, key)
        OBVIOUS
      <4>4. /\ ToSet(new) = ToSet(kept) \union {k}
            /\ Distinct(kept) /\ k \notin ToSet(kept) => Distinct(new)
        BY <3>2, <4>1, <4>2, <4>3, InsertedCell
      <4>5. ToSet(new) = ToSet(kept) \union {k} /\ Distinct(new)
        BY <3>4, <4>2, <4>4
      <4>6. index' = new
        BY <4>1, <4>3
      <4> QED BY <4>5, <4>6
    <3> QED BY <1>12, <3>1, <3>5
  <2>6. Holes' = (H \ {h}) \union {k}
    BY <2>5 DEF Holes
  <2>7. Apart(mem, Holes, {})'
    <3>1. ASSUME NEW g \in H, g # h PROVE Beyond(mem', g) \notin Holes'
      <4>1. Beyond(mem', g) = Beyond(mem, g) /\ Beyond(mem, g) \notin H
        BY <1>4, <2>4, <3>1 DEF Apart
      <4>2. Beyond(mem, g) = e \/ Beyond(mem, g) \in H \union HeadersOf(live)
        BY <1>4 DEF Books, Laid
      <4>3. e # k
        BY <1>4, <1>6, <2>1
      <4> QED BY <2>4, <2>6, <4>1, <4>2, <4>3
    <3>2. Beyond(mem', k) \notin Holes'
      BY <1>6, <1>13, <2>1, <2>4, <2>6
    <3> QED BY <2>6, <3>1, <3>2 DEF Apart
  <2>8. OnlyLast'
    <3>1. ASSUME Regime = "none", NEW g \in Holes' PROVE Beyond(mem', g) = e
      <4>1. \A x \in H : Beyond(mem, x) = e
        BY <1>4, <3>1 DEF OnlyLast, IsLast, RightOf, Beyond
      <4> QED BY <1>5, <2>4, <2>6, <4>1 DEF z
    <3> QED BY <1>2, <3>1 DEF OnlyLast, IsLast, RightOf, Beyond
  <2> QED BY <1>2, <2>4, <2>5, <2>6, <2>7, <2>8 DEF BooksRight, Growing
<1> QED BY <1>14, <1>15

-----------------------------------------------------------------------------
(* The footer below a block tells whether there is a hole (heap.c:284-287). *)
LEMMA LeftHole ==
  ASSUME BooksRight, NEW h \in HeadersOf(live)
  PROVE  /\ IsLeftHole(h) => mem[h - 1] \in Holes /\ Beyond(mem, mem[h - 1]) = h
         /\ ~IsLeftHole(h) => \A u \in Holes : Beyond(mem, u) # h
<1> DEFINE U == Holes \union HeadersOf(live)
<1>1. Books(mem, Holes, live, endAddress)
  BY DEF BooksRight
<1>2. /\ h \in Int /\ h >= Start /\ h + 1 \in Cells /\ mem \in Memory /\ h \in U
      /\ h < endAddress /\ endAddress \in Int
  <2>1. mem \in Memory /\ endAddress \in Int
    BY <1>1 DEF Books
  <2> QED BY <1>1, <2>1, UnitCells DEF Overhead, Hdr, Ftr
<1>3. LeftFooter(h) = h - 2 /\ LeftFooter(h) + 1 = h - 1
  BY <1>2 DEF LeftFooter, Ftr
<1>4. \A c \in Cells : c # h + 1 => Marked(h)[c] = mem[c]
  BY <1>2 DEF Marked, Memory
<1>5. IsLeftHole(h) <=> mem[h - 2] = Magic /\ Marked(h)[mem[h - 1] + 1] = 1
  BY <1>3 DEF IsLeftHole
<1>6. CASE h = Start
  <2>1. mem[h - 2] # Magic
    BY <1>1, <1>6 DEF Books, TagsRight
  <2>2. ASSUME NEW u \in Holes PROVE Beyond(mem, u) # h
    <3>1. u \in Int /\ u >= Start /\ u + Overhead <= Beyond(mem, u) /\ Beyond(mem, u) \in Int
      BY <1>1, UnitCells
    <3> QED BY <1>2, <1>6, <3>1 DEF Overhead, Hdr, Ftr
  <2> QED BY <1>5, <2>1, <2>2
<1>7. CASE h # Start
  <2>1. PICK u \in U : Beyond(mem, u) = h
    <3>1. h \in Holes \union HeadersOf(live)
      OBVIOUS
    <3> QED BY <1>1, <1>7, <3>1, OnTheLeft
  <2>2. u \in Int /\ u + Overhead <= h /\ u + 1 \in Cells
    BY <1>1, <2>1, UnitCells
  <2>3. Marked(h)[u + 1] = mem[u + 1]
    BY <1>2, <1>4, <2>2 DEF Overhead, Hdr, Ftr
  <2>4. HasFooter(mem, u) /\ (u \in Holes => mem[u + 1] = 1) /\ (u \in HeadersOf(live) => mem[u + 1] = 0)
    BY <1>1, <1>2, <2>1 DEF Books, TagsRight
  <2>5. mem[h - 2] = Magic /\ mem[h - 1] = u
    BY <2>1, <2>4 DEF HasFooter
  <2>6. CASE u \in Holes
    BY <1>5, <2>1, <2>3, <2>4, <2>5, <2>6
  <2>7. CASE u \notin Holes
    <3>1. ~IsLeftHole(h)
      BY <1>5, <2>3, <2>4, <2>5, <2>7
    <3>2. ASSUME NEW v \in Holes PROVE Beyond(mem, v) # h
      <4>1. v \in Int /\ v + Overhead <= Beyond(mem, v) /\ v # u /\ Beyond(mem, v) \in Int
        BY <1>1, <2>7, UnitCells
      <4>2. Beyond(mem, v) <= u \/ h <= v
        BY <1>1, <2>1, <4>1, Beside
      <4> QED BY <1>2, <2>2, <4>1, <4>2 DEF Overhead, Hdr, Ftr
    <3> QED BY <3>1, <3>2
  <2> QED BY <2>6, <2>7
<1> QED BY <1>6, <1>7

(* The hole that takes the freed block in, or the block itself.             *)
LeftDone(l, h, b) ==
  /\ Books(l.mem, Holes \union {l.header}, live \ {b}, endAddress)
  /\ Beyond(l.mem, l.header) = Beyond(mem, h)
  /\ l.add <=> l.header \notin Holes
  /\ \A v \in Holes : v # l.header =>
       Beyond(l.mem, v) = Beyond(mem, v) /\ Beyond(mem, v) # l.header

LEMMA LeftStage ==
  ASSUME BooksRight, NEW b \in live, NEW h, h = b.ptr - Hdr
  PROVE  LeftDone(UnifyLeft(h), h, b)
<1> DEFINE H == Holes
           m == Marked(h)
           z == Beyond(mem, h)
<1>1. Books(mem, H, live, endAddress) /\ Apart(mem, H, {}) /\ h \in HeadersOf(live)
  BY DEF BooksRight, HeadersOf
<1>2. /\ Books(m, H \union {h}, live \ {b}, endAddress)
      /\ HeadersOf(live \ {b}) = HeadersOf(live) \ {h} /\ h \notin H
      /\ \A u \in H \union HeadersOf(live) : Beyond(m, u) = Beyond(mem, u)
      /\ HasFooter(m, h)
  <2>1. LET g == b.ptr - Hdr
            n == [mem EXCEPT ![g + 1] = 1]
        IN /\ Books(n, H \union {g}, live \ {b}, endAddress)
           /\ HeadersOf(live \ {b}) = HeadersOf(live) \ {g}
           /\ g \in HeadersOf(live) /\ g \notin H
           /\ \A u \in H \union HeadersOf(live) : Beyond(n, u) = Beyond(mem, u)
           /\ HasFooter(n, g)
    BY <1>1, MarkStage
  <2> QED BY <2>1 DEF Marked
<1>3. /\ mem \in Memory /\ h \in Int /\ mem[h + 2] \in Int /\ z \in Int /\ z = h + mem[h + 2]
      /\ h + Overhead <= z /\ z - 1 \in Cells /\ z <= MaxAddress /\ h + 1 \in Cells /\ h + 2 \in Cells
  <2>1. mem \in Memory /\ endAddress \in Int /\ endAddress <= MaxAddress /\ MaxAddress \in Int
    BY <1>1, HeapParameters DEF Books
  <2> QED BY <1>1, <2>1, UnitCells DEF Beyond
<1>4. m \in Memory /\ m[h + 2] = mem[h + 2] /\ \A c \in Cells : c # h + 1 => m[c] = mem[c]
  BY <1>3 DEF Marked, Memory
<1> HIDE DEF m, z
<1>5. CASE ~IsLeftHole(h)
  <2>1. UnifyLeft(h) = [header |-> h, add |-> TRUE, mem |-> m]
    BY <1>5 DEF UnifyLeft, m
  <2>2. \A v \in H : Beyond(mem, v) # h
    BY <1>1, <1>5, LeftHole
  <2> QED BY <1>1, <1>2, <2>1, <2>2 DEF LeftDone, z
<1>6. CASE IsLeftHole(h)
  <2>1. PICK u \in H : u = mem[h - 1] /\ Beyond(mem, u) = h
    BY <1>1, <1>6, LeftHole
  <2>2. LeftFooter(h) + 1 = h - 1 /\ h + mem[h + 2] - 1 = z - 1
    BY <1>3 DEF LeftFooter, Ftr
  <2> DEFINE m1 == [m EXCEPT ![z - 1] = u]
             s  == Word(m1[u + 2] + mem[h + 2])
             m2 == [m1 EXCEPT ![u + 2] = s]
  <2>3. UnifyLeft(h) = [header |-> u, add |-> FALSE, mem |-> m2]
    BY <1>6, <2>1, <2>2 DEF UnifyLeft, m
  <2>4. u \in Int /\ u + Overhead <= h /\ u + 2 \in Cells /\ mem[u + 2] \in Int /\ h = u + mem[u + 2]
    BY <1>1, <2>1, UnitCells DEF Beyond
  <2>5. m1 \in Memory /\ \A c \in Cells : m1[c] = IF c = z - 1 THEN u ELSE m[c]
    BY <1>3, <1>4, <2>4 DEF Memory
  <2> HIDE DEF m1
  <2>6. m1[u + 2] = mem[u + 2] /\ m[u + 2] = mem[u + 2]
    BY <1>3, <1>4, <2>4, <2>5 DEF Overhead, Hdr, Ftr
  <2>7. s = mem[u + 2] + mem[h + 2]
    <3>1. mem[u + 2] + mem[h + 2] = z - u
      BY <1>3, <2>4
    <3>2. z - u \in Nat /\ z - u < WordSize
      <4>1. u >= Start /\ Start \in Nat /\ MaxAddress \in Nat /\ WordSize \in Nat /\ MaxAddress < WordSize
        BY <1>1, UnitCells, HeapParameters
      <4> QED BY <1>3, <2>4, <4>1 DEF Overhead, Hdr, Ftr
    <3> QED BY <2>6, <3>1, <3>2, WordKept
  <2> HIDE DEF s
  <2>8. /\ m2 \in Memory /\ m2[u + 2] = m[u + 2] + m[h + 2] /\ m2[z - 1] = u
        /\ \A c \in Cells : c # u + 2 /\ c # z - 1 => m2[c] = m[c]
    <3>1. s \in Int /\ s = m[u + 2] + m[h + 2]
      BY <1>3, <1>4, <2>4, <2>6, <2>7
    <3>2. m2 \in Memory /\ \A c \in Cells : m2[c] = IF c = u + 2 THEN s ELSE m1[c]
      BY <2>4, <2>5, <3>1 DEF Memory
    <3> HIDE DEF m2
    <3>3. z - 1 # u + 2
      BY <1>3, <2>4 DEF Overhead, Hdr, Ftr
    <3> QED BY <1>3, <2>4, <2>5, <3>1, <3>2, <3>3
  <2> HIDE DEF m2
  <2>9. /\ Books(m2, (H \union {h}) \ {h}, live \ {b}, endAddress)
        /\ Beyond(m2, u) = z
        /\ \A v \in (H \union {h}) \union HeadersOf(live \ {b}) : v \notin {u, h} => Beyond(m2, v) = Beyond(m, v)
    <3>1. Beyond(m, u) = h /\ Beyond(m, h) = z /\ u \in H \union {h} /\ h \in H \union {h}
      BY <1>1, <1>2, <2>1 DEF z
    <3>2. HasFooter(m, h) /\ m2[Beyond(m, h) - 1] = u
      BY <1>2, <2>8, <3>1
    <3>3. \A c \in Cells : c # u + 2 /\ c # Beyond(m, h) - 1 => m2[c] = m[c]
      BY <2>8, <3>1
    <3>4. Merges(m, m2, u, h, endAddress)
      BY <2>8, <3>1, <3>2, <3>3 DEF Merges
    <3>5. /\ Books(m2, (H \union {h}) \ {h}, live \ {b}, endAddress)
          /\ Beyond(m2, u) = Beyond(m, h)
          /\ \A v \in (H \union {h}) \union HeadersOf(live \ {b}) :
               v \notin {u, h} => Beyond(m2, v) = Beyond(m, v)
      BY <1>2, <3>1, <3>4, MergeStage
    <3> QED BY <3>1, <3>5
  <2>10. (H \union {h}) \ {h} = H \union {u}
    BY <1>2, <2>1
  <2>11. ASSUME NEW v \in H, v # u PROVE Beyond(m2, v) = Beyond(mem, v) /\ Beyond(mem, v) # u
    <3>1. Beyond(m2, v) = Beyond(m, v)
      BY <1>2, <2>9, <2>11
    <3>2. Beyond(mem, v) \notin H
      BY <1>1 DEF Apart
    <3> QED BY <1>2, <2>1, <3>1, <3>2
  <2> QED BY <2>1, <2>3, <2>9, <2>10, <2>11 DEF LeftDone, z
<1> QED BY <1>5, <1>6

(* The hole on the right goes into it, when it is the last (heap.c:301-317). *)
RightDone(r, hd, z, b) ==
  /\ Books(r.mem, (Holes \union {hd}) \ {z}, live \ {b}, endAddress)
  /\ Apart(r.mem, (Holes \union {hd}) \ {z}, {})
  /\ Beyond(r.mem, hd) = r.end
  /\ z \in Holes \/ r.end = z
  /\ hd \in Int /\ hd # z
  /\ r.index \in Seq(Cells) /\ ToSet(r.index) = Holes \ {z} /\ Distinct(r.index)

LEMMA RightStage ==
  ASSUME BooksRight, index \in Seq(Cells), NEW b, NEW h, NoRightHole(h),
         NEW l, LeftDone(l, h, b), NEW z, z = Beyond(mem, h), RightSound(l, z)
  PROVE  RightDone(UnifyRight(l, z), l.header, z, b)
<1> DEFINE H == Holes
           hd == l.header
           e  == endAddress
           L  == live \ {b}
           m  == l.mem
<1>1. /\ Books(mem, H, live, e) /\ Apart(mem, H, {}) /\ Distinct(index)
      /\ Books(m, H \union {hd}, L, e) /\ Beyond(m, hd) = z
      /\ \A v \in H : v # hd => Beyond(m, v) = Beyond(mem, v) /\ Beyond(mem, v) # hd
  BY DEF BooksRight, LeftDone
<1> HIDE DEF m, hd, L
<1>2. /\ hd \in Int /\ z \in Int /\ hd + Overhead <= z /\ z <= e /\ hd # z /\ hd >= Start
      /\ hd + 2 \in Cells /\ m \in Memory /\ m[hd + 2] \in Int /\ z = hd + m[hd + 2]
      /\ e \in Int /\ e <= MaxAddress
  <2>1. hd \in (H \union {hd}) \union HeadersOf(L)
    OBVIOUS
  <2>2. m \in Memory /\ e \in Int /\ e <= MaxAddress
    BY <1>1 DEF Books
  <2>3. /\ hd \in Int /\ z \in Int /\ hd + Overhead <= z /\ z <= e /\ hd >= Start
        /\ hd + 2 \in Cells /\ m[hd + 2] \in Int /\ z = hd + m[hd + 2]
    BY <1>1, <2>1, UnitCells DEF Beyond
  <2> QED BY <2>2, <2>3 DEF Overhead, Hdr, Ftr
<1>3. ASSUME NEW g \in H, g # hd PROVE Beyond(m, g) \notin H \union {hd}
  BY <1>1, <1>3 DEF Apart
<1>4. /\ PositionOf(index, z) = 0 <=> z \notin H
      /\ z \in H => PositionOf(index, z) \in 1..Len(index) /\ index[PositionOf(index, z)] = z
  BY PositionFound DEF Holes
<1>5. CASE z \notin H
  <2>1. ~IsRightHole(m, z)
    <3>1. CASE z = e
      BY <1>4, <1>5 DEF RightSound, m
    <3>2. CASE z # e
      <4>1. z \in (H \union {hd}) \union HeadersOf(L)
        BY <1>1, <3>2 DEF Books, Laid
      <4>2. z \in HeadersOf(L)
        BY <1>2, <1>5, <4>1
      <4>3. m[z + 1] = 0
        BY <1>1, <4>2 DEF Books, TagsRight
      <4> QED BY <4>3 DEF IsRightHole
    <3> QED BY <3>1, <3>2
  <2>2. UnifyRight(l, z) = [mem |-> m, end |-> z, index |-> index]
    BY <2>1 DEF UnifyRight, m
  <2>3. (H \union {hd}) \ {z} = H \union {hd} /\ H \ {z} = H
    BY <1>2, <1>5
  <2>4. Apart(m, H \union {hd}, {})
    BY <1>1, <1>2, <1>3, <1>5 DEF Apart
  <2> PICK r : r = UnifyRight(l, z)
    OBVIOUS
  <2>5. r.mem = m /\ r.end = z /\ r.index = index
    BY <2>2
  <2>6. Books(r.mem, (H \union {hd}) \ {z}, L, e) /\ Apart(r.mem, (H \union {hd}) \ {z}, {})
    BY <1>1, <2>3, <2>4, <2>5
  <2>7. Beyond(r.mem, hd) = r.end /\ r.end = z
    BY <1>1, <2>5
  <2>8. ToSet(r.index) = H \ {z} /\ r.index \in Seq(Cells) /\ Distinct(r.index)
    BY <1>1, <2>3, <2>5 DEF Holes
  <2>9. RightDone(r, hd, z, b)
    BY <1>2, <2>6, <2>7, <2>8 DEF RightDone, L
  <2> QED BY <2>9 DEF hd
<1>6. CASE z \in H
  <2> DEFINE s == Word(m[hd + 2] + m[z + 2])
             n == [m EXCEPT ![hd + 2] = s]
             i == PositionOf(index, z)
  <2>1. m[z] = Magic /\ m[z + 1] = 1
    BY <1>1, <1>6 DEF Books, TagsRight
  <2>2. UnifyRight(l, z) = [mem |-> n, end |-> Word(z + m[z + 2]), index |-> RemoveOrderedArray(index, i)]
    BY <1>4, <1>6, <2>1 DEF UnifyRight, IsRightHole, m, hd
  <2>3. Beyond(m, z) = e
    <3>1. Beyond(mem, z) = e
      <4>1. RightOf(h) = z
        BY DEF RightOf, Beyond
      <4> QED BY <1>6, <4>1 DEF NoRightHole, IsLast, RightOf, Beyond, Holes
    <3> QED BY <1>1, <1>2, <1>6, <3>1
  <2>4. m[z + 2] \in Int /\ z + m[z + 2] = e /\ z + Overhead <= e
    <3>1. z \in (H \union {hd}) \union HeadersOf(L)
      BY <1>6
    <3> QED BY <1>1, <2>3, <3>1, UnitCells DEF Beyond
  <2>5. s = m[hd + 2] + m[z + 2]
    <3>1. m[hd + 2] + m[z + 2] = e - hd
      BY <1>2, <2>4
    <3>2. e - hd \in Nat /\ e - hd < WordSize
      BY <1>2, <2>4, HeapParameters DEF Overhead, Hdr, Ftr
    <3> QED BY <3>1, <3>2, WordKept
  <2> HIDE DEF s
  <2>6. n \in Memory /\ n[hd + 2] = m[hd + 2] + m[z + 2] /\ \A c \in Cells : c # hd + 2 => n[c] = m[c]
    <3>1. s \in Int
      BY <1>2, <2>4, <2>5
    <3> QED BY <1>2, <2>5, <3>1 DEF Memory
  <2> HIDE DEF n
  <2>7. /\ Books(n, (H \union {hd}) \ {z}, L, e)
        /\ Beyond(n, hd) = e
        /\ \A v \in H : v # hd /\ v # z => Beyond(n, v) = Beyond(m, v)
    <3>1. Merges(m, n, hd, z, e)
      BY <1>1, <2>3, <2>6 DEF Merges
    <3>2. hd \in H \union {hd} /\ z \in H \union {hd}
      BY <1>6
    <3>3. Books(m, H \union {hd}, L, e)
      BY <1>1
    <3> HIDE DEF H, e, i
    <3> PICK K : K = H \union {hd}
      OBVIOUS
    <3>4. Books(m, K, L, e) /\ hd \in K /\ z \in K
      BY <3>2, <3>3
    <3>5. Books(n, K \ {z}, L, e)
      BY <3>1, <3>4, MergeStage
    <3>6. Beyond(n, hd) = Beyond(m, z)
      <4>1. Beyond(n, hd) = hd + n[hd + 2] /\ Beyond(m, z) = z + m[z + 2]
        BY DEF Beyond
      <4> QED BY <1>2, <2>4, <2>6, <4>1
    <3>7. ASSUME NEW v \in K \union HeadersOf(L), v # hd, v # z PROVE Beyond(n, v) = Beyond(m, v)
      <4>1. v \in Int /\ v + 2 \in Cells
        BY <3>4, UnitCells
      <4> QED BY <1>2, <2>6, <3>7, <4>1 DEF Beyond
    <3> QED BY <2>3, <3>5, <3>6, <3>7
  <2>8. Apart(n, (H \union {hd}) \ {z}, {})
    <3>1. e \notin H \union {hd}
      <4>1. \A g \in H \union {hd} : g \in Int /\ g + Overhead <= Beyond(m, g) /\ Beyond(m, g) <= e /\ Beyond(m, g) \in Int
        BY <1>1, UnitCells
      <4> QED BY <1>2, <4>1 DEF Overhead, Hdr, Ftr
    <3> QED BY <1>3, <2>7, <3>1 DEF Apart
  <2>9. /\ RemoveOrderedArray(index, i) \in Seq(Cells) /\ Distinct(RemoveOrderedArray(index, i))
        /\ ToSet(RemoveOrderedArray(index, i)) = H \ {z}
    <3>1. i \in 1..Len(index) /\ index[i] = z
      BY <1>4, <1>6
    <3> HIDE DEF i
    <3>2. LET new == RemoveOrderedArray(index, i)
          IN new \in Seq(Cells) /\ ToSet(new) = ToSet(index) \ {index[i]} /\ Distinct(new)
      BY <1>1, <3>1, RemoveItems
    <3> QED BY <3>1, <3>2 DEF Holes
  <2>10. Word(z + m[z + 2]) = e
    <3>1. z + m[z + 2] = e /\ e \in Nat /\ e < WordSize
      BY <1>2, <2>4, HeapParameters DEF Overhead, Hdr, Ftr
    <3> QED BY <3>1, WordKept
  <2> HIDE DEF i
  <2> PICK r : r = UnifyRight(l, z)
    OBVIOUS
  <2>11. r.mem = n /\ r.end = e /\ r.index = RemoveOrderedArray(index, i)
    BY <2>2, <2>10
  <2>12. RightDone(r, hd, z, b)
    BY <1>2, <1>6, <2>7, <2>8, <2>9, <2>11 DEF RightDone, L
  <2> QED BY <2>12 DEF hd
<1> QED BY <1>5, <1>6
-----------------------------------------------------------------------------
(* contract takes away pages above the new end only.                        *)
LEMMA PagesAdd ==
  ASSUME NEW s \in Nat, NEW t \in Nat, s % PageSize = 0, t % PageSize = 0
  PROVE  (s + t) % PageSize = 0
<1> DEFINE x == s \div PageSize
           y == t \div PageSize
           d == (s + t) \div PageSize
           o == (s + t) % PageSize
<1>1. PageSize \in Nat \ {0}
  BY HeapParameters
<1>2. /\ x \in Int /\ y \in Int /\ d \in Int /\ o \in Int /\ 0 <= o /\ o < PageSize
      /\ s = x * PageSize /\ t = y * PageSize /\ s + t = d * PageSize + o
  BY <1>1
<1> HIDE DEF x, y, d, o
<1>3. (x + y - d) * PageSize = o
  BY <1>1, <1>2
<1>4. x + y - d < 1
  <2>1. ASSUME x + y - d >= 1 PROVE FALSE
    <3>1. (x + y - d - 1) * PageSize >= 0
      BY <1>1, <1>2, <2>1
    <3>2. (x + y - d - 1) * PageSize = (x + y - d) * PageSize - PageSize
      BY <1>1, <1>2
    <3>3. (x + y - d - 1) * PageSize = o - PageSize
      BY <1>3, <3>2
    <3> HIDE DEF o
    <3> QED BY <1>1, <1>2, <3>1, <3>3
  <2> QED BY <1>2, <2>1
<1>5. x + y - d >= 0
  BY <1>1, <1>2, <1>3
<1>6. x + y - d = 0
  BY <1>2, <1>4, <1>5
<1> QED BY <1>1, <1>3, <1>6 DEF o

LEMMA PagesBelow ==
  ASSUME NEW c \in Nat, NEW t \in Nat, t % PageSize = 0, c < t, endAddress \in Nat
  PROVE  ~Dropped(c \div PageSize, t)
<1> DEFINE p == c \div PageSize
           q == t \div PageSize
           o == endAddress % PageSize
<1>1. PageSize \in Nat \ {0}
  BY HeapParameters
<1>2. /\ p \in Int /\ q \in Int /\ o \in Int /\ 0 <= o /\ o < PageSize
      /\ p * PageSize <= c /\ t = q * PageSize
  BY <1>1
<1> HIDE DEF p, q, o
<1>3. p < q
  <2>1. ASSUME p >= q PROVE FALSE
    <3>1. (p - q) * PageSize >= 0
      BY <1>1, <1>2, <2>1
    <3>2. (p - q) * PageSize = p * PageSize - q * PageSize
      BY <1>1, <1>2
    <3> QED BY <1>1, <1>2, <3>1, <3>2
  <2> QED BY <1>2, <2>1
<1>4. p * PageSize + PageSize <= q * PageSize
  <2>1. (q - p - 1) * PageSize >= 0
    BY <1>1, <1>2, <1>3
  <2>2. (q - p - 1) * PageSize = q * PageSize - p * PageSize - PageSize
    BY <1>1, <1>2
  <2>3. p * PageSize \in Int /\ q * PageSize \in Int
    BY <1>1, <1>2
  <2> QED BY <1>1, <2>1, <2>2, <2>3
<1>5. p * PageSize + o < t
  <2> DEFINE pp == p * PageSize
  <2>1. pp \in Int
    BY <1>1, <1>2
  <2> HIDE DEF pp
  <2>2. pp + PageSize <= t
    BY <1>2, <1>4 DEF pp
  <2>3. pp + o < t
    BY <1>1, <1>2, <2>1, <2>2
  <2> QED BY <2>3 DEF pp
<1>6. ~Dropped(p, t)
  <2> DEFINE pp == p * PageSize + o
  <2>1. pp \in Int
    BY <1>1, <1>2
  <2>2. SamePlace(p) = pp
    BY DEF SamePlace, o
  <2> HIDE DEF pp
  <2>3. pp < t
    BY <1>5 DEF pp
  <2> QED BY <2>1, <2>2, <2>3 DEF Dropped
<1> QED BY <1>6 DEF p

(* contract returns to the minimum: the last hole survives it (heap.c:319-348). *)
Contracts(c, r, hd, z, b) ==
  /\ RightDone(r, hd, z, b) /\ r.end = endAddress /\ hd + Overhead <= Start + MinSize
  /\ c = Contract(r, hd, z)
FreeDone(c, r, hd, z, b) ==
  /\ Books(c.mem, (Holes \union {hd}) \ {z}, live \ {b}, c.end)
  /\ Apart(c.mem, (Holes \union {hd}) \ {z}, {})
  /\ c.index = r.index

LEMMA ContractStage ==
  ASSUME TypeOK, EndInBounds, NEW r, NEW hd, NEW z, NEW b, NEW c, Contracts(c, r, hd, z, b)
  PROVE  /\ c.end = Start + MinSize /\ c.footer = Start + MinSize - Ftr
         /\ Accessible(c.footer, Ftr, present) => FreeDone(c, r, hd, z, b)
<1>0. /\ RightDone(r, hd, z, b) /\ r.end = endAddress /\ hd + Overhead <= Start + MinSize
      /\ c = Contract(r, hd, z)
  BY DEF Contracts
<1> DEFINE L  == live \ {b}
           e2 == Start + MinSize
<1> PICK K : K = (Holes \union {hd}) \ {z}
  OBVIOUS
<1> PICK e \in Int : e = endAddress
  BY DEF TypeOK
<1> PICK k : k = r.mem
  OBVIOUS
<1>1. /\ Books(k, K, L, e) /\ Apart(k, K, {}) /\ Beyond(k, hd) = e
      /\ hd \in Int /\ hd \in K
  BY <1>0 DEF RightDone
<1> HIDE DEF L
<1>2. /\ Start \in Nat /\ MinSize \in Nat /\ WordSize \in Nat /\ MaxAddress \in Nat
      /\ e2 \in Nat /\ e2 <= e /\ e <= MaxAddress /\ MaxAddress < WordSize
  BY HeapParameters DEF EndInBounds
<1>3. /\ hd >= Start /\ hd + 2 \in Cells /\ hd + 1 \in Cells /\ hd \in Cells
      /\ k[hd + 2] \in Int /\ e = hd + k[hd + 2] /\ k \in Memory
  <2>1. hd \in K \union HeadersOf(L)
    BY <1>1
  <2>2. /\ hd >= Start /\ hd + 2 \in Cells /\ hd + 1 \in Cells /\ hd \in Cells /\ k[hd + 2] \in Int
    BY <1>1, <2>1, UnitCells
  <2> QED BY <1>1, <2>2 DEF Beyond, Books
<1>4. ContractedLength(Word(hd - Start)) = MinSize
  <2>1. hd - Start \in Nat /\ hd - Start < WordSize /\ hd - Start < MinSize
    BY <1>0, <1>1, <1>2, <1>3 DEF Overhead, Hdr, Ftr
  <2>2. Word(hd - Start) = hd - Start
    BY <2>1, WordKept
  <2> PICK n \in Nat : n = hd - Start
    BY <2>1
  <2>3. ContractedLength(n) = MinSize
    BY <2>1, HeapParameters DEF ContractedLength
  <2> QED BY <2>2, <2>3
<1> DEFINE m == DropPages(k, e2)
<1>5. m \in Memory /\ \A x \in Cells : x < e2 => m[x] = k[x]
  <2>1. e2 % PageSize = 0
    <3>1. PageSize \in Nat \ {0} /\ Start % PageSize = 0 /\ MinSize % PageSize = 0
      BY HeapParameters
    <3> QED BY <1>2, <3>1, PagesAdd
  <2>2. ASSUME NEW x \in Cells, x < e2 PROVE ~Dropped(x \div PageSize, e2)
    <3>1. x \in Nat /\ endAddress \in Nat
      BY CellsAreNat DEF TypeOK
    <3> HIDE DEF e2
    <3> QED BY <1>2, <2>1, <2>2, <3>1, PagesBelow
  <2>3. m \in Memory
    BY <1>3 DEF DropPages, Memory
  <2> QED BY <2>2, <2>3 DEF DropPages
<1> HIDE DEF m
<1>6. m[hd] = k[hd] /\ m[hd + 1] = k[hd + 1] /\ m[hd + 2] = k[hd + 2]
  <2>1. hd < e2 /\ hd + 1 < e2 /\ hd + 2 < e2
    BY <1>0, <1>1, <1>2 DEF Overhead, Hdr, Ftr
  <2> QED BY <1>3, <1>5, <2>1
<1>7. Agree(k, m, hd, MaxAddress)
  <2>1. \A x \in Cells : x \notin hd..(MaxAddress - 1) => x < e2
    BY <1>0, <1>1, <1>2 DEF Cells, Overhead, Hdr, Ftr
  <2> QED BY <1>5, <2>1 DEF Agree
<1>8. Word(m[hd + 2] - (Length - MinSize)) = e2 - hd
  <2>1. m[hd + 2] - (Length - MinSize) = e2 - hd
    BY <1>1, <1>2, <1>3, <1>6 DEF Length
  <2>2. e2 - hd \in Nat /\ e2 - hd < WordSize
    BY <1>0, <1>1, <1>2, <1>3 DEF Overhead, Hdr, Ftr
  <2> QED BY <2>1, <2>2, WordKept
<1>9. Word(hd + (e2 - hd) - Ftr) = e2 - 2
  <2>1. hd + (e2 - hd) - Ftr = e2 - 2
    BY <1>1, <1>2 DEF Ftr
  <2>2. e2 - 2 \in Nat /\ e2 - 2 < WordSize
    BY <1>0, <1>1, <1>2, <1>3 DEF Overhead, Hdr, Ftr
  <2> QED BY <2>1, <2>2, WordKept
<1>10. e2 - hd # 0
  BY <1>0, <1>1, <1>2 DEF Overhead, Hdr, Ftr
<1>11. /\ c.end = e2 /\ c.index = r.index /\ c.footer = e2 - 2
       /\ Accessible(e2 - 2, Ftr, present) => c.mem = Enlarged(m, hd, e2)
  <2>1. c = [end |-> Start + MinSize, index |-> r.index, footer |-> e2 - 2,
             mem |-> IF Accessible(e2 - 2, Ftr, present)
                     THEN PutFooter([m EXCEPT ![hd + 2] = e2 - hd], e2 - 2, hd)
                     ELSE m]
    BY <1>0, <1>4, <1>8, <1>9, <1>10 DEF Contract, m
  <2> QED BY <2>1 DEF Enlarged
<1> HIDE DEF e2
<1>12. /\ Books(Enlarged(m, hd, e2), K, L, e2)
       /\ Beyond(Enlarged(m, hd, e2), hd) = e2
       /\ \A v \in K \union HeadersOf(L) : v # hd => Beyond(Enlarged(m, hd, e2), v) = Beyond(k, v)
  <2>1. hd + Overhead <= e2 /\ e2 \in Int /\ e2 <= MaxAddress
    BY <1>0, <1>2 DEF e2
  <2>2. LET n == Enlarged(m, hd, e2)
        IN /\ Books(n, K, L, e2)
           /\ Beyond(n, hd) = e2
           /\ \A v \in K \union HeadersOf(L) : v # hd => Beyond(n, v) = Beyond(k, v)
    BY <1>1, <1>5, <1>6, <1>7, <2>1, LastWrites
  <2> QED BY <2>2
<1>13. Apart(Enlarged(m, hd, e2), K, {})
  <2> PICK n : n = Enlarged(m, hd, e2)
    OBVIOUS
  <2>1. ASSUME NEW g \in K PROVE g # e2
    <3>1. /\ g \in Int /\ g + Overhead <= Beyond(n, g) /\ Beyond(n, g) <= e2
          /\ Beyond(n, g) \in Int
      BY <1>12, UnitCells
    <3> QED BY <1>2, <3>1 DEF Overhead, Hdr, Ftr
  <2> QED BY <1>1, <1>12, <2>1 DEF Apart
<1>14. Accessible(c.footer, Ftr, present) => FreeDone(c, r, hd, z, b)
  BY <1>11, <1>12, <1>13 DEF L, FreeDone
<1>15. c.end = Start + MinSize /\ c.footer = Start + MinSize - Ftr
  <2>1. c.end = e2 /\ c.footer = e2 - 2
    BY <1>11
  <2>2. Start + MinSize = e2 /\ Ftr = 2
    BY DEF e2, Ftr
  <2>3. Start + MinSize - Ftr = e2 - 2
    BY <1>2, <2>2
  <2> QED BY <2>1, <2>2, <2>3
<1> QED BY <1>14, <1>15

(* The steps of free, as Free names them.                                   *)
FreePath(b, h, l, z, r, c) ==
  /\ h = b.ptr - Hdr /\ l = UnifyLeft(h) /\ z = h + mem[h + 2] /\ r = UnifyRight(l, z)
  /\ c = IF r.end = endAddress THEN Contract(r, l.header, z)
         ELSE [end |-> endAddress, index |-> r.index, mem |-> r.mem, footer |-> l.header]
  /\ Regime = "contained" /\ MayFree(h)

LEMMA FreeStages ==
  ASSUME TypeOK, EndInBounds, BooksRight, NEW b \in live, NEW h, NEW l, NEW z, NEW r, NEW c,
         FreePath(b, h, l, z, r, c), RightSound(l, z)
  PROVE  /\ RightDone(r, l.header, z, b)
         /\ \/ c.end = endAddress /\ c.footer = l.header
            \/ c.end = Start + MinSize /\ c.footer = Start + MinSize - Ftr
         /\ Accessible(c.footer, Ftr, present) => FreeDone(c, r, l.header, z, b)
<1>1. /\ h = b.ptr - Hdr /\ l = UnifyLeft(h) /\ z = h + mem[h + 2] /\ r = UnifyRight(l, z)
      /\ c = IF r.end = endAddress THEN Contract(r, l.header, z)
             ELSE [end |-> endAddress, index |-> r.index, mem |-> r.mem, footer |-> l.header]
      /\ NoRightHole(h) /\ (ReachesEnd(h) => Survives(h))
  BY DEF FreePath, MayFree
<1>2. index \in Seq(Cells) /\ z = Beyond(mem, h)
  BY <1>1 DEF TypeOK, Beyond
<1>3. LeftDone(l, h, b)
  BY <1>1, LeftStage
<1>4. RightDone(r, l.header, z, b)
  BY <1>1, <1>2, <1>3, RightStage
<1>5. CASE r.end = endAddress
  <2>1. ReachesEnd(h)
    <3>1. RightOf(h) = z
      BY <1>2 DEF RightOf, Beyond
    <3>2. z \in Holes \/ r.end = z
      BY <1>4 DEF RightDone
    <3> QED BY <1>1, <1>5, <3>1, <3>2 DEF ReachesEnd, NoRightHole, IsLast, Holes
  <2>2. l.header + Overhead <= Start + MinSize
    BY <1>1, <2>1 DEF Survives
  <2>3. Contracts(c, r, l.header, z, b)
    BY <1>1, <1>4, <1>5, <2>2 DEF Contracts
  <2>4. /\ c.end = Start + MinSize /\ c.footer = Start + MinSize - Ftr
        /\ Accessible(c.footer, Ftr, present) => FreeDone(c, r, l.header, z, b)
    BY <2>3, ContractStage
  <2> QED BY <1>4, <2>4
<1>6. CASE r.end # endAddress
  <2> PICK e, i, m, f : e = endAddress /\ i = r.index /\ m = r.mem /\ f = l.header
    OBVIOUS
  <2>0. c = [end |-> e, index |-> i, mem |-> m, footer |-> f]
    BY <1>1, <1>6
  <2>1. c.mem = m /\ c.end = e /\ c.index = i /\ c.footer = f
    BY <2>0
  <2>2. FreeDone(c, r, f, z, b)
    BY <1>4, <2>1 DEF RightDone, FreeDone
  <2> QED BY <1>4, <2>1, <2>2
<1> QED BY <1>5, <1>6

(* The end of free: the two headers joined, the end it leaves, the index.   *)
FreeEnd(b, hd, z, r, c) ==
  /\ RightDone(r, hd, z, b) /\ FreeDone(c, r, hd, z, b)
  /\ c.end \in {endAddress, Start + MinSize}

LEMMA FreeEnds ==
  ASSUME TypeOK, EndInBounds, BooksRight, NEW b \in live, NEW h, NEW l, NEW z, NEW r, NEW c,
         FreePath(b, h, l, z, r, c), RightSound(l, z), Accessible(c.footer, Ftr, present)
  PROVE  FreeEnd(b, l.header, z, r, c)
<1>1. /\ RightDone(r, l.header, z, b)
      /\ \/ c.end = endAddress /\ c.footer = l.header
         \/ c.end = Start + MinSize /\ c.footer = Start + MinSize - Ftr
      /\ Accessible(c.footer, Ftr, present) => FreeDone(c, r, l.header, z, b)
  BY FreeStages
<1>2. c.end \in {endAddress, Start + MinSize}
  BY <1>1
<1> QED BY <1>1, <1>2 DEF FreeEnd

(* The index free leaves names the holes without z and with hd.             *)
HolesLeft(hd, z) == (Holes \union {hd}) \ {z}
IndexLeft(c, hd) ==
  IF hd \notin Holes THEN InsertOrderedArray(c.index, hd, SizeKey(c.mem)) ELSE c.index

LEMMA FreeIndex ==
  ASSUME NEW b, NEW z, NEW r, NEW c, NEW hd, FreeEnd(b, hd, z, r, c)
  PROVE  /\ ToSet(IndexLeft(c, hd)) = HolesLeft(hd, z) /\ Distinct(IndexLeft(c, hd))
         /\ Books(c.mem, HolesLeft(hd, z), live \ {b}, c.end) /\ Apart(c.mem, HolesLeft(hd, z), {})
<1> PICK K, L, m, e : /\ K = (Holes \union {hd}) \ {z} /\ L = live \ {b}
                      /\ m = c.mem /\ e = c.end
  OBVIOUS
<1>1. /\ Books(m, K, L, e) /\ Apart(m, K, {}) /\ c.index = r.index
  BY DEF FreeEnd, FreeDone
<1>2. /\ hd # z /\ c.index \in Seq(Cells) /\ ToSet(c.index) = Holes \ {z} /\ Distinct(c.index)
  BY <1>1 DEF FreeEnd, RightDone
<1> PICK old \in Seq(Cells) : old = c.index
  BY <1>2
<1> PICK key : key = SizeKey(m)
  OBVIOUS
<1> PICK new : new = IF hd \notin Holes THEN InsertOrderedArray(old, hd, key) ELSE old
  OBVIOUS
<1>2a. IndexLeft(c, hd) = new
  BY DEF IndexLeft
<1>3. ToSet(old) = Holes \ {z} /\ Distinct(old) /\ hd # z
  BY <1>2
<1>4. ToSet(new) = K /\ Distinct(new)
  <2>1. CASE hd \notin Holes
    <3>2. hd \in K
      BY <1>3
    <3>3. hd \in Cells
      BY <1>1, <3>2, UnitCells
    <3>4. key \in [Cells -> Int]
      <4>1. m \in Memory
        BY <1>1 DEF Books
      <4> QED BY <4>1, KeysTyped
    <3>5. new = InsertOrderedArray(old, hd, key)
      BY <2>1
    <3>6. hd \notin ToSet(old)
      BY <1>3, <2>1
    <3>7. /\ ToSet(new) = ToSet(old) \union {hd}
          /\ Distinct(old) /\ hd \notin ToSet(old) => Distinct(new)
      BY <3>3, <3>4, <3>5, InsertedCell
    <3>8. ToSet(new) = K
      BY <1>3, <3>7
    <3> QED BY <1>3, <3>6, <3>7, <3>8
  <2>2. CASE hd \in Holes
    <3>1. new = old
      BY <2>2
    <3> QED BY <1>3, <2>2, <3>1
  <2> QED BY <2>1, <2>2
<1> QED BY <1>1, <1>2a, <1>4 DEF HolesLeft

(* What free leaves in each variable.                                       *)
FreeLeaves(b, l, c) ==
  /\ mem' = c.mem /\ endAddress' = c.end
  /\ index' = IF l.add THEN InsertOrderedArray(c.index, l.header, SizeKey(c.mem)) ELSE c.index
  /\ live' = live \ {b} /\ pending' = NoRequest

LEMMA FreedKeepsBooks ==
  ASSUME TypeOK, EndInBounds, BooksRight, NEW b \in live, NEW h, NEW l, NEW z, NEW r, NEW c,
         FreePath(b, h, l, z, r, c), RightSound(l, z), Accessible(c.footer, Ftr, present),
         FreeLeaves(b, l, c)
  PROVE  BooksRight' /\ endAddress' \in {endAddress, Start + MinSize}
<1> PICK hd : hd = l.header
  OBVIOUS
<1>1. FreeEnd(b, hd, z, r, c)
  BY FreeEnds
<1>2. l.add <=> hd \notin Holes
  <2>1. LeftDone(l, h, b)
    <3>1. h = b.ptr - Hdr /\ l = UnifyLeft(h)
      BY DEF FreePath
    <3> QED BY <3>1, LeftStage
  <2> QED BY <2>1 DEF LeftDone
<1>3. index' = IndexLeft(c, hd)
  BY <1>2 DEF FreeLeaves, IndexLeft
<1> PICK K : K = HolesLeft(hd, z)
  OBVIOUS
<1>4. /\ ToSet(index') = K /\ Distinct(index')
      /\ Books(c.mem, K, live \ {b}, c.end) /\ Apart(c.mem, K, {})
  <2>1. /\ ToSet(IndexLeft(c, hd)) = HolesLeft(hd, z) /\ Distinct(IndexLeft(c, hd))
        /\ Books(c.mem, HolesLeft(hd, z), live \ {b}, c.end) /\ Apart(c.mem, HolesLeft(hd, z), {})
    BY <1>1, FreeIndex
  <2> QED BY <1>3, <2>1
<1>5. mem' = c.mem /\ endAddress' = c.end /\ live' = live \ {b} /\ pending' = NoRequest
  BY DEF FreeLeaves
<1>6. Holes' = K
  BY <1>4 DEF Holes
<1>7. Books(mem', Holes', live', endAddress') /\ Apart(mem', Holes', {})
  BY <1>4, <1>5, <1>6
<1>8. Growing'
  BY <1>5 DEF Growing
<1>9. OnlyLast'
  BY DEF FreePath, OnlyLast
<1>10. endAddress' \in {endAddress, Start + MinSize}
  BY <1>1, <1>5 DEF FreeEnd
<1> QED BY <1>4, <1>7, <1>8, <1>9, <1>10 DEF BooksRight

LEMMA FreeKeepsBooks ==
  ASSUME ContainedClients, BookInv, NEW b \in live, Free(b), status' = "running"
  PROVE  BooksRight' /\ endAddress' \in {endAddress, Start + MinSize}
<1> PICK h : h = b.ptr - Hdr
  OBVIOUS
<1> PICK l : l = UnifyLeft(h)
  OBVIOUS
<1> PICK z : z = h + mem[h + 2]
  OBVIOUS
<1> PICK r : r = UnifyRight(l, z)
  OBVIOUS
<1> PICK c : c = IF r.end = endAddress THEN Contract(r, l.header, z)
                 ELSE [end |-> endAddress, index |-> r.index, mem |-> r.mem,
                       footer |-> l.header]
  OBVIOUS
<1>1. TypeOK /\ EndInBounds /\ BooksRight /\ pending = NoRequest /\ MayFree(h)
  BY DEF BookInv, Free
<1>2. /\ RightSound(l, z) /\ Accessible(c.footer, Ftr, present)
      /\ FreeLeaves(b, l, c)
  BY <1>1 DEF Free, Panic, FreeLeaves
<1>3. Regime = "contained"
  BY <1>1 DEF MayFree, ContainedClients
<1>4. FreePath(b, h, l, z, r, c)
  BY <1>1, <1>3 DEF FreePath
<1> QED BY <1>1, <1>2, <1>4, FreedKeepsBooks
-----------------------------------------------------------------------------
(* The block's cells are cells of its unit.                                 *)
LEMMA RangeInUnit ==
  ASSUME NEW m, NEW H, NEW L, NEW e, Books(m, H, L, e), NEW b \in L
  PROVE  /\ b.ptr \in Int /\ b.size \in Nat /\ b.ptr >= Start /\ b.ptr + b.size <= e
         /\ b.ptr - Hdr \in HeadersOf(L)
         /\ b.ptr..(b.ptr + b.size - 1) \subseteq (b.ptr - Hdr)..(Beyond(m, b.ptr - Hdr) - 1)
<1> DEFINE u == b.ptr - Hdr
<1>1. b.ptr \in Int /\ b.size \in Nat
  <2>1. b \in [ptr : Int, size : Sizes]
    BY DEF Books
  <2> QED BY <2>1, ClientParameters
<1>2. u \in HeadersOf(L)
  BY DEF HeadersOf
<1>3. b.size + Overhead <= m[u + 2]
  BY DEF Books, Contents
<1>4. /\ u \in Int /\ u >= Start /\ m[u + 2] \in Int /\ Beyond(m, u) = u + m[u + 2]
      /\ Beyond(m, u) <= e
  <2> HIDE DEF u
  <2>1. u \in Int /\ u >= Start /\ m[u + 2] \in Int /\ Beyond(m, u) <= e
    BY <1>2, UnitCells
  <2> QED BY <2>1 DEF Beyond
<1>5. Start \in Nat /\ e \in Int
  BY HeapParameters DEF Books
<1> QED BY <1>1, <1>2, <1>3, <1>4, <1>5 DEF Overhead, Hdr, Ftr

LEMMA BooksPayload ==
  ASSUME NEW m, NEW H, NEW L, NEW e, Books(m, H, L, e),
         NEW b \in L, NEW c \in b.ptr..(b.ptr + b.size - 1)
  PROVE  c \in Cells /\ m[c] = Payload
<1>1. m[c] = Payload
  BY DEF Books, Contents
<1> PICK u \in HeadersOf(L) : u = b.ptr - Hdr
  BY DEF HeadersOf
<1>2. c \in u..(Beyond(m, u) - 1)
  BY RangeInUnit
<1>3. u..(Beyond(m, u) - 1) \subseteq Cells
  BY UnitCells
<1> QED BY <1>1, <1>2, <1>3

(* The first hole is the whole arena (heap.c:112-119).                      *)
LEMMA CreatedBooks ==
  ASSUME Created
  PROVE  BooksRight
<1> DEFINE zero == [x \in Cells |-> 0]
<1>1. /\ Start \in Nat /\ MaxAddress \in Nat /\ InitialEnd \in Nat /\ InitialEnd <= MaxAddress
      /\ Start + Overhead <= InitialEnd /\ Start >= Overhead
  BY HeapParameters DEF Overhead, Hdr, Ftr
<1>2. /\ mem = PutHeader(zero, Start, 1, InitialEnd - Start) /\ index = <<Start>>
      /\ endAddress = InitialEnd /\ live = {} /\ pending = NoRequest
  BY DEF Created
<1>3. zero \in Memory /\ \A c \in Cells : zero[c] = 0
  BY DEF Memory
<1> HIDE DEF zero
<1>4. /\ Start \in Cells /\ Start + 1 \in Cells /\ Start + 2 \in Cells /\ Start - 2 \in Cells
      /\ Start - 2 \notin Start..(Start + 2) /\ InitialEnd - Start \in Int
  BY <1>1 DEF Cells, Overhead, Hdr, Ftr
<1>5. mem \in Memory
  BY <1>1, <1>2, <1>3, <1>4, PutTyped
<1>6. /\ mem[Start] = Magic /\ mem[Start + 1] = 1 /\ mem[Start + 2] = InitialEnd - Start
      /\ mem[Start - 2] = 0
  <2>1. LET n == PutHeader(zero, Start, 1, InitialEnd - Start)
        IN /\ n[Start] = Magic /\ n[Start + 1] = 1 /\ n[Start + 2] = InitialEnd - Start
           /\ \A c \in Cells : c \notin Start..(Start + 2) => n[c] = zero[c]
    BY <1>1, <1>3, <1>4, HeaderReads
  <2> QED BY <1>2, <1>3, <1>4, <2>1
<1>7. Holes = {Start} /\ Distinct(index)
  <2>1. index \in Seq({Start}) /\ Len(index) = 1 /\ index[1] = Start
    BY <1>2
  <2>2. Holes = {index[i] : i \in 1..1}
    BY <2>1, ItemsOf DEF Holes
  <2>3. Distinct(index)
    BY <2>1 DEF Distinct
  <2> QED BY <2>1, <2>2, <2>3
<1>8. HeadersOf(live) = {}
  BY <1>2 DEF HeadersOf
<1>9. Beyond(mem, Start) = InitialEnd
  BY <1>1, <1>6 DEF Beyond
<1>10. Laid(mem, {Start}, InitialEnd)
  <2>1. Start \in Start..(InitialEnd - Overhead)
    BY <1>1 DEF Overhead, Hdr, Ftr
  <2> QED BY <1>1, <1>9, <2>1 DEF Laid
<1>11. TagsRight(mem, {Start}, {}, InitialEnd)
  BY <1>6, <1>9, HeapParameters DEF TagsRight
<1>12. Books(mem, Holes, live, endAddress)
  <2>1. Holes \union HeadersOf(live) = {Start} /\ Holes \intersect HeadersOf(live) = {}
    BY <1>7, <1>8
  <2>2. Contents(mem, live)
    BY <1>2 DEF Contents
  <2> QED BY <1>1, <1>2, <1>5, <1>7, <1>8, <1>10, <1>11, <2>1, <2>2 DEF Books
<1>13. Apart(mem, Holes, {})
  <2>1. InitialEnd # Start
    BY <1>1 DEF Overhead, Hdr, Ftr
  <2> QED BY <1>7, <1>9, <2>1 DEF Apart
<1>14. OnlyLast
  BY <1>2, <1>7, <1>9 DEF OnlyLast, IsLast, RightOf, Beyond
<1> QED BY <1>2, <1>7, <1>12, <1>13, <1>14 DEF BooksRight, Growing

LEMMA CreatedBookInv ==
  ASSUME Created, present \subseteq Pages
  PROVE  BookInv
<1>1. TypeOK /\ BooksRight
  BY CreatedTyped, CreatedBooks
<1>2. live = {} /\ EndInBounds
  BY HeapParameters DEF Created, EndInBounds
<1>3. IsFiniteSet(live) /\ PayloadKept
  BY <1>2, FS_EmptySet DEF PayloadKept
<1> QED BY <1>1, <1>2, <1>3 DEF BookInv

(* What every step leaves of the blocks, a panic included.                  *)
LEMMA LiveStaysFinite ==
  ASSUME IsFiniteSet(live), [Next]_vars
  PROVE  IsFiniteSet(live')
<1>1. CASE live' = live
  BY <1>1
<1>2. CASE \E b : live' = live \union {b}
  BY <1>2, FS_AddElement
<1>3. CASE \E b : live' = live \ {b}
  BY <1>3, FS_RemoveElement
<1>4. Request \/ Expand \/ UNCHANGED vars => live' = live
  BY DEF Request, Expand, ExpandHeap, Panic, vars
<1>5. Place => live' = live \/ \E b : live' = live \union {b}
  BY PlaceCases DEF Panic
<1>6. (\E b \in live : Free(b)) => live' = live \/ \E b : live' = live \ {b}
  BY DEF Free, Panic
<1> QED BY <1>1, <1>2, <1>3, <1>4, <1>5, <1>6 DEF Next

LEMMA PanicKeepsCells ==
  ASSUME [Next]_vars, status' # "running"
  PROVE  mem' = mem /\ live' = live
<1>1. Request \/ UNCHANGED vars => mem' = mem /\ live' = live
  BY DEF Request, vars
<1>2. Expand => mem' = mem /\ live' = live
  BY DEF Expand, ExpandHeap, GiveGrowth, Panic
<1>3. Place => mem' = mem /\ live' = live
  BY PlaceCases DEF Panic
<1>4. (\E b \in live : Free(b)) => mem' = mem /\ live' = live
  BY DEF Free, Panic
<1> QED BY <1>1, <1>2, <1>3, <1>4 DEF Next

LEMMA StepKeepsBounds ==
  ASSUME RequestsCannotWrap, TypeOK, EndInBounds, [Next]_vars
  PROVE  EndInBounds'
<1>1. CASE Request
  BY <1>1 DEF Request, EndInBounds
<1>2. CASE Expand
  BY <1>2, ExpandKeepsBounds
<1>3. CASE Place
  BY <1>3, PlaceCases DEF Panic, EndInBounds
<1>4. CASE \E b \in live : Free(b)
  BY <1>4, FreeKeepsBounds
<1>5. CASE UNCHANGED vars
  BY <1>5 DEF EndInBounds, vars
<1> QED BY <1>1, <1>2, <1>3, <1>4, <1>5 DEF Next

LEMMA StepKeepsBooks ==
  ASSUME ContainedClients, BookInv, [Next]_vars, status' = "running"
  PROVE  BooksRight'
<1>1. CASE Request
  BY <1>1, RequestKeepsBooks
<1>2. CASE Expand
  BY <1>2, ExpandKeepsBooks
<1>3. CASE Place
  BY <1>3, PlaceKeepsBooks
<1>4. CASE \E b \in live : Free(b)
  BY <1>4, FreeKeepsBooks
<1>5. CASE UNCHANGED vars
  <2>1. BooksRight
    BY <1>5 DEF BookInv, vars
  <2> QED BY <1>5, <2>1 DEF BooksRight, Growing, OnlyLast, Holes, EndsInHole, IsLast, RightOf, Fits, Need, vars
<1> QED BY <1>1, <1>2, <1>3, <1>4, <1>5 DEF Next

LEMMA BookInvStep ==
  ASSUME ContainedClients, BookInv, [Next]_vars
  PROVE  BookInv'
<1>1. TypeOK /\ EndInBounds /\ IsFiniteSet(live) /\ PayloadKept /\ RequestsCannotWrap
  BY DEF BookInv, ContainedClients
<1>2. TypeOK' /\ EndInBounds' /\ IsFiniteSet(live)'
  BY <1>1, StepTyped, StepKeepsBounds, LiveStaysFinite
<1>3. CASE status' = "running"
  <2>1. BooksRight'
    BY <1>3, StepKeepsBooks
  <2>2. PayloadKept'
    <3>1. Books(mem', Holes', live', endAddress')
      BY <2>1 DEF BooksRight
    <3> QED BY <3>1, BooksPayload DEF PayloadKept
  <2> QED BY <1>2, <2>1, <2>2 DEF BookInv
<1>4. CASE status' # "running"
  <2>1. PayloadKept'
    BY <1>1, <1>4, PanicKeepsCells DEF PayloadKept
  <2> QED BY <1>2, <1>4, <2>1 DEF BookInv
<1> QED BY <1>3, <1>4
-----------------------------------------------------------------------------
(* The clients of this proof find the invariant in every state.             *)
LEMMA BookInvAlways ==
  ASSUME ContainedClients
  PROVE  Spec => []BookInv
<1>1. Init => BookInv
  BY InitTyped, CreatedBookInv DEF Init, TypeOK
<1>2. BookInv /\ [Next]_vars => BookInv'
  BY BookInvStep
<1> QED BY <1>1, <1>2, PTL DEF Spec

(* The index names each hole once.                                          *)
LEMMA NamesEachOnce ==
  ASSUME NEW S, NEW arr \in Seq(S), Distinct(arr)
  PROVE  /\ IsFiniteSet(ToSet(arr)) /\ Len(arr) = Cardinality(ToSet(arr))
         /\ Len(arr) \in Nat
<1> DEFINE T == ToSet(arr)
           n == Len(arr)
           f == [i \in 1..n |-> arr[i]]
<1>1. T = {arr[i] : i \in 1..n} /\ n \in Nat
  BY ItemsOf
<1> HIDE DEF n, T
<1>2. f \in [1..n -> T] /\ \A i \in 1..n : f[i] = arr[i]
  BY <1>1
<1>3. \A i, j \in 1..n : f[i] = f[j] => i = j
  BY <1>2 DEF Distinct, n
<1>4. \A t \in T : \E i \in 1..n : f[i] = t
  BY <1>1, <1>2
<1> HIDE DEF f
<1>5. f \in Bijection(1..n, T)
  <2>1. f \in Injection(1..n, T)
    BY <1>2, <1>3, Fun_IsInj
  <2>2. f \in Surjection(1..n, T)
    BY <1>2, <1>4, Fun_IsSurj
  <2> QED BY <2>1, <2>2 DEF Bijection
<1>6. ExistsBijection(1..n, T)
  BY <1>5 DEF ExistsBijection
<1>7. IsFiniteSet(1..n) /\ Cardinality(1..n) = n
  BY <1>1, FS_Interval
<1>8. IsFiniteSet(T) /\ Cardinality(T) = Cardinality(1..n)
  BY <1>6, <1>7, FS_Bijection
<1> QED BY <1>1, <1>7, <1>8 DEF n, T

(* The blocks have as many headers as there are blocks.                     *)
LEMMA HeadersFinite ==
  ASSUME NEW L, IsFiniteSet(L), L \subseteq [ptr : Int, size : Sizes],
         \A b, c \in L : b.ptr = c.ptr => b = c
  PROVE  /\ IsFiniteSet(HeadersOf(L)) /\ Cardinality(HeadersOf(L)) = Cardinality(L)
<1> DEFINE f == [b \in L |-> b.ptr - Hdr]
           T == HeadersOf(L)
<1>1. \A b \in L : b.ptr \in Int
  OBVIOUS
<1>2. f \in [L -> T] /\ \A t \in T : \E b \in L : f[b] = t
  BY DEF HeadersOf
<1>3. \A b, c \in L : f[b] = f[c] => b = c
  BY <1>1 DEF Hdr
<1> HIDE DEF f, T
<1>4. f \in Bijection(L, T)
  <2>1. f \in Injection(L, T)
    BY <1>2, <1>3, Fun_IsInj
  <2>2. f \in Surjection(L, T)
    BY <1>2, Fun_IsSurj
  <2> QED BY <2>1, <2>2 DEF Bijection
<1>5. ExistsBijection(L, T)
  BY <1>4 DEF ExistsBijection
<1> QED BY <1>5, FS_Bijection DEF T

(* What the books say of the cells of the arena.                            *)
LEMMA BooksTile ==
  ASSUME BooksRight, index \in Seq(Cells)
  PROVE  Tiling
<1> DEFINE U == Holes \union HeadersOf(live)
<1> PICK m : m = mem
  OBVIOUS
<1> PICK e : e = endAddress
  OBVIOUS
<1>1. Books(m, Holes, live, e) /\ Distinct(index) /\ Holes \intersect HeadersOf(live) = {}
  BY DEF BooksRight, Books
<1>2. /\ \A h \in Holes : HoleCells(h) = h..(Beyond(m, h) - 1)
      /\ \A b \in live : BlockCells(b) = BlockHeader(b)..(Beyond(m, BlockHeader(b)) - 1)
  <2>1. ASSUME NEW h \in Holes PROVE HoleCells(h) = h..(Beyond(m, h) - 1)
    <3>1. h \in Int /\ mem[h + 2] \in Int /\ Beyond(m, h) = h + mem[h + 2]
      BY <1>1, UnitCells DEF Beyond
    <3> QED BY <3>1 DEF HoleCells
  <2>2. ASSUME NEW b \in live
        PROVE  BlockCells(b) = BlockHeader(b)..(Beyond(m, BlockHeader(b)) - 1)
    <3> PICK u \in HeadersOf(live) : u = BlockHeader(b)
      BY DEF BlockHeader, HeadersOf
    <3>1. u \in Int /\ mem[u + 2] \in Int /\ Beyond(m, u) = u + mem[u + 2]
      BY <1>1, UnitCells DEF Beyond
    <3> QED BY <3>1 DEF BlockCells
  <2> QED BY <2>1, <2>2
<1>3. \A b \in live : BlockHeader(b) \in HeadersOf(live)
  BY DEF BlockHeader, HeadersOf
<1>4. \A b, c \in live : b # c => BlockHeader(b) # BlockHeader(c)
  <2>1. \A b \in live : b.ptr \in Int
    BY <1>1, RangeInUnit
  <2>2. \A b, c \in live : b.ptr = c.ptr => b = c
    BY <1>1 DEF Books
  <2> QED BY <2>1, <2>2 DEF BlockHeader, Hdr
<1>5. \A u \in U : /\ u \in Int /\ Beyond(m, u) \in Int
                   /\ Start <= u /\ u <= Beyond(m, u) /\ Beyond(m, u) <= e
  BY <1>1, UnitCells DEF Overhead, Hdr, Ftr
<1>6. Start \in Int /\ e \in Int
  BY <1>1, HeapParameters DEF Books
<1>7. \A u \in U : u..(Beyond(m, u) - 1) \subseteq Arena
  BY <1>5, <1>6 DEF Arena
<1>8. ASSUME NEW u \in U, NEW v \in U, u # v
      PROVE  (u..(Beyond(m, u) - 1)) \intersect (v..(Beyond(m, v) - 1)) = {}
  <2>1. Beyond(m, u) <= v \/ Beyond(m, v) <= u
    BY <1>1, <1>8, Beside
  <2> QED BY <1>5, <2>1
<1>9. ASSUME NEW c \in Arena
      PROVE  \E u \in U : c \in u..(Beyond(m, u) - 1)
  <2>1. PICK u \in U : u <= c /\ c < Beyond(m, u)
    BY <1>1, Covered DEF Arena
  <2>2. c \in Int
    BY <1>6 DEF Arena
  <2> QED BY <1>5, <2>1, <2>2
<1>10. \A h \in Holes : h \in U
  OBVIOUS
<1>11. \A b \in live : BlockHeader(b) \in U
  BY <1>3
<1>12. \A h \in Holes, b \in live : h # BlockHeader(b)
  BY <1>1, <1>3
<1> DEFINE Cell(u) == u..(Beyond(m, u) - 1)
<1>13. \A u, v \in U : u # v => Cell(u) \intersect Cell(v) = {}
  BY <1>8
<1>14. /\ \A h \in Holes : HoleCells(h) = Cell(h)
       /\ \A b \in live : BlockCells(b) = Cell(BlockHeader(b))
       /\ \A u \in U : Cell(u) \subseteq Arena
       /\ \A c \in Arena : \E u \in U : c \in Cell(u)
  BY <1>2, <1>7, <1>9
<1> HIDE DEF Cell
<1>15. \A u \in U : u \in Holes \/ \E b \in live : u = BlockHeader(b)
  BY DEF HeadersOf, BlockHeader
<1> HIDE DEF U
<1>16. ASSUME NEW c \in Arena
       PROVE  \/ /\ \E b \in live : c \in BlockCells(b)
                 /\ \A h \in Holes : c \notin HoleCells(h)
              \/ /\ \E h \in Holes : c \in HoleCells(h)
                 /\ \A b \in live : c \notin BlockCells(b)
  <2>1. PICK u \in U : c \in Cell(u)
    BY <1>14
  <2>2. \A v \in U : c \in Cell(v) => v = u
    BY <1>13, <2>1
  <2>3. CASE u \in Holes
    BY <1>11, <1>12, <1>14, <2>1, <2>2, <2>3
  <2>4. CASE \E b \in live : u = BlockHeader(b)
    BY <1>10, <1>12, <1>14, <2>1, <2>2, <2>4
  <2> QED BY <1>15, <2>3, <2>4
<1>17. /\ \A b \in live : BlockCells(b) \subseteq Arena
       /\ \A h \in Holes : HoleCells(h) \subseteq Arena
  BY <1>10, <1>11, <1>14
<1>18. \A b, c \in live : b # c => BlockCells(b) \intersect BlockCells(c) = {}
  BY <1>4, <1>11, <1>13, <1>14
<1>19. \A h, g \in Holes : h # g => HoleCells(h) \intersect HoleCells(g) = {}
  BY <1>10, <1>13, <1>14
<1>20. Len(index) = Cardinality(Holes)
  BY <1>1, NamesEachOnce DEF Holes
<1> QED BY <1>16, <1>17, <1>18, <1>19, <1>20 DEF Tiling

(* Each hole but the last has a block of its own on its right.              *)
LEMMA BooksFit ==
  ASSUME BooksRight, index \in Seq(Cells), IsFiniteSet(live)
  PROVE  IndexFits
<1> DEFINE B == HeadersOf(live)
           T == B \union {endAddress}
           f == [h \in Holes |-> Beyond(mem, h)]
<1>1. /\ Books(mem, Holes, live, endAddress) /\ Distinct(index) /\ Apart(mem, Holes, {})
      /\ live \subseteq [ptr : Int, size : Sizes] /\ \A b, c \in live : b.ptr = c.ptr => b = c
  BY DEF BooksRight, Books
<1>2. IsFiniteSet(B) /\ Cardinality(B) = Cardinality(live) /\ Cardinality(live) \in Nat
  BY <1>1, HeadersFinite, FS_CardinalityType
<1>3. IsFiniteSet(T) /\ Cardinality(T) <= Cardinality(live) + 1 /\ Cardinality(T) \in Nat
  <2> HIDE DEF B
  <2>1. IsFiniteSet(T) /\ Cardinality(T) = IF endAddress \in B THEN Cardinality(B) ELSE Cardinality(B) + 1
    BY <1>2, FS_AddElement
  <2> QED BY <1>2, <2>1
<1>4. \A h \in Holes : Beyond(mem, h) \in T
  <2>1. \A h \in Holes : Beyond(mem, h) = endAddress \/ Beyond(mem, h) \in Holes \union B
    BY <1>1 DEF Books, Laid
  <2>2. \A h \in Holes : Beyond(mem, h) \notin Holes
    BY <1>1 DEF Apart
  <2> HIDE DEF B
  <2> QED BY <2>1, <2>2
<1>5. ASSUME NEW h \in Holes, NEW g \in Holes, Beyond(mem, h) = Beyond(mem, g) PROVE h = g
  <2>1. /\ h \in Int /\ g \in Int /\ Beyond(mem, h) \in Int /\ Beyond(mem, g) \in Int
        /\ h + Overhead <= Beyond(mem, h) /\ g + Overhead <= Beyond(mem, g)
    BY <1>1, UnitCells
  <2>2. h # g => Beyond(mem, h) <= g \/ Beyond(mem, g) <= h
    BY <1>1, Beside
  <2> QED BY <1>5, <2>1, <2>2 DEF Overhead, Hdr, Ftr
<1> HIDE DEF T, B
<1>6. f \in [Holes -> T] /\ \A h, g \in Holes : f[h] = f[g] => h = g
  BY <1>4, <1>5
<1> HIDE DEF f
<1>7. f \in Injection(Holes, T)
  BY <1>6, Fun_IsInj
<1>8. Cardinality(Holes) <= Cardinality(T)
  BY <1>3, <1>7, FS_Injection
<1>9. Len(index) = Cardinality(Holes) /\ Len(index) \in Nat
  BY <1>1, NamesEachOnce DEF Holes
<1> QED BY <1>2, <1>3, <1>8, <1>9 DEF IndexFits

LEMMA BooksTag ==
  ASSUME BooksRight
  PROVE  TagsConsistent /\ Coalesced
<1> PICK e : e = endAddress
  OBVIOUS
<1>1. Books(mem, Holes, live, e) /\ Apart(mem, Holes, {})
  BY DEF BooksRight
<1>2. ASSUME NEW u \in Holes \union HeadersOf(live)
      PROVE  /\ u + mem[u + 2] - Ftr = Beyond(mem, u) - 2
             /\ u + mem[u + 2] - Ftr + 1 = Beyond(mem, u) - 1
             /\ u + mem[u + 2] - Ftr + Ftr = Beyond(mem, u)
  <2>1. u \in Int /\ mem[u + 2] \in Int
    BY <1>1, UnitCells
  <2> QED BY <2>1 DEF Beyond, Ftr
<1>3. ASSUME NEW h \in Holes PROVE Tagged(h, 1)
  <2>1. mem[h] = Magic /\ mem[h + 1] = 1 /\ (Beyond(mem, h) = e \/ HasFooter(mem, h))
    BY <1>1 DEF Books, TagsRight
  <2> QED BY <1>2, <2>1 DEF Tagged, HasFooter
<1>4. ASSUME NEW b \in live PROVE Tagged(BlockHeader(b), 0)
  <2> PICK h \in HeadersOf(live) : h = BlockHeader(b)
    BY DEF HeadersOf, BlockHeader
  <2>1. mem[h] = Magic /\ mem[h + 1] = 0 /\ HasFooter(mem, h)
    BY <1>1 DEF Books, TagsRight
  <2> QED BY <1>2, <2>1 DEF Tagged, HasFooter
<1>5. Coalesced
  BY <1>1 DEF Coalesced, Apart, Beyond
<1> QED BY <1>3, <1>4, <1>5 DEF TagsConsistent
-----------------------------------------------------------------------------
(***************************************************************************)
(* The books of the heap are right for contained clients.                  *)
(***************************************************************************)

(* Blocks and holes tile the arena between alloc's splits and free's       *)
(* merges, and the index names each hole once (heap.c:205-258, 284-348).   *)
THEOREM TilingHolds == ContainedClients /\ Spec => []Tiling
<1> SUFFICES ASSUME ContainedClients PROVE Spec => []Tiling
  OBVIOUS
<1>1. BookInv => Tiling
  <2>1. BookInv /\ status = "running" => Tiling
    BY BooksTile DEF BookInv, TypeOK
  <2>2. status # "running" => Tiling
    BY DEF Tiling
  <2> QED BY <2>1, <2>2
<1> QED BY <1>1, BookInvAlways, PTL

(* Each block and each hole is found from both of its ends (heap.c:237-240, *)
(* 250-255, 292, 304).                                                     *)
THEOREM TagsHold == ContainedClients /\ Spec => []TagsConsistent
<1> SUFFICES ASSUME ContainedClients PROVE Spec => []TagsConsistent
  OBVIOUS
<1>1. BookInv => TagsConsistent
  <2>1. BookInv /\ status = "running" => TagsConsistent
    BY BooksTag DEF BookInv
  <2>2. status # "running" => TagsConsistent
    BY DEF TagsConsistent
  <2> QED BY <2>1, <2>2
<1> QED BY <1>1, BookInvAlways, PTL

(* free leaves no two holes side by side (heap.c:284-317).                 *)
THEOREM CoalescedHolds == ContainedClients /\ Spec => []Coalesced
<1> SUFFICES ASSUME ContainedClients PROVE Spec => []Coalesced
  OBVIOUS
<1>1. BookInv => Coalesced
  <2>1. BookInv /\ status = "running" => Coalesced
    BY BooksTag DEF BookInv
  <2>2. status # "running" => Coalesced
    BY DEF Coalesced
  <2> QED BY <2>1, <2>2
<1> QED BY <1>1, BookInvAlways, PTL

(* The index never holds more holes than there are blocks in use, and one: *)
(* what insertOrderedArray, which looks at no limit, relies on             *)
(* (orderedArray.c:47, 59).                                                *)
THEOREM IndexFitsHolds == ContainedClients /\ Spec => []IndexFits
<1> SUFFICES ASSUME ContainedClients PROVE Spec => []IndexFits
  OBVIOUS
<1>1. BookInv => IndexFits
  <2>1. BookInv /\ status = "running" => IndexFits
    BY BooksFit DEF BookInv, TypeOK
  <2>2. status # "running" => IndexFits
    BY DEF IndexFits
  <2> QED BY <2>1, <2>2
<1> QED BY <1>1, BookInvAlways, PTL

(* No operation of the allocator writes in the cells of a block in use, in *)
(* a panic neither (heap.c:149-352).                                       *)
THEOREM PayloadKeptHolds == ContainedClients /\ Spec => []PayloadKept
<1> SUFFICES ASSUME ContainedClients PROVE Spec => []PayloadKept
  OBVIOUS
<1>1. BookInv => PayloadKept
  BY DEF BookInv
<1> QED BY <1>1, BookInvAlways, PTL

(* Two blocks of the clients share no cell, and lie in the arena.          *)
LEMMA RangesApart ==
  ASSUME NEW m, NEW H, NEW L, NEW e, Books(m, H, L, e), NEW b \in L
  PROVE  /\ b \in Abstract!Blocks /\ b.ptr + b.size <= MaxAddress
         /\ \A c \in L \ {b} : Abstract!Disjoint(b, c)
<1>1. b \in Abstract!Blocks /\ b.ptr + b.size <= MaxAddress
  <2>1. b \in [ptr : Int, size : Sizes] /\ e \in Int /\ e <= MaxAddress
    BY DEF Books
  <2>2. b.ptr \in Int /\ b.size \in Nat /\ b.ptr >= Start /\ b.ptr + b.size <= e
    BY RangeInUnit
  <2>3. b.ptr \in Start..MaxAddress /\ b.ptr + b.size <= MaxAddress
    BY <2>1, <2>2, HeapParameters
  <2> QED BY <2>1, <2>3 DEF Abstract!Blocks
<1>2. ASSUME NEW c \in L, c # b PROVE Abstract!Disjoint(b, c)
  <2> PICK u : u = b.ptr - Hdr
    OBVIOUS
  <2> PICK v : v = c.ptr - Hdr
    OBVIOUS
  <2>1. /\ u \in HeadersOf(L) /\ b.ptr \in Int
        /\ b.ptr..(b.ptr + b.size - 1) \subseteq u..(Beyond(m, u) - 1)
    BY RangeInUnit
  <2>2. /\ v \in HeadersOf(L) /\ c.ptr \in Int
        /\ c.ptr..(c.ptr + c.size - 1) \subseteq v..(Beyond(m, v) - 1)
    BY RangeInUnit
  <2>3. u # v
    <3>1. c.ptr # b.ptr
      BY <1>2 DEF Books
    <3> QED BY <2>1, <2>2, <3>1 DEF Hdr
  <2>4. Beyond(m, u) <= v \/ Beyond(m, v) <= u
    BY <2>1, <2>2, <2>3, Beside
  <2>5. u \in Int /\ v \in Int /\ Beyond(m, u) \in Int /\ Beyond(m, v) \in Int
    BY <2>1, <2>2, UnitCells
  <2>6. (u..(Beyond(m, u) - 1)) \intersect (v..(Beyond(m, v) - 1)) = {}
    BY <2>4, <2>5
  <2> QED BY <2>1, <2>2, <2>6 DEF Abstract!Disjoint, Abstract!Range
<1> QED BY <1>1, <1>2

LEMMA StepsImplement ==
  ASSUME BookInv, BookInv', [Next]_vars
  PROVE  [Abstract!Next]_live
<1>1. CASE live' = live
  BY <1>1
<1>2. CASE \E b \in live : live' = live \ {b}
  BY <1>2 DEF Abstract!Next, Abstract!Free
<1>3. ASSUME NEW b, live' = live \union {b}, status' = "running", b \notin live
      PROVE  Abstract!Alloc
  <2>1. Books(mem', Holes', live', endAddress') /\ b \in live'
    BY <1>3 DEF BookInv, BooksRight
  <2>2. /\ b \in Abstract!Blocks /\ b.ptr + b.size <= MaxAddress
        /\ \A c \in live' \ {b} : Abstract!Disjoint(b, c)
    BY <2>1, RangesApart
  <2>3. \A c \in live : Abstract!Disjoint(b, c)
    BY <1>3, <2>2
  <2> QED BY <1>3, <2>2, <2>3 DEF Abstract!Alloc
<1>4. Request \/ Expand \/ UNCHANGED vars => live' = live
  BY DEF Request, Expand, ExpandHeap, Panic, vars
<1>5. Place => live' = live \/ (status' = "running" /\ \E b : live' = live \union {b})
  BY PlaceCases DEF Panic
<1>6. ASSUME NEW b \in live, Free(b) PROVE live' = live \/ live' = live \ {b}
  BY <1>6 DEF Free, Panic
<1>7. CASE Place
  <2>1. CASE \E b : live' = live \union {b} /\ b \notin live /\ status' = "running"
    BY <1>3, <2>1 DEF Abstract!Next
  <2>2. CASE \E b : live' = live \union {b} /\ b \in live
    BY <1>1, <2>2
  <2> QED BY <1>1, <1>5, <1>7, <2>1, <2>2
<1> QED BY <1>1, <1>2, <1>4, <1>6, <1>7 DEF Next

(* Contained clients see the abstract heap of heap.h:43-47: each alloc     *)
(* hands out a block of its own inside the arena, each free takes back     *)
(* one, and nothing else changes the blocks in use.                        *)
THEOREM HeapImplementsAbstract == ContainedClients /\ Spec => ImplementsAbstractHeap
<1> SUFFICES ASSUME ContainedClients PROVE Spec => ImplementsAbstractHeap
  OBVIOUS
<1>1. Init => Abstract!Init
  BY DEF Init, Created, Abstract!Init
<1>2. BookInv /\ BookInv' /\ [Next]_vars => [Abstract!Next]_live
  BY StepsImplement
<1> QED BY <1>1, <1>2, BookInvAlways, PTL DEF Spec, ImplementsAbstractHeap, Abstract!Spec
-----------------------------------------------------------------------------
(***************************************************************************)
(* The pages.  The loop of expand steps by whole pages from the old end of *)
(* the arena, which may lie inside a page: it then visits that place of    *)
(* the pages behind, and may stop short of the last one (heap.c:31-36).    *)
(* But there the footer of the enlarged hole lies, and alloc faults unless *)
(* that page is mapped (heap.c:190-194).  free reads below the first       *)
(* header, where a footer may be (heap.c:284).                             *)
(***************************************************************************)
ArenaReached == \A c \in (Start - Ftr)..(endAddress - 1) : c \div PageSize \in present

(* The start of the page of a cell.                                         *)
LEMMA PageFloor ==
  ASSUME NEW c \in Nat
  PROVE  LET p == c \div PageSize
         IN /\ p \in Nat /\ p * PageSize \in Nat
            /\ p * PageSize <= c /\ c < p * PageSize + PageSize
            /\ \A q \in Int : q * PageSize <= c => q * PageSize <= p * PageSize
<1> DEFINE p == c \div PageSize
<1>1. PageSize \in Nat \ {0}
  BY HeapParameters
<1>2. p \in Nat /\ p * PageSize <= c /\ c < p * PageSize + PageSize /\ p * PageSize \in Nat
  BY <1>1
<1> HIDE DEF p
<1>3. ASSUME NEW q \in Int, q * PageSize <= c PROVE q * PageSize <= p * PageSize
  <2>1. q < p + 1
    <3>1. ASSUME q >= p + 1 PROVE FALSE
      <4>1. (q - p - 1) * PageSize >= 0
        BY <1>1, <1>2, <3>1
      <4>2. (q - p - 1) * PageSize = q * PageSize - p * PageSize - PageSize
        BY <1>1, <1>2
      <4>3. q * PageSize \in Int
        BY <1>1
      <4> QED BY <1>1, <1>2, <1>3, <4>1, <4>2, <4>3
    <3> QED BY <1>2, <3>1
  <2>2. (p - q) * PageSize >= 0
    BY <1>1, <1>2, <2>1
  <2>3. (p - q) * PageSize = p * PageSize - q * PageSize
    BY <1>1, <1>2
  <2>4. q * PageSize \in Int
    BY <1>1
  <2> QED BY <1>2, <2>2, <2>3, <2>4
<1> QED BY <1>2, <1>3 DEF p

(* What the allocator reads and writes between the ends of the arena.       *)
LEMMA ReachedAccess ==
  ASSUME NEW top \in Int, top <= MaxAddress, NEW pages,
         \A c \in (Start - Ftr)..(top - 1) : c \div PageSize \in pages,
         NEW a \in Int, Start - Ftr <= a, NEW n \in Int, a + n <= top
  PROVE  Accessible(a, n, pages)
<1>1. MaxAddress \in Int /\ Start \in Int /\ 5 <= Start
  BY HeapParameters DEF Overhead, Hdr, Ftr
<1>2. ASSUME NEW c \in a..(a + n - 1) PROVE c \in Cells /\ c \in (Start - Ftr)..(top - 1)
  BY <1>1 DEF Cells, Ftr
<1> QED BY <1>2 DEF Accessible

(* When the last page is mapped, so is every page before it.                *)
LEMMA GrowthReaches ==
  ASSUME TypeOK, ArenaReached, NEW top \in Nat, top <= MaxAddress,
         (top - 1) \div PageSize \in present \union ExpandedPages(top),
         NEW c \in (Start - Ftr)..(top - 1)
  PROVE  c \div PageSize \in present \union ExpandedPages(top)
<1> PICK e \in Nat : e = endAddress
  BY DEF TypeOK
<1>1. PageSize \in Nat \ {0} /\ MaxAddress \in Nat
  BY HeapParameters
<1>2. c \in Nat /\ Start - Ftr <= c /\ c < top /\ top - 1 \in Nat
  BY HeapParameters DEF Overhead, Hdr, Ftr
<1>3. CASE c < e
  BY <1>2, <1>3 DEF ArenaReached
<1>4. CASE c >= e
  <2> DEFINE p == c \div PageSize
             q == e \div PageSize
             r == e % PageSize
             t == q * PageSize
             pp == p * PageSize
  <2>1. /\ p \in Nat /\ pp \in Nat /\ pp <= c /\ c < pp + PageSize
    BY <1>2, PageFloor
  <2>2. q \in Nat /\ r \in Nat /\ r < PageSize /\ t \in Nat /\ e = t + r
    BY <1>1
  <2>3. t <= pp
    <3>1. q \in Int /\ t <= c
      BY <1>2, <1>4, <2>2
    <3> QED BY <1>2, <3>1, PageFloor
  <2>4. SamePlace(p) = pp + r
    BY DEF SamePlace
  <2>5. p \in Pages
    <3>1. c \in Cells
      BY <1>1, <1>2 DEF Cells
    <3> QED BY <3>1 DEF Pages
  <2> HIDE DEF t, r, pp
  <2>6. CASE SamePlace(p) < top
    BY <2>1, <2>2, <2>3, <2>4, <2>5, <2>6 DEF ExpandedPages
  <2>7. CASE ~(SamePlace(p) < top)
    <3>1. top - 1 < pp + PageSize /\ pp <= top - 1
      BY <1>1, <1>2, <2>1, <2>2, <2>4, <2>7
    <3> DEFINE z  == (top - 1) \div PageSize
               zz == z * PageSize
    <3>2. /\ z \in Nat /\ zz \in Nat /\ zz <= top - 1 /\ top - 1 < zz + PageSize
          /\ pp <= zz
      <4>1. p * PageSize <= top - 1 /\ p \in Int
        BY <2>1, <3>1 DEF pp
      <4> QED BY <1>2, <4>1, PageFloor DEF pp
    <3>3. z = p
      <4>1. z >= p
        <5>1. SUFFICES ASSUME z < p PROVE FALSE
          BY <2>1, <3>2
        <5>2. (p - z - 1) * PageSize >= 0
          BY <1>1, <2>1, <3>2, <5>1
        <5>3. (p - z - 1) * PageSize = pp - zz - PageSize
          BY <1>1, <2>1, <3>2 DEF pp
        <5> HIDE DEF zz, z
        <5> QED BY <1>1, <2>1, <3>2, <5>2, <5>3
      <4>2. z <= p
        <5>1. SUFFICES ASSUME z > p PROVE FALSE
          BY <2>1, <3>2
        <5>2. (z - p - 1) * PageSize >= 0
          BY <1>1, <2>1, <3>2, <5>1
        <5>3. (z - p - 1) * PageSize = zz - pp - PageSize
          BY <1>1, <2>1, <3>2 DEF pp
        <5> HIDE DEF zz, z
        <5> QED BY <1>1, <1>2, <2>1, <3>1, <3>2, <5>2, <5>3
      <4> HIDE DEF p, z
      <4> QED BY <2>1, <3>2, <4>1, <4>2
    <3> QED BY <3>3
  <2> QED BY <2>6, <2>7
<1> QED BY <1>2, <1>3, <1>4

(* The page the arena ends in is mapped, unless the loop passes over it.    *)
LEMMA LastPageReached ==
  ASSUME TypeOK, ArenaReached, NEW top \in Nat, top <= MaxAddress,
         Start <= endAddress, endAddress < top,
         SamePlace((top - 1) \div PageSize) <= top - 1
  PROVE  (top - 1) \div PageSize \in ExpandedPages(top)
<1> PICK e \in Nat : e = endAddress
  BY DEF TypeOK
<1> PICK last : last = top - 1
  OBVIOUS
<1> DEFINE p == last \div PageSize
           q == e \div PageSize
           r == e % PageSize
           t == q * PageSize
           pp == p * PageSize
<1>1. PageSize \in Nat \ {0} /\ MaxAddress \in Nat
  BY HeapParameters
<1>2. last \in Nat /\ e <= last /\ last < MaxAddress
  BY <1>1
<1>3. p \in Nat /\ pp \in Nat /\ pp <= last /\ last < pp + PageSize
  BY <1>2, PageFloor
<1>4. q \in Nat /\ r \in Nat /\ r < PageSize /\ t \in Nat /\ e = t + r
  BY <1>1
<1>5. t <= pp
  <2>1. q \in Int /\ t <= last
    BY <1>2, <1>4
  <2> QED BY <1>2, <2>1, PageFloor
<1>6. SamePlace(p) = pp + r
  BY DEF SamePlace
<1>7. p \in Pages
  <2>1. last \in Cells
    BY <1>1, <1>2 DEF Cells
  <2> QED BY <2>1 DEF Pages
<1> HIDE DEF p, t, r, pp
<1>8. e <= SamePlace(p) /\ SamePlace(p) < top
  <2>1. SamePlace(p) <= top - 1
    BY DEF p
  <2> QED BY <1>3, <1>4, <1>5, <1>6, <2>1
<1>9. p \in ExpandedPages(top)
  BY <1>7, <1>8 DEF ExpandedPages
<1> QED BY <1>9 DEF p

(* expand and what alloc writes at the new end (heap.c:18-40, 149-197).     *)
LEMMA ExpandRuns ==
  ASSUME ContainedClients, BookInv, ArenaReached, Expand,
         ExpandAsserts(Length, Length + Need),
         ~PassesOver(ExpandedLength(Word(Length + Need)))
  PROVE  status' = "running"
<1> PICK new : new = ExpandedLength(Word(Length + Need))
  OBVIOUS
<1> PICK e \in Nat : e = endAddress
  BY DEF BookInv, TypeOK
<1> PICK top : top = Start + new
  OBVIOUS
<1>1. /\ TypeOK /\ EndInBounds /\ BooksRight /\ pending # NoRequest /\ status = "running"
      /\ ExpandHeap(new) /\ FindSmallestHole(Need, pending.align) = 0
  BY DEF BookInv, Expand
<1> PICK grown : grown = present \union ExpandedPages(top)
  OBVIOUS
<1>2. /\ top \in Nat /\ top <= MaxAddress /\ Word(top) = top
      /\ e + Overhead <= top
      /\ \A c \in (Start - Ftr)..(top - 1) : c \div PageSize \in grown
  <2>1. /\ Length \in Nat /\ Start + Length = endAddress /\ Need = pending.size + Overhead
        /\ new \in Nat /\ new >= Length + Need
        /\ Word(Start + new) = Start + new /\ Start + new <= MaxAddress
    BY <1>1, ExpandedEnd DEF ContainedClients
  <2>2. pending.size \in Nat /\ Start \in Nat /\ MinSize \in Nat
    BY <1>1, NeedTyped, HeapParameters
  <2>3. /\ top \in Nat /\ top <= MaxAddress /\ Word(top) = top /\ e + Overhead <= top
        /\ e < top /\ Start <= e
    BY <1>1, <2>1, <2>2 DEF EndInBounds, Overhead, Hdr, Ftr
  <2>4. SamePlace((top - 1) \div PageSize) <= top - 1
    <3>1. ~PassesOver(new)
      OBVIOUS
    <3>2. SamePlace((top - 1) \div PageSize) \in Int
      BY <2>3, HeapParameters DEF SamePlace
    <3>3. Start + new - 1 = top - 1
      BY <2>1, <2>2
    <3>4. ~(SamePlace((top - 1) \div PageSize) > top - 1)
      BY <3>1, <3>3 DEF PassesOver
    <3> QED BY <2>3, <3>2, <3>4
  <2>5. (top - 1) \div PageSize \in grown
    BY <1>1, <2>3, <2>4, LastPageReached
  <2>6. \A c \in (Start - Ftr)..(top - 1) : c \div PageSize \in grown
    BY <1>1, <2>3, <2>5, GrowthReaches
  <2> QED BY <2>3, <2>6
<1>3. /\ MaxAddress < WordSize /\ WordSize \in Nat /\ MaxAddress \in Nat /\ Start \in Nat
      /\ e >= Start /\ mem \in Memory
  BY <1>1, HeapParameters DEF TypeOK, EndInBounds, Memory
<1>4. present' = grown /\ endAddress' = top
  BY <1>1, <1>2 DEF ExpandHeap, GiveGrowth
<1> DEFINE growth == new - (e - Start)
           fresh  == index = <<>>
           h      == IF fresh THEN e ELSE EndmostHole
           size   == IF fresh THEN growth ELSE Word(mem[h + 2] + growth)
           footer == Word(h + size - Ftr)
<1>6. growth = top - e /\ growth \in Nat
  <2>1. new \in Nat
    <3>1. LET n == ExpandedLength(Word(Length + Need)) IN n \in Nat
      BY <1>1, ExpandedEnd DEF ContainedClients
    <3> QED BY <3>1
  <2> QED BY <1>2, <1>3, <2>1 DEF Overhead, Hdr, Ftr
<1> HIDE DEF growth
<1>7. h \in Nat /\ h + Overhead <= top /\ h + size = top /\ Start <= h
  <2>1. CASE fresh
    BY <1>2, <1>3, <1>6, <2>1
  <2>2. CASE ~fresh
    <3>1. index \in Seq(Cells) /\ Books(mem, Holes, live, e)
      BY <1>1 DEF TypeOK, BooksRight
    <3>2. PICK l \in Holes : IsLast(l)
      <4>1. \A x \in Holes : ~Fits(x, Need, pending.align)
        BY <1>1, <3>1, NoHoleFits
      <4> QED BY <1>1, <2>2, <4>1 DEF BooksRight, Growing, EndsInHole, Holes
    <3>3. EndmostHole = l
      BY <3>1, <3>2, EndmostIsLast
    <3>4. Beyond(mem, l) = e
      BY <3>2 DEF IsLast, RightOf, Beyond
    <3>5. /\ l \in Int /\ l >= Start /\ mem[l + 2] \in Int
          /\ l + Overhead <= e /\ l + mem[l + 2] = e
      BY <3>1, <3>4, UnitCells DEF Beyond
    <3>6. Word(mem[l + 2] + growth) = top - l
      <4>1. mem[l + 2] + growth = top - l /\ top - l \in Nat /\ top - l < WordSize
        BY <1>2, <1>3, <1>6, <3>5 DEF Overhead, Hdr, Ftr
      <4> QED BY <4>1, WordKept
    <3>7. h = l /\ size = top - l
      BY <2>2, <3>3, <3>6
    <3> HIDE DEF h, size
    <3> QED BY <1>2, <1>3, <3>5, <3>7 DEF Overhead, Hdr, Ftr
  <2> QED BY <2>1, <2>2
<1>8. size \in Int
  <2>1. CASE fresh
    BY <1>6, <2>1
  <2>2. CASE ~fresh
    <3>1. size = Word(mem[h + 2] + growth)
      BY <2>2
    <3> HIDE DEF size
    <3>2. h + 2 \in Cells
      BY <1>2, <1>3, <1>7 DEF Cells, Overhead, Hdr, Ftr
    <3>3. mem[h + 2] + growth \in Int
      BY <1>3, <1>6, <3>2 DEF Memory
    <3> QED BY <3>1, <3>3, WordTyped
  <2> QED BY <2>1, <2>2
<1> HIDE DEF h, size
<1>9. footer = top - 2
  <2>1. h + size - Ftr = top - 2 /\ top - 2 \in Nat /\ top - 2 < WordSize
    BY <1>2, <1>3, <1>7, <1>8 DEF Overhead, Hdr, Ftr
  <2> QED BY <2>1, WordKept
<1> HIDE DEF footer
<1>10. Accessible(h, Hdr, grown) /\ Accessible(footer, Ftr, grown)
  <2>1. Start - Ftr <= h /\ h + Hdr <= top /\ Start - Ftr <= footer /\ footer + Ftr <= top /\ footer \in Int /\ h \in Int
        /\ Hdr \in Int /\ Ftr \in Int /\ top \in Int
    BY <1>2, <1>3, <1>7, <1>9 DEF Overhead, Hdr, Ftr
  <2> QED BY <1>2, <2>1, ReachedAccess
<1>11. status' = status
  BY <1>1, <1>10 DEF ExpandHeap, GiveGrowth, growth, h, size, footer
<1> QED BY <1>1, <1>11

(* alloc only touches the hole it takes (heap.c:205-258).                   *)
LEMMA PlaceRuns ==
  ASSUME ContainedClients, BookInv, ArenaReached, Place
  PROVE  status' = "running"
<1> PICK i : i = FindSmallestHole(Need, pending.align)
  OBVIOUS
<1> PICK h : h = index[i]
  OBVIOUS
<1> PICK c : c = Cut(h)
  OBVIOUS
<1> PICK b : b = Granted(c)
  OBVIOUS
<1> PICK e \in Nat : e = endAddress
  BY DEF BookInv, TypeOK
<1>1. /\ TypeOK /\ EndInBounds /\ BooksRight /\ pending # NoRequest /\ i # 0 /\ status = "running"
  BY PlaceCases DEF BookInv
<1>2. /\ pending.size \in Nat \ {0} /\ pending.align = FALSE /\ Need = pending.size + Overhead
  BY <1>1, NeedIs
<1>3. /\ mem \in Memory /\ index \in Seq(Cells) /\ MaxAddress < WordSize
      /\ MaxAddress \in Nat /\ WordSize \in Nat /\ Start \in Nat
      /\ Books(mem, Holes, live, e) /\ e <= MaxAddress
  BY <1>1, HeapParameters DEF TypeOK, Memory, BooksRight, EndInBounds
<1>4. h \in Holes /\ Fits(h, Need, FALSE)
  <2>1. FindSmallestHole(Need, FALSE) = i
    BY <1>2
  <2> QED BY <1>1, <1>3, <2>1, HoleFits
<1> PICK z : z = Beyond(mem, h)
  OBVIOUS
<1> PICK orig : orig = mem[h + 2]
  OBVIOUS
<1>5. /\ h \in Int /\ h >= Start /\ orig \in Int /\ z \in Int /\ z <= e
      /\ h + Overhead <= z /\ z = h + orig
  BY <1>3, <1>4, UnitCells DEF Beyond
<1>6. orig >= Need
  BY <1>2, <1>4, <1>5 DEF Fits
<1>7. /\ c.split = FALSE /\ c.pos = h
      /\ c.size = IF orig - Need < Overhead THEN orig ELSE Need
      /\ c.rest = Word(orig - c.size)
  BY <1>2 DEF Cut
<1>8. b.ptr = h + Hdr /\ b.size = pending.size
  BY <1>7 DEF Granted
<1> PICK s : s = c.size
  OBVIOUS
<1> PICK n \in Nat : n = pending.size
  BY <1>2
<1>9. /\ s \in Int /\ n + 5 <= s /\ s <= orig /\ (orig = s \/ s + 5 <= orig)
      /\ h \in Int /\ 5 <= h /\ orig \in Int /\ z = h + orig /\ z <= e /\ e < WordSize
      /\ WordSize \in Nat /\ z \in Int
  <2>1. Need = n + 5 /\ 5 = Overhead
    BY <1>2 DEF Overhead, Hdr, Ftr
  <2>2. s = IF orig - (n + 5) < 5 THEN orig ELSE n + 5
    BY <1>7, <2>1
  <2>3. 5 <= Start /\ e < WordSize
    BY <1>3, HeapParameters DEF Overhead, Hdr, Ftr
  <2>4. n + 5 <= orig
    BY <1>6, <2>1
  <2>5. h \in Int /\ orig \in Int /\ z \in Int /\ h >= Start /\ Start \in Nat /\ WordSize \in Nat
    BY <1>3, <1>5
  <2>6. 5 <= h
    BY <2>3, <2>5
  <2>7. s \in Int /\ n + 5 <= s /\ s <= orig /\ (orig = s \/ s + 5 <= orig)
    <3>1. CASE orig - (n + 5) < 5
      <4>1. s = orig
        BY <2>2, <3>1
      <4> QED BY <2>4, <2>5, <4>1
    <3>2. CASE ~(orig - (n + 5) < 5)
      <4>1. s = n + 5
        BY <2>2, <3>2
      <4> QED BY <2>4, <2>5, <3>2, <4>1
    <3> QED BY <3>1, <3>2
  <2>8. z = h + orig /\ z <= e
    BY <1>5
  <2> QED BY <2>3, <2>5, <2>6, <2>7, <2>8
<1>10. c.rest = orig - s
  <2>1. orig - s \in Nat /\ orig - s < WordSize
    BY <1>9
  <2> QED BY <1>7, <2>1, WordKept
<1> PICK low : low = Start - Ftr
  OBVIOUS
<1>0. low = Start - Ftr /\ low \in Int /\ low + 2 <= h
  BY <1>3, <1>5 DEF Ftr
<1>11. ASSUME NEW a \in Int, low <= a, NEW w \in Int, a + w <= e
       PROVE  Accessible(a, w, present)
  <2>1. \A x \in (low)..(e - 1) : x \div PageSize \in present
    BY <1>0, Zenon DEF ArenaReached
  <2>2. e <= MaxAddress /\ e \in Int /\ low \in Int /\ low = Start - Ftr
    BY <1>0, <1>3
  <2> QED BY <1>11, <2>1, <2>2, ReachedAccess
<1>12. PlaceTouches(c, h)
  <2>1. Accessible(h, Hdr, present)
    <3>1. low <= h /\ h + Hdr <= e /\ Hdr \in Int
      BY <1>0, <1>9 DEF Hdr, Ftr
    <3> QED BY <1>0, <1>5, <1>11, <3>1
  <2>2. Accessible(h + s - Ftr, Ftr, present)
    <3>1. h + s - Ftr \in Int /\ low <= h + s - Ftr /\ h + s - Ftr + Ftr <= e /\ Ftr \in Int
      BY <1>0, <1>9 DEF Ftr
    <3> QED BY <1>0, <1>11, <3>1
  <2>3. ASSUME c.rest # 0
        PROVE  Accessible(h + s, Hdr, present) /\ Accessible(Word(h + s + c.rest - Ftr), Ftr, present)
    <3>1. /\ h + s \in Int /\ low <= h + s /\ h + s + Hdr <= e /\ Hdr \in Int
      <4>1. s + 5 <= orig
        BY <1>9, <1>10, <2>3
      <4> QED BY <1>0, <1>9, <4>1 DEF Hdr, Ftr
    <3>2. h + s + c.rest - Ftr = z - 2 /\ z - 2 \in Nat /\ z - 2 < WordSize
      BY <1>9, <1>10 DEF Ftr
    <3>3. Word(h + s + c.rest - Ftr) = z - 2
      BY <3>2, WordKept
    <3>4. z - 2 \in Int /\ low <= z - 2 /\ z - 2 + Ftr <= e /\ Ftr \in Int
      BY <1>0, <1>9, <3>2 DEF Ftr
    <3>5. Accessible(z - 2, Ftr, present)
      BY <1>0, <1>11, <3>4
    <3> QED BY <1>0, <1>11, <3>1, <3>3, <3>5
  <2> QED BY <1>7, <2>1, <2>2, <2>3 DEF PlaceTouches
<1>13. Accessible(b.ptr, b.size, present)
  <2>1. h + Hdr \in Int /\ low <= h + Hdr /\ h + Hdr + n <= e /\ n \in Int
    BY <1>0, <1>9 DEF Hdr, Ftr
  <2> QED BY <1>0, <1>8, <1>11, <2>1
<1>14. status' = status
  BY <1>12, <1>13, PlaceCases DEF Panic
<1> QED BY <1>1, <1>14

(* free reads the tags of the block, of its neighbours, and of what they    *)
(* make together (heap.c:266-348).                                          *)
LEMMA FreeRuns ==
  ASSUME ContainedClients, BookInv, ArenaReached, NEW b \in live, Free(b), ~IsLast(BlockHeader(b))
  PROVE  status' = "running"
<1> PICK h : h = b.ptr - Hdr
  OBVIOUS
<1> PICK l : l = UnifyLeft(h)
  OBVIOUS
<1> PICK z : z = h + mem[h + 2]
  OBVIOUS
<1> PICK r : r = UnifyRight(l, z)
  OBVIOUS
<1> PICK c : c = IF r.end = endAddress THEN Contract(r, l.header, z)
                 ELSE [end |-> endAddress, index |-> r.index, mem |-> r.mem,
                       footer |-> l.header]
  OBVIOUS
<1> PICK e \in Nat : e = endAddress
  BY DEF BookInv, TypeOK
<1>1. /\ TypeOK /\ EndInBounds /\ BooksRight /\ MayFree(h) /\ status = "running"
      /\ Regime = "contained"
  <2>1. MayFree(h) /\ status = "running"
    BY DEF Free
  <2> QED BY <2>1 DEF BookInv, MayFree, ContainedClients
<1>2. /\ MaxAddress < WordSize /\ MaxAddress \in Nat /\ WordSize \in Nat
      /\ Start \in Nat /\ Start >= Overhead /\ MinSize \in Nat /\ MinSize >= Overhead
      /\ Books(mem, Holes, live, e) /\ e <= MaxAddress /\ Start + MinSize <= e
      /\ index \in Seq(Cells) /\ h \in HeadersOf(live)
  BY <1>1, HeapParameters DEF TypeOK, BooksRight, EndInBounds, HeadersOf, Overhead, Hdr, Ftr
<1>3. ASSUME NEW a \in Int, Start - Ftr <= a, NEW n \in Int, a + n <= e
      PROVE  Accessible(a, n, present)
  <2>1. \A x \in (Start - Ftr)..(e - 1) : x \div PageSize \in present
    BY Zenon DEF ArenaReached
  <2> QED BY <1>2, <1>3, <2>1, ReachedAccess
<1>4. z = Beyond(mem, h)
  BY DEF Beyond
<1>5. ASSUME NEW u \in Holes \union HeadersOf(live) PROVE Accessible(u, Hdr, present)
  <2>1. u \in Int /\ Start - Ftr <= u /\ u + Hdr <= e /\ Hdr \in Int
    <3>1. /\ u \in Int /\ u >= Start /\ u + Overhead <= Beyond(mem, u) /\ Beyond(mem, u) <= e
          /\ Beyond(mem, u) \in Int
      BY <1>2, UnitCells
    <3> QED BY <1>2, <3>1 DEF Overhead, Hdr, Ftr
  <2> QED BY <1>3, <2>1
<1>6. h \in Int /\ h >= Start /\ h + Overhead <= z /\ z <= e /\ z \in Int /\ z # e /\ 5 <= h
  <2>1. h \in Int /\ h >= Start /\ h + Overhead <= z /\ z <= e /\ z \in Int
    BY <1>2, <1>4, UnitCells
  <2>2. z # e
    BY DEF IsLast, RightOf, BlockHeader
  <2>3. 5 <= Start
    BY <1>2 DEF Overhead, Hdr, Ftr
  <2> QED BY <1>2, <2>1, <2>2, <2>3
<1>7. LeftSound(h)
  <2>1. mem[h] = Magic /\ HasFooter(mem, h)
    BY <1>2 DEF Books, TagsRight
  <2>2. Accessible(h, Hdr, present)
    BY <1>2, <1>5
  <2>3. Accessible(z - Ftr, Ftr, present) /\ mem[z - Ftr] = Magic
    <3>1. z - Ftr \in Int /\ Start - Ftr <= z - Ftr /\ z - Ftr + Ftr <= e /\ Ftr \in Int /\ z - Ftr = z - 2
      BY <1>2, <1>6 DEF Overhead, Hdr, Ftr
    <3> QED BY <1>3, <1>4, <2>1, <3>1 DEF HasFooter
  <2>4. /\ Accessible(LeftFooter(h), Ftr, present)
        /\ LeftFooter(h) = h - 2 /\ LeftFooter(h) + 1 = h - 1
    <3>1. /\ h - 2 \in Int /\ Start - Ftr <= h - 2 /\ h - 2 + Ftr <= e /\ Ftr \in Int
          /\ h - Ftr = h - 2 /\ (h - 2) + 1 = h - 1
      BY <1>2, <1>6 DEF Overhead, Hdr, Ftr
    <3> QED BY <1>3, <3>1 DEF LeftFooter
  <2>5. ASSUME mem[h - 2] = Magic PROVE Accessible(mem[h - 1], Hdr, present)
    <3>1. h # Start
      BY <1>2, <2>5 DEF Books, TagsRight
    <3>2. h \in Holes \union HeadersOf(live) /\ Books(mem, Holes, live, e)
      BY <1>2
    <3>3. PICK u \in Holes \union HeadersOf(live) : Beyond(mem, u) = h
      <4>1. ASSUME NEW v \in Holes \union HeadersOf(live), v # Start
            PROVE  \E u \in Holes \union HeadersOf(live) : Beyond(mem, u) = v
        <5>1. Books(mem, Holes, live, e)
          BY <3>2
        <5> QED BY <4>1, <5>1, OnTheLeft
      <4> QED BY <3>1, <3>2, <4>1
    <3>4. h # e
      BY <1>2, <1>6 DEF Overhead, Hdr, Ftr
    <3>5. HasFooter(mem, u)
      <4>1. CASE u \in Holes
        BY <3>2, <3>3, <3>4, <4>1 DEF Books, TagsRight
      <4>2. CASE u \in HeadersOf(live)
        BY <3>2, <4>2 DEF Books, TagsRight
      <4> QED BY <4>1, <4>2
    <3>6. mem[h - 1] = u
      BY <3>3, <3>5 DEF HasFooter
    <3> QED BY <1>5, <3>6
  <2>6. h + mem[h + 2] - Ftr = z - Ftr
    <3>1. PICK m, H, L : m = mem /\ H = Holes /\ L = live
      OBVIOUS
    <3>2. Books(m, H, L, e) /\ h \in H \union HeadersOf(L)
      BY <1>2, <3>1
    <3>3. h \in Int /\ m[h + 2] \in Int
      BY <3>2, UnitCells
    <3>4. PICK size \in Int, a \in Int : size = mem[h + 2] /\ a = h
      BY <3>1, <3>3
    <3>5. a + (size - Ftr) = (a + size) - Ftr
      BY DEF Ftr
    <3> QED BY <3>4, <3>5
  <2>7. mem[LeftFooter(h)] = mem[h - 2] /\ mem[LeftFooter(h) + 1] = mem[h - 1]
    BY <2>4
  <2> QED BY <2>1, <2>2, <2>3, <2>4, <2>5, <2>6, <2>7 DEF LeftSound
<1>8. LeftDone(l, h, b)
  BY <1>1, LeftStage
<1> PICK hd : hd = l.header
  OBVIOUS
<1>9. RightSound(l, z)
  <2>1. /\ Books(l.mem, Holes \union {hd}, live \ {b}, e) /\ Beyond(l.mem, hd) = z
    BY <1>4, <1>8 DEF LeftDone
  <2>2. hd \in (Holes \union {hd}) \union HeadersOf(live \ {b})
    OBVIOUS
  <2>3. z \in (Holes \union {hd}) \union HeadersOf(live \ {b}) /\ hd # z
    <3>1. Beyond(l.mem, hd) = e \/ Beyond(l.mem, hd) \in (Holes \union {hd}) \union HeadersOf(live \ {b})
      BY <2>1 DEF Books, Laid
    <3>2. hd \in Int /\ hd + Overhead <= Beyond(l.mem, hd)
      BY <2>1, <2>2, UnitCells
    <3> QED BY <1>6, <2>1, <3>1, <3>2 DEF Overhead, Hdr, Ftr
  <2>4. z \in Holes \union HeadersOf(live)
    BY <2>3 DEF HeadersOf
  <2>5. Accessible(z, Hdr, present)
    BY <1>5, <2>4
  <2>6. ASSUME IsRightHole(l.mem, z) PROVE PositionOf(index, z) # 0
    <3>1. z \notin HeadersOf(live \ {b})
      <4>1. \A x \in HeadersOf(live \ {b}) : l.mem[x + 1] = 0
        BY <2>1 DEF Books, TagsRight
      <4> QED BY <2>6, <4>1 DEF IsRightHole
    <3>2. z \in Holes
      BY <2>3, <3>1
    <3> QED BY <1>2, <3>2, PositionFound DEF Holes
  <2> QED BY <2>5, <2>6 DEF RightSound
<1>10. FreePath(b, h, l, z, r, c)
  BY <1>1 DEF FreePath
<1>11. /\ RightDone(r, hd, z, b)
       /\ \/ c.end = endAddress /\ c.footer = hd
          \/ c.end = Start + MinSize /\ c.footer = Start + MinSize - Ftr
  BY <1>1, <1>9, <1>10, FreeStages
<1>12. hd \in Int /\ hd >= Start /\ hd + Overhead <= e
  <2> PICK K : K = (Holes \union {hd}) \ {z}
    OBVIOUS
  <2>1. Books(r.mem, K, live \ {b}, e) /\ hd \in K
    BY <1>11 DEF RightDone
  <2>2. hd \in K \union HeadersOf(live \ {b})
    BY <2>1
  <2>3. /\ hd \in Int /\ hd >= Start /\ hd + Overhead <= Beyond(r.mem, hd)
        /\ Beyond(r.mem, hd) \in Int /\ Beyond(r.mem, hd) <= e
    BY <2>1, <2>2, UnitCells
  <2> QED BY <2>3 DEF Overhead, Hdr, Ftr
<1>13. ContractSound(r, hd)
  <2>1. hd - Start \in Nat /\ hd - Start < WordSize /\ hd - Start < Length
    BY <1>2, <1>12 DEF Length, Overhead, Hdr, Ftr
  <2> QED BY <2>1, WordKept DEF ContractSound
<1>14. Accessible(c.footer, Ftr, present)
  <2>1. Ftr \in Int /\ hd + Ftr <= e /\ Start - Ftr <= hd
    BY <1>2, <1>12 DEF Overhead, Hdr, Ftr
  <2>2. /\ Start + MinSize - Ftr \in Int /\ Start - Ftr <= Start + MinSize - Ftr
        /\ Start + MinSize - Ftr + Ftr <= e
    BY <1>2 DEF Overhead, Hdr, Ftr
  <2> QED BY <1>3, <1>11, <1>12, <2>1, <2>2
<1>15. status' = status
  BY <1>7, <1>9, <1>13, <1>14 DEF Free
<1> QED BY <1>1, <1>15

LEMMA LowerEnd ==
  ASSUME NEW z \in Int, NEW a \in Int, NEW b \in Int, a <= b
  PROVE  \A x \in z..(a - 1) : x \in z..(b - 1)
  OBVIOUS

(* While the kernel runs it reaches the arena to its end.                   *)
LEMMA ExpandReaches ==
  ASSUME ContainedClients, BookInv, ArenaReached, Expand, status' = "running"
  PROVE  ArenaReached'
<1> PICK new : new = ExpandedLength(Word(Length + Need))
  OBVIOUS
<1> PICK e \in Nat : e = endAddress
  BY DEF BookInv, TypeOK
<1> PICK top : top = Start + new
  OBVIOUS
<1> PICK grown : grown = present \union ExpandedPages(top)
  OBVIOUS
<1>1. /\ TypeOK /\ EndInBounds /\ BooksRight /\ pending # NoRequest
      /\ FindSmallestHole(Need, pending.align) = 0
      /\ ExpandAsserts(Length, Length + Need) /\ ExpandHeap(new)
  BY DEF BookInv, Expand, Panic
<1>2. /\ top \in Nat /\ top <= MaxAddress /\ Word(top) = top /\ e + Overhead <= top
      /\ new - (e - Start) = top - e
  <2>1. /\ Length \in Nat /\ Start + Length = endAddress /\ Need = pending.size + Overhead
        /\ new \in Nat /\ new >= Length + Need
        /\ Word(Start + new) = Start + new /\ Start + new <= MaxAddress
    BY <1>1, ExpandedEnd DEF ContainedClients
  <2>2. pending.size \in Nat /\ Start \in Nat /\ endAddress \in Nat
    BY <1>1, NeedTyped, HeapParameters DEF TypeOK
  <2> QED BY <2>1, <2>2 DEF Overhead, Hdr, Ftr
<1>3. endAddress' = top /\ present' = grown /\ GiveGrowth(e, new, grown)
  BY <1>1, <1>2 DEF ExpandHeap, GiveGrowth
<1>4. MaxAddress \in Nat /\ MaxAddress < WordSize /\ WordSize \in Nat
  BY HeapParameters
<1>5. Accessible(top - 2, Ftr, grown)
  <2>0. top - 2 \in Nat /\ Word(top - 2) = top - 2
    <3>1. top - 2 \in Nat /\ top - 2 < WordSize
      BY <1>2, <1>4 DEF Overhead, Hdr, Ftr
    <3> QED BY <3>1, WordKept
  <2>1. CASE index = <<>>
    <3>1. Accessible(Word(e + (top - e) - Ftr), Ftr, grown)
      BY <1>2, <1>3, <2>1 DEF GiveGrowth
    <3>2. e + (top - e) - Ftr = top - 2
      BY <1>2 DEF Ftr
    <3> QED BY <2>0, <3>1, <3>2
  <2>2. CASE index # <<>>
    <3> PICK s : s = Word(mem[EndmostHole + 2] + (top - e))
      OBVIOUS
    <3>1. Accessible(Word(EndmostHole + s - Ftr), Ftr, grown)
      BY <1>2, <1>3, <2>2 DEF GiveGrowth
    <3>2. PICK l \in Holes : IsLast(l)
      <4>1. \A x \in Holes : ~Fits(x, Need, pending.align)
        BY <1>1, NoHoleFits DEF TypeOK
      <4> QED BY <1>1, <2>2, <4>1 DEF BooksRight, Growing, EndsInHole, Holes
    <3>3. EndmostHole = l /\ Books(mem, Holes, live, endAddress)
      BY <1>1, <3>2, EndmostIsLast DEF BooksRight
    <3>4. Beyond(mem, l) = e
      BY <3>2 DEF IsLast, RightOf, Beyond
    <3>5. l \in Int /\ l >= Start /\ mem[l + 2] \in Int /\ l + mem[l + 2] = e
          /\ l + Overhead <= e
      BY <3>3, <3>4, UnitCells DEF Beyond
    <3>6. s = top - l
      <4>1. /\ mem[l + 2] + (top - e) = top - l /\ top - l \in Nat /\ top - l < WordSize
        BY <1>2, <1>4, <3>5, HeapParameters DEF Overhead, Hdr, Ftr
      <4> QED BY <3>3, <4>1, WordKept
    <3>7. EndmostHole + s - Ftr = top - 2
      BY <1>2, <3>3, <3>5, <3>6 DEF Ftr
    <3> QED BY <2>0, <3>1, <3>7
  <2> QED BY <2>1, <2>2
<1>6. (top - 1) \div PageSize \in grown
  <2>1. top - 1 \in (top - 2)..(top - 2 + Ftr - 1)
    BY <1>2 DEF Ftr
  <2> QED BY <1>5, <2>1 DEF Accessible
<1>7. \A c \in (Start - Ftr)..(top - 1) : c \div PageSize \in grown
  BY <1>1, <1>2, <1>6, GrowthReaches
<1> QED BY <1>3, <1>7 DEF ArenaReached

LEMMA StepReaches ==
  ASSUME ContainedClients, BookInv, ArenaReached, [Next]_vars, status' = "running"
  PROVE  ArenaReached'
<1>1. CASE Request \/ Place \/ UNCHANGED vars
  BY <1>1, PlaceCases DEF Request, Panic, vars, ArenaReached
<1>2. CASE Expand
  BY <1>2, ExpandReaches
<1>3. CASE \E b \in live : Free(b)
  <2>1. PICK b \in live : Free(b)
    BY <1>3
  <2>2. endAddress' \in {endAddress, Start + MinSize} /\ present' = present
    <3>1. present' = present
      BY <2>1 DEF Free, Panic
    <3>2. endAddress' \in {endAddress, Start + MinSize}
      BY <2>1, FreeKeepsBooks
    <3> QED BY <3>1, <3>2
  <2>3. /\ endAddress \in Nat /\ Start + MinSize <= endAddress
        /\ Start \in Nat /\ MinSize \in Nat
    BY HeapParameters DEF BookInv, TypeOK, EndInBounds
  <2>4. \A x \in (Start - Ftr)..(endAddress' - 1) : x \in (Start - Ftr)..(endAddress - 1)
    <3>1. endAddress' \in Int /\ endAddress \in Int /\ endAddress' <= endAddress
          /\ Start - Ftr \in Int
      BY <2>2, <2>3 DEF Ftr
    <3> QED BY <3>1, LowerEnd
  <2> QED BY <2>2, <2>4 DEF ArenaReached
<1> QED BY <1>1, <1>2, <1>3 DEF Next

LEMMA InitReached == Init => ArenaReached
<1> SUFFICES ASSUME Init PROVE ArenaReached
  OBVIOUS
<1>1. endAddress = InitialEnd /\ present = Mapped
  BY DEF Init, Created
<1>2. /\ Start \in Nat /\ PageSize \in Nat /\ InitialEnd \in Nat
      /\ \A c \in (Start - Ftr)..(InitialEnd - 1) : c \in (Start - PageSize)..(InitialEnd - 1)
  BY HeapParameters DEF Overhead, Hdr, Ftr
<1> QED BY <1>1, <1>2, MappedPages DEF ArenaReached

(* What PanicsAtTheEdge is proved from.                                     *)
EdgeInv == BookInv /\ (status = "running" => ArenaReached)

LEMMA EdgeStep ==
  ASSUME ContainedClients, EdgeInv, [Next]_vars
  PROVE  status' = "running" => ArenaReached'
<1> SUFFICES ASSUME status' = "running" PROVE ArenaReached'
  OBVIOUS
<1>1. status = "running"
  BY PlaceCases DEF Next, vars, Request, Expand, Free
<1> QED BY <1>1, StepReaches DEF EdgeInv

(***************************************************************************)
(* Whatever contained clients ask for, the kernel stops in three places    *)
(* only: where expand asserts that the arena cannot grow (heap.c:25),      *)
(* where the page the arena then ends in is one that expand's loop passed  *)
(* over (heap.c:31-36, 192), and where free looks for a header behind the  *)
(* arena's end (heap.c:298-301).                                           *)
(***************************************************************************)
THEOREM PanicsAtTheEdge == ContainedClients /\ Spec => PanicsAtTheEdgeOnly
<1> SUFFICES ASSUME ContainedClients PROVE Spec => PanicsAtTheEdgeOnly
  OBVIOUS
<1>1. Init => (status = "running" => ArenaReached)
  BY InitReached
<1>2. BookInv /\ (status = "running" => ArenaReached) /\ [Next]_vars
        => (status = "running" => ArenaReached)'
  BY EdgeStep DEF EdgeInv
<1>3. BookInv /\ (status = "running" => ArenaReached) /\ [Next]_vars =>
        [/\ Place => status' = "running"
         /\ Expand /\ ExpandAsserts(Length, Length + Need) =>
              \/ status' = "running"
              \/ PassesOver(ExpandedLength(Word(Length + Need)))
         /\ \A b \in live :
              Free(b) /\ ~IsLast(BlockHeader(b)) => status' = "running"]_vars
  BY PlaceRuns, ExpandRuns, FreeRuns, PlaceCases DEF Expand, Free
<1> QED BY <1>1, <1>2, <1>3, BookInvAlways, PTL DEF Spec, PanicsAtTheEdgeOnly
=============================================================================
