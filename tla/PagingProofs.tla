---------------------------- MODULE PagingProofs ----------------------------
(***************************************************************************)
(* What holds of hal/x86/memory/paging.c for any number of frames, tables  *)
(* of any span, any leftover value of first_frame and any sequence of      *)
(* expansions and contractions of the heap.                                *)
(* Then what holds when the heap lies on top of these tables and takes     *)
(* further tables from itself: ComposedInv, for the steps of HeapPaging,   *)
(* where the heap's own steps are those of HeapProofs (HP).                *)
(***************************************************************************)
EXTENDS HeapPaging, SequenceTheorems, TLAPS

Blank == [present |-> FALSE, frame |-> 0]
Entry == [present : BOOLEAN, frame : Frames]

-----------------------------------------------------------------------------
(* set_frame of a frame's address marks that frame (paging.c:49-55), and    *)
(* clear_frame of a frame's number clears bit 0 (paging.c:58-64, 132).      *)
LEMMA FrameOfAddress ==
  ASSUME NEW f \in Nat
  PROVE  FrameNumber(f * FrameSize) = f
<1>1. FrameSize \in Nat /\ FrameSize > 0
  BY FrameParameters
<1> QED BY <1>1 DEF FrameNumber

LEMMA FrameOfNumber ==
  ASSUME NEW f \in Frames
  PROVE  FrameNumber(f) = 0
<1>1. FrameSize \in Nat /\ FrameSize > 0 /\ f \in Nat /\ f < FrameSize
  BY FrameParameters DEF Frames
<1> QED BY <1>1 DEF FrameNumber

LEMMA ZeroIsFrame == 0 \in Frames /\ NoFrame \notin Frames /\ Frames \subseteq Nat
  BY FrameParameters DEF Frames, NoFrame

-----------------------------------------------------------------------------
(***************************************************************************)
(* The books: every frame that backs a page is marked and backs no other,  *)
(* frame 0 aside, until first_frame runs off its end.                      *)
(***************************************************************************)
FramesInv == TypeOK /\ NoSharedFrame /\ BackedFramesMarked

LEMMA FramesInit == Init => FramesInv
<1> SUFFICES ASSUME Init PROVE FramesInv
  OBVIOUS
<1>1. frames \subseteq Frames
  BY FrameParameters DEF Init, Frames
<1>2. entry \in [Pages -> Entry] /\ \A p \in Pages : entry[p].frame = 0
  BY ZeroIsFrame DEF Init, Entry
<1> QED BY <1>1, <1>2, PageParameters
        DEF Init, FramesInv, TypeOK, NoSharedFrame, BackedFramesMarked, Entry

(* alloc_frame leaves the page alone, panics, or backs it with the frame    *)
(* first_frame returned (paging.c:97-120).                                  *)
LEMMA AllocCases ==
  ASSUME NEW p, AllocFrame(p)
  PROVE  \/ UNCHANGED <<frames, entry, exhausted, phase>>
         \/ phase' = "panic" /\ UNCHANGED <<frames, entry>>
            /\ exhausted' = (exhausted \/ ~FreeFrameSeen)
         \/ \E f \in Frames :
              /\ entry[p].frame = 0
              /\ FreeFrameSeen => IsFirstFrame(f)
              /\ exhausted' = (exhausted \/ ~FreeFrameSeen)
              /\ frames' = frames \union {f} /\ phase' = phase
              /\ entry' = [entry EXCEPT ![p] = [present |-> TRUE, frame |-> f]]
<1>1. CASE entry[p].frame # 0
  BY <1>1 DEF AllocFrame
<1>2. CASE entry[p].frame = 0
  <2>1. PICK f \in Frames \union {NoFrame} :
          /\ IF FreeFrameSeen THEN IsFirstFrame(f) ELSE f \in Residue
          /\ exhausted' = (exhausted \/ ~FreeFrameSeen)
          /\ IF f = NoFrame
             THEN phase' = "panic" /\ UNCHANGED <<frames, entry>>
             ELSE /\ SetFrame(f * FrameSize)
                  /\ entry' = [entry EXCEPT ![p] = [present |-> TRUE, frame |-> f]]
                  /\ UNCHANGED phase
    BY <1>2 DEF AllocFrame
  <2>2. CASE f = NoFrame
    BY <2>1, <2>2
  <2>3. CASE f # NoFrame
    <3>1. f \in Frames /\ f \in Nat
      BY <2>1, <2>3, ZeroIsFrame
    <3>2. frames' = frames \union {f}
      BY <2>1, <2>3, <3>1, FrameOfAddress DEF SetFrame
    <3> QED BY <1>2, <2>1, <2>3, <3>1, <3>2
  <2> QED BY <2>2, <2>3
<1> QED BY <1>1, <1>2

(* free_frame forgets the page's frame and clears bit 0 (paging.c:123-135). *)
LEMMA FreeCases ==
  ASSUME TypeOK, NEW p \in Pages, FreeFrame(p)
  PROVE  \/ UNCHANGED <<frames, entry>>
         \/ /\ frames' = frames \ {0}
            /\ entry' = [entry EXCEPT ![p] = [present |-> entry[p].present, frame |-> 0]]
<1>1. entry[p] \in Entry
  BY DEF TypeOK, Entry
<1>2. FrameNumber(entry[p].frame) = 0
  BY <1>1, FrameOfNumber DEF Entry
<1>3. [entry[p] EXCEPT !.frame = 0] = [present |-> entry[p].present, frame |-> 0]
  BY <1>1 DEF Entry
<1> QED BY <1>2, <1>3 DEF FreeFrame, ClearFrame

(* Backing a page keeps the books.                                          *)
LEMMA AllocKeepsBooks ==
  ASSUME FramesInv, NEW p, AllocFrame(p)
  PROVE  /\ frames' \subseteq Frames /\ entry' \in [Pages -> Entry]
         /\ phase' \in {phase, "panic"} /\ exhausted' \in BOOLEAN
         /\ NoSharedFrame' /\ BackedFramesMarked'
<1>1. /\ frames \subseteq Frames /\ entry \in [Pages -> Entry] /\ exhausted \in BOOLEAN
      /\ NoSharedFrame /\ BackedFramesMarked
  BY DEF FramesInv, TypeOK, Entry
<1>2. CASE UNCHANGED <<frames, entry, exhausted, phase>>
  BY <1>1, <1>2 DEF NoSharedFrame, BackedFramesMarked
<1>3. CASE phase' = "panic" /\ UNCHANGED <<frames, entry>>
           /\ exhausted' = (exhausted \/ ~FreeFrameSeen)
  BY <1>1, <1>3 DEF NoSharedFrame, BackedFramesMarked
<1>4. ASSUME NEW f \in Frames,
             FreeFrameSeen => IsFirstFrame(f),
             exhausted' = (exhausted \/ ~FreeFrameSeen),
             frames' = frames \union {f}, phase' = phase,
             entry' = [entry EXCEPT ![p] = [present |-> TRUE, frame |-> f]]
      PROVE  /\ frames' \subseteq Frames /\ entry' \in [Pages -> Entry]
             /\ phase' \in {phase, "panic"} /\ exhausted' \in BOOLEAN
             /\ NoSharedFrame' /\ BackedFramesMarked'
  <2> DEFINE r == [present |-> TRUE, frame |-> f]
  <2>1. r \in Entry /\ r.frame = f /\ entry' = [entry EXCEPT ![p] = r]
    BY <1>4 DEF Entry
  <2> HIDE DEF r
  <2>2. /\ entry' \in [Pages -> Entry]
        /\ \A q \in Pages : q # p => entry'[q] = entry[q]
        /\ p \in Pages => entry'[p].frame = f
    BY <1>1, <2>1
  <2>3. ~exhausted' => ~exhausted /\ f \notin frames
    BY <1>4 DEF IsFirstFrame
  <2>4. ~exhausted' => \A q \in Pages : q # p /\ entry[q].frame # 0 => entry[q].frame # f
    BY <1>1, <2>3 DEF BackedFramesMarked
  <2>5. NoSharedFrame'
    BY <1>1, <2>2, <2>3, <2>4 DEF NoSharedFrame
  <2>6. BackedFramesMarked'
    BY <1>1, <1>4, <2>2, <2>3 DEF BackedFramesMarked
  <2>7. exhausted' \in BOOLEAN
    BY <1>1, <1>4 DEF FreeFrameSeen
  <2> QED BY <1>1, <1>4, <2>2, <2>5, <2>6, <2>7
<1> QED BY <1>2, <1>3, <1>4, AllocCases

(* Giving a page's frame back keeps them: the bit that is cleared is not    *)
(* the frame's, and no page is known to use frame 0.                        *)
LEMMA FreeKeepsBooks ==
  ASSUME FramesInv, NEW p \in Pages, FreeFrame(p), exhausted' = exhausted
  PROVE  /\ frames' \subseteq Frames /\ entry' \in [Pages -> Entry]
         /\ NoSharedFrame' /\ BackedFramesMarked'
<1>1. /\ frames \subseteq Frames /\ entry \in [Pages -> Entry] /\ TypeOK
      /\ NoSharedFrame /\ BackedFramesMarked
  BY DEF FramesInv, TypeOK, Entry
<1>2. CASE UNCHANGED <<frames, entry>>
  BY <1>1, <1>2 DEF NoSharedFrame, BackedFramesMarked
<1>3. CASE /\ frames' = frames \ {0}
           /\ entry' = [entry EXCEPT ![p] = [present |-> entry[p].present, frame |-> 0]]
  <2> DEFINE r == [present |-> entry[p].present, frame |-> 0]
  <2>1. r \in Entry /\ r.frame = 0 /\ entry' = [entry EXCEPT ![p] = r]
    BY <1>1, <1>3, ZeroIsFrame DEF Entry
  <2> HIDE DEF r
  <2>2. /\ entry' \in [Pages -> Entry] /\ entry'[p].frame = 0
        /\ \A q \in Pages : q # p => entry'[q] = entry[q]
    BY <1>1, <2>1
  <2>3. NoSharedFrame'
    BY <1>1, <2>2 DEF NoSharedFrame
  <2>4. BackedFramesMarked'
    BY <1>1, <1>3, <2>2 DEF BackedFramesMarked
  <2> QED BY <1>1, <1>3, <2>2, <2>3, <2>4
<1> QED BY <1>1, <1>2, <1>3, FreeCases

(* A table costs placement memory, so the placement address only grows.     *)
LEMMA GetPageGrows ==
  ASSUME TypeOK, NEW p \in Nat, GetPage(p)
  PROVE  tables' \subseteq Nat /\ placement' \in Nat /\ placement <= placement'
<1>1. TableSpan \in Nat /\ TableSpan > 0 /\ tables \subseteq Nat /\ placement \in Nat
  BY PageParameters DEF TypeOK
<1>2. p \div TableSpan \in Nat
  BY <1>1
<1> QED BY <1>1, <1>2 DEF GetPage, AfterKmalloc, TableOf

LEMMA FramesStep == FramesInv /\ [Next]_vars => FramesInv'
<1> SUFFICES ASSUME FramesInv, [Next]_vars PROVE FramesInv'
  OBVIOUS
<1>1. /\ frames \subseteq Frames /\ entry \in [Pages -> Entry] /\ i \in Nat
      /\ tables \subseteq Nat /\ placement \in Nat /\ exhausted \in BOOLEAN
      /\ phase \in {"tables", "identity", "back", "running", "panic"}
      /\ TypeOK /\ NoSharedFrame /\ BackedFramesMarked
  BY DEF FramesInv, TypeOK, Entry
<1>2. HeapFirst \in Nat /\ HeapPages \subseteq Pages
  BY PageParameters DEF HeapPages, Pages
<1>3. CASE MakeHeapTables
  <2>1. /\ UNCHANGED <<frames, entry, exhausted>> /\ i' \in Nat
        /\ phase' \in {"tables", "identity"}
        /\ tables' \subseteq Nat /\ placement' \in Nat
    <3>1. CASE i < HeapFirst + HeapInitial
      <4>1. GetPage(i) /\ i' = i + 1 /\ UNCHANGED <<frames, entry, exhausted, phase>>
        BY <1>3, <3>1 DEF MakeHeapTables
      <4> QED BY <1>1, <1>3, <4>1, GetPageGrows DEF MakeHeapTables
    <3>2. CASE ~(i < HeapFirst + HeapInitial)
      <4>1. phase' = "identity" /\ i' = 0 /\ UNCHANGED <<tables, placement>>
        BY <1>3, <3>2 DEF MakeHeapTables
      <4>2. UNCHANGED <<frames, entry, exhausted>>
        BY <1>3 DEF MakeHeapTables
      <4> QED BY <1>1, <4>1, <4>2
    <3> QED BY <3>1, <3>2
  <2> QED BY <1>1, <2>1 DEF FramesInv, TypeOK, Entry, NoSharedFrame, BackedFramesMarked
<1>4. CASE IdentityMap
  <2>1. CASE i < placement + 1
    <3>1. GetPage(i) /\ AllocFrame(i) /\ i' = i + 1
      BY <1>4, <2>1 DEF IdentityMap
    <3>2. tables' \subseteq Nat /\ placement' \in Nat /\ i' \in Nat
      BY <1>1, <3>1, GetPageGrows
    <3> QED BY <1>1, <3>1, <3>2, AllocKeepsBooks DEF FramesInv, TypeOK, Entry
  <2>2. CASE ~(i < placement + 1)
    BY <1>1, <1>2, <1>4, <2>2
       DEF IdentityMap, FramesInv, TypeOK, Entry, NoSharedFrame, BackedFramesMarked
  <2> QED BY <2>1, <2>2
<1>5. CASE BackHeap
  <2>1. CASE i < HeapFirst + HeapInitial
    <3>1. AllocFrame(i) /\ i' = i + 1 /\ UNCHANGED <<tables, placement>>
      BY <1>5, <2>1 DEF BackHeap
    <3> QED BY <1>1, <3>1, AllocKeepsBooks DEF FramesInv, TypeOK, Entry
  <2>2. CASE ~(i < HeapFirst + HeapInitial)
    BY <1>1, <1>5, <2>2
       DEF BackHeap, FramesInv, TypeOK, Entry, NoSharedFrame, BackedFramesMarked
  <2> QED BY <2>1, <2>2
<1>6. ASSUME NEW p \in HeapPages, ExpandPage(p) PROVE FramesInv'
  BY <1>1, <1>6, AllocKeepsBooks DEF ExpandPage, FramesInv, TypeOK, Entry
<1>7. ASSUME NEW p \in HeapPages, ContractPage(p) PROVE FramesInv'
  BY <1>1, <1>2, <1>7, FreeKeepsBooks DEF ContractPage, FramesInv, TypeOK, Entry
<1>8. CASE UNCHANGED vars
  BY <1>1, <1>8 DEF vars, FramesInv, TypeOK, Entry, NoSharedFrame, BackedFramesMarked
<1> QED BY <1>3, <1>4, <1>5, <1>6, <1>7, <1>8 DEF Next

(* Page table entries and the bitmap name frames that exist, whatever       *)
(* first_frame leaves in its register (paging.c:76-120).                    *)
THEOREM TypeCorrect == Spec => []TypeOK
<1>1. FramesInv => TypeOK
  BY DEF FramesInv
<1> QED BY <1>1, FramesInit, FramesStep, PTL DEF Spec

(* Two pages share no frame but frame 0 as long as a frame was always       *)
(* found (alloc_frame, paging.c:97-120), though free_frame clears the wrong *)
(* bit.                                                                     *)
THEOREM NoSharedFrameHolds == Spec => []NoSharedFrame
<1>1. FramesInv => NoSharedFrame
  BY DEF FramesInv
<1> QED BY <1>1, FramesInit, FramesStep, PTL DEF Spec

(* The frame of a backed page keeps its bit (set_frame, paging.c:49-55).    *)
THEOREM BackedFramesMarkedHolds == Spec => []BackedFramesMarked
<1>1. FramesInv => BackedFramesMarked
  BY DEF FramesInv
<1> QED BY <1>1, FramesInit, FramesStep, PTL DEF Spec

-----------------------------------------------------------------------------
(***************************************************************************)
(* The identity mapping.  While low memory is mapped, the marked frames of *)
(* the zeroed part of the bitmap are exactly the pages mapped so far, so   *)
(* first_frame returns the number of the very page alloc_frame works on.   *)
(***************************************************************************)
Identity(p) == [present |-> TRUE, frame |-> p]
Untouched ==
  phase = "tables" => /\ \A f \in frames : Zeroed <= f
                      /\ \A p \in Pages : entry[p] = Blank
MappedSoFar ==
  phase = "identity" /\ RamSuffices =>
    /\ i <= placement + 1
    /\ \A f \in Frames : f < Zeroed => (f \in frames <=> f < i)
    /\ \A p \in Pages : entry[p] = IF p < i THEN Identity(p) ELSE Blank
LowKept ==
  phase \in {"back", "running"} => /\ IdentityComplete
                                   /\ phase = "back" => HeapFirst <= i
IdentityInv == Untouched /\ MappedSoFar /\ LowKept

LEMMA IdentityInit == Init => IdentityInv
  BY FrameParameters DEF Init, IdentityInv, Untouched, MappedSoFar, LowKept, Frames, Blank

(* What alloc_frame does to the pages other than the one it works on.       *)
LEMMA AllocElsewhere ==
  ASSUME TypeOK, NEW p, AllocFrame(p)
  PROVE  \A q \in Pages : q # p \/ entry[q].frame # 0 => entry'[q] = entry[q]
<1>1. entry \in [Pages -> Entry]
  BY DEF TypeOK, Entry
<1>2. ASSUME NEW f \in Frames, entry[p].frame = 0,
             entry' = [entry EXCEPT ![p] = [present |-> TRUE, frame |-> f]],
             NEW q \in Pages, q # p \/ entry[q].frame # 0
      PROVE  entry'[q] = entry[q]
  BY <1>1, <1>2
<1> QED BY <1>2, AllocCases

(* One turn of the mapping loop (paging.c:270-286).                         *)
LEMMA MapOne ==
  ASSUME TypeOK, MappedSoFar, phase = "identity", RamSuffices, i < placement + 1,
         AllocFrame(i)
  PROVE  /\ \A f \in Frames : f < Zeroed => (f \in frames' <=> f < i + 1)
         /\ \A p \in Pages : entry'[p] = IF p < i + 1 THEN Identity(p) ELSE Blank
         /\ phase' = "identity"
<1>1. /\ frames \subseteq Frames /\ entry \in [Pages -> Entry] /\ i \in Nat /\ placement \in Nat
      /\ \A f \in Frames : f < Zeroed => (f \in frames <=> f < i)
      /\ \A p \in Pages : entry[p] = IF p < i THEN Identity(p) ELSE Blank
  BY DEF TypeOK, Entry, MappedSoFar
<1>2. /\ i < Zeroed /\ i < (NFrames \div WordBits) * WordBits /\ i < HeapFirst
  <2> DEFINE bits == (NFrames \div WordBits) * WordBits
  <2>1. bits \in Int
    BY FrameParameters
  <2>2. i <= placement /\ placement < Zeroed /\ placement < bits /\ placement < HeapFirst
    BY <1>1 DEF RamSuffices
  <2> HIDE DEF bits
  <2>3. i < Zeroed /\ i < bits /\ i < HeapFirst
    BY <1>1, <2>1, <2>2, FrameParameters, PageParameters
  <2> QED BY <2>3 DEF bits
<1>3. i \in Pages /\ i \in Frames /\ Frames \subseteq Nat /\ Pages \subseteq Nat
  BY <1>1, <1>2, FrameParameters, PageParameters DEF Pages, Frames
<1>4. entry[i] = Blank /\ entry[i].frame = 0
  BY <1>1, <1>3 DEF Blank
<1>5. i \in Searched \ frames /\ FreeFrameSeen
  BY <1>1, <1>2, <1>3 DEF Searched, FreeFrameSeen
<1>6. \A f \in Frames : IsFirstFrame(f) => f = i
  <2> SUFFICES ASSUME NEW f \in Frames, IsFirstFrame(f) PROVE f = i
    OBVIOUS
  <2>1. f <= i /\ f \notin frames
    BY <1>5 DEF IsFirstFrame
  <2>2. f < Zeroed => ~(f < i)
    BY <1>1, <2>1
  <2> QED BY <1>1, <1>2, <1>3, <2>1, <2>2, FrameParameters
<1>7. PICK f \in Frames \union {NoFrame} :
        /\ IsFirstFrame(f)
        /\ IF f = NoFrame
           THEN phase' = "panic" /\ UNCHANGED <<frames, entry>>
           ELSE /\ SetFrame(f * FrameSize)
                /\ entry' = [entry EXCEPT ![i] = [present |-> TRUE, frame |-> f]]
                /\ UNCHANGED phase
  BY <1>4, <1>5 DEF AllocFrame
<1>8. f \in Frames /\ f # NoFrame
  BY <1>7, ZeroIsFrame DEF IsFirstFrame, Searched
<1>9. f = i /\ f \in Nat
  BY <1>3, <1>6, <1>7, <1>8
<1>10. /\ frames' = frames \union {i} /\ phase' = "identity"
       /\ entry' = [entry EXCEPT ![i] = Identity(i)]
  BY <1>7, <1>8, <1>9, FrameOfAddress DEF SetFrame, Identity
<1>11. \A f1 \in Frames : f1 < Zeroed => (f1 \in frames' <=> f1 < i + 1)
  BY <1>1, <1>3, <1>10
<1>12. \A p \in Pages : entry'[p] = IF p < i + 1 THEN Identity(p) ELSE Blank
  BY <1>1, <1>3, <1>10
<1> QED BY <1>10, <1>11, <1>12

LEMMA IdentityStep == TypeOK /\ TypeOK' /\ IdentityInv /\ [Next]_vars => IdentityInv'
<1> SUFFICES ASSUME TypeOK, TypeOK', IdentityInv, [Next]_vars PROVE IdentityInv'
  OBVIOUS
<1>1. /\ frames \subseteq Frames /\ entry \in [Pages -> Entry] /\ i \in Nat /\ placement \in Nat
      /\ Untouched /\ MappedSoFar /\ LowKept /\ Frames \subseteq Nat /\ Pages \subseteq Nat
      /\ HeapFirst \in Nat /\ Zeroed \in Nat /\ placement' \in Nat
  BY FrameParameters, PageParameters DEF TypeOK, Entry, IdentityInv, Frames, Pages
<1>2. CASE MakeHeapTables
  <2>1. UNCHANGED <<frames, entry>>
    BY <1>2 DEF MakeHeapTables
  <2>2. CASE phase' = "tables" /\ phase = "tables"
    BY <1>1, <2>1, <2>2 DEF IdentityInv, Untouched, MappedSoFar, LowKept
  <2>3. CASE phase' = "identity" /\ i' = 0 /\ phase = "tables"
    <3>1. \A f \in frames : Zeroed <= f
      BY <1>1, <2>3 DEF Untouched
    <3>2. \A f \in Frames : f < Zeroed => f \notin frames
      BY <1>1, <3>1
    <3>3. \A p \in Pages : entry[p] = Blank /\ ~(p < 0)
      BY <1>1, <2>3 DEF Untouched
    <3>4. 0 <= placement' + 1
      <4>1. PICK c \in Nat : c = placement'
        BY <1>1
      <4>2. 0 <= c + 1
        OBVIOUS
      <4> QED BY <4>1, <4>2
    <3>5. \A f \in Frames : ~(f < 0)
      BY <1>1
    <3>6. MappedSoFar'
      BY <2>1, <2>3, <3>2, <3>3, <3>4, <3>5 DEF MappedSoFar
    <3> QED BY <2>3, <3>6 DEF IdentityInv, Untouched, LowKept
  <2> QED BY <1>2, <2>2, <2>3 DEF MakeHeapTables
<1>3. CASE IdentityMap
  <2>1. CASE i < placement + 1
    <3>1. phase = "identity" /\ GetPage(i) /\ AllocFrame(i) /\ i' = i + 1
      BY <1>3, <2>1 DEF IdentityMap
    <3>2. placement <= placement'
      BY <1>1, <3>1, GetPageGrows
    <3>3. RamSuffices' => RamSuffices
      <4> DEFINE bits == (NFrames \div WordBits) * WordBits
      <4>1. bits \in Int
        BY FrameParameters
      <4> HIDE DEF bits
      <4>2. placement' < Zeroed /\ placement' < bits /\ placement' < HeapFirst
              => placement < Zeroed /\ placement < bits /\ placement < HeapFirst
        BY <1>1, <3>2, <4>1
      <4> QED BY <4>2 DEF RamSuffices, bits
    <3>4. phase' \in {"identity", "panic"}
      BY <3>1, AllocCases
    <3>5. MappedSoFar'
      <4> SUFFICES ASSUME phase' = "identity", RamSuffices'
                   PROVE  /\ i' <= placement' + 1
                          /\ \A f \in Frames : f < Zeroed => (f \in frames' <=> f < i')
                          /\ \A p \in Pages : entry'[p] = IF p < i' THEN Identity(p) ELSE Blank
        BY DEF MappedSoFar, RamSuffices
      <4>1. i' <= placement' + 1
        <5>1. i \in Nat /\ placement \in Nat /\ placement' \in Nat /\ i' = i + 1
          BY <1>1, <3>1
        <5>2. PICK c \in Nat : c = placement'
          BY <5>1
        <5>3. placement <= c
          BY <3>2, <5>2
        <5>4. i + 1 <= c + 1
          BY <2>1, <5>1, <5>3
        <5> QED BY <5>1, <5>2, <5>4
      <4> QED BY <1>1, <2>1, <3>1, <3>3, <4>1, MapOne
    <3> QED BY <3>4, <3>5 DEF IdentityInv, Untouched, LowKept
  <2>2. CASE ~(i < placement + 1)
    <3>1. /\ phase = "identity" /\ phase' = "back" /\ i' = HeapFirst
          /\ UNCHANGED <<placement, frames, entry>>
      BY <1>3, <2>2 DEF IdentityMap
    <3>2. RamSuffices => \A p \in Pages : p < placement => entry[p] = Identity(p)
      BY <1>1, <2>2, <3>1 DEF MappedSoFar
    <3>3. IdentityComplete'
      BY <3>1, <3>2 DEF IdentityComplete, RamSuffices, Identity
    <3> QED BY <1>1, <3>1, <3>3 DEF IdentityInv, Untouched, MappedSoFar, LowKept
  <2> QED BY <2>1, <2>2
<1>4. ASSUME phase \in {"back", "running"}, placement' = placement,
             \A q \in Pages : q < HeapFirst => entry'[q] = entry[q],
             phase' \in {"back", "running", "panic"}, phase' = "back" => HeapFirst <= i'
      PROVE  IdentityInv'
  <2>1. RamSuffices' => RamSuffices
    BY <1>4 DEF RamSuffices
  <2>2. IdentityComplete'
    <3> SUFFICES ASSUME RamSuffices', NEW p \in Pages, p < placement'
                 PROVE  entry'[p] = Identity(p)
      BY DEF IdentityComplete, Identity, RamSuffices
    <3>1. RamSuffices /\ p < placement /\ p < HeapFirst
      BY <1>1, <1>4, <2>1 DEF RamSuffices
    <3>2. entry[p] = Identity(p)
      BY <1>1, <1>4, <3>1 DEF LowKept, IdentityComplete, Identity
    <3> QED BY <1>4, <3>1, <3>2
  <2> QED BY <1>4, <2>2 DEF IdentityInv, Untouched, MappedSoFar, LowKept
<1>5. CASE BackHeap
  <2>1. CASE i < HeapFirst + HeapInitial
    <3>1. /\ phase = "back" /\ AllocFrame(i) /\ i' = i + 1 /\ placement' = placement
      BY <1>5, <2>1 DEF BackHeap
    <3>2. HeapFirst <= i /\ HeapFirst <= i'
      BY <1>1, <3>1 DEF LowKept
    <3>3. \A q \in Pages : q < HeapFirst => entry'[q] = entry[q]
      BY <1>1, <3>1, <3>2, AllocElsewhere
    <3>4. phase' \in {"back", "panic"}
      BY <3>1, AllocCases
    <3> QED BY <1>4, <3>1, <3>2, <3>3, <3>4
  <2>2. CASE ~(i < HeapFirst + HeapInitial)
    BY <1>4, <1>5, <2>2 DEF BackHeap
  <2> QED BY <2>1, <2>2
<1>6. ASSUME NEW p \in HeapPages, ExpandPage(p) PROVE IdentityInv'
  <2>1. phase = "running" /\ AllocFrame(p) /\ UNCHANGED <<placement, i>>
    BY <1>6 DEF ExpandPage
  <2>2. \A q \in Pages : q < HeapFirst => q # p
    BY <1>1 DEF HeapPages
  <2>3. phase' \in {"running", "panic"}
    BY <2>1, AllocCases
  <2> QED BY <1>4, <2>1, <2>2, <2>3, AllocElsewhere
<1>7. ASSUME NEW p \in HeapPages, ContractPage(p) PROVE IdentityInv'
  <2>1. phase = "running" /\ FreeFrame(p) /\ UNCHANGED <<placement, i, phase>>
    BY <1>7 DEF ContractPage
  <2>2. p \in Pages /\ \A q \in Pages : q < HeapFirst => q # p
    BY <1>1 DEF HeapPages, Pages
  <2>3. \A q \in Pages : q # p => entry'[q] = entry[q]
    BY <1>1, <2>1, <2>2, FreeCases
  <2> QED BY <1>4, <2>1, <2>2, <2>3
<1>8. CASE UNCHANGED vars
  BY <1>1, <1>8 DEF vars, IdentityInv, Untouched, MappedSoFar, LowKept, IdentityComplete,
                    RamSuffices
<1> QED BY <1>2, <1>3, <1>5, <1>6, <1>7, <1>8 DEF Next

(* When paging is switched on, low memory is mapped to itself up to the     *)
(* placement address, however many tables the mapping made while it ran     *)
(* (paging.c:269-296), and the heap's pages never disturb it.               *)
THEOREM IdentityCompleteHolds == Spec => []IdentityComplete
<1>1. FramesInv => TypeOK
  BY DEF FramesInv
<1>2. IdentityInv => IdentityComplete
  BY DEF IdentityInv, LowKept, IdentityComplete
<1> QED BY <1>1, <1>2, FramesInit, FramesStep, IdentityInit, IdentityStep, PTL DEF Spec

-----------------------------------------------------------------------------
(***************************************************************************)
(* The heap on top of the page tables.  Its own proofs are used through    *)
(* this instance, whose clients may also ask for a page table.             *)
(***************************************************************************)
HP == INSTANCE HeapProofs
        WITH Sizes <- Sizes \union {TableSize}, Aligns <- Aligns \union {TRUE},
             Mapped <- BootPages

LEMMA HeapAssumptions ==
  /\ PageSize \in Nat \ {0} /\ PageSize > HP!Overhead
  /\ Start \in Nat /\ Start >= PageSize
  /\ MinSize \in Nat /\ MinSize >= 2 * PageSize /\ MinSize % PageSize = 0
  /\ InitialEnd \in Nat /\ Start + MinSize <= InitialEnd
  /\ Start % PageSize = 0 /\ InitialEnd % PageSize = 0
  /\ MaxAddress \in Nat /\ InitialEnd <= MaxAddress
  /\ WordSize \in Nat /\ MaxAddress < WordSize
  /\ Magic \in Nat /\ MaxAddress - Start < Magic /\ Magic < WordSize
BY HeapConstants DEF H!Overhead, H!Hdr, H!Ftr, HP!Overhead, HP!Hdr, HP!Ftr

LEMMA ClientAssumptions ==
  /\ Sizes \union {TableSize} \subseteq Nat \ {0}
  /\ Aligns \union {TRUE} \subseteq BOOLEAN
  /\ MaxLive \in Nat /\ MaxRequests \in Nat
  /\ Regime \in {"none", "contained", "no_right_hole", "any"}
<1>1. TableSize \in Nat \ {0}
  BY HeapConstants, CompositionParameters
<1> QED BY <1>1, ClientConstants

-----------------------------------------------------------------------------
(* Pages, the tables they belong to, and the pages of the heap.             *)
LEMMA PageNumbers ==
  /\ HeapFirst \in Nat \ {0} /\ HeapInitial \in Nat /\ NPages \in Nat
  /\ HeapFirst + HeapInitial <= NPages /\ 0 \in Pages /\ 0 \notin HeapPages
  /\ Pages \subseteq Nat /\ HeapPages \subseteq Pages
  /\ \A p \in Pages : p \in HeapPages <=> p >= HeapFirst
BY PageParameters DEF Pages, HeapPages

LEMMA FewerTimes ==
  ASSUME NEW a \in Nat, NEW b \in Nat, NEW s \in Nat \ {0}, a * s < b * s + s
  PROVE  a <= b
<1>1. a >= b + 1 => a * s >= b * s + s
  <2>1. SUFFICES ASSUME a >= b + 1 PROVE a * s >= b * s + s
    OBVIOUS
  <2>2. PICK d \in Nat : a = b + 1 + d
    <3>1. a - b - 1 \in Nat /\ a = b + 1 + (a - b - 1)
      BY <2>1
    <3> QED BY <3>1
  <2>3. a * s = b * s + s + d * s /\ d * s >= 0
    BY <2>2
  <2>4. b * s \in Nat /\ a * s \in Nat /\ d * s \in Nat
    OBVIOUS
  <2> QED BY <2>3, <2>4
<1>2. a * s \in Nat /\ b * s \in Nat
  OBVIOUS
<1> QED BY <1>1, <1>2

LEMMA TableNumbers ==
  /\ \A p \in Nat : TableOf(p) \in Nat
  /\ \A p, q \in Nat : p <= q => TableOf(p) <= TableOf(q)
  /\ \A p, q \in Nat : p < HeapFirst /\ HeapFirst <= q => TableOf(p) # TableOf(q)
<1>1. TableSpan \in Nat \ {0} /\ HeapFirst \in Nat /\ HeapFirst % TableSpan = 0
  BY PageParameters, CompositionParameters
<1>2. \A p \in Nat : /\ p \div TableSpan \in Nat
                     /\ (p \div TableSpan) * TableSpan <= p
                     /\ p < (p \div TableSpan) * TableSpan + TableSpan
  BY <1>1
<1>3. HeapFirst = (HeapFirst \div TableSpan) * TableSpan
  BY <1>1
<1>4. ASSUME NEW p \in Nat, NEW q \in Nat, p <= q
      PROVE  p \div TableSpan <= q \div TableSpan
  <2> DEFINE a == p \div TableSpan
             b == q \div TableSpan
  <2>1. a \in Nat /\ b \in Nat /\ a * TableSpan <= p /\ q < b * TableSpan + TableSpan
    BY <1>2
  <2> HIDE DEF a, b
  <2>2. a * TableSpan \in Nat /\ b * TableSpan \in Nat
    BY <1>1, <2>1
  <2>3. a * TableSpan < b * TableSpan + TableSpan
    BY <1>1, <1>4, <2>1, <2>2
  <2>4. a <= b
    BY <1>1, <2>1, <2>3, FewerTimes
  <2> QED BY <2>4 DEF a, b
<1>5. ASSUME NEW p \in Nat, NEW q \in Nat, p < HeapFirst, HeapFirst <= q
      PROVE  p \div TableSpan # q \div TableSpan
  <2> DEFINE a == p \div TableSpan
             b == HeapFirst \div TableSpan
  <2>1. a \in Nat /\ b \in Nat /\ a * TableSpan <= p /\ HeapFirst = b * TableSpan
    BY <1>1, <1>2, <1>3
  <2>2. b <= q \div TableSpan /\ q \div TableSpan \in Nat
    BY <1>1, <1>2, <1>4, <1>5
  <2> HIDE DEF a, b
  <2>3. a * TableSpan \in Nat /\ b * TableSpan \in Nat
    BY <1>1, <2>1
  <2>4. ~(b <= a)
    <3>1. SUFFICES ASSUME b <= a PROVE FALSE
      OBVIOUS
    <3>2. b * TableSpan <= a * TableSpan
      <4>1. PICK d \in Nat : a = b + d
        <5>1. a - b \in Nat /\ a = b + (a - b)
          BY <2>1, <3>1
        <5> QED BY <5>1
      <4>2. a * TableSpan = b * TableSpan + d * TableSpan /\ d * TableSpan >= 0
        BY <1>1, <2>1, <4>1
      <4>3. d * TableSpan \in Nat
        BY <1>1
      <4> QED BY <2>3, <4>2, <4>3
    <3> QED BY <1>1, <1>5, <2>1, <2>3, <3>2
  <2> QED BY <2>1, <2>2, <2>4 DEF a
<1> QED BY <1>2, <1>4, <1>5 DEF TableOf

LEMMA PageArithmetic ==
  ASSUME NEW x \in Nat
  PROVE  /\ x \div PageSize \in Nat
         /\ (x + PageSize) \div PageSize = x \div PageSize + 1
         /\ x < MaxAddress => x \div PageSize \in Pages
         /\ Start <= x => HeapFirst <= x \div PageSize
         /\ Start <= x /\ x < MaxAddress => x \div PageSize \in HeapPages
         /\ \A y \in Nat : x <= y => x \div PageSize <= y \div PageSize
<1> DEFINE p == x \div PageSize
<1>1. /\ PageSize \in Nat \ {0} /\ Start \in Nat /\ NPages \in Nat /\ HeapFirst \in Nat
      /\ MaxAddress = NPages * PageSize /\ HeapFirst * PageSize < Start
  BY CompositionParameters, HeapAssumptions, PageParameters
<1>2. x \div PageSize \in Nat /\ (x + PageSize) \div PageSize = x \div PageSize + 1
  BY <1>1
<1>3. ASSUME NEW y \in Nat, x <= y PROVE x \div PageSize <= y \div PageSize
  BY <1>1, <1>3
<1>4. p \in Nat /\ p * PageSize \in Nat /\ p * PageSize <= x /\ x < p * PageSize + PageSize
  BY <1>1
<1> HIDE DEF p
<1>5. ASSUME x < MaxAddress PROVE p < NPages
  <2>1. SUFFICES ASSUME NPages <= p PROVE FALSE
    BY <1>1, <1>4
  <2>2. (p - NPages) * PageSize = p * PageSize - NPages * PageSize /\ (p - NPages) * PageSize >= 0
    BY <1>1, <1>4, <2>1
  <2> QED BY <1>1, <1>4, <1>5, <2>2
<1>6. ASSUME Start <= x PROVE HeapFirst <= p
  <2>1. HeapFirst * PageSize < p * PageSize + PageSize
    BY <1>1, <1>4, <1>6
  <2> QED BY <1>1, <1>4, <2>1, FewerTimes
<1>7. /\ x < MaxAddress => p \in Pages
      /\ Start <= x => HeapFirst <= p
      /\ Start <= x /\ x < MaxAddress => p \in HeapPages
  BY <1>1, <1>4, <1>5, <1>6 DEF Pages, HeapPages
<1> QED BY <1>2, <1>3, <1>7 DEF p

LEMMA HeapPageNumbers == H!Pages = Pages
<1>1. PageSize \in Nat \ {0} /\ NPages \in Nat /\ MaxAddress = NPages * PageSize
  BY CompositionParameters, HeapAssumptions, PageParameters
<1>2. ASSUME NEW page \in H!Pages PROVE page \in Pages
  <2>1. PICK x \in H!Cells : page = x \div PageSize
    BY DEF H!Pages
  <2>2. x \in Nat /\ x < MaxAddress
    BY HeapAssumptions DEF H!Cells
  <2> QED BY <2>1, <2>2, PageArithmetic
<1>3. ASSUME NEW page \in Pages PROVE page \in H!Pages
  <2>1. page \in Nat /\ page < NPages
    BY <1>1 DEF Pages
  <2> PICK a : a = page * PageSize
    OBVIOUS
  <2>2. a \in Nat /\ a \div PageSize = page
    BY <1>1, <2>1
  <2>3. (NPages - page) * PageSize = NPages * PageSize - page * PageSize
        /\ (NPages - page) * PageSize > 0
    BY <1>1, <2>1
  <2>4. a < MaxAddress
    BY <1>1, <2>1, <2>2, <2>3
  <2>5. a \in H!Cells
    BY <1>1, <2>2, <2>4 DEF H!Cells
  <2> QED BY <2>2, <2>5 DEF H!Pages
<1> QED BY <1>2, <1>3

(* The pages the boot maps for the heap hold its first arena, and the page  *)
(* in front of it.                                                          *)
LEMMA BootReached ==
  ASSUME NEW c \in (Start - PageSize)..(InitialEnd - 1)
  PROVE  c \div PageSize \in BootPages
<1>1. /\ PageSize \in Nat \ {0} /\ Start \in Nat /\ Start % PageSize = 0
      /\ InitialEnd \in Nat
      /\ InitialEnd = (HeapFirst + HeapInitial) * PageSize /\ Start > HeapFirst * PageSize
      /\ HeapFirst \in Nat /\ HeapInitial \in Nat
  BY HeapConstants, CompositionParameters, PageParameters
<1>2. PICK s \in Nat : Start = s * PageSize
  <2>1. Start = (Start \div PageSize) * PageSize /\ Start \div PageSize \in Nat
    BY <1>1
  <2> QED BY <2>1
<1>3. HeapFirst * PageSize <= Start - PageSize
  <2>1. ~(s <= HeapFirst)
    <3>1. SUFFICES ASSUME s <= HeapFirst PROVE FALSE
      OBVIOUS
    <3>2. PICK d \in Nat : HeapFirst = s + d
      <4>1. HeapFirst - s \in Nat /\ HeapFirst = s + (HeapFirst - s)
        BY <1>1, <1>2, <3>1
      <4> QED BY <4>1
    <3>3. HeapFirst * PageSize = s * PageSize + d * PageSize /\ d * PageSize >= 0
      BY <1>1, <1>2, <3>2
    <3> QED BY <1>1, <1>2, <3>3
  <2>2. PICK d \in Nat : s = HeapFirst + 1 + d
    <3>1. s - HeapFirst - 1 \in Nat /\ s = HeapFirst + 1 + (s - HeapFirst - 1)
      BY <1>1, <1>2, <2>1
    <3> QED BY <3>1
  <2>3. s * PageSize = HeapFirst * PageSize + PageSize + d * PageSize /\ d * PageSize >= 0
    BY <1>1, <1>2, <2>2
  <2> QED BY <1>1, <1>2, <2>3
<1> DEFINE p == c \div PageSize
<1>4. /\ c \in Nat /\ p \in Nat /\ p * PageSize <= c /\ c < p * PageSize + PageSize
      /\ HeapFirst * PageSize <= c /\ c < (HeapFirst + HeapInitial) * PageSize
  <2>1. c \in Nat
    BY <1>1, <1>3
  <2> QED BY <1>1, <1>3, <2>1
<1> HIDE DEF p
<1>5. HeapFirst <= p
  BY <1>1, <1>4, FewerTimes
<1>6. p + 1 <= HeapFirst + HeapInitial
  <2>1. (p + 1) * PageSize = p * PageSize + PageSize
    BY <1>1, <1>4
  <2>2. (p + 1) * PageSize < (HeapFirst + HeapInitial) * PageSize + PageSize
    BY <1>1, <1>4, <2>1
  <2> QED BY <1>1, <1>4, <2>2, FewerTimes
<1> QED BY <1>1, <1>4, <1>5, <1>6 DEF BootPages, p

(* What the module Heap assumes of the pages that are mapped.               *)
LEMMA BootPagesMapped ==
  /\ {c \div PageSize : c \in (Start - PageSize)..(InitialEnd - 1)} \subseteq BootPages
  /\ BootPages \subseteq {c \div PageSize : c \in 0..(MaxAddress - 1)}
<1>1. BootPages \subseteq H!Pages
  BY HeapPageNumbers, PageParameters DEF BootPages, Pages
<1> QED BY <1>1, BootReached DEF H!Pages, H!Cells

-----------------------------------------------------------------------------
(* The operators of the heap are those of the instance.                     *)
LEMMA SameHeap ==
  /\ H!NoRequest = HP!NoRequest
  /\ H!Pages = HP!Pages
  /\ \A x : H!Word(x) = HP!Word(x)
  /\ H!Need = HP!Need
  /\ H!Length = HP!Length
  /\ H!Created <=> HP!Created
  /\ \A size, align : H!FindSmallestHole(size, align) = HP!FindSmallestHole(size, align)
  /\ \A size, align : H!MayAsk(size, align) <=> HP!MayAsk(size, align)
  /\ \A need : H!ExpandedLength(need) = HP!ExpandedLength(need)
  /\ \A old, need : H!ExpandAsserts(old, need) <=> HP!ExpandAsserts(old, need)
  /\ \A oldEnd, new, pages : H!GiveGrowth(oldEnd, new, pages) <=> HP!GiveGrowth(oldEnd, new, pages)
  /\ H!Place <=> HP!Place
  /\ \A p, newEnd : H!Dropped(p, newEnd) <=> HP!Dropped(p, newEnd)
  /\ \A b : H!Free(b) <=> HP!Free(b)
<1>1. /\ H!Hdr = HP!Hdr
      /\ H!Ftr = HP!Ftr
      /\ H!Overhead = HP!Overhead
      /\ H!Payload = HP!Payload
      /\ H!NoRequest = HP!NoRequest
      /\ H!Cells = HP!Cells
      /\ H!Pages = HP!Pages
  BY DEF H!Hdr, HP!Hdr, H!Ftr, HP!Ftr, H!Overhead, HP!Overhead, H!Payload, HP!Payload, H!NoRequest, HP!NoRequest, H!Cells,
     HP!Cells, H!Pages, HP!Pages
<1>2. \A x : H!Word(x) = HP!Word(x)
  BY DEF H!Word, HP!Word
<1>3. H!Need = HP!Need
  BY <1>1, <1>2 DEF H!Need, HP!Need
<1>4. H!Length = HP!Length
  BY DEF H!Length, HP!Length
<1>5. \A a, n, pages : H!Accessible(a, n, pages) <=> HP!Accessible(a, n, pages)
  BY <1>1 DEF H!Accessible, HP!Accessible
<1>6. \A m, a, isHole, size : H!PutHeader(m, a, isHole, size) = HP!PutHeader(m, a, isHole, size)
  BY <1>1 DEF H!PutHeader, HP!PutHeader
<1>7. \A m, a, header : H!PutFooter(m, a, header) = HP!PutFooter(m, a, header)
  BY <1>1 DEF H!PutFooter, HP!PutFooter
<1>8. \A m : H!SizeKey(m) = HP!SizeKey(m)
  BY <1>1 DEF H!SizeKey, HP!SizeKey
<1>9. H!Panic <=> HP!Panic
  BY DEF H!Panic, HP!Panic
<1>10. H!Created <=> HP!Created
  BY <1>1, <1>6 DEF H!Created, HP!Created
<1>11. \A s, k : H!RemoveAt(s, k) = HP!RemoveAt(s, k)
  BY DEF H!RemoveAt, HP!RemoveAt
<1>12. \A s, k, e : H!InsertAt(s, k, e) = HP!InsertAt(s, k, e)
  BY DEF H!InsertAt, HP!InsertAt
<1>13. \A arr, item, key, k : H!IsInsertPosition(arr, item, key, k) <=> HP!IsInsertPosition(arr, item, key, k)
  BY DEF H!IsInsertPosition, HP!IsInsertPosition
<1>14. \A arr, item, key : H!InsertPosition(arr, item, key) = HP!InsertPosition(arr, item, key)
  BY <1>13 DEF H!InsertPosition, HP!InsertPosition
<1>15. \A arr, item, key : H!InsertOrderedArray(arr, item, key) = HP!InsertOrderedArray(arr, item, key)
  BY <1>12, <1>14 DEF H!InsertOrderedArray, HP!InsertOrderedArray
<1>16. \A arr, k : H!RemoveOrderedArray(arr, k) = HP!RemoveOrderedArray(arr, k)
  BY <1>11 DEF H!RemoveOrderedArray, HP!RemoveOrderedArray
<1>17. \A S : H!Min(S) = HP!Min(S)
  BY DEF H!Min, HP!Min
<1>18. \A arr, item : H!PositionOf(arr, item) = HP!PositionOf(arr, item)
  BY <1>17 DEF H!PositionOf, HP!PositionOf, H!SelectInSeq, HP!SelectInSeq
<1>19. \A h : H!AlignOffset(h) = HP!AlignOffset(h)
  BY <1>1 DEF H!AlignOffset, HP!AlignOffset
<1>20. \A h, size, align : H!Fits(h, size, align) <=> HP!Fits(h, size, align)
  <2>1. \A x : H!Signed(x) = HP!Signed(x)
    BY DEF H!Signed, HP!Signed
  <2> QED BY <1>19, <2>1 DEF H!Fits, HP!Fits
<1>21. \A size, align : H!FindSmallestHole(size, align) = HP!FindSmallestHole(size, align)
  BY <1>17, <1>20 DEF H!FindSmallestHole, HP!FindSmallestHole,
     H!SelectInSeq, HP!SelectInSeq
<1>22. \A h : H!RightOf(h) = HP!RightOf(h)
  BY DEF H!RightOf, HP!RightOf
<1>23. \A h : H!IsLast(h) <=> HP!IsLast(h)
  BY <1>22 DEF H!IsLast, HP!IsLast
<1>24. \A s : H!ToSet(s) = HP!ToSet(s)
  BY DEF H!ToSet, HP!ToSet
<1>25. H!EndsInHole <=> HP!EndsInHole
  BY <1>23, <1>24 DEF H!EndsInHole, HP!EndsInHole
<1>26. \A size, align : H!MayAsk(size, align) <=> HP!MayAsk(size, align)
  BY <1>1, <1>2, <1>21, <1>25 DEF H!MayAsk, HP!MayAsk
<1>27. \A need : H!ExpandedLength(need) = HP!ExpandedLength(need)
  BY DEF H!ExpandedLength, HP!ExpandedLength
<1>28. \A p : H!SamePlace(p) = HP!SamePlace(p)
  BY DEF H!SamePlace, HP!SamePlace
<1>29. \A old, need : H!ExpandAsserts(old, need) <=> HP!ExpandAsserts(old, need)
  BY <1>2, <1>27 DEF H!ExpandAsserts, HP!ExpandAsserts
<1>30. H!EndmostHole = HP!EndmostHole
  BY <1>24 DEF H!EndmostHole, HP!EndmostHole
<1>31. \A oldEnd, new, pages : H!GiveGrowth(oldEnd, new, pages) <=> HP!GiveGrowth(oldEnd, new, pages)
  <2> TAKE oldEnd, new, pages
  <2>1. CASE index = <<>>
    BY <1>1, <1>2, <1>5, <1>6, <1>7, <1>8, <1>15, <2>1 DEF H!GiveGrowth, HP!GiveGrowth
  <2>2. CASE index # <<>>
    BY <1>1, <1>2, <1>5, <1>6, <1>7, <1>8, <1>15, <1>30, <2>2 DEF H!GiveGrowth, HP!GiveGrowth
  <2> QED BY <2>1, <2>2
<1>32. \A m, c, h : H!FrontWrites(m, c, h) = HP!FrontWrites(m, c, h)
  BY <1>1, <1>6, <1>7 DEF H!FrontWrites, HP!FrontWrites
<1>33. \A h : H!Cut(h) = HP!Cut(h)
  BY <1>1, <1>2, <1>3, <1>32 DEF H!Cut, HP!Cut
<1>34. \A m, c : H!BlockWrites(m, c) = HP!BlockWrites(m, c)
  BY <1>1, <1>6, <1>7 DEF H!BlockWrites, HP!BlockWrites
<1>35. \A m, c, hole : H!RestWrites(m, c, hole) = HP!RestWrites(m, c, hole)
  BY <1>1, <1>2, <1>6, <1>7 DEF H!RestWrites, HP!RestWrites
<1>36. \A c, h : H!PlaceTouches(c, h) <=> HP!PlaceTouches(c, h)
  BY <1>1, <1>2, <1>5 DEF H!PlaceTouches, HP!PlaceTouches
<1>37. \A c : H!Granted(c) = HP!Granted(c)
  BY <1>1 DEF H!Granted, HP!Granted
<1>38. \A m, b : H!FillPayload(m, b) = HP!FillPayload(m, b)
  BY <1>1 DEF H!FillPayload, HP!FillPayload
<1>39. H!Place <=> HP!Place
  <2>1. \A c, h : H!CutWrites(c, h) = HP!CutWrites(c, h)
    BY <1>32, <1>34, <1>35 DEF H!CutWrites, HP!CutWrites
  <2>2. \A c, h, kept : H!PlaceIn(c, h, kept) <=> HP!PlaceIn(c, h, kept)
    BY <1>1, <1>5, <1>8, <1>9, <1>15, <1>36, <1>37, <1>38, <2>1 DEF H!PlaceIn, HP!PlaceIn
  <2> QED BY <1>1, <1>3, <1>16, <1>21, <1>33, <2>2 DEF H!Place, HP!Place
<1>40. \A n : H!PageBitSet(n) <=> HP!PageBitSet(n)
  BY DEF H!PageBitSet, HP!PageBitSet
<1>41. \A n : H!ContractedLength(n) = HP!ContractedLength(n)
  BY <1>40 DEF H!ContractedLength, HP!ContractedLength
<1>42. \A p, newEnd : H!Dropped(p, newEnd) <=> HP!Dropped(p, newEnd)
  BY <1>28 DEF H!Dropped, HP!Dropped
<1>43. \A m, newEnd : H!DropPages(m, newEnd) = HP!DropPages(m, newEnd)
  BY <1>1, <1>42 DEF H!DropPages, HP!DropPages
<1>44. \A h : H!Marked(h) = HP!Marked(h)
  BY DEF H!Marked, HP!Marked
<1>45. \A h : H!LeftFooter(h) = HP!LeftFooter(h)
  BY <1>1 DEF H!LeftFooter, HP!LeftFooter
<1>46. \A h : H!IsLeftHole(h) <=> HP!IsLeftHole(h)
  BY <1>1, <1>44, <1>45 DEF H!IsLeftHole, HP!IsLeftHole
<1>47. \A h : H!UnifyLeft(h) = HP!UnifyLeft(h)
  BY <1>2, <1>44, <1>45, <1>46 DEF H!UnifyLeft, HP!UnifyLeft
<1>48. \A m, right : H!IsRightHole(m, right) <=> HP!IsRightHole(m, right)
  BY <1>1 DEF H!IsRightHole, HP!IsRightHole
<1>49. \A l, right : H!UnifyRight(l, right) = HP!UnifyRight(l, right)
  BY <1>2, <1>16, <1>18, <1>48 DEF H!UnifyRight, HP!UnifyRight
<1>50. \A r, header, right : H!Contract(r, header, right) = HP!Contract(r, header, right)
  BY <1>1, <1>2, <1>4, <1>5, <1>7, <1>16, <1>18, <1>41, <1>43 DEF
     H!Contract, HP!Contract
<1>51. \A h : H!LeftSound(h) <=> HP!LeftSound(h)
  BY <1>1, <1>5, <1>45 DEF H!LeftSound, HP!LeftSound
<1>52. \A l, right : H!RightSound(l, right) <=> HP!RightSound(l, right)
  BY <1>1, <1>5, <1>18, <1>48 DEF H!RightSound, HP!RightSound
<1>53. \A r, header : H!ContractSound(r, header) <=> HP!ContractSound(r, header)
  BY <1>2, <1>4 DEF H!ContractSound, HP!ContractSound
<1>54. \A h : H!NoRightHole(h) <=> HP!NoRightHole(h)
  BY <1>22, <1>23, <1>24 DEF H!NoRightHole, HP!NoRightHole
<1>55. \A h : H!ReachesEnd(h) <=> HP!ReachesEnd(h)
  BY <1>22, <1>23, <1>24 DEF H!ReachesEnd, HP!ReachesEnd
<1>56. \A h : H!Survives(h) <=> HP!Survives(h)
  BY <1>1, <1>47 DEF H!Survives, HP!Survives
<1>57. \A h : H!MayFree(h) <=> HP!MayFree(h)
  BY <1>54, <1>55, <1>56 DEF H!MayFree, HP!MayFree
<1>58. \A b : H!Free(b) <=> HP!Free(b)
  BY <1>1, <1>5, <1>8, <1>9, <1>15, <1>47, <1>49, <1>50, <1>51, <1>52,
     <1>53, <1>57, SMTT(90) DEF H!Free, HP!Free
<1> QED BY <1>1, <1>2, <1>3, <1>4, <1>10, <1>21, <1>26, <1>27, <1>29, <1>31,
     <1>39, <1>42, <1>58


-----------------------------------------------------------------------------
(* What the steps of the heap do to its types and to the end of the arena.  *)
TableRequests == [size : Sizes \union {TableSize}, align : Aligns \union {TRUE}]
HeapSound == HP!TypeOK /\ HP!EndInBounds

LEMMA SoundUnlessTouched ==
  ASSUME HeapSound, UNCHANGED books, present' \subseteq H!Pages,
         pending' \in TableRequests \union {H!NoRequest}
  PROVE  HeapSound'
BY SameHeap DEF HeapSound, HP!TypeOK, HP!EndInBounds, books, TableRequests

LEMMA RequestSound ==
  ASSUME HeapSound, H!Request
  PROVE  HeapSound' /\ UNCHANGED <<endAddress, present, status>>
<1>1. MaxRequests \in Nat /\ requests \in 0..MaxRequests /\ requests < MaxRequests
      /\ requests' = requests + 1
  BY ClientConstants DEF HeapSound, HP!TypeOK, H!Request
<1>2. requests' \in 0..MaxRequests
  BY <1>1
<1>3. pending' \in TableRequests
  <2>1. PICK size \in Sizes, align \in Aligns : pending' = [size |-> size, align |-> align]
    BY DEF H!Request
  <2> QED BY <2>1 DEF TableRequests
<1>4. UNCHANGED <<mem, index, endAddress, present, live, status>>
  BY DEF H!Request
<1> QED BY <1>2, <1>3, <1>4 DEF HeapSound, HP!TypeOK, HP!EndInBounds, TableRequests

LEMMA PlaceSound ==
  ASSUME HeapSound, H!Place
  PROVE  HeapSound' /\ UNCHANGED <<endAddress, present>>
         /\ (status' = "running" => pending' = H!NoRequest)
<1>1. HP!Place
  BY SameHeap
<1>2. HP!TypeOK'
  BY <1>1, HeapAssumptions, BootPagesMapped, ClientAssumptions, HP!PlaceTyped DEF HeapSound
<1>3. UNCHANGED <<endAddress, present>> /\ (status' = "running" => pending' = H!NoRequest)
  <2>1. CASE H!Panic
    BY <2>1 DEF H!Place, H!Panic
  <2>2. CASE ~H!Panic
    BY <2>2 DEF H!Place, H!PlaceIn
  <2> QED BY <2>1, <2>2
<1> QED BY <1>2, <1>3 DEF HeapSound, HP!EndInBounds

(* The block that becomes a page table lies on a page that is mapped.       *)
LEMMA TableMapped ==
  ASSUME HeapSound, H!Place, status' = "running", pending \in TableRequests
  PROVE  TablePlaced \in Nat \ {0} /\ TablePlaced \div PageSize \in present
<1> DEFINE k     == H!FindSmallestHole(H!Need, pending.align)
           h     == index[k]
           front == H!Word(PageSize - (h % PageSize) - H!Hdr)
           block == H!Granted(H!Cut(h))
<1>1. H!Cells \subseteq Nat /\ index \in Seq(H!Cells) /\ PageSize \in Nat \ {0}
      /\ WordSize \in Nat \ {0} /\ H!Hdr = 3
  <2>1. index \in Seq(HP!Cells)
    BY DEF HeapSound, HP!TypeOK
  <2> QED BY <2>1, HeapAssumptions DEF H!Cells, HP!Cells, H!Hdr
<1>2. k \in 1..Len(index)
  <2>1. index \in Seq(HP!Cells)
    BY DEF HeapSound, HP!TypeOK
  <2>2. HP!FindSmallestHole(HP!Need, pending.align) \in 0..Len(index)
    BY <2>1, HeapAssumptions, BootPagesMapped, ClientAssumptions, HP!HoleInRange
  <2>3. k \in 0..Len(index)
    BY <2>2, SameHeap
  <2>4. k # 0
    BY DEF H!Place
  <2> QED BY <2>1, <2>3, <2>4
<1>3. h \in Nat
  <2>1. \A n \in 1..Len(index) : index[n] \in H!Cells
    BY <1>1
  <2> HIDE DEF k
  <2> QED BY <1>1, <1>2, <2>1
<1>4. front \in Int /\ H!Word(h + front) \in Nat
  <2>1. \A n \in Int : H!Word(n) \in Nat
    BY <1>1 DEF H!Word
  <2>2. PICK a \in Nat : a = h
    BY <1>3
  <2>3. a % PageSize \in Int
    BY <1>1
  <2>4. PageSize - (a % PageSize) - H!Hdr \in Int
    BY <1>1, <2>3
  <2>5. front \in Nat
    BY <2>1, <2>2, <2>4
  <2> HIDE DEF front
  <2>6. a + front \in Int
    BY <2>5
  <2> QED BY <2>1, <2>2, <2>5, <2>6
<1>5. H!Cut(h).pos = IF pending.align THEN H!Word(h + front) ELSE h
  BY DEF H!Cut
<1>6. block.ptr = H!Cut(h).pos + H!Hdr /\ block.size = pending.size
  BY DEF H!Granted
<1>7. block.ptr \in Nat \ {0} /\ block.size \in Nat \ {0}
  <2>1. pending.size \in Nat \ {0}
    BY ClientAssumptions DEF TableRequests
  <2>2. H!Cut(h).pos \in Nat
    BY <1>1, <1>3, <1>4, <1>5
  <2>3. H!Cut(h).pos + H!Hdr \in Nat \ {0}
    BY <2>2 DEF H!Hdr
  <2> QED BY <1>6, <2>1, <2>3
<1>8. H!Accessible(block.ptr, block.size, present)
  <2>1. ~H!Panic
    BY DEF H!Panic, H!Place
  <2>2. PICK kept : H!PlaceIn(H!Cut(h), h, kept)
    BY DEF H!Place
  <2> QED BY <1>6, <2>1, <2>2 DEF H!PlaceIn
<1>9. TablePlaced = block.ptr
  BY DEF TablePlaced
<1> HIDE DEF block
<1>10. block.ptr \in block.ptr..(block.ptr + block.size - 1)
  BY <1>7
<1> QED BY <1>7, <1>8, <1>9, <1>10 DEF H!Accessible

LEMMA FreeSound ==
  ASSUME HeapSound, NEW b \in live, H!Free(b)
  PROVE  HeapSound' /\ endAddress' <= endAddress /\ UNCHANGED <<present, pending>>
<1>1. HP!Free(b)
  BY SameHeap
<1>2. /\ HP!TypeOK'
      /\ \/ endAddress' = endAddress
         \/ \E n \in Nat : n < HP!Length /\ endAddress' = Start + HP!ContractedLength(n)
  BY <1>1, HeapAssumptions, BootPagesMapped, ClientAssumptions, HP!FreeTyped DEF HeapSound
<1>3. HP!EndInBounds'
  BY <1>1, HeapAssumptions, BootPagesMapped, ClientAssumptions, HP!FreeKeepsBounds DEF HeapSound
<1>4. endAddress' <= endAddress
  <2>1. /\ endAddress \in Nat /\ Start \in Nat /\ MinSize \in Nat
        /\ Start + MinSize <= endAddress
    BY HeapAssumptions DEF HeapSound, HP!TypeOK, HP!EndInBounds
  <2>2. CASE endAddress' = endAddress
    BY <2>1, <2>2
  <2>3. ASSUME NEW n \in Nat, n < HP!Length, endAddress' = Start + HP!ContractedLength(n)
        PROVE  endAddress' <= endAddress
    <3>1. HP!ContractedLength(n) \in Nat /\ (HP!ContractedLength(n) <= n \/ HP!ContractedLength(n) = MinSize)
      BY HeapAssumptions, BootPagesMapped, ClientAssumptions, HP!ContractedLengthTyped
    <3> QED BY <2>1, <2>3, <3>1 DEF HP!Length
  <2> QED BY <1>2, <2>2, <2>3
<1>5. UNCHANGED <<present, pending>>
  <2>1. CASE H!Panic
    BY <2>1 DEF H!Panic
  <2>2. CASE ~H!Panic
    BY <2>2 DEF H!Free
  <2> QED BY <2>1, <2>2
<1> QED BY <1>2, <1>3, <1>4, <1>5 DEF HeapSound

(* What expand is called with, and what alloc makes of the growth.          *)
LEMMA EnterSound ==
  ASSUME HP!RequestsCannotWrap, HeapSound, pending # H!NoRequest,
         H!ExpandAsserts(H!Length, H!Length + H!Need)
  PROVE  LET new == H!ExpandedLength(H!Word(H!Length + H!Need))
         IN /\ H!Length \in Nat /\ Start + H!Length = endAddress
            /\ new \in Nat /\ Start + MinSize <= Start + new /\ Start + new <= MaxAddress
            /\ H!Length < new
<1>1. /\ HP!TypeOK /\ HP!EndInBounds /\ pending # HP!NoRequest
      /\ HP!ExpandAsserts(HP!Length, HP!Length + HP!Need)
  BY SameHeap DEF HeapSound
<1> DEFINE new == HP!ExpandedLength(HP!Word(HP!Length + HP!Need))
<1>2. /\ HP!Length \in Nat /\ Start + HP!Length = endAddress
      /\ new \in Nat /\ new >= HP!Length + HP!Need
      /\ HP!Need = pending.size + HP!Overhead
      /\ Start + MinSize <= Start + new /\ Start + new <= MaxAddress
  BY <1>1, HeapAssumptions, BootPagesMapped, ClientAssumptions, HP!ExpandedEnd
<1>3. H!ExpandedLength(H!Word(H!Length + H!Need)) = new /\ H!Length = HP!Length
  BY SameHeap
<1> HIDE DEF new
<1>4. HP!Length < new
  <2>1. pending.size \in Nat
    BY <1>1, ClientAssumptions DEF HP!TypeOK
  <2> QED BY <1>2, <2>1 DEF HP!Overhead, HP!Hdr, HP!Ftr
<1> QED BY <1>2, <1>3, <1>4

LEMMA GrowthSound ==
  ASSUME HeapSound, NEW old \in Nat, NEW new \in Nat, NEW pages,
         H!GiveGrowth(old, new, pages), UNCHANGED <<live, requests>>,
         Start + MinSize <= Start + new, Start + new <= MaxAddress,
         present' \subseteq H!Pages, pending' \in TableRequests \union {H!NoRequest}
  PROVE  HeapSound' /\ endAddress' = Start + new
<1>1. HP!GiveGrowth(old, new, pages) /\ HP!TypeOK
  BY SameHeap DEF HeapSound
<1>2. /\ endAddress' = HP!Word(Start + new) /\ endAddress' \in Nat
      /\ mem' \in HP!Memory /\ index' \in Seq(HP!Cells)
      /\ status' \in {status, "panic"}
  BY <1>1, HeapAssumptions, BootPagesMapped, ClientAssumptions, HP!GiveGrowthTyped
<1>3. endAddress' = Start + new
  <2>1. Start + new \in Nat /\ Start + new < WordSize
    BY HeapAssumptions
  <2> QED BY <1>2, <2>1, HeapAssumptions DEF HP!Word
<1>4. HP!TypeOK'
  BY <1>1, <1>2, SameHeap DEF HP!TypeOK, HP!Memory, TableRequests
<1> QED BY <1>3, <1>4 DEF HeapSound, HP!EndInBounds

-----------------------------------------------------------------------------
(* The heap's tables are made from the bottom up: below the page the loop   *)
(* of expand is at, and below the end of the arena, none is missing.        *)
MadeBelow(n) == \A p \in HeapFirst..(n - 1) : TableOf(p) \in tables
TablesInOrder ==
  \A p, q \in HeapPages : p <= q /\ TableOf(q) \in tables => TableOf(p) \in tables

LEMMA MadeStaysMade ==
  ASSUME NEW n, MadeBelow(n), tables \subseteq tables'
  PROVE  MadeBelow(n)'
BY DEF MadeBelow

LEMMA NextTable ==
  ASSUME TablesInOrder, NEW r \in Nat, r >= HeapFirst => MadeBelow(r),
         tables' = tables \union {TableOf(r)}
  PROVE  TablesInOrder' /\ (r >= HeapFirst => \A p \in HeapFirst..r : TableOf(p) \in tables')
<1>1. HeapFirst \in Nat /\ HeapPages \subseteq Nat /\ \A p \in HeapPages : p >= HeapFirst
  BY PageNumbers
<1>2. ASSUME NEW p \in HeapPages, NEW q \in HeapPages, p <= q, TableOf(q) \in tables'
      PROVE  TableOf(p) \in tables'
  <2>1. CASE TableOf(q) \in tables
    BY <1>2, <2>1 DEF TablesInOrder
  <2>2. CASE TableOf(q) = TableOf(r)
    <3>1. r >= HeapFirst
      BY <1>1, <2>2, TableNumbers
    <3>2. CASE p < r
      <4>1. p \in HeapFirst..(r - 1)
        BY <1>1, <3>2
      <4> QED BY <3>1, <4>1 DEF MadeBelow
    <3>3. CASE r <= p
      <4>1. /\ TableOf(r) <= TableOf(p) /\ TableOf(p) <= TableOf(q)
            /\ TableOf(r) \in Nat /\ TableOf(p) \in Nat /\ TableOf(q) \in Nat
        BY <1>1, <1>2, <3>3, TableNumbers
      <4>2. TableOf(p) = TableOf(r)
        BY <2>2, <4>1
      <4> QED BY <4>2
    <3> QED BY <1>1, <3>2, <3>3
  <2> QED BY <1>2, <2>1, <2>2
<1>3. ASSUME r >= HeapFirst, NEW p \in HeapFirst..r PROVE TableOf(p) \in tables'
  <2>1. p \in HeapFirst..(r - 1) \/ p = r
    BY <1>1, <1>3
  <2> QED BY <1>3, <2>1 DEF MadeBelow
<1> QED BY <1>2, <1>3 DEF TablesInOrder

(* A page that names a frame is mapped, and one that is mapped has a table.  *)
TablesServe ==
  \A p \in Pages : /\ entry[p].frame # 0 => entry[p].present
                   /\ entry[p].present => TableOf(p) \in tables
Unbacked == {p \in HeapPages : entry[p].present /\ entry[p].frame = 0}

LEMMA AllocMapped ==
  ASSUME TypeOK, TablesServe, NEW p, AllocFrame(p), tables \subseteq tables',
         p \in Pages => TableOf(p) \in tables'
  PROVE  /\ TablesServe'
         /\ \A q \in Pages : entry[q].present => entry'[q].present
<1>1. entry \in [Pages -> Entry]
  BY DEF TypeOK, Entry
<1>2. CASE UNCHANGED entry
  BY <1>2 DEF TablesServe
<1>3. ASSUME NEW f \in Frames, entry' = [entry EXCEPT ![p] = [present |-> TRUE, frame |-> f]]
      PROVE  /\ TablesServe'
             /\ \A q \in Pages : entry[q].present => entry'[q].present
  <2> DEFINE r == [present |-> TRUE, frame |-> f]
  <2>1. r.present /\ entry' = [entry EXCEPT ![p] = r]
    BY <1>3
  <2> HIDE DEF r
  <2>2. /\ \A q \in Pages : q # p => entry'[q] = entry[q]
        /\ p \in Pages => entry'[p] = r
    BY <1>1, <2>1
  <2> QED BY <2>1, <2>2 DEF TablesServe
<1> QED BY <1>2, <1>3, AllocCases

(* What frame 0 means for the pages of the heap: as long as it is marked no *)
(* page gets it, and as soon as it is not, the next page does.              *)
LEMMA AllocZero ==
  ASSUME TypeOK, NEW p \in Pages, AllocFrame(p), ~exhausted'
  PROVE  /\ ~exhausted
         /\ entry[p].frame # 0 => UNCHANGED <<frames, entry, phase>>
         /\ entry[p].frame = 0 =>
              /\ phase' = phase /\ 0 \in frames'
              /\ 0 \notin frames => entry'[p].frame = 0
              /\ 0 \in frames => entry'[p].frame # 0
              /\ \A q \in Pages : q # p => entry'[q] = entry[q]
<1>1. entry \in [Pages -> Entry] /\ frames \subseteq Frames /\ exhausted \in BOOLEAN
  BY DEF TypeOK, Entry
<1>2. CASE entry[p].frame # 0
  BY <1>1, <1>2 DEF AllocFrame
<1>3. CASE entry[p].frame = 0
  <2>1. exhausted' = (exhausted \/ ~FreeFrameSeen)
    BY <1>3 DEF AllocFrame
  <2>2. FreeFrameSeen /\ ~exhausted
    BY <1>1, <2>1 DEF FreeFrameSeen
  <2>3. PICK f \in Frames \union {NoFrame} :
          /\ IsFirstFrame(f)
          /\ IF f = NoFrame
             THEN phase' = "panic" /\ UNCHANGED <<frames, entry>>
             ELSE /\ SetFrame(f * FrameSize)
                  /\ entry' = [entry EXCEPT ![p] = [present |-> TRUE, frame |-> f]]
                  /\ UNCHANGED phase
    BY <1>3, <2>2 DEF AllocFrame
  <2>4. f \in Frames /\ f \in Nat /\ f # NoFrame /\ f \notin frames
    BY <2>3, ZeroIsFrame DEF IsFirstFrame, Searched
  <2>5. frames' = frames \union {f}
    BY <2>3, <2>4, FrameOfAddress DEF SetFrame
  <2>6. 0 \notin frames => f = 0
    <3>1. f \in Searched
      BY <2>3 DEF IsFirstFrame
    <3>2. (NFrames \div WordBits) * WordBits \in Nat
      BY FrameParameters
    <3>3. 0 \in Searched
      BY <2>4, <3>1, <3>2, ZeroIsFrame DEF Searched
    <3> QED BY <2>3, <2>4, <3>3 DEF IsFirstFrame
  <2>7. 0 \in frames => f # 0
    BY <2>4
  <2> DEFINE r == [present |-> TRUE, frame |-> f]
  <2>8. r.frame = f /\ entry' = [entry EXCEPT ![p] = r]
    BY <2>3, <2>4
  <2> HIDE DEF r
  <2>9. entry'[p] = r /\ \A q \in Pages : q # p => entry'[q] = entry[q]
    BY <1>1, <2>8
  <2> QED BY <1>3, <2>2, <2>3, <2>4, <2>5, <2>6, <2>7, <2>8, <2>9
<1> QED BY <1>2, <1>3

-----------------------------------------------------------------------------
(* The inductive invariant.  Of the tables: the boot makes its own before   *)
(* the pages they serve are used.                                           *)
TablesInv ==
  /\ TablesInOrder /\ TablesServe
  /\ phase = "tables" => i >= HeapFirst /\ MadeBelow(i)
  /\ phase \in {"identity", "back", "running"} => MadeBelow(HeapFirst + HeapInitial)
  /\ phase = "identity" /\ i >= HeapFirst => MadeBelow(i)
  /\ phase = "back" => i >= HeapFirst

(* Before the heap is created nobody has called it, and frame 0 is taken    *)
(* for the first page of memory.                                            *)
Early == phase = "tables" \/ (phase = "identity" /\ i = 0)
FreshInv ==
  /\ kheap => phase \in {"running", "panic"}
  /\ ~kheap => /\ calls = <<>> /\ pending = H!NoRequest /\ astray = {}
               /\ endAddress = InitialEnd
               /\ Early => \A p \in Pages : entry[p].frame = 0 /\ ~entry[p].present
               /\ ~exhausted => /\ Early \/ 0 \in frames
                                /\ Unbacked = {}

(* The calls of expand that have not returned.                              *)
CallRecords ==
  [request : TableRequests, end : Nat, at : Nat, new : Nat, table : Nat,
   present : SUBSET H!Pages]
CallOK(call) ==
  /\ Start + MinSize <= Start + call.new /\ Start + call.new <= MaxAddress
  /\ MadeBelow(PageOf(call))
Calling ==
  /\ calls \in Seq(CallRecords)
  /\ \A k \in 1..Len(calls) : CallOK(calls[k]) /\ (k < Len(calls) => calls[k].table = 0)
  /\ calls # <<>> /\ Call.table # 0 =>
       /\ pending = H!NoRequest /\ Call.table \div PageSize \in H!Pages
       /\ entry[Call.table \div PageSize].present
  /\ MadeBelow(endAddress \div PageSize)

(* As long as pages that contract gave back lie ahead, the heap asks for no *)
(* page table: the growth would take frame 0 before it needs one.           *)
NextPage == IF calls = <<>> THEN endAddress \div PageSize ELSE PageOf(Call)
GivenBack ==
  ~exhausted /\ Unbacked # {} =>
    /\ 0 \notin frames /\ Len(calls) <= 1 /\ ~Nested
    /\ \E p \in Unbacked : p >= NextPage

FramesApart == TypeOK /\ (astray = {} => NoSharedFrame /\ BackedFramesMarked)
StaticInv == FramesApart /\ present = Reached /\ TablesInv /\ FreshInv
ActiveInv == status = "running" => HeapSound /\ (kheap => Calling /\ GivenBack)
ComposedInv == StaticInv /\ ActiveInv

LEMMA StaticUnlessTouched ==
  ASSUME StaticInv, kheap, UNCHANGED <<paging, present, kheap, astray>>
  PROVE  StaticInv'
BY DEF StaticInv, FramesApart, TypeOK, NoSharedFrame, BackedFramesMarked, Reached, TablesInv,
   TablesInOrder, TablesServe, MadeBelow, FreshInv, paging

LEMMA ComposedInvInit == ComposedInit => ComposedInv
<1> SUFFICES ASSUME ComposedInit PROVE ComposedInv
  OBVIOUS
<1>1. FramesApart
  BY FramesInit DEF ComposedInit, FramesInv, FramesApart
<1>2. /\ entry = [p \in Pages |-> [present |-> FALSE, frame |-> 0]] /\ tables = {}
      /\ phase = "tables" /\ i = HeapFirst
      /\ present = {} /\ kheap = FALSE /\ calls = <<>> /\ astray = {}
  BY DEF ComposedInit, Init
<1>3. \A p \in Pages : entry[p].frame = 0 /\ ~entry[p].present
  BY <1>2
<1>4. present = Reached /\ Unbacked = {}
  BY <1>2, <1>3, HeapPageNumbers, PageNumbers DEF Reached, Unbacked
<1>5. TablesInv
  BY <1>2, <1>3, PageNumbers DEF TablesInv, TablesInOrder, TablesServe, MadeBelow
<1>6. FreshInv
  BY <1>2, <1>3, <1>4 DEF FreshInv, Early, ComposedInit, H!Created
<1>7. HeapSound
  <2>1. HP!Created
    BY SameHeap DEF ComposedInit
  <2>2. present \subseteq HP!Pages
    BY <1>2
  <2>3. HP!TypeOK
    BY <2>1, <2>2, HeapAssumptions, BootPagesMapped, ClientAssumptions, HP!CreatedTyped
  <2>4. endAddress = InitialEnd
    BY DEF ComposedInit, H!Created
  <2> QED BY <2>3, <2>4, HeapAssumptions DEF HeapSound, HP!EndInBounds
<1> QED BY <1>1, <1>2, <1>4, <1>5, <1>6, <1>7 DEF ComposedInv, StaticInv, ActiveInv

-----------------------------------------------------------------------------
(* The boot: it makes every table itself and backs no page with frame 0.    *)
LEMMA AllocKeepsZero ==
  ASSUME TypeOK, NEW p, AllocFrame(p), 0 \in frames, Unbacked = {}, ~exhausted'
  PROVE  0 \in frames' /\ Unbacked' = {}
<1>1. entry \in [Pages -> Entry] /\ frames \subseteq frames'
  <2>1. entry \in [Pages -> Entry]
    BY DEF TypeOK, Entry
  <2> QED BY <2>1, AllocCases
<1>2. CASE p \in Pages
  <2>1. \A q \in Pages : entry'[q] = entry[q] \/ entry'[q].frame # 0
    BY <1>2, AllocZero
  <2> QED BY <1>1, <2>1, PageNumbers DEF Unbacked
<1>3. CASE p \notin Pages
  <2>1. ASSUME NEW f \in Frames, entry' = [entry EXCEPT ![p] = [present |-> TRUE, frame |-> f]]
        PROVE  \A q \in Pages : entry'[q] = entry[q]
    BY <1>1, <1>3, <2>1
  <2>2. \A q \in Pages : entry'[q] = entry[q]
    BY <2>1, AllocCases
  <2> QED BY <1>1, <2>2, PageNumbers DEF Unbacked
<1> QED BY <1>2, <1>3

LEMMA BootPreserves ==
  ASSUME ComposedInv, Boot
  PROVE  ComposedInv'
<1>1. /\ ~kheap /\ calls = <<>> /\ pending = H!NoRequest /\ astray = {}
      /\ endAddress = InitialEnd
      /\ UNCHANGED <<books, pending, kheap, calls, astray>> /\ present' = Reached'
  <2>1. phase \in {"tables", "identity", "back"}
    BY DEF Boot, MakeHeapTables, IdentityMap, BackHeap
  <2>2. FreshInv
    BY DEF ComposedInv, StaticInv
  <2>3. ~kheap
    BY <2>1, <2>2 DEF FreshInv
  <2> QED BY <2>2, <2>3 DEF FreshInv, Boot, composed
<1>2. FramesInv
  BY <1>1 DEF ComposedInv, StaticInv, FramesApart, FramesInv
<1>3. FramesInv' /\ FramesApart'
  <2>1. Next
    BY DEF Boot, Next
  <2>2. FramesInv'
    BY <1>2, <2>1, FramesStep
  <2> QED BY <2>2 DEF FramesInv, FramesApart
<1>4. /\ TypeOK /\ TablesInOrder /\ TablesServe /\ TablesInv /\ FreshInv /\ i \in Nat /\ placement \in Nat
      /\ tables \subseteq Nat
  BY <1>2 DEF ComposedInv, StaticInv, TablesInv, FramesInv, TypeOK
<1>5. TablesInv' /\ FreshInv'
  <2>1. CASE MakeHeapTables /\ i < HeapFirst + HeapInitial
    <3>1. /\ phase = "tables" /\ phase' = "tables" /\ i' = i + 1 /\ GetPage(i)
          /\ UNCHANGED <<frames, entry, exhausted>>
      BY <2>1 DEF MakeHeapTables
    <3>2. tables' = tables \union {TableOf(i)} /\ placement <= placement'
      BY <1>4, <3>1, GetPageGrows DEF GetPage
    <3>3. i >= HeapFirst /\ MadeBelow(i)
      BY <1>4, <3>1 DEF TablesInv
    <3>4. TablesInOrder' /\ \A p \in HeapFirst..i : TableOf(p) \in tables'
      BY <1>4, <3>2, <3>3, NextTable
    <3>6. TablesServe'
      BY <1>4, <3>1, <3>2 DEF TablesServe
    <3>8. MadeBelow(i)'
      <4>1. HeapFirst..(i' - 1) = HeapFirst..i
        BY <1>4, <3>1
      <4> QED BY <3>4, <4>1 DEF MadeBelow
    <3>9. i' >= HeapFirst
      BY <1>4, <3>1, <3>3, PageNumbers
    <3>10. TablesInv'
      BY <3>1, <3>4, <3>6, <3>8, <3>9 DEF TablesInv
    <3>11. FreshInv'
      BY <1>1, <1>4, <3>1 DEF FreshInv, Early, Unbacked, books
    <3> QED BY <3>10, <3>11
  <2>2. CASE MakeHeapTables /\ ~(i < HeapFirst + HeapInitial)
    <3>1. /\ phase = "tables" /\ phase' = "identity" /\ i' = 0
          /\ UNCHANGED <<tables, placement, frames, entry, exhausted>>
      BY <2>2 DEF MakeHeapTables
    <3>2. MadeBelow(HeapFirst + HeapInitial)
      BY <1>4, <2>2, <3>1, PageNumbers DEF TablesInv, MadeBelow
    <3>3. ~(i' >= HeapFirst)
      BY <3>1, PageNumbers
    <3>4. TablesInv'
      BY <1>1, <1>4, <3>1, <3>2, <3>3 DEF TablesInv, TablesInOrder, TablesServe, MadeBelow
    <3>5. FreshInv'
      BY <1>1, <1>4, <3>1 DEF FreshInv, Early, Unbacked, books
    <3> QED BY <3>4, <3>5
  <2>3. CASE IdentityMap /\ i < placement + 1
    <3>1. phase = "identity" /\ GetPage(i) /\ AllocFrame(i) /\ i' = i + 1
      BY <2>3 DEF IdentityMap
    <3>2. /\ tables' = tables \union {TableOf(i)} /\ placement <= placement' /\ placement' \in Nat
          /\ phase' \in {"identity", "panic"}
      <4>1. tables' = tables \union {TableOf(i)} /\ placement <= placement' /\ placement' \in Nat
        BY <1>4, <3>1, GetPageGrows DEF GetPage
      <4> QED BY <3>1, <4>1, AllocCases
    <3>3. (i >= HeapFirst => MadeBelow(i)) /\ MadeBelow(HeapFirst + HeapInitial)
      BY <1>4, <3>1 DEF TablesInv
    <3>4. TablesInOrder' /\ (i >= HeapFirst => \A p \in HeapFirst..i : TableOf(p) \in tables')
      BY <1>4, <3>2, <3>3, NextTable
    <3>5. MadeBelow(HeapFirst + HeapInitial)'
      BY <3>2, <3>3 DEF MadeBelow
    <3>6. i' >= HeapFirst => MadeBelow(i)'
      <4>1. HeapFirst..(i' - 1) = HeapFirst..i
        BY <1>4, <3>1
      <4>2. i < HeapFirst => HeapFirst..i = {}
        BY <1>4, PageNumbers
      <4>3. CASE i >= HeapFirst
        BY <3>4, <4>1, <4>3 DEF MadeBelow
      <4>4. CASE i < HeapFirst
        BY <4>1, <4>2, <4>4 DEF MadeBelow
      <4> QED BY <1>4, <4>3, <4>4, PageNumbers
    <3>7. TablesServe'
      BY <1>4, <3>1, <3>2, AllocMapped
    <3>8. exhausted => exhausted'
      BY <1>4, <3>1, AllocCases DEF TypeOK
    <3>10. TablesInv'
      <4>1. phase' # "tables" /\ phase' # "back" /\ phase' # "running"
        BY <3>2
      <4> QED BY <3>4, <3>5, <3>6, <3>7, <4>1 DEF TablesInv
    <3>11. FreshInv'
      <4>1. ~Early'
        BY <1>4, <3>1, <3>2 DEF Early
      <4>2. ASSUME ~exhausted' PROVE 0 \in frames' /\ Unbacked' = {}
        <5>1. ~exhausted /\ Unbacked = {}
          BY <1>1, <1>4, <3>8, <4>2 DEF FreshInv
        <5>2. CASE i = 0
          <6>1. \A p \in Pages : entry[p].frame = 0 /\ ~entry[p].present
            BY <1>1, <1>4, <3>1, <5>2 DEF FreshInv, Early
          <6>2. 0 \in frames' /\ \A q \in Pages : q # 0 => entry'[q] = entry[q]
            BY <1>4, <3>1, <4>2, <5>2, <6>1, AllocZero, PageNumbers
          <6> QED BY <6>1, <6>2, PageNumbers DEF Unbacked
        <5>3. CASE i # 0
          <6>1. 0 \in frames
            BY <1>1, <1>4, <3>1, <5>1, <5>3 DEF FreshInv, Early
          <6> QED BY <1>4, <3>1, <4>2, <5>1, <6>1, AllocKeepsZero
        <5> QED BY <5>2, <5>3
      <4> QED BY <1>1, <4>1, <4>2 DEF FreshInv, books
    <3> QED BY <3>10, <3>11
  <2>4. CASE IdentityMap /\ ~(i < placement + 1)
    <3>1. /\ phase = "identity" /\ phase' = "back" /\ i' = HeapFirst
          /\ UNCHANGED <<tables, placement, frames, entry, exhausted>>
      BY <2>4 DEF IdentityMap
    <3>2. i # 0 /\ i' >= HeapFirst
      BY <1>4, <2>4, <3>1, PageNumbers
    <3>3. TablesInv'
      BY <1>1, <1>4, <3>1, <3>2 DEF TablesInv, TablesInOrder, TablesServe, MadeBelow
    <3>4. FreshInv'
      BY <1>1, <1>4, <3>1, <3>2 DEF FreshInv, Early, Unbacked, books
    <3> QED BY <3>3, <3>4
  <2>5. CASE BackHeap /\ i < HeapFirst + HeapInitial
    <3>1. phase = "back" /\ AllocFrame(i) /\ i' = i + 1 /\ UNCHANGED <<tables, placement>>
      BY <2>5 DEF BackHeap
    <3>2. phase' \in {"back", "panic"} /\ (exhausted => exhausted')
      BY <1>4, <3>1, AllocCases DEF TypeOK
    <3>3. i >= HeapFirst /\ MadeBelow(HeapFirst + HeapInitial)
      BY <1>4, <3>1 DEF TablesInv
    <3>4. TableOf(i) \in tables
      <4>1. i \in HeapFirst..((HeapFirst + HeapInitial) - 1)
        BY <1>4, <2>5, <3>3, PageNumbers
      <4> QED BY <3>3, <4>1 DEF MadeBelow
    <3>5. TablesServe'
      BY <1>4, <3>1, <3>4, AllocMapped
    <3>6. i' >= HeapFirst
      BY <1>4, <3>1, <3>3, PageNumbers
    <3>7. TablesInv'
      BY <1>1, <1>4, <3>1, <3>2, <3>3, <3>5, <3>6 DEF TablesInv, TablesInOrder, MadeBelow
    <3>8. FreshInv'
      <4>1. ~Early /\ ~Early'
        BY <3>1, <3>2 DEF Early
      <4>2. ASSUME ~exhausted' PROVE 0 \in frames' /\ Unbacked' = {}
        <5>1. ~exhausted /\ Unbacked = {} /\ 0 \in frames
          BY <1>1, <1>4, <3>2, <4>1, <4>2 DEF FreshInv
        <5> QED BY <1>4, <3>1, <4>2, <5>1, AllocKeepsZero
      <4> QED BY <1>1, <4>1, <4>2 DEF FreshInv, books
    <3> QED BY <3>7, <3>8
  <2>6. CASE BackHeap /\ ~(i < HeapFirst + HeapInitial)
    <3>1. /\ phase = "back" /\ phase' = "running"
          /\ UNCHANGED <<tables, placement, i, frames, entry, exhausted>>
      BY <2>6 DEF BackHeap
    <3>2. TablesInv'
      BY <1>1, <1>4, <3>1 DEF TablesInv, TablesInOrder, TablesServe, MadeBelow
    <3>3. FreshInv'
      BY <1>1, <1>4, <3>1 DEF FreshInv, Early, Unbacked, books
    <3> QED BY <3>2, <3>3
  <2> QED BY <2>1, <2>2, <2>3, <2>4, <2>5, <2>6 DEF Boot
<1>6. ActiveInv'
  <2>1. CASE status = "running"
    <3>1. HeapSound /\ present' \subseteq H!Pages
      BY <1>1, <2>1, HeapPageNumbers DEF ComposedInv, ActiveInv, Reached
    <3>2. HeapSound'
      BY <1>1, <3>1, SoundUnlessTouched
    <3> QED BY <1>1, <3>2 DEF ActiveInv
  <2>2. CASE status # "running"
    BY <1>1, <2>2 DEF ActiveInv, books
  <2> QED BY <2>1, <2>2
<1> QED BY <1>1, <1>3, <1>5, <1>6 DEF ComposedInv, StaticInv

-----------------------------------------------------------------------------
(* The steps of the heap while the page tables stay as they are.            *)
LEMMA RunningFacts ==
  ASSUME ComposedInv, Running
  PROVE  /\ StaticInv /\ TypeOK /\ HeapSound /\ Calling /\ GivenBack /\ kheap /\ phase = "running"
         /\ endAddress \in Nat /\ Start + MinSize <= endAddress /\ endAddress <= MaxAddress
         /\ present \subseteq H!Pages /\ pending \in TableRequests \union {H!NoRequest}
         /\ TablesInOrder /\ TablesServe /\ present = Reached
<1>1. StaticInv /\ HeapSound /\ Calling /\ GivenBack /\ kheap /\ phase = "running"
  BY DEF ComposedInv, ActiveInv, Running
<1>2. TypeOK /\ TablesInOrder /\ TablesServe /\ present = Reached
  BY <1>1 DEF StaticInv, FramesApart, TablesInv
<1>3. /\ endAddress \in Nat /\ Start + MinSize <= endAddress /\ endAddress <= MaxAddress
      /\ present \subseteq H!Pages /\ pending \in TableRequests \union {H!NoRequest}
  BY <1>1, SameHeap DEF HeapSound, HP!TypeOK, HP!EndInBounds, TableRequests
<1> QED BY <1>1, <1>2, <1>3

LEMMA NoRequestIsNone == H!NoRequest \notin TableRequests
<1> SUFFICES ASSUME H!NoRequest \in TableRequests PROVE FALSE
  OBVIOUS
<1>1. H!NoRequest.size \in Nat \ {0}
  BY ClientAssumptions DEF TableRequests
<1> QED BY <1>1 DEF H!NoRequest

LEMMA UpdateLast ==
  ASSUME NEW call \in CallRecords, calls \in Seq(CallRecords), calls # <<>>, Update(call)
  PROVE  /\ calls' \in Seq(CallRecords) /\ calls' # <<>> /\ Len(calls') = Len(calls)
         /\ Len(calls) \in Nat /\ Len(calls) \in 1..Len(calls)
         /\ Call \in CallRecords /\ Call' = call
         /\ \A k \in 1..Len(calls) : k # Len(calls) => calls'[k] = calls[k]
<1>1. Len(calls) \in Nat /\ Len(calls) \in 1..Len(calls)
  OBVIOUS
<1>2. calls' = [calls EXCEPT ![Len(calls)] = call]
  BY DEF Update
<1>3. calls' \in Seq(CallRecords) /\ Len(calls') = Len(calls) /\ calls' # <<>>
  BY <1>1, <1>2
<1>4. calls'[Len(calls)] = call
  BY <1>1, <1>2
<1>5. \A k \in 1..Len(calls) : k # Len(calls) => calls'[k] = calls[k]
  BY <1>1, <1>2
<1> QED BY <1>1, <1>3, <1>4, <1>5 DEF Call

LEMMA CallStaysOK ==
  ASSUME NEW call, CallOK(call), tables \subseteq tables'
  PROVE  CallOK(call)'
BY DEF CallOK, MadeBelow

LEMMA CallsStay ==
  ASSUME Calling, GivenBack, UNCHANGED <<paging, calls, endAddress>>,
         calls # <<>> => pending' = H!NoRequest \/ Call.table = 0,
         exhausted \/ Unbacked = {} \/ ~Nested'
  PROVE  Calling' /\ GivenBack'
<1>1. UNCHANGED <<entry, frames, tables, exhausted, calls, endAddress>>
  BY DEF paging
<1>2. Calling'
  BY <1>1 DEF Calling, CallOK, Call, MadeBelow
<1>3. GivenBack'
  BY <1>1 DEF GivenBack, Unbacked, NextPage, Call
<1> QED BY <1>2, <1>3

LEMMA CreatePreserves ==
  ASSUME ComposedInv, CreateHeap
  PROVE  ComposedInv'
<1>1. /\ phase = "running" /\ ~kheap /\ status = "running"
      /\ UNCHANGED <<present, pending, paging, calls, astray, endAddress>>
  BY DEF CreateHeap, Stop, books
<1>2. StaticInv /\ HeapSound /\ FreshInv /\ TablesInv
  BY <1>1 DEF ComposedInv, StaticInv, ActiveInv
<1>3. StaticInv'
  <2>1. UNCHANGED <<frames, entry, tables, placement, phase, i, exhausted>>
    BY <1>1 DEF paging
  <2>2. FramesApart' /\ present' = Reached' /\ TablesInv'
    BY <1>1, <1>2, <2>1 DEF StaticInv, FramesApart, TypeOK, NoSharedFrame, BackedFramesMarked,
       Reached, TablesInv, TablesInOrder, TablesServe, MadeBelow
  <2>3. FreshInv'
    BY <1>1, <1>2, <2>1 DEF FreshInv, Early, Unbacked
  <2> QED BY <2>2, <2>3 DEF StaticInv
<1>4. CASE kheap' = TRUE /\ UNCHANGED books
  <2>1. present' \subseteq H!Pages
    BY <1>1, <1>2, HeapPageNumbers DEF StaticInv, Reached
  <2>2. calls = <<>> /\ pending = H!NoRequest /\ endAddress = InitialEnd
        /\ (~exhausted => Unbacked = {})
    BY <1>1, <1>2 DEF FreshInv
  <2>3. HeapSound'
    BY <1>1, <1>2, <1>4, <2>1, <2>2, SoundUnlessTouched
  <2>4. endAddress \div PageSize = HeapFirst + HeapInitial
    <3>1. PICK n \in Nat : n = HeapFirst + HeapInitial
      BY PageNumbers
    <3>2. (n * PageSize) \div PageSize = n
      BY HeapAssumptions
    <3> QED BY <2>2, <3>1, <3>2, CompositionParameters
  <2>5. MadeBelow(endAddress \div PageSize)
    BY <1>1, <1>2, <2>4 DEF TablesInv
  <2>6. Calling /\ GivenBack
    BY <2>2, <2>5 DEF Calling, GivenBack
  <2>7. Calling' /\ GivenBack'
    BY <1>1, <2>2, <2>6, CallsStay
  <2> QED BY <1>3, <2>3, <2>7 DEF ComposedInv, ActiveInv
<1>5. CASE Stop("panic")
  BY <1>3, <1>5 DEF ComposedInv, ActiveInv, Stop
<1> QED BY <1>4, <1>5 DEF CreateHeap

LEMMA RequestPreserves ==
  ASSUME ComposedInv, Request
  PROVE  ComposedInv'
<1>1. Running /\ calls = <<>> /\ H!Request /\ UNCHANGED <<paging, composed>>
  BY DEF Request
<1>2. StaticInv /\ HeapSound /\ Calling /\ GivenBack /\ kheap
  BY <1>1, RunningFacts
<1>3. HeapSound' /\ UNCHANGED <<endAddress, present, kheap, calls, astray>>
  BY <1>1, <1>2, RequestSound DEF composed
<1>4. StaticInv'
  BY <1>1, <1>2, <1>3, StaticUnlessTouched
<1>5. Calling' /\ GivenBack'
  BY <1>1, <1>2, <1>3, CallsStay DEF Nested
<1> QED BY <1>3, <1>4, <1>5 DEF ComposedInv, ActiveInv

LEMMA PlacePreserves ==
  ASSUME ComposedInv, Place
  PROVE  ComposedInv'
<1>1. Running /\ calls = <<>> /\ H!Place /\ UNCHANGED <<paging, composed>>
  BY DEF Place
<1>2. StaticInv /\ HeapSound /\ Calling /\ GivenBack /\ kheap
  BY <1>1, RunningFacts
<1>3. HeapSound' /\ UNCHANGED <<endAddress, present, kheap, calls, astray>>
  BY <1>1, <1>2, PlaceSound DEF composed
<1>4. StaticInv'
  BY <1>1, <1>2, <1>3, StaticUnlessTouched
<1>5. Calling' /\ GivenBack'
  BY <1>1, <1>2, <1>3, CallsStay DEF Nested
<1> QED BY <1>3, <1>4, <1>5 DEF ComposedInv, ActiveInv

LEMMA EnterPreserves ==
  ASSUME HP!RequestsCannotWrap, ComposedInv, EnterExpand
  PROVE  ComposedInv'
<1> DEFINE need == H!Length + H!Need
           new  == H!ExpandedLength(H!Word(need))
           call == [request |-> pending, end |-> endAddress, at |-> H!Length, new |-> new,
                    table |-> 0, present |-> present]
<1>1. /\ Running /\ pending # H!NoRequest
      /\ UNCHANGED <<present, paging, kheap, astray>>
  BY DEF EnterExpand
<1>2. /\ StaticInv /\ HeapSound /\ Calling /\ GivenBack /\ kheap
      /\ endAddress \in Nat /\ present \subseteq H!Pages
      /\ pending \in TableRequests
  BY <1>1, RunningFacts
<1>3. StaticInv'
  BY <1>1, <1>2, StaticUnlessTouched
<1>4. CASE status' # "running"
  BY <1>3, <1>4 DEF ComposedInv, ActiveInv
<1>5. CASE status' = "running"
  <2>1. /\ H!ExpandAsserts(H!Length, need)
        /\ calls' = Append(calls, call) /\ pending' = H!NoRequest /\ UNCHANGED books
    BY <1>5 DEF EnterExpand, H!Panic, Stop, Pushed
  <2>2. /\ H!Length \in Nat /\ Start + H!Length = endAddress
        /\ new \in Nat /\ Start + MinSize <= Start + new /\ Start + new <= MaxAddress
    BY <1>1, <1>2, <2>1, EnterSound
  <2>3. HeapSound'
    BY <1>1, <1>2, <2>1, SoundUnlessTouched
  <2> HIDE DEF new, need
  <2>4. call \in CallRecords /\ PageOf(call) = endAddress \div PageSize
    BY <1>2, <2>2 DEF CallRecords, PageOf
  <2>5. call.table = 0 /\ call.new = new
    OBVIOUS
  <2> HIDE DEF call
  <2>12. PICK c : c = call
    OBVIOUS
  <2>6. calls \in Seq(CallRecords) /\ Len(calls) \in Nat
    BY <1>2 DEF Calling
  <2>7. /\ calls' \in Seq(CallRecords) /\ Len(calls') = Len(calls) + 1 /\ calls' # <<>>
        /\ Call' = c /\ \A k \in 1..Len(calls) : calls'[k] = calls[k]
    BY <2>1, <2>4, <2>6, <2>12 DEF Call
  <2>8. \A k \in 1..Len(calls) : calls[k].table = 0
    <3>1. calls # <<>> => Call.table = 0
      BY <1>1, <1>2 DEF Calling
    <3>2. \A k \in 1..Len(calls) : k < Len(calls) => calls[k].table = 0
      BY <1>2 DEF Calling
    <3>3. \A k \in 1..Len(calls) : k = Len(calls) \/ k < Len(calls)
      BY <2>6
    <3>4. ASSUME NEW k \in 1..Len(calls), k = Len(calls) PROVE calls[k].table = 0
      <4>1. calls # <<>>
        BY <2>6, <3>4
      <4> QED BY <3>1, <3>4, <4>1 DEF Call
    <3> QED BY <3>2, <3>3, <3>4
  <2>9. UNCHANGED <<tables, entry, frames, exhausted, endAddress>>
    BY <1>1, <2>1 DEF paging, books
  <2>10. Calling'
    <3>1. CallOK(c)
      BY <1>2, <2>2, <2>4, <2>5, <2>12 DEF Calling, CallOK
    <3>2. ASSUME NEW k \in 1..Len(calls')
          PROVE  (CallOK(calls[k]) /\ (k < Len(calls) => calls[k].table = 0))'
      <4>1. PICK d : d = calls'[k]
        OBVIOUS
      <4>2. k \in 1..Len(calls) \/ k = Len(calls')
        BY <2>6, <2>7
      <4>3. CASE k \in 1..Len(calls)
        <5>1. d = calls[k] /\ calls[k].table = 0 /\ CallOK(calls[k])
          BY <1>2, <2>7, <2>8, <4>1, <4>3 DEF Calling
        <5>2. CallOK(d)
          BY <5>1
        <5>3. CallOK(d)'
          BY <2>9, <5>2, CallStaysOK
        <5> QED BY <4>1, <5>1, <5>3 DEF CallOK
      <4>4. CASE k = Len(calls')
        <5>1. d = c
          BY <2>7, <4>1, <4>4 DEF Call
        <5>2. CallOK(d)'
          BY <2>9, <3>1, <5>1, CallStaysOK
        <5>3. ~(k < Len(calls'))
          BY <2>6, <2>7, <4>4
        <5> QED BY <4>1, <5>2, <5>3 DEF CallOK
      <4> QED BY <4>2, <4>3, <4>4
    <3>3. Call'.table = 0
      BY <2>5, <2>7, <2>12
    <3>4. MadeBelow(endAddress \div PageSize)'
      BY <1>2, <2>9 DEF Calling, MadeBelow
    <3> QED BY <2>7, <3>2, <3>3, <3>4 DEF Calling
  <2>11. GivenBack'
    <3>1. SUFFICES ASSUME ~exhausted, Unbacked # {}
                   PROVE  /\ 0 \notin frames' /\ Len(calls') <= 1 /\ ~Nested'
                          /\ \E p \in Unbacked : p >= NextPage'
      BY <2>9 DEF GivenBack, Unbacked
    <3>2. /\ 0 \notin frames /\ ~Nested /\ \E p \in Unbacked : p >= NextPage
      BY <1>2, <3>1 DEF GivenBack
    <3>3. calls = <<>>
      BY <1>1, <3>2 DEF Nested
    <3>4. NextPage' = NextPage
      BY <2>4, <2>7, <2>12, <3>3 DEF NextPage
    <3>5. Len(calls') = 1
      BY <2>7, <3>3
    <3>6. ~Nested'
      BY <2>1, <2>5, <2>7, <2>12 DEF Nested
    <3> QED BY <2>9, <3>2, <3>4, <3>5, <3>6
  <2> QED BY <1>3, <2>3, <2>10, <2>11 DEF ComposedInv, ActiveInv
<1> QED BY <1>4, <1>5

-----------------------------------------------------------------------------
(* The turns of the loop.                                                   *)
LEMMA TurnFacts ==
  ASSUME ComposedInv, Looping
  PROVE  /\ calls # <<>> /\ Call \in CallRecords /\ CallOK(Call)
         /\ PageOf(Call) \in Nat /\ PageOf(Call) >= HeapFirst
         /\ TurnsLeft(Call) => PageOf(Call) \in HeapPages /\ PageOf(Call) \in Pages
         /\ Advanced(Call) \in CallRecords
         /\ PageOf(Advanced(Call)) = PageOf(Call) + 1
         /\ Advanced(Call).table = Call.table /\ Advanced(Call).new = Call.new
<1>1. Calling /\ calls # <<>>
  BY RunningFacts DEF Looping
<1>2. Call \in CallRecords /\ CallOK(Call)
  <2>1. calls \in Seq(CallRecords) /\ Len(calls) \in 1..Len(calls)
    BY <1>1 DEF Calling
  <2> QED BY <1>1, <2>1 DEF Calling, Call
<1>3. /\ Call.at \in Nat /\ Call.new \in Nat /\ Start \in Nat /\ PageSize \in Nat
      /\ Start + Call.at \in Nat /\ MaxAddress \in Nat
  BY <1>2, HeapAssumptions DEF CallRecords
<1>4. PageOf(Call) \in Nat /\ PageOf(Call) >= HeapFirst
  <2>1. Start + Call.at \in Nat /\ Start <= Start + Call.at
    BY <1>3, HeapAssumptions
  <2> QED BY <2>1, PageArithmetic DEF PageOf
<1>5. TurnsLeft(Call) => PageOf(Call) \in HeapPages /\ PageOf(Call) \in Pages
  <2>1. TurnsLeft(Call) => Start + Call.at < MaxAddress
    BY <1>2, <1>3 DEF TurnsLeft, CallOK
  <2>2. Start + Call.at \in Nat /\ Start <= Start + Call.at
    BY <1>3, HeapAssumptions
  <2> QED BY <2>1, <2>2, PageArithmetic, PageNumbers DEF PageOf
<1>6. /\ Advanced(Call) \in CallRecords /\ Advanced(Call).at = Call.at + PageSize
      /\ Advanced(Call).table = Call.table /\ Advanced(Call).new = Call.new
  BY <1>2, <1>3 DEF Advanced, CallRecords
<1>7. PageOf(Advanced(Call)) = PageOf(Call) + 1
  <2>1. Start + (Call.at + PageSize) = (Start + Call.at) + PageSize
    BY <1>3
  <2>2. /\ (Start + Call.at) \div PageSize \in Nat
        /\ ((Start + Call.at) + PageSize) \div PageSize = (Start + Call.at) \div PageSize + 1
    BY <1>3, PageArithmetic
  <2> QED BY <1>6, <2>1, <2>2, PageNumbers DEF PageOf
<1> QED BY <1>1, <1>2, <1>4, <1>5, <1>6, <1>7

LEMMA UpdatedCalling ==
  ASSUME Calling, calls # <<>>, NEW c \in CallRecords, Update(c), CallOK(c)',
         tables \subseteq tables', UNCHANGED endAddress,
         c.table # 0 => /\ pending' = H!NoRequest /\ c.table \div PageSize \in H!Pages
                        /\ entry'[c.table \div PageSize].present
  PROVE  Calling'
<1>1. /\ calls' \in Seq(CallRecords) /\ calls' # <<>> /\ Len(calls') = Len(calls)
      /\ Len(calls) \in Nat /\ Len(calls) \in 1..Len(calls) /\ Call' = c
      /\ \A k \in 1..Len(calls) : k # Len(calls) => calls'[k] = calls[k]
  BY UpdateLast DEF Calling
<1>2. ASSUME NEW k \in 1..Len(calls')
      PROVE  (CallOK(calls[k]) /\ (k < Len(calls) => calls[k].table = 0))'
  <2>1. PICK d : d = calls'[k]
    OBVIOUS
  <2>2. CASE k = Len(calls)
    <3>1. d = c /\ ~(k < Len(calls'))
      BY <1>1, <2>1, <2>2 DEF Call
    <3> QED BY <2>1, <3>1 DEF CallOK
  <2>3. CASE k # Len(calls)
    <3>1. d = calls[k] /\ CallOK(calls[k]) /\ calls[k].table = 0
      BY <1>1, <2>1, <2>3 DEF Calling
    <3>2. CallOK(d)
      BY <3>1
    <3>3. CallOK(d)'
      BY <3>2, CallStaysOK
    <3> QED BY <2>1, <3>1, <3>3 DEF CallOK
  <2> QED BY <2>2, <2>3
<1>3. MadeBelow(endAddress \div PageSize)'
  BY DEF Calling, MadeBelow
<1>4. Call'.table # 0 => /\ pending' = H!NoRequest /\ Call'.table \div PageSize \in H!Pages
                         /\ entry'[Call'.table \div PageSize].present
  BY <1>1
<1> QED BY <1>1, <1>2, <1>3, <1>4 DEF Calling

LEMMA AskPreserves ==
  ASSUME ComposedInv, AskForTable
  PROVE  ComposedInv'
<1>1. /\ Running /\ Looping /\ Call.table = 0 /\ TurnsLeft(Call)
      /\ TableOf(PageOf(Call)) \notin tables
      /\ pending' = TableRequest /\ UNCHANGED <<books, present, paging, kheap, calls, astray>>
  BY DEF AskForTable, Looping, composed
<1>2. /\ StaticInv /\ HeapSound /\ Calling /\ GivenBack /\ kheap /\ TablesInOrder
      /\ present \subseteq H!Pages
  BY <1>1, RunningFacts
<1>3. StaticInv'
  BY <1>1, <1>2, StaticUnlessTouched
<1>4. pending' \in TableRequests
  BY <1>1 DEF TableRequest, TableRequests
<1>5. HeapSound'
  BY <1>1, <1>2, <1>4, SoundUnlessTouched
<1>6. exhausted \/ Unbacked = {}
  <2>1. SUFFICES ASSUME ~exhausted, Unbacked # {} PROVE FALSE
    OBVIOUS
  <2>2. PICK p \in Unbacked : p >= NextPage
    BY <1>2, <2>1 DEF GivenBack
  <2>3. calls # <<>> /\ PageOf(Call) \in HeapPages
    BY <1>1, TurnFacts
  <2>4. p \in HeapPages /\ p \in Pages /\ entry[p].present /\ p >= PageOf(Call)
    BY <2>2, <2>3, PageNumbers DEF Unbacked, NextPage
  <2>5. TableOf(p) \in tables
    BY <1>1, <2>4, RunningFacts DEF TablesServe
  <2>6. PageOf(Call) <= p
    BY <2>3, <2>4, PageNumbers
  <2> QED BY <1>1, <1>2, <2>3, <2>4, <2>5, <2>6 DEF TablesInOrder
<1>7. Calling' /\ GivenBack'
  BY <1>1, <1>2, <1>6, CallsStay DEF books
<1> QED BY <1>3, <1>5, <1>7 DEF ComposedInv, ActiveInv

LEMMA PlaceTablePreserves ==
  ASSUME ComposedInv, PlaceTable
  PROVE  ComposedInv'
<1>1. /\ Running /\ calls # <<>> /\ H!Place /\ UNCHANGED <<paging, kheap, astray>>
  BY DEF PlaceTable
<1>2. /\ StaticInv /\ HeapSound /\ Calling /\ GivenBack /\ kheap
      /\ pending \in TableRequests \union {H!NoRequest} /\ present = Reached
  BY <1>1, RunningFacts
<1>3. HeapSound' /\ UNCHANGED <<endAddress, present>> /\ pending # H!NoRequest
  BY <1>1, <1>2, PlaceSound DEF H!Place
<1>4. StaticInv'
  BY <1>1, <1>2, <1>3, StaticUnlessTouched
<1>5. CASE status' # "running"
  BY <1>4, <1>5 DEF ComposedInv, ActiveInv
<1>6. CASE status' = "running"
  <2>1. pending' = H!NoRequest /\ Update([Call EXCEPT !.table = TablePlaced])
    BY <1>1, <1>2, <1>6, PlaceSound DEF PlaceTable
  <2>2. TablePlaced \in Nat /\ TablePlaced \div PageSize \in present
    BY <1>1, <1>2, <1>3, <1>6, TableMapped
  <2>3. Call \in CallRecords /\ CallOK(Call)
    <3>1. calls \in Seq(CallRecords) /\ Len(calls) \in 1..Len(calls)
      BY <1>1, <1>2 DEF Calling
    <3> QED BY <1>2, <3>1 DEF Calling, Call
  <2>4. PICK c : c = [Call EXCEPT !.table = TablePlaced]
    OBVIOUS
  <2>5. c \in CallRecords /\ c.table = TablePlaced /\ c.at = Call.at /\ c.new = Call.new
    BY <2>2, <2>3, <2>4 DEF CallRecords
  <2>6. CallOK(c)
    BY <2>3, <2>5 DEF CallOK, PageOf
  <2>7. UNCHANGED <<tables, entry, exhausted>>
    BY <1>1 DEF paging
  <2>8. CallOK(c)'
    BY <2>6, <2>7, CallStaysOK
  <2>9. c.table \div PageSize \in H!Pages /\ entry[c.table \div PageSize].present
    BY <1>2, <2>2, <2>5, HeapPageNumbers DEF Reached
  <2>10. Calling'
    BY <1>1, <1>2, <1>3, <2>1, <2>4, <2>5, <2>7, <2>8, <2>9, UpdatedCalling
  <2>11. GivenBack'
    <3>1. exhausted \/ Unbacked = {}
      BY <1>1, <1>2, <1>3 DEF GivenBack, Nested
    <3> QED BY <2>7, <3>1 DEF GivenBack, Unbacked
  <2> QED BY <1>3, <1>4, <2>10, <2>11 DEF ComposedInv, ActiveInv
<1> QED BY <1>5, <1>6

LEMMA AllocTyped ==
  ASSUME TypeOK, NEW p, AllocFrame(p), UNCHANGED <<tables, placement, i>>
  PROVE  TypeOK' /\ phase' \in {phase, "panic"} /\ (exhausted => exhausted')
<1>1. /\ entry \in [Pages -> Entry] /\ frames \subseteq Frames /\ exhausted \in BOOLEAN
  BY DEF TypeOK, Entry
<1>2. /\ frames' \subseteq Frames /\ entry' \in [Pages -> Entry] /\ exhausted' \in BOOLEAN
      /\ phase' \in {phase, "panic"} /\ (exhausted => exhausted')
  <2>1. ASSUME NEW f \in Frames, entry' = [entry EXCEPT ![p] = [present |-> TRUE, frame |-> f]]
        PROVE  entry' \in [Pages -> Entry]
    <3> DEFINE r == [present |-> TRUE, frame |-> f]
    <3>1. r \in Entry /\ entry' = [entry EXCEPT ![p] = r]
      BY <2>1 DEF Entry
    <3> HIDE DEF r
    <3> QED BY <1>1, <3>1
  <2> QED BY <1>1, <2>1, AllocCases
<1> QED BY <1>2 DEF TypeOK, Entry

LEMMA BackPreserves ==
  ASSUME ComposedInv, BackPage
  PROVE  ComposedInv'
<1> DEFINE p == PageOf(Call)
<1>1. /\ Running /\ Looping /\ Call.table = 0 /\ TurnsLeft(Call) /\ pending = H!NoRequest
      /\ TableOf(p) \in tables /\ AllocFrame(p) /\ Update(Advanced(Call))
      /\ UNCHANGED <<pending, tables, placement, i, kheap, astray>> /\ present' = Reached'
      /\ status' = "running" => /\ UNCHANGED books
                                /\ phase' = "running" => entry'[p].frame # 0
  BY DEF BackPage, Looping, Stop
<1>2. /\ StaticInv /\ TypeOK /\ HeapSound /\ Calling /\ GivenBack /\ kheap /\ phase = "running"
      /\ TablesServe /\ TablesInv
  BY <1>1, RunningFacts DEF StaticInv
<1>3. /\ calls # <<>> /\ Call \in CallRecords /\ CallOK(Call)
      /\ p \in Nat /\ p >= HeapFirst /\ p \in HeapPages /\ p \in Pages
      /\ Advanced(Call) \in CallRecords /\ PageOf(Advanced(Call)) = p + 1
      /\ Advanced(Call).table = 0 /\ Advanced(Call).new = Call.new
  BY <1>1, TurnFacts
<1> HIDE DEF p
<1>4. TypeOK' /\ phase' \in {"running", "panic"} /\ (exhausted => exhausted')
  BY <1>1, <1>2, AllocTyped
<1>5. StaticInv'
  <2>1. FramesApart'
    <3>1. CASE astray = {}
      <4>1. FramesInv
        BY <1>2, <3>1 DEF StaticInv, FramesApart, FramesInv
      <4>2. NoSharedFrame' /\ BackedFramesMarked'
        BY <1>1, <4>1, AllocKeepsBooks
      <4> QED BY <1>4, <4>2 DEF FramesApart
    <3>2. CASE astray # {}
      BY <1>1, <1>4, <3>2 DEF FramesApart
    <3> QED BY <3>1, <3>2
  <2>2. TablesServe'
    BY <1>1, <1>2, <1>3, AllocMapped
  <2>3. TablesInv'
    BY <1>1, <1>2, <1>4, <2>2 DEF TablesInv, TablesInOrder, MadeBelow
  <2>4. FreshInv'
    BY <1>1, <1>2, <1>4 DEF FreshInv
  <2> QED BY <1>1, <2>1, <2>3, <2>4 DEF StaticInv
<1>6. CASE status' # "running"
  BY <1>5, <1>6 DEF ComposedInv, ActiveInv
<1>7. CASE status' = "running"
  <2>1. UNCHANGED books /\ UNCHANGED endAddress
    BY <1>1, <1>7 DEF books
  <2>2. HeapSound'
    <3>1. present' \subseteq H!Pages /\ pending' \in TableRequests \union {H!NoRequest}
      BY <1>1, RunningFacts, HeapPageNumbers DEF Reached
    <3> QED BY <1>2, <2>1, <3>1, SoundUnlessTouched
  <2>3. PICK c : c = Advanced(Call)
    OBVIOUS
  <2>4. CallOK(c)'
    <3>1. MadeBelow(p) /\ Start + MinSize <= Start + c.new /\ Start + c.new <= MaxAddress
          /\ PageOf(c) = p + 1
      BY <1>3, <2>3 DEF CallOK, p
    <3>2. \A q \in HeapFirst..((p + 1) - 1) : TableOf(q) \in tables
      <4>1. \A q \in HeapFirst..((p + 1) - 1) : q \in HeapFirst..(p - 1) \/ q = p
        BY <1>3, PageNumbers
      <4> QED BY <1>1, <3>1, <4>1 DEF MadeBelow
    <3>3. CallOK(c)
      BY <3>1, <3>2 DEF CallOK, MadeBelow
    <3> QED BY <1>1, <3>3, CallStaysOK
  <2>5. Calling'
    BY <1>1, <1>2, <1>3, <2>1, <2>3, <2>4, UpdatedCalling
  <2>6. /\ calls' # <<>> /\ Len(calls') = Len(calls) /\ Call' = c
    BY <1>1, <1>2, <1>3, <2>3, UpdateLast DEF Calling
  <2>7. GivenBack'
    <3>1. SUFFICES ASSUME ~exhausted', Unbacked' # {}
                   PROVE  /\ 0 \notin frames' /\ Len(calls') <= 1 /\ ~Nested'
                          /\ \E g \in Unbacked' : g >= NextPage'
      BY DEF GivenBack
    <3>2. CASE entry[p].frame # 0
      <4>1. UNCHANGED <<frames, entry>> /\ ~exhausted
        BY <1>1, <1>2, <1>3, <3>1, <3>2, AllocZero
      <4>2. Unbacked' = Unbacked
        BY <4>1 DEF Unbacked
      <4>3. PICK g \in Unbacked : g >= NextPage
        BY <1>2, <3>1, <4>1, <4>2 DEF GivenBack
      <4>4. g \in Nat /\ g >= p /\ g # p
        BY <1>3, <3>2, <4>3, PageNumbers DEF Unbacked, NextPage, p
      <4>5. NextPage' = p + 1
        <5>1. NextPage' = PageOf(c)
          BY <2>6 DEF NextPage, PageOf
        <5> QED BY <1>3, <2>3, <5>1
      <4>6. g >= NextPage'
        BY <1>3, <4>4, <4>5
      <4>7. ~Nested'
        BY <1>1, <1>3, <2>3, <2>6 DEF Nested
      <4> QED BY <1>2, <2>6, <3>1, <4>1, <4>2, <4>3, <4>6, <4>7 DEF GivenBack
    <3>3. CASE entry[p].frame = 0
      <4>1. /\ ~exhausted /\ phase' = phase
            /\ 0 \notin frames => entry'[p].frame = 0
            /\ \A q \in Pages : q # p => entry'[q] = entry[q]
        BY <1>1, <1>2, <1>3, <3>1, <3>3, AllocZero
      <4>2. entry'[p].frame # 0
        BY <1>1, <1>2, <1>7, <4>1
      <4>3. Unbacked = {}
        BY <1>2, <4>1, <4>2 DEF GivenBack
      <4>4. Unbacked' = {}
        BY <4>1, <4>2, <4>3, PageNumbers DEF Unbacked
      <4> QED BY <3>1, <4>4
    <3> QED BY <3>2, <3>3
  <2> QED BY <1>5, <2>2, <2>5, <2>7 DEF ComposedInv, ActiveInv
<1> QED BY <1>6, <1>7

(* The address of a table in the heap is not the one its entry gets, unless *)
(* the table lies in frame 0.                                               *)
LEMMA Misplaced ==
  ASSUME NEW f \in Nat \ {0}, NEW a \in Nat
  PROVE  Located(f, a) # LocatedInFrame(f, a)
<1>1. PageSize \in Nat \ {0}
  BY HeapAssumptions
<1>2. f * PageSize \in Nat /\ f * PageSize >= PageSize
  <2>1. PICK d \in Nat : f = d + 1
    <3>1. f - 1 \in Nat /\ f = (f - 1) + 1
      OBVIOUS
    <3> QED BY <3>1
  <2>2. f * PageSize = d * PageSize + PageSize /\ d * PageSize \in Nat
    BY <1>1, <2>1
  <2> QED BY <1>1, <2>2
<1> DEFINE base == f * PageSize
<1> HIDE DEF base
<1>3. base \in Nat /\ base >= PageSize
  BY <1>2 DEF base
<1>4. (base + a) % PageSize < PageSize /\ a % PageSize \in Nat /\ (base + a) % PageSize \in Nat
  BY <1>1, <1>3
<1>5. (base + a) % PageSize # base + (a % PageSize)
  BY <1>1, <1>3, <1>4
<1> QED BY <1>5 DEF Located, LocatedInFrame, base

(* No page with frame 0 holds a table, so that the directory entry is wrong. *)
Installs == InstallAt(TableOf(PageOf(Call)), entry[Call.table \div PageSize].frame)

LEMMA InstallAstray ==
  ASSUME ComposedInv, Looping, Call.table # 0, ~(Call.table < Start), Installs
  PROVE  exhausted \/ (Unbacked = {} /\ astray' = astray \union {TableOf(PageOf(Call))})
<1> DEFINE page == Call.table \div PageSize
           f    == entry[page].frame
<1>1. /\ Running /\ Looping /\ Call.table # 0
      /\ Located(f, Call.table) # LocatedInFrame(f, Call.table) =>
           astray' = astray \union {TableOf(PageOf(Call))}
  BY DEF Installs, InstallAt, Looping
<1>2. TypeOK /\ Calling /\ GivenBack /\ calls # <<>> /\ Call \in CallRecords
  BY <1>1, RunningFacts, TurnFacts
<1>3. SUFFICES ASSUME ~exhausted
               PROVE  Unbacked = {} /\ astray' = astray \union {TableOf(PageOf(Call))}
  OBVIOUS
<1>4. Unbacked = {}
  BY <1>1, <1>2, <1>3 DEF GivenBack, Nested
<1>5. page \in HeapPages /\ page \in Pages /\ entry[page].present
  <2>1. page \in Pages /\ entry[page].present
    BY <1>1, <1>2, HeapPageNumbers DEF Calling
  <2>2. Call.table \in Nat /\ Start <= Call.table
    BY <1>2, HeapAssumptions DEF CallRecords
  <2>3. HeapFirst <= page
    BY <2>2, PageArithmetic
  <2> QED BY <2>1, <2>3, PageNumbers
<1>6. f \in Nat \ {0} /\ Call.table \in Nat
  BY <1>2, <1>4, <1>5, ZeroIsFrame DEF TypeOK, CallRecords, Unbacked
<1> HIDE DEF f
<1> QED BY <1>1, <1>4, <1>6, Misplaced

LEMMA InstalledPreserves ==
  ASSUME ComposedInv, Looping, Call.table # 0, ~(Call.table < Start), Installs
  PROVE  ComposedInv'
<1> DEFINE r == PageOf(Call)
<1>1. PICK junk \in SUBSET {p \in Pages : TableOf(p) = TableOf(r)} :
        entry' = [p \in Pages |-> IF p \in junk THEN Leftover ELSE entry[p]]
  BY DEF Installs, InstallAt
<1>2. /\ Running /\ Looping /\ Call.table # 0 /\ pending = H!NoRequest
      /\ tables' = tables \union {TableOf(r)}
      /\ Update([Call EXCEPT !.table = 0]) /\ present' = Reached'
      /\ UNCHANGED <<books, pending, frames, placement, phase, i, exhausted, kheap>>
  BY DEF Installs, InstallAt, Looping
<1>3. /\ StaticInv /\ TypeOK /\ HeapSound /\ Calling /\ GivenBack /\ kheap /\ phase = "running"
      /\ TablesServe /\ TablesInv /\ TablesInOrder
  BY <1>2, RunningFacts DEF StaticInv
<1>4. /\ calls # <<>> /\ Call \in CallRecords /\ CallOK(Call) /\ r \in Nat /\ r >= HeapFirst
      /\ MadeBelow(r)
  BY <1>2, TurnFacts DEF CallOK
<1>5. /\ \A p \in Pages : /\ p \in junk => entry'[p] = Leftover
                          /\ p \notin junk => entry'[p] = entry[p]
      /\ Leftover.present /\ Leftover.frame = 1
      /\ \A p \in junk : TableOf(p) = TableOf(r)
      /\ Len(calls) \in Nat
  BY <1>1, <1>3 DEF Leftover, Calling
<1>6. exhausted \/ Unbacked = {}
  BY InstallAstray
<1>7. exhausted \/ astray' = astray \union {TableOf(r)}
  BY InstallAstray
<1> HIDE DEF r
<1>8. StaticInv'
  <2>1. TypeOK'
    <3>1. Leftover \in Entry
      BY FrameParameters, CompositionParameters DEF Leftover, Entry, Frames
    <3>2. entry' \in [Pages -> Entry]
      BY <1>1, <1>3, <3>1 DEF TypeOK, Entry
    <3>3. tables' \subseteq Nat
      BY <1>2, <1>3, <1>4, TableNumbers DEF TypeOK
    <3> QED BY <1>2, <1>3, <3>2, <3>3 DEF TypeOK, Entry
  <2>2. FramesApart'
    <3>1. CASE exhausted
      BY <1>2, <2>1, <3>1 DEF FramesApart, NoSharedFrame, BackedFramesMarked
    <3>2. CASE astray' = astray \union {TableOf(r)}
      BY <2>1, <3>2 DEF FramesApart
    <3> QED BY <1>7, <3>1, <3>2
  <2>3. TablesInOrder'
    BY <1>2, <1>3, <1>4, NextTable
  <2>4. TablesServe'
    BY <1>2, <1>3, <1>5 DEF TablesServe
  <2>5. TablesInv'
    <3>1. MadeBelow(HeapFirst + HeapInitial)'
      BY <1>2, <1>3 DEF TablesInv, MadeBelow
    <3> QED BY <1>2, <1>3, <2>3, <2>4, <3>1 DEF TablesInv
  <2>6. FreshInv'
    BY <1>2, <1>3 DEF FreshInv
  <2> QED BY <1>2, <2>2, <2>5, <2>6 DEF StaticInv
<1>9. HeapSound'
  <2>1. present' \subseteq H!Pages /\ pending' \in TableRequests \union {H!NoRequest}
    BY <1>2, RunningFacts, HeapPageNumbers DEF Reached
  <2> QED BY <1>2, <1>3, <2>1, SoundUnlessTouched
<1>10. Calling'
  <2>1. PICK c : c = [Call EXCEPT !.table = 0]
    OBVIOUS
  <2>2. c \in CallRecords /\ c.table = 0 /\ c.at = Call.at /\ c.new = Call.new
    BY <1>4, <2>1 DEF CallRecords
  <2>3. CallOK(c)
    BY <1>4, <2>2 DEF CallOK, PageOf
  <2>4. tables \subseteq tables' /\ UNCHANGED endAddress
    BY <1>2 DEF books
  <2>5. CallOK(c)'
    BY <2>3, <2>4, CallStaysOK
  <2> QED BY <1>2, <1>3, <1>4, <2>1, <2>2, <2>4, <2>5, UpdatedCalling
<1>11. GivenBack'
  <2>1. exhausted \/ Unbacked' = {}
    <3>1. SUFFICES ASSUME Unbacked = {}, NEW p \in HeapPages, entry'[p].present, entry'[p].frame = 0
                   PROVE  FALSE
      BY <1>6 DEF Unbacked
    <3>2. p \in Pages /\ p \notin junk
      BY <1>5, <3>1, PageNumbers
    <3> QED BY <1>5, <3>1, <3>2 DEF Unbacked
  <2> QED BY <1>2, <2>1 DEF GivenBack
<1> QED BY <1>8, <1>9, <1>10, <1>11 DEF ComposedInv, ActiveInv

LEMMA InstallPreserves ==
  ASSUME ComposedInv, InstallTable
  PROVE  ComposedInv'
<1>1. CASE Call.table < Start
  <2>1. /\ StaticInv /\ kheap /\ status' = "lost"
        /\ UNCHANGED <<paging, present, kheap, astray>>
    BY <1>1, RunningFacts DEF InstallTable, Looping, Stop, composed
  <2> QED BY <2>1, StaticUnlessTouched DEF ComposedInv, ActiveInv
<1>2. CASE ~(Call.table < Start)
  BY <1>2, InstalledPreserves DEF InstallTable, Installs
<1> QED BY <1>1, <1>2

-----------------------------------------------------------------------------
(* expand returns, and contract gives pages back.                           *)
LEMMA MadeBelowLess ==
  ASSUME NEW m \in Int, NEW n \in Int, m <= n, MadeBelow(n)
  PROVE  MadeBelow(m)
<1>1. \A p \in HeapFirst..(m - 1) : p \in HeapFirst..(n - 1)
  BY PageNumbers
<1> QED BY <1>1 DEF MadeBelow

LEMMA PagesInOrder ==
  ASSUME NEW x \in Nat, NEW y \in Nat, x <= y
  PROVE  /\ x \div PageSize \in Nat /\ y \div PageSize \in Nat
         /\ x \div PageSize <= y \div PageSize
<1>1. /\ x \div PageSize \in Nat /\ y \div PageSize \in Nat
      /\ x \div PageSize <= y \div PageSize
  BY PageArithmetic
<1> QED BY <1>1, PageNumbers

LEMMA LeavePreserves ==
  ASSUME ComposedInv, LeaveExpand
  PROVE  ComposedInv'
<1>1. /\ Running /\ Looping /\ Call.table = 0 /\ ~TurnsLeft(Call)
      /\ calls' = SubSeq(calls, 1, Len(calls) - 1) /\ pending' = Call.request
      /\ UNCHANGED <<present, paging, kheap, astray>>
      /\ status' = "running" => /\ H!GiveGrowth(Call.end, Call.new, present)
                                /\ UNCHANGED <<live, requests>>
  BY DEF LeaveExpand, Looping, Stop
<1>2. /\ StaticInv /\ HeapSound /\ Calling /\ GivenBack /\ kheap /\ present \subseteq H!Pages
  BY <1>1, RunningFacts
<1>3. calls # <<>> /\ Call \in CallRecords /\ CallOK(Call)
  BY <1>1, TurnFacts
<1>4. StaticInv'
  BY <1>1, <1>2, StaticUnlessTouched
<1>5. CASE status' # "running"
  BY <1>4, <1>5 DEF ComposedInv, ActiveInv
<1>6. CASE status' = "running"
  <2>1. /\ Call.at \in Nat /\ Call.new \in Nat /\ Call.end \in Nat
        /\ Call.request \in TableRequests /\ Start \in Nat /\ Call.new <= Call.at
        /\ Start + MinSize <= Start + Call.new /\ Start + Call.new <= MaxAddress
    BY <1>1, <1>3, HeapAssumptions DEF CallRecords, CallOK, TurnsLeft
  <2>2. HeapSound' /\ endAddress' = Start + Call.new
    BY <1>1, <1>2, <1>6, <2>1, GrowthSound
  <2>3. /\ endAddress' \div PageSize \in Nat /\ PageOf(Call) \in Nat
        /\ endAddress' \div PageSize <= PageOf(Call)
    <3>1. Start + Call.new \in Nat /\ Start + Call.at \in Nat
          /\ Start + Call.new <= Start + Call.at
      BY <2>1
    <3> QED BY <2>2, <3>1, PagesInOrder DEF PageOf
  <2>4. UNCHANGED <<tables, entry, frames, exhausted>>
    BY <1>1 DEF paging
  <2>5. /\ calls \in Seq(CallRecords) /\ Len(calls) \in Nat \ {0}
    BY <1>2, <1>3 DEF Calling
  <2>6. /\ calls' \in Seq(CallRecords) /\ Len(calls') = Len(calls) - 1
        /\ \A k \in 1..Len(calls') : calls'[k] = calls[k]
    <3>1. PICK n \in Nat : n = Len(calls) - 1
      BY <2>5
    <3>2. calls' = SubSeq(calls, 1, n) /\ n <= Len(calls) /\ n = Len(calls) - 1
      BY <1>1, <2>5, <3>1
    <3>3. \A k \in 1..n : k \in 1..Len(calls)
      BY <2>5, <3>2
    <3>4. Len(SubSeq(calls, 1, n)) = n /\ SubSeq(calls, 1, n) \in Seq(CallRecords)
      BY <2>5, <3>2, <3>3, SubSeqProperties
    <3>5. \A k \in 1..n : SubSeq(calls, 1, n)[k] = calls[k]
      BY <2>5, <3>2, <3>3
    <3> QED BY <3>2, <3>4, <3>5
  <2>7. \A k \in 1..Len(calls') : CallOK(calls[k]) /\ calls[k].table = 0
    <3>1. \A k \in 1..Len(calls') : k \in 1..Len(calls) /\ k < Len(calls)
      BY <2>5, <2>6
    <3> QED BY <1>2, <3>1 DEF Calling
  <2>8. Calling'
    <3>1. ASSUME NEW k \in 1..Len(calls')
          PROVE  (CallOK(calls[k]) /\ (k < Len(calls) => calls[k].table = 0))'
      <4>1. PICK d : d = calls'[k]
        OBVIOUS
      <4>2. CallOK(d) /\ d.table = 0
        BY <2>6, <2>7, <4>1
      <4>3. CallOK(d)'
        BY <2>4, <4>2, CallStaysOK
      <4> QED BY <4>1, <4>2, <4>3 DEF CallOK
    <3>2. calls' # <<>> => Call'.table = 0
      <4>1. calls' # <<>> => Len(calls') \in 1..Len(calls')
        BY <2>6
      <4> QED BY <2>6, <2>7, <4>1 DEF Call
    <3>3. MadeBelow(endAddress \div PageSize)'
      <4>1. MadeBelow(endAddress' \div PageSize)
        BY <1>3, <2>3, MadeBelowLess DEF CallOK
      <4> QED BY <2>4, <4>1 DEF MadeBelow
    <3> QED BY <2>6, <3>1, <3>2, <3>3 DEF Calling
  <2>9. GivenBack'
    <3>1. SUFFICES ASSUME ~exhausted, Unbacked # {}
                   PROVE  /\ 0 \notin frames' /\ Len(calls') <= 1 /\ ~Nested'
                          /\ \E p \in Unbacked : p >= NextPage'
      BY <2>4 DEF GivenBack, Unbacked
    <3>2. 0 \notin frames /\ Len(calls) <= 1
      BY <1>2, <3>1 DEF GivenBack
    <3>3. PICK p \in Unbacked : p >= NextPage
      BY <1>2, <3>1 DEF GivenBack
    <3>4. calls' = <<>>
      BY <2>5, <2>6, <3>2
    <3>5. p \in Nat /\ p >= PageOf(Call)
      BY <1>3, <3>3, PageNumbers DEF Unbacked, NextPage
    <3>6. p >= NextPage'
      BY <2>3, <3>4, <3>5 DEF NextPage
    <3> QED BY <2>4, <3>2, <3>3, <3>4, <3>6 DEF Nested
  <2> QED BY <1>4, <2>2, <2>8, <2>9 DEF ComposedInv, ActiveInv
<1> QED BY <1>5, <1>6

LEMMA DroppedAhead ==
  ASSUME NEW page \in Nat, NEW end \in Nat, endAddress \in Nat, H!Dropped(page, end)
  PROVE  end \div PageSize <= page
<1>1. PageSize \in Nat \ {0}
  BY HeapAssumptions
<1> DEFINE q    == end \div PageSize
           rest == endAddress % PageSize
<1>2. q \in Nat /\ q * PageSize <= end /\ rest \in Nat /\ rest < PageSize
  BY <1>1
<1>3. end < page * PageSize + rest
  BY DEF H!Dropped, H!SamePlace
<1> HIDE DEF q, rest
<1>4. page * PageSize \in Nat /\ q * PageSize \in Nat
  BY <1>1, <1>2
<1>5. q * PageSize < page * PageSize + PageSize
  BY <1>1, <1>2, <1>3, <1>4
<1> QED BY <1>1, <1>2, <1>5, FewerTimes DEF q

LEMMA FreePreserves ==
  ASSUME ComposedInv, NEW b \in live, Free(b)
  PROVE  ComposedInv'
<1> DEFINE back == IF status' = "running" THEN GivesBack(endAddress') ELSE {}
<1>1. /\ Running /\ calls = <<>> /\ H!Free(b)
      /\ frames' = frames \ {FrameNumber(entry[p].frame) : p \in back}
      /\ entry' = [p \in Pages |-> IF p \in back THEN [entry[p] EXCEPT !.frame = 0] ELSE entry[p]]
      /\ UNCHANGED <<tables, placement, phase, i, exhausted, kheap, calls, astray>>
  BY DEF Free
<1>2. /\ StaticInv /\ TypeOK /\ HeapSound /\ Calling /\ GivenBack /\ kheap /\ phase = "running"
      /\ endAddress \in Nat /\ TablesServe /\ TablesInv /\ present = Reached
  BY <1>1, RunningFacts DEF StaticInv
<1>3. HeapSound' /\ endAddress' <= endAddress /\ UNCHANGED <<present, pending>>
  BY <1>1, <1>2, FreeSound
<1>4. endAddress' \in Nat
  BY <1>3 DEF HeapSound, HP!TypeOK
<1>5. \A p \in back : /\ p \in HeapPages /\ p \in Pages /\ entry[p].frame # 0
                      /\ entry[p].frame \in Frames
                      /\ status' = "running" /\ p >= endAddress' \div PageSize
  <2>1. SUFFICES ASSUME status' = "running", NEW page \in GivesBack(endAddress')
                 PROVE  /\ page \in HeapPages /\ page \in Pages
                        /\ entry[page].frame # 0
                        /\ entry[page].frame \in Frames
                        /\ page >= endAddress' \div PageSize
    OBVIOUS
  <2>2. page \in Pages /\ page \in Nat /\ H!Dropped(page, endAddress') /\ entry[page].frame # 0
    BY PageNumbers DEF GivesBack
  <2>3. endAddress' \div PageSize <= page /\ endAddress' \div PageSize \in Nat
        /\ HeapFirst <= endAddress' \div PageSize
    <3>1. Start <= endAddress'
      BY <1>3, <1>4, HeapAssumptions DEF HeapSound, HP!EndInBounds
    <3> QED BY <1>2, <1>4, <2>2, <3>1, DroppedAhead, PageArithmetic
  <2>4. page \in HeapPages
    BY <2>2, <2>3, PageNumbers
  <2>5. entry[page].frame \in Frames
    BY <1>2, <2>2 DEF TypeOK
  <2> QED BY <2>2, <2>3, <2>4, <2>5, PageNumbers
<1> HIDE DEF back
<1>6. frames' = IF back = {} THEN frames ELSE frames \ {0}
  <2>1. \A p \in back : FrameNumber(entry[p].frame) = 0
    BY <1>5, FrameOfNumber
  <2> QED BY <1>1, <2>1
<1>7. /\ entry' \in [Pages -> Entry]
      /\ \A p \in Pages : /\ entry'[p].present = entry[p].present
                          /\ p \in back => entry'[p].frame = 0
                          /\ p \notin back => entry'[p] = entry[p]
  <2>1. entry \in [Pages -> Entry]
    BY <1>2 DEF TypeOK, Entry
  <2>2. ASSUME NEW r \in Entry
        PROVE  /\ [r EXCEPT !.frame = 0] \in Entry /\ [r EXCEPT !.frame = 0].frame = 0
               /\ [r EXCEPT !.frame = 0].present = r.present
    BY ZeroIsFrame DEF Entry
  <2> QED BY <1>1, <2>1, <2>2
<1>8. StaticInv'
  <2>1. TypeOK'
    BY <1>1, <1>2, <1>6, <1>7 DEF TypeOK, Entry
  <2>2. FramesApart'
    <3>1. SUFFICES ASSUME astray = {} PROVE NoSharedFrame' /\ BackedFramesMarked'
      BY <1>1, <2>1 DEF FramesApart
    <3>2. NoSharedFrame /\ BackedFramesMarked
      BY <1>2, <3>1 DEF StaticInv, FramesApart
    <3>3. \A p \in Pages : entry'[p].frame # 0 => entry'[p].frame = entry[p].frame
      BY <1>7
    <3>4. \A p \in Pages : entry'[p].frame \in {0, entry[p].frame}
      BY <1>7
    <3>5. NoSharedFrame'
      BY <1>1, <3>2, <3>3, <3>4 DEF NoSharedFrame
    <3>6. BackedFramesMarked'
      BY <1>1, <1>6, <3>2, <3>3 DEF BackedFramesMarked
    <3> QED BY <3>5, <3>6
  <2>3. present' = Reached'
    BY <1>1, <1>2, <1>3, <1>7, HeapPageNumbers, PageNumbers DEF Reached
  <2>4. TablesServe'
    BY <1>1, <1>2, <1>7 DEF TablesServe
  <2>5. TablesInv'
    BY <1>1, <1>2, <2>4 DEF TablesInv, TablesInOrder, MadeBelow
  <2>6. FreshInv'
    BY <1>1, <1>2 DEF FreshInv
  <2> QED BY <2>2, <2>3, <2>5, <2>6 DEF StaticInv
<1>9. /\ endAddress' \div PageSize \in Nat /\ endAddress \div PageSize \in Nat
      /\ endAddress' \div PageSize <= endAddress \div PageSize
  BY <1>2, <1>3, <1>4, PagesInOrder
<1>10. Calling'
  <2>1. MadeBelow(endAddress' \div PageSize)
    BY <1>2, <1>9, MadeBelowLess DEF Calling
  <2> QED BY <1>1, <1>2, <2>1 DEF Calling, MadeBelow
<1>11. GivenBack'
  <2>1. SUFFICES ASSUME ~exhausted, Unbacked' # {}
                 PROVE  0 \notin frames' /\ \E p \in Unbacked' : p >= NextPage'
    BY <1>1 DEF GivenBack, Nested
  <2>2. NextPage' = endAddress' \div PageSize
        /\ NextPage = endAddress \div PageSize
    BY <1>1 DEF NextPage
  <2>3. CASE Unbacked # {}
    <3>1. 0 \notin frames
      BY <1>2, <2>1, <2>3 DEF GivenBack
    <3>2. PICK p \in Unbacked : p >= NextPage
      BY <1>2, <2>1, <2>3 DEF GivenBack
    <3>3. p \in HeapPages /\ p \in Pages /\ p \in Nat /\ entry[p].present /\ entry[p].frame = 0
      BY <3>2, PageNumbers DEF Unbacked
    <3>4. p \in Unbacked'
      BY <1>5, <1>7, <3>3 DEF Unbacked
    <3>5. p >= NextPage'
      BY <1>9, <2>2, <3>2, <3>3
    <3> QED BY <1>6, <3>1, <3>4, <3>5
  <2>4. CASE Unbacked = {}
    <3>1. PICK p \in HeapPages : entry'[p].present /\ entry'[p].frame = 0
      BY <2>1 DEF Unbacked
    <3>2. p \in back
      BY <1>7, <2>4, <3>1, PageNumbers DEF Unbacked
    <3>3. p \in Unbacked'
      BY <3>1 DEF Unbacked
    <3>4. p >= NextPage'
      BY <1>5, <2>2, <3>2
    <3> QED BY <1>6, <3>2, <3>3, <3>4
  <2> QED BY <2>3, <2>4
<1> QED BY <1>3, <1>8, <1>10, <1>11 DEF ComposedInv, ActiveInv

-----------------------------------------------------------------------------
LEMMA ComposedInvStep ==
  HP!RequestsCannotWrap /\ ComposedInv /\ [ComposedNext]_allVars => ComposedInv'
<1> SUFFICES ASSUME HP!RequestsCannotWrap, ComposedInv, [ComposedNext]_allVars
             PROVE  ComposedInv'
  OBVIOUS
<1>1. CASE Boot
  BY <1>1, BootPreserves
<1>2. CASE CreateHeap
  BY <1>2, CreatePreserves
<1>3. CASE Request
  BY <1>3, RequestPreserves
<1>4. CASE EnterExpand
  BY <1>4, EnterPreserves
<1>5. CASE BackPage
  BY <1>5, BackPreserves
<1>6. CASE AskForTable
  BY <1>6, AskPreserves
<1>7. CASE PlaceTable
  BY <1>7, PlaceTablePreserves
<1>8. CASE InstallTable
  BY <1>8, InstallPreserves
<1>9. CASE LeaveExpand
  BY <1>9, LeavePreserves
<1>10. CASE Place
  BY <1>10, PlacePreserves
<1>11. ASSUME NEW b \in live, Free(b) PROVE ComposedInv'
  BY <1>11, FreePreserves
<1>12. CASE UNCHANGED allVars
  <2>1. UNCHANGED <<books, present, pending, frames, entry, tables, placement, phase, i,
                    exhausted, kheap, calls, astray, endAddress, status>>
    BY <1>12 DEF allVars, books, paging, composed
  <2>2. UNCHANGED <<StaticInv, Calling, GivenBack>>
    BY <2>1 DEF StaticInv, FramesApart, TypeOK, NoSharedFrame, BackedFramesMarked, Reached,
       TablesInv, TablesInOrder, TablesServe, MadeBelow, FreshInv, Early, Unbacked,
       Calling, CallOK, Call, GivenBack, NextPage, Nested
  <2>3. HeapSound => HeapSound'
    <3>1. SUFFICES ASSUME HeapSound PROVE HeapSound'
      OBVIOUS
    <3>2. present' \subseteq H!Pages /\ pending' \in TableRequests \union {H!NoRequest}
      BY <2>1, <3>1, SameHeap DEF HeapSound, HP!TypeOK, TableRequests
    <3> QED BY <2>1, <3>1, <3>2, SoundUnlessTouched
  <2> QED BY <2>1, <2>2, <2>3 DEF ComposedInv, ActiveInv
<1> QED BY <1>1, <1>2, <1>3, <1>4, <1>5, <1>6, <1>7, <1>8, <1>9, <1>10, <1>11, <1>12
        DEF ComposedNext, AllocStep

LEMMA ComposedInvAlways == HP!RequestsCannotWrap /\ ComposedSpec => []ComposedInv
<1> SUFFICES ASSUME HP!RequestsCannotWrap PROVE ComposedSpec => []ComposedInv
  OBVIOUS
<1>1. ComposedInit => ComposedInv
  BY ComposedInvInit
<1>2. ComposedInv /\ [ComposedNext]_allVars => ComposedInv'
  BY ComposedInvStep
<1> QED BY <1>1, <1>2, PTL DEF ComposedSpec

-----------------------------------------------------------------------------
(***************************************************************************)
(* One call of expand, as alloc makes it while every page table it needs   *)
(* is there.  Its frame on the stack says what alloc had found and how far *)
(* the loop has come.                                                      *)
(***************************************************************************)
NeedOf(request) == H!Word(request.size + H!Overhead)
Asked(call) ==
  /\ call.end = endAddress
  /\ H!FindSmallestHole(NeedOf(call.request), call.request.align) = 0
  /\ H!ExpandAsserts(H!Length, H!Length + NeedOf(call.request))
  /\ call.new = H!ExpandedLength(H!Word(H!Length + NeedOf(call.request)))
Backs(call) ==
  /\ H!Length <= call.at /\ call.at < call.new + PageSize
  /\ (Start + call.at) % PageSize = endAddress % PageSize
  /\ present = call.present \union H!ExpandedPages(Start + call.at)
Straight == astray = {} /\ ~exhausted /\ ~Nested /\ Len(calls) <= 1
SingleCall == Running /\ Straight /\ calls # <<>> => Asked(Call) /\ Backs(Call)

(* What the loop reaches, turn by turn: in every page the place the old end *)
(* of the arena has in its own (heap.c:31-36).                              *)
LEMMA LoopPages ==
  ASSUME endAddress \in Nat, NEW a \in Nat, endAddress <= a,
         a % PageSize = endAddress % PageSize, a < MaxAddress
  PROVE  H!ExpandedPages(a + PageSize) = H!ExpandedPages(a) \union {a \div PageSize}
<1> DEFINE r == endAddress % PageSize
           q == a \div PageSize
           t == q * PageSize
<1>1. PageSize \in Nat \ {0}
  BY HeapAssumptions
<1>2. q \in Nat /\ r \in Nat /\ r < PageSize /\ t \in Nat /\ a = t + r /\ q \in H!Pages
  <2>1. q \in Nat /\ r \in Nat /\ r < PageSize /\ t \in Nat /\ a = t + r
    BY <1>1
  <2> QED BY <2>1, PageArithmetic, HeapPageNumbers
<1>3. H!SamePlace(q) = a
  BY <1>2 DEF H!SamePlace
<1>4. ASSUME NEW p \in H!Pages
      PROVE  H!SamePlace(p) < a + PageSize <=> H!SamePlace(p) < a \/ p = q
  <2>1. p \in Nat /\ p * PageSize \in Nat /\ H!SamePlace(p) = p * PageSize + r
    BY <1>1, HeapPageNumbers, PageNumbers DEF H!SamePlace
  <2> DEFINE s == p * PageSize
  <2>2. s < t + PageSize => p <= q
    BY <1>1, <1>2, <2>1, FewerTimes
  <2>3. p <= q /\ p # q => s + PageSize <= t
    <3>1. SUFFICES ASSUME p <= q, p # q, ~(s + PageSize <= t) PROVE FALSE
      OBVIOUS
    <3>2. t < s + PageSize
      BY <1>1, <1>2, <2>1, <3>1
    <3>3. q <= p
      BY <1>1, <1>2, <2>1, <3>2, FewerTimes
    <3> QED BY <1>2, <2>1, <3>1, <3>3
  <2> HIDE DEF s, t, q
  <2>4. s \in Nat /\ H!SamePlace(p) = s + r
    BY <2>1 DEF s
  <2> QED BY <1>1, <1>2, <1>3, <2>2, <2>3, <2>4
<1> HIDE DEF q, t
<1> QED BY <1>1, <1>2, <1>3, <1>4 DEF H!ExpandedPages, q

(* The last turn goes beyond the new end by less than a page, and maps no   *)
(* page in vain.                                                            *)
LEMMA LoopEnd ==
  ASSUME endAddress \in Nat, NEW a \in Nat, NEW top \in Nat,
         a % PageSize = endAddress % PageSize, top <= a, a < top + PageSize
  PROVE  H!ExpandedPages(a) = H!ExpandedPages(top)
<1> DEFINE r == endAddress % PageSize
           q == a \div PageSize
           t == q * PageSize
<1>1. PageSize \in Nat \ {0}
  BY HeapAssumptions
<1>2. q \in Nat /\ r \in Nat /\ r < PageSize /\ t \in Nat /\ a = t + r
  BY <1>1
<1>3. ASSUME NEW p \in H!Pages
      PROVE  H!SamePlace(p) < a <=> H!SamePlace(p) < top
  <2>1. p \in Nat /\ p * PageSize \in Nat /\ H!SamePlace(p) = p * PageSize + r
    BY <1>1, HeapPageNumbers, PageNumbers DEF H!SamePlace
  <2> DEFINE s == p * PageSize
  <2>2. s < t => s + PageSize <= t
    <3>1. SUFFICES ASSUME s < t, ~(s + PageSize <= t) PROVE FALSE
      OBVIOUS
    <3>2. q <= p
      <4>1. t < s + PageSize
        BY <1>1, <1>2, <2>1, <3>1
      <4> QED BY <1>1, <1>2, <2>1, <4>1, FewerTimes
    <3>3. PICK d \in Nat : p = q + d
      <4>1. p - q \in Nat /\ p = q + (p - q)
        BY <1>2, <2>1, <3>2
      <4> QED BY <4>1
    <3>4. s = t + d * PageSize /\ d * PageSize \in Nat
      BY <1>1, <1>2, <3>3
    <3> HIDE DEF s, t
    <3>5. t \in Nat
      BY <1>2
    <3> QED BY <3>1, <3>4, <3>5
  <2> HIDE DEF s, t, q
  <2>3. s \in Nat /\ H!SamePlace(p) = s + r
    BY <2>1 DEF s
  <2> QED BY <1>1, <1>2, <2>2, <2>3
<1> QED BY <1>3 DEF H!ExpandedPages

LEMMA AskedStays ==
  ASSUME NEW call, Asked(call), UNCHANGED <<mem, index, endAddress>>
  PROVE  Asked(call)'
<1> DEFINE fits == {k \in 1..Len(index) : H!Fits(index[k], NeedOf(call.request), call.request.align)}
<1>1. NeedOf(call.request)' = NeedOf(call.request) /\ H!Length' = H!Length
  BY DEF NeedOf, H!Word, H!Overhead, H!Hdr, H!Ftr, H!Length
<1>2. fits' = fits
  BY <1>1 DEF H!Fits, H!AlignOffset, H!Hdr
<1>3. H!FindSmallestHole(NeedOf(call.request), call.request.align)'
        = H!FindSmallestHole(NeedOf(call.request), call.request.align)
  <2>1. H!FindSmallestHole(NeedOf(call.request), call.request.align)
          = IF fits # {} THEN H!Min(fits) ELSE 0
    BY DEF H!FindSmallestHole, H!SelectInSeq
  <2> QED BY <1>2, <2>1 DEF H!FindSmallestHole, H!SelectInSeq
<1> QED BY <1>1, <1>3 DEF Asked, H!ExpandAsserts, H!ExpandedLength, H!Word

LEMMA EnterSingle ==
  ASSUME HP!RequestsCannotWrap, ComposedInv, EnterExpand, status' = "running", calls = <<>>
  PROVE  /\ UNCHANGED books /\ calls' # <<>> /\ Len(calls') = 1
         /\ Call'.request = pending /\ Call'.present = present
         /\ Asked(Call') /\ Backs(Call')
<1> DEFINE new  == H!ExpandedLength(H!Word(H!Length + H!Need))
           call == [request |-> pending, end |-> endAddress, at |-> H!Length, new |-> new,
                    table |-> 0, present |-> present]
<1>1. /\ Running /\ pending # H!NoRequest /\ H!FindSmallestHole(H!Need, pending.align) = 0
      /\ H!ExpandAsserts(H!Length, H!Length + H!Need)
      /\ calls' = Append(calls, call) /\ UNCHANGED books
  BY DEF EnterExpand, H!Panic, Stop, Pushed
<1>2. /\ HeapSound /\ endAddress \in Nat /\ PageSize \in Nat \ {0}
  BY <1>1, RunningFacts, HeapAssumptions
<1>3. /\ H!Length \in Nat /\ Start + H!Length = endAddress /\ new \in Nat /\ H!Length < new
  BY <1>1, <1>2, EnterSound
<1>4. /\ call.request = pending /\ call.end = endAddress /\ call.at = H!Length /\ call.new = new
      /\ call.present = present
  OBVIOUS
<1> HIDE DEF new, call
<1>5. calls' = <<call>> /\ Call' = call
  BY <1>1 DEF Call
<1>6. NeedOf(call.request) = H!Need
  BY <1>4 DEF NeedOf, H!Need
<1>7. Asked(call)
  BY <1>1, <1>4, <1>6 DEF Asked, new
<1>8. H!ExpandedPages(Start + H!Length) = {}
  <2>1. ASSUME NEW p \in H!ExpandedPages(endAddress) PROVE FALSE
    <3>1. p \in Nat /\ p * PageSize \in Nat /\ endAddress % PageSize \in Nat
      BY <1>2, <2>1, HeapPageNumbers, PageNumbers DEF H!ExpandedPages
    <3> QED BY <1>2, <2>1, <3>1 DEF H!ExpandedPages, H!SamePlace
  <2> QED BY <1>3, <2>1
<1>9. Backs(call)
  BY <1>2, <1>3, <1>4, <1>8 DEF Backs
<1> QED BY <1>1, <1>4, <1>5, <1>7, <1>9

(* One turn of the loop.                                                    *)
LEMMA TurnSingle ==
  ASSUME ComposedInv, SingleCall, BackPage, Running', Straight'
  PROVE  /\ Len(calls) = 1 /\ UNCHANGED books
         /\ Call' = Advanced(Call) /\ calls' # <<>>
         /\ SingleCall'
<1> DEFINE p == PageOf(Call)
<1>1. /\ Running /\ Looping /\ Call.table = 0 /\ TurnsLeft(Call) /\ pending = H!NoRequest
      /\ TableOf(p) \in tables /\ AllocFrame(p) /\ Update(Advanced(Call))
      /\ UNCHANGED <<pending, tables, placement, i, kheap, astray>> /\ present' = Reached'
      /\ UNCHANGED books /\ entry'[p].frame # 0 /\ status' = "running" /\ phase' = "running"
      /\ astray' = {} /\ ~exhausted' /\ Len(calls') <= 1
  BY DEF BackPage, Looping, Stop, Running, Straight
<1>2. /\ TypeOK /\ HeapSound /\ Calling /\ TablesServe /\ present = Reached
      /\ endAddress \in Nat /\ Start \in Nat /\ PageSize \in Nat \ {0} /\ MaxAddress \in Nat
  BY <1>1, RunningFacts, HeapAssumptions
<1>3. /\ calls # <<>> /\ Call \in CallRecords /\ CallOK(Call) /\ Advanced(Call) \in CallRecords
      /\ p \in HeapPages /\ p \in Pages
  BY <1>1, TurnFacts
<1>4. /\ calls' # <<>> /\ Len(calls') = Len(calls) /\ Call' = Advanced(Call) /\ Len(calls) = 1
  <2>1. Len(calls) \in Nat \ {0}
    BY <1>2, <1>3 DEF Calling
  <2>2. calls' # <<>> /\ Len(calls') = Len(calls) /\ Call' = Advanced(Call)
    BY <1>1, <1>2, <1>3, UpdateLast DEF Calling
  <2> QED BY <1>1, <2>1, <2>2
<1>5. ~exhausted /\ \A q \in Pages : q # p => entry'[q] = entry[q]
  <2>1. entry[p].frame # 0 => entry' = entry
    BY <1>1, <1>3, <1>2, AllocZero
  <2> QED BY <1>1, <1>2, <1>3, <2>1, AllocZero
<1>6. Asked(Call) /\ Backs(Call)
  BY <1>1, <1>4, <1>5 DEF SingleCall, Straight, Nested
<1>7. TablesServe'
  BY <1>1, <1>2, <1>3, AllocMapped
<1>8. entry'[p].present
  BY <1>1, <1>3, <1>7 DEF TablesServe
<1> DEFINE a == Start + Call.at
<1>9. /\ a \in Nat /\ a + PageSize = Start + Advanced(Call).at /\ endAddress <= a /\ a < MaxAddress
      /\ a % PageSize = endAddress % PageSize /\ p = a \div PageSize
      /\ Call.at \in Nat /\ Call.new \in Nat /\ H!Length <= Call.at
      /\ present = Call.present \union H!ExpandedPages(a)
  <2>1. Call.at \in Nat /\ Call.new \in Nat /\ Start + Call.new <= MaxAddress
        /\ Call.at < Call.new /\ Advanced(Call).at = Call.at + PageSize
    BY <1>1, <1>2, <1>3 DEF CallRecords, CallOK, TurnsLeft, Advanced
  <2> QED BY <1>2, <1>6, <2>1 DEF Backs, H!Length, PageOf
<1> HIDE DEF a
<1>10. H!ExpandedPages(a + PageSize) = H!ExpandedPages(a) \union {a \div PageSize}
  BY <1>2, <1>9, LoopPages
<1>11. present' = present \union {a \div PageSize}
  <2>1. a \div PageSize \in Pages /\ TableOf(p) \notin astray'
    BY <1>1, <1>9, PageArithmetic
  <2>2. \A x \in Pages : x # a \div PageSize => x # p
    BY <1>9
  <2>3. \A x \in Pages : x \in Reached' <=> x \in Reached \/ x = a \div PageSize
    BY <1>1, <1>5, <1>8, <1>9, <2>1, <2>2 DEF Reached
  <2>4. Reached \subseteq Pages /\ Reached' \subseteq Pages
    BY DEF Reached
  <2> HIDE DEF p
  <2> QED BY <1>1, <1>2, <2>1, <2>3, <2>4
<1> PICK c : c = Advanced(Call)
  OBVIOUS
<1>12. /\ c.at = Call.at + PageSize /\ c.end = Call.end /\ c.new = Call.new
       /\ c.request = Call.request /\ c.present = Call.present
  BY <1>3 DEF Advanced, CallRecords
<1>13. Asked(c)
  BY <1>6, <1>12 DEF Asked
<1>14. Asked(c)'
  BY <1>1, <1>13, AskedStays DEF books
<1>15. Backs(c)'
  <2>1. (Start + c.at) = a + PageSize /\ (a + PageSize) % PageSize = a % PageSize
    <3>1. (a + PageSize) % PageSize = a % PageSize
      <4>1. a \in Nat /\ PageSize \in Nat \ {0}
        BY <1>2, <1>9
      <4>2. (a + PageSize) \div PageSize = a \div PageSize + 1 /\ a \div PageSize \in Nat
        BY <4>1, PageArithmetic
      <4> DEFINE t == (a \div PageSize) * PageSize
      <4>3. t \in Nat /\ a = t + (a % PageSize) /\ a % PageSize \in Nat
        BY <4>1
      <4>4. a + PageSize = ((a + PageSize) \div PageSize) * PageSize + ((a + PageSize) % PageSize)
            /\ (a + PageSize) % PageSize \in Nat
        BY <4>1
      <4>5. ((a + PageSize) \div PageSize) * PageSize = t + PageSize
        BY <4>1, <4>2
      <4> HIDE DEF t
      <4> QED BY <4>1, <4>3, <4>4, <4>5
    <3> QED BY <1>2, <1>9, <1>12, <3>1
  <2>2. endAddress' = endAddress /\ H!Length' = H!Length /\ H!Length \in Int
    BY <1>1, <1>2 DEF books, H!Length
  <2>3. H!ExpandedPages(Start + c.at)' = H!ExpandedPages(Start + c.at)
    BY <2>2 DEF H!ExpandedPages, H!SamePlace, H!Pages, H!Cells
  <2>4. present' = c.present \union H!ExpandedPages(Start + c.at)
    BY <1>9, <1>10, <1>11, <1>12, <2>1
  <2>5. c.at < c.new + PageSize /\ H!Length <= c.at
    <3>1. Call.at < Call.new
      BY <1>1 DEF TurnsLeft
    <3> QED BY <1>2, <1>9, <1>12, <2>2, <3>1
  <2> QED BY <1>9, <2>1, <2>2, <2>3, <2>4, <2>5 DEF Backs
<1>16. SingleCall'
  <2>1. Call' = c
    BY <1>4
  <2> QED BY <1>14, <1>15, <2>1 DEF SingleCall, Asked, Backs
<1> QED BY <1>1, <1>4, <1>16


(* A call of expand that returns to no other was the only one.              *)
LEMMA LeftAlone ==
  ASSUME ComposedInv, LeaveExpand, calls' = <<>>
  PROVE  Len(calls) = 1
<1>1. Running /\ calls # <<>> /\ calls' = SubSeq(calls, 1, Len(calls) - 1)
  BY DEF LeaveExpand, Looping
<1>2. calls \in Seq(CallRecords) /\ Len(calls) \in Nat \ {0}
  BY <1>1, RunningFacts DEF Calling
<1>3. PICK n \in Nat : n = Len(calls) - 1
  BY <1>2
<1>4. calls' = SubSeq(calls, 1, n)
  BY <1>1, <1>3
<1>5. \A k \in 1..n : k \in 1..Len(calls)
  BY <1>2, <1>3
<1>6. Len(SubSeq(calls, 1, n)) = n
  BY <1>2, <1>5, SubSeqProperties
<1>7. Len(SubSeq(calls, 1, n)) = 0
  BY <1>4
<1>8. n = 0
  BY <1>6, <1>7
<1> QED BY <1>2, <1>3, <1>8

(* The steps that lead to a state where one call runs straight, or none:    *)
(* a table, once asked for, stays astray and so keeps the call from it.     *)
LEMMA StraightSteps ==
  ASSUME ComposedInv, Running', Straight'
  PROVE  /\ ~AskForTable /\ ~PlaceTable /\ ~InstallTable
         /\ EnterExpand => calls = <<>>
         /\ LeaveExpand => calls' = <<>>
<1>1. kheap' /\ status' = "running" /\ phase' = "running" /\ astray' = {} /\ ~exhausted'
      /\ ~Nested' /\ Len(calls') <= 1
  BY DEF Running, Straight
<1>2. ASSUME EnterExpand PROVE calls = <<>>
  <2>1. SUFFICES ASSUME calls # <<>> PROVE FALSE
    OBVIOUS
  <2>2. Calling
    BY <1>2, RunningFacts DEF EnterExpand
  <2>3. Len(calls) \in Nat \ {0}
    BY <2>1, <2>2 DEF Calling
  <2>4. PICK rec : calls' = Append(calls, rec)
    BY <1>1, <1>2 DEF EnterExpand, H!Panic, Stop, Pushed
  <2>5. Len(calls') = Len(calls) + 1
    BY <2>2, <2>4 DEF Calling
  <2> QED BY <1>1, <2>3, <2>5
<1>3. ASSUME AskForTable PROVE FALSE
  <2>1. pending' \in TableRequests /\ calls' # <<>>
    BY <1>3 DEF AskForTable, TableRequest, TableRequests, Looping, composed
  <2> QED BY <1>1, <2>1, NoRequestIsNone DEF Nested, H!NoRequest
<1>4. ASSUME PlaceTable PROVE FALSE
  <2>1. /\ Running /\ calls # <<>> /\ H!Place /\ Update([Call EXCEPT !.table = TablePlaced])
    BY <1>1, <1>4 DEF PlaceTable
  <2>2. HeapSound /\ Calling /\ pending \in TableRequests
    BY <2>1, RunningFacts DEF H!Place
  <2>3. TablePlaced \in Nat \ {0}
    BY <1>1, <2>1, <2>2, TableMapped
  <2>4. Call \in CallRecords
    BY <2>1, <2>2 DEF Calling, Call
  <2>5. PICK c : c = [Call EXCEPT !.table = TablePlaced]
    OBVIOUS
  <2>6. c \in CallRecords /\ c.table # 0
    BY <2>3, <2>4, <2>5 DEF CallRecords
  <2>7. Call' = c /\ calls' # <<>>
    BY <2>1, <2>2, <2>5, <2>6, UpdateLast DEF Calling
  <2> QED BY <1>1, <2>6, <2>7 DEF Nested
<1>5. ASSUME InstallTable PROVE FALSE
  <2>1. Looping /\ Call.table # 0 /\ ~(Call.table < Start) /\ Installs
    BY <1>1, <1>5 DEF InstallTable, Stop, Installs
  <2>2. UNCHANGED exhausted
    BY <2>1 DEF Installs, InstallAt
  <2> QED BY <1>1, <2>1, <2>2, InstallAstray
<1>6. ASSUME LeaveExpand PROVE calls' = <<>>
  <2>1. Running /\ Looping /\ pending' = Call.request
    BY <1>6 DEF LeaveExpand, Looping
  <2>2. pending' \in TableRequests
    BY <2>1, TurnFacts DEF CallRecords
  <2> QED BY <1>1, <2>2, NoRequestIsNone DEF Nested, H!NoRequest
<1> QED BY <1>2, <1>3, <1>4, <1>5, <1>6

(* No other step touches a call that runs straight, or lets a state where   *)
(* none does become one where one does.                                     *)
LEMMA SingleCallStep ==
  ASSUME HP!RequestsCannotWrap, ComposedInv, SingleCall, [ComposedNext]_allVars
  PROVE  SingleCall'
<1> SUFFICES ASSUME Running', Straight', calls' # <<>>
             PROVE  Asked(Call)' /\ Backs(Call)'
  BY DEF SingleCall
<1>1. kheap' /\ status' = "running" /\ phase' = "running" /\ astray' = {} /\ ~exhausted'
      /\ ~Nested' /\ Len(calls') <= 1
  BY DEF Running, Straight
<1>2. CASE Boot
  BY <1>1, <1>2 DEF Boot, MakeHeapTables, IdentityMap, BackHeap, composed, ComposedInv, StaticInv,
     FreshInv
<1>3. CASE CreateHeap
  BY <1>3 DEF CreateHeap, ComposedInv, StaticInv, FreshInv
<1>4. CASE Request \/ Place \/ \E b \in live : Free(b)
  BY <1>4 DEF Request, Place, Free, composed
<1>5. CASE EnterExpand
  <2>1. calls = <<>>
    BY <1>5, StraightSteps
  <2>2. Asked(Call') /\ Backs(Call') /\ UNCHANGED <<mem, index, endAddress, present>>
    BY <1>1, <1>5, <2>1, EnterSingle DEF books, EnterExpand
  <2>3. PICK c : c = Call'
    OBVIOUS
  <2>4. Asked(c)' /\ Backs(c)'
    <3>1. Asked(c)'
      BY <2>2, <2>3, AskedStays
    <3>2. Backs(c)'
      BY <2>2, <2>3 DEF Backs, H!Length, H!ExpandedPages, H!SamePlace, H!Pages, H!Cells
    <3> QED BY <3>1, <3>2
  <2> QED BY <2>3, <2>4 DEF Asked, Backs
<1>6. CASE BackPage
  BY <1>6, TurnSingle DEF SingleCall
<1>7. CASE AskForTable \/ PlaceTable \/ InstallTable \/ LeaveExpand
  BY <1>7, StraightSteps
<1>8. CASE UNCHANGED allVars
  <2>1. UNCHANGED <<mem, index, endAddress, present, calls, pending, status, kheap, astray, phase,
                    exhausted>>
    BY <1>8 DEF allVars, books, paging, composed
  <2>2. Asked(Call) /\ Backs(Call)
    BY <1>1, <2>1 DEF SingleCall, Running, Straight, Nested, Call
  <2>3. PICK c : c = Call
    OBVIOUS
  <2>4. Call' = c
    BY <2>1, <2>3 DEF Call
  <2>5. Asked(c)'
    BY <2>1, <2>2, <2>3, AskedStays
  <2>6. Backs(c)'
    BY <2>1, <2>2, <2>3 DEF Backs, H!Length, H!ExpandedPages, H!SamePlace, H!Pages, H!Cells
  <2> QED BY <2>4, <2>5, <2>6 DEF Asked, Backs
<1> QED BY <1>2, <1>3, <1>4, <1>5, <1>6, <1>7, <1>8 DEF ComposedNext, AllocStep

-----------------------------------------------------------------------------
(* The heap that others see is the heap itself while expand is not running; *)
(* what looks neither at the request nor at the pages is the same anyway.   *)
LEMMA WholeHeap ==
  /\ H!Overhead = Whole!Overhead
  /\ H!NoRequest = Whole!NoRequest
  /\ \A x : H!Word(x) = Whole!Word(x)
  /\ H!Length = Whole!Length
  /\ \A size, align : H!FindSmallestHole(size, align) = Whole!FindSmallestHole(size, align)
  /\ \A need : H!ExpandedLength(need) = Whole!ExpandedLength(need)
  /\ \A newEnd : H!ExpandedPages(newEnd) = Whole!ExpandedPages(newEnd)
  /\ \A old, need : H!ExpandAsserts(old, need) <=> Whole!ExpandAsserts(old, need)
  /\ \A oldEnd, new, pages : H!GiveGrowth(oldEnd, new, pages) <=> Whole!GiveGrowth(oldEnd, new, pages)
  /\ <<Outer, Seen, Outer', Seen'>> = <<pending, present, pending', present'>> =>
       /\ H!Need = Whole!Need
       /\ H!Panic <=> Whole!Panic
       /\ H!Request <=> Whole!Request
       /\ H!Place <=> Whole!Place
       /\ \A b : H!Free(b) <=> Whole!Free(b)
<1>1. /\ H!Hdr = Whole!Hdr
      /\ H!Ftr = Whole!Ftr
      /\ H!Overhead = Whole!Overhead
      /\ H!Payload = Whole!Payload
      /\ H!NoRequest = Whole!NoRequest
      /\ H!Cells = Whole!Cells
      /\ H!Pages = Whole!Pages
  BY DEF H!Hdr, Whole!Hdr, H!Ftr, Whole!Ftr, H!Overhead, Whole!Overhead,
     H!Payload, Whole!Payload, H!NoRequest,
     Whole!NoRequest, H!Cells, Whole!Cells, H!Pages, Whole!Pages
<1>2. \A x : H!Word(x) = Whole!Word(x)
  BY DEF H!Word, Whole!Word
<1>3. H!Length = Whole!Length
  BY DEF H!Length, Whole!Length
<1>4. \A a, n, pages : H!Accessible(a, n, pages) <=> Whole!Accessible(a, n, pages)
  BY <1>1 DEF H!Accessible, Whole!Accessible
<1>5. \A m, a, isHole, size : H!PutHeader(m, a, isHole, size) = Whole!PutHeader(m, a, isHole, size)
  BY <1>1 DEF H!PutHeader, Whole!PutHeader
<1>6. \A m, a, header : H!PutFooter(m, a, header) = Whole!PutFooter(m, a, header)
  BY <1>1 DEF H!PutFooter, Whole!PutFooter
<1>7. \A m : H!SizeKey(m) = Whole!SizeKey(m)
  BY <1>1 DEF H!SizeKey, Whole!SizeKey
<1>8. \A s, k : H!RemoveAt(s, k) = Whole!RemoveAt(s, k)
  BY DEF H!RemoveAt, Whole!RemoveAt
<1>9. \A s, k, e : H!InsertAt(s, k, e) = Whole!InsertAt(s, k, e)
  BY DEF H!InsertAt, Whole!InsertAt
<1>10. \A arr, item, key, k : H!IsInsertPosition(arr, item, key, k) <=> Whole!IsInsertPosition(arr, item, key, k)
  BY DEF H!IsInsertPosition, Whole!IsInsertPosition
<1>11. \A arr, item, key : H!InsertPosition(arr, item, key) = Whole!InsertPosition(arr, item, key)
  BY <1>10 DEF H!InsertPosition, Whole!InsertPosition
<1>12. \A arr, item, key : H!InsertOrderedArray(arr, item, key) = Whole!InsertOrderedArray(arr, item, key)
  BY <1>9, <1>11 DEF H!InsertOrderedArray, Whole!InsertOrderedArray
<1>13. \A arr, k : H!RemoveOrderedArray(arr, k) = Whole!RemoveOrderedArray(arr, k)
  BY <1>8 DEF H!RemoveOrderedArray, Whole!RemoveOrderedArray
<1>14. \A S : H!Min(S) = Whole!Min(S)
  BY DEF H!Min, Whole!Min
<1>15. \A arr, item : H!PositionOf(arr, item) = Whole!PositionOf(arr, item)
  BY <1>14 DEF H!PositionOf, Whole!PositionOf, H!SelectInSeq,
     Whole!SelectInSeq
<1>16. \A h : H!AlignOffset(h) = Whole!AlignOffset(h)
  BY <1>1 DEF H!AlignOffset, Whole!AlignOffset
<1>17. \A h, size, align : H!Fits(h, size, align) <=> Whole!Fits(h, size, align)
  <2>1. \A x : H!Signed(x) = Whole!Signed(x)
    BY DEF H!Signed, Whole!Signed
  <2> QED BY <1>16, <2>1 DEF H!Fits, Whole!Fits
<1>18. \A size, align : H!FindSmallestHole(size, align) = Whole!FindSmallestHole(size, align)
  BY <1>14, <1>17 DEF H!FindSmallestHole, Whole!FindSmallestHole,
     H!SelectInSeq, Whole!SelectInSeq
<1>19. \A h : H!RightOf(h) = Whole!RightOf(h)
  BY DEF H!RightOf, Whole!RightOf
<1>20. \A h : H!IsLast(h) <=> Whole!IsLast(h)
  BY <1>19 DEF H!IsLast, Whole!IsLast
<1>21. \A s : H!ToSet(s) = Whole!ToSet(s)
  BY DEF H!ToSet, Whole!ToSet
<1>22. H!EndsInHole <=> Whole!EndsInHole
  BY <1>20, <1>21 DEF H!EndsInHole, Whole!EndsInHole
<1>23. \A size, align : H!MayAsk(size, align) <=> Whole!MayAsk(size, align)
  BY <1>1, <1>2, <1>18, <1>22 DEF H!MayAsk, Whole!MayAsk
<1>24. \A need : H!ExpandedLength(need) = Whole!ExpandedLength(need)
  BY DEF H!ExpandedLength, Whole!ExpandedLength
<1>25. \A p : H!SamePlace(p) = Whole!SamePlace(p)
  BY DEF H!SamePlace, Whole!SamePlace
<1>26. \A newEnd : H!ExpandedPages(newEnd) = Whole!ExpandedPages(newEnd)
  BY <1>1, <1>25 DEF H!ExpandedPages, Whole!ExpandedPages
<1>27. \A old, need : H!ExpandAsserts(old, need) <=> Whole!ExpandAsserts(old, need)
  BY <1>2, <1>24 DEF H!ExpandAsserts, Whole!ExpandAsserts
<1>28. H!EndmostHole = Whole!EndmostHole
  BY <1>21 DEF H!EndmostHole, Whole!EndmostHole
<1>29. \A oldEnd, new, pages : H!GiveGrowth(oldEnd, new, pages) <=> Whole!GiveGrowth(oldEnd, new, pages)
  <2> TAKE oldEnd, new, pages
  <2>1. CASE index = <<>>
    BY <1>1, <1>2, <1>4, <1>5, <1>6, <1>7, <1>12, <2>1 DEF H!GiveGrowth,
       Whole!GiveGrowth
  <2>2. CASE index # <<>>
    BY <1>1, <1>2, <1>4, <1>5, <1>6, <1>7, <1>12, <1>28, <2>2 DEF
       H!GiveGrowth, Whole!GiveGrowth
  <2> QED BY <2>1, <2>2
<1>30. \A m, c : H!BlockWrites(m, c) = Whole!BlockWrites(m, c)
  BY <1>1, <1>5, <1>6 DEF H!BlockWrites, Whole!BlockWrites
<1>31. \A m, c, h : H!FrontWrites(m, c, h) = Whole!FrontWrites(m, c, h)
  BY <1>1, <1>5, <1>6 DEF H!FrontWrites, Whole!FrontWrites
<1>32. \A m, c, hole : H!RestWrites(m, c, hole) = Whole!RestWrites(m, c, hole)
  BY <1>1, <1>2, <1>5, <1>6 DEF H!RestWrites, Whole!RestWrites
<1>33. \A m, b : H!FillPayload(m, b) = Whole!FillPayload(m, b)
  BY <1>1 DEF H!FillPayload, Whole!FillPayload
<1>34. \A n : H!PageBitSet(n) <=> Whole!PageBitSet(n)
  BY DEF H!PageBitSet, Whole!PageBitSet
<1>35. \A n : H!ContractedLength(n) = Whole!ContractedLength(n)
  BY <1>34 DEF H!ContractedLength, Whole!ContractedLength
<1>36. \A p, newEnd : H!Dropped(p, newEnd) <=> Whole!Dropped(p, newEnd)
  BY <1>25 DEF H!Dropped, Whole!Dropped
<1>37. \A m, newEnd : H!DropPages(m, newEnd) = Whole!DropPages(m, newEnd)
  BY <1>1, <1>36 DEF H!DropPages, Whole!DropPages
<1>38. \A h : H!Marked(h) = Whole!Marked(h)
  BY DEF H!Marked, Whole!Marked
<1>39. \A h : H!LeftFooter(h) = Whole!LeftFooter(h)
  BY <1>1 DEF H!LeftFooter, Whole!LeftFooter
<1>40. \A h : H!IsLeftHole(h) <=> Whole!IsLeftHole(h)
  BY <1>1, <1>38, <1>39 DEF H!IsLeftHole, Whole!IsLeftHole
<1>41. \A h : H!UnifyLeft(h) = Whole!UnifyLeft(h)
  BY <1>2, <1>38, <1>39, <1>40 DEF H!UnifyLeft, Whole!UnifyLeft
<1>42. \A m, right : H!IsRightHole(m, right) <=> Whole!IsRightHole(m, right)
  BY <1>1 DEF H!IsRightHole, Whole!IsRightHole
<1>43. \A l, right : H!UnifyRight(l, right) = Whole!UnifyRight(l, right)
  BY <1>2, <1>13, <1>15, <1>42 DEF H!UnifyRight, Whole!UnifyRight
<1>44. \A r, header : H!ContractSound(r, header) <=> Whole!ContractSound(r, header)
  BY <1>2, <1>3 DEF H!ContractSound, Whole!ContractSound
<1>45. \A h : H!NoRightHole(h) <=> Whole!NoRightHole(h)
  BY <1>19, <1>20, <1>21 DEF H!NoRightHole, Whole!NoRightHole
<1>46. \A h : H!ReachesEnd(h) <=> Whole!ReachesEnd(h)
  BY <1>19, <1>20, <1>21 DEF H!ReachesEnd, Whole!ReachesEnd
<1>47. \A h : H!Survives(h) <=> Whole!Survives(h)
  BY <1>1, <1>41 DEF H!Survives, Whole!Survives
<1>48. \A h : H!MayFree(h) <=> Whole!MayFree(h)
  BY <1>45, <1>46, <1>47 DEF H!MayFree, Whole!MayFree
<1>49. ASSUME <<Outer, Seen, Outer', Seen'>> = <<pending, present, pending', present'>>
      PROVE  /\ H!Need = Whole!Need
             /\ H!Panic <=> Whole!Panic
             /\ H!Request <=> Whole!Request
             /\ H!Place <=> Whole!Place
             /\ \A b : H!Free(b) <=> Whole!Free(b)
  <2>1. <<Outer, Seen, Outer', Seen'>> = <<pending, present, pending', present'>>
    BY <1>49
  <2>2. H!Need = Whole!Need
    BY <2>1, <1>1, <1>2 DEF H!Need, Whole!Need
  <2>3. H!Panic <=> Whole!Panic
    BY <2>1 DEF H!Panic, Whole!Panic
  <2>4. H!Request <=> Whole!Request
    <3> DEFINE guard == /\ status = "running" /\ pending = H!NoRequest
                        /\ H!Cardinality(live) < MaxLive /\ requests < MaxRequests
                        /\ requests' = requests + 1
                        /\ UNCHANGED <<mem, index, endAddress, present, live, status>>
               asked == \E size \in Sizes, align \in Aligns :
                          H!MayAsk(size, align) /\ pending' = [size |-> size, align |-> align]
               told  == \E size \in Sizes, align \in Aligns :
                          Whole!MayAsk(size, align) /\ Outer' = [size |-> size, align |-> align]
    <3>1. asked <=> told
      BY <1>23, <2>1
    <3>2. H!Request <=> guard /\ asked
      BY DEF H!Request
    <3>3. Whole!Request <=> guard /\ told
      <4>1. (Outer = Whole!NoRequest <=> pending = H!NoRequest) /\ (Seen' = Seen <=> present' = present)
        BY <1>1, <2>1
      <4>2. H!Cardinality(live) = Whole!Cardinality(live)
        BY DEF H!Cardinality, Whole!Cardinality
      <4> QED BY <4>1, <4>2 DEF Whole!Request
    <3> HIDE DEF guard, asked, told
    <3> QED BY <3>1, <3>2, <3>3
  <2>5. \A h : H!Cut(h) = Whole!Cut(h)
    BY <2>1, <1>1, <1>2, <1>31, <2>2 DEF H!Cut, Whole!Cut
  <2>6. \A c, h : H!PlaceTouches(c, h) <=> Whole!PlaceTouches(c, h)
    BY <2>1, <1>1, <1>2, <1>4 DEF H!PlaceTouches, Whole!PlaceTouches
  <2>7. \A c : H!Granted(c) = Whole!Granted(c)
    BY <2>1, <1>1 DEF H!Granted, Whole!Granted
  <2>8. H!Place <=> Whole!Place
    <3>1. \A c, h : H!CutWrites(c, h) = Whole!CutWrites(c, h)
      BY <1>30, <1>31, <1>32 DEF H!CutWrites, Whole!CutWrites
    <3>2. \A c, h, kept : H!PlaceIn(c, h, kept) <=> Whole!PlaceIn(c, h, kept)
      BY <2>1, <1>1, <1>4, <1>7, <1>12, <1>33, <2>3, <2>6, <2>7, <3>1
         DEF H!PlaceIn, Whole!PlaceIn
    <3> QED BY <2>1, <1>1, <1>13, <1>18, <2>2, <2>5, <3>2 DEF H!Place, Whole!Place
  <2>9. \A r, header, right : H!Contract(r, header, right) = Whole!Contract(r, header, right)
    BY <2>1, <1>1, <1>2, <1>3, <1>4, <1>6, <1>13, <1>15, <1>35, <1>37 DEF
       H!Contract, Whole!Contract
  <2>10. \A h : H!LeftSound(h) <=> Whole!LeftSound(h)
    BY <2>1, <1>1, <1>4, <1>39 DEF H!LeftSound, Whole!LeftSound
  <2>11. \A l, right : H!RightSound(l, right) <=> Whole!RightSound(l, right)
    BY <2>1, <1>1, <1>4, <1>15, <1>42, SMTT(30) DEF H!RightSound, Whole!RightSound
  <2>12. \A b : H!Free(b) <=> Whole!Free(b)
    BY <2>1, <1>1, <1>4, <1>7, <1>12, <1>41, <1>43, <1>44, <1>48, <2>3, <2>9,
       <2>10, <2>11, SMTT(90) DEF H!Free, Whole!Free
  <2> QED BY <2>2, <2>3, <2>4, <2>8, <2>12
<1> QED BY <1>1, <1>2, <1>3, <1>18, <1>24, <1>26, <1>27, <1>29, <1>49

LEMMA RequestSeen ==
  ASSUME Request \/ Place \/ \E b \in live : Free(b)
  PROVE  Whole!Next
<1>1. calls = <<>> /\ calls' = calls
  BY DEF Request, Place, Free, composed
<1>2. <<Outer, Seen, Outer', Seen'>> = <<pending, present, pending', present'>>
  BY <1>1 DEF Outer, Seen
<1>3. H!Request \/ H!Place \/ \E b \in live : H!Free(b)
  BY DEF Request, Place, Free
<1>4. Whole!Request \/ Whole!Place \/ \E b \in live : Whole!Free(b)
  BY <1>2, <1>3, WholeHeap
<1> QED BY <1>4 DEF Whole!Next

LEMMA EnterSeen ==
  ASSUME HP!RequestsCannotWrap, ComposedInv, Told, EnterExpand, Told'
  PROVE  UNCHANGED Whole!vars \/ Whole!Next
<1>1. /\ status = "running" /\ pending # H!NoRequest /\ calls = <<>>
      /\ H!FindSmallestHole(H!Need, pending.align) = 0
      /\ UNCHANGED present
  BY DEF EnterExpand, Running, Told, Nested
<1>2. CASE status' = "running"
  <2>1. /\ UNCHANGED books /\ calls' # <<>> /\ Len(calls') = 1
        /\ Call'.request = pending /\ Call'.present = present
    BY <1>1, <1>2, EnterSingle
  <2>2. calls'[1].request = pending /\ calls'[1].present = present
    BY <2>1 DEF Call
  <2>3. Outer' = Outer /\ Seen' = Seen
    BY <1>1, <2>1, <2>2 DEF Outer, Seen
  <2> QED BY <2>1, <2>3 DEF Whole!vars, books
<1>3. CASE status' # "running"
  <2>1. /\ ~H!ExpandAsserts(H!Length, H!Length + H!Need)
        /\ H!Panic /\ calls' = calls
    BY <1>1, <1>3 DEF EnterExpand, Told, Stop, books
  <2>2. <<Outer, Seen, Outer', Seen'>> = <<pending, present, pending', present'>>
    BY <1>1, <2>1 DEF Outer, Seen
  <2>3. /\ Whole!Panic /\ Outer # Whole!NoRequest
        /\ Whole!FindSmallestHole(Whole!Need, Outer.align) = 0
        /\ ~Whole!ExpandAsserts(Whole!Length, Whole!Length + Whole!Need)
    BY <1>1, <2>1, <2>2, WholeHeap
  <2>4. Whole!Expand
    BY <1>1, <2>3 DEF Whole!Expand
  <2> QED BY <2>4 DEF Whole!Next
<1> QED BY <1>2, <1>3

LEMMA TurnSeen ==
  ASSUME ComposedInv, BackPage, Told'
  PROVE  UNCHANGED Whole!vars
<1>1. Running /\ Looping /\ UNCHANGED books /\ Update(Advanced(Call))
  <2>1. status' # "lost"
    BY DEF Told
  <2> QED BY <2>1 DEF BackPage, Looping, Stop
<1>2. /\ calls # <<>> /\ calls \in Seq(CallRecords) /\ Call \in CallRecords
      /\ Advanced(Call) \in CallRecords
  BY <1>1, RunningFacts, TurnFacts DEF Calling
<1>3. /\ Advanced(Call).request = Call.request /\ Advanced(Call).present = Call.present
  BY <1>2 DEF Advanced, CallRecords
<1>4. /\ calls' # <<>> /\ Len(calls') = Len(calls) /\ Len(calls) \in Nat /\ 1 \in 1..Len(calls)
      /\ Call' = Advanced(Call)
      /\ \A k \in 1..Len(calls) : k # Len(calls) => calls'[k] = calls[k]
  BY <1>1, <1>2, UpdateLast
<1>5. calls'[1].request = calls[1].request /\ calls'[1].present = calls[1].present
  <2>1. CASE Len(calls) = 1
    BY <1>3, <1>4, <2>1 DEF Call
  <2>2. CASE Len(calls) # 1
    BY <1>4, <2>2
  <2> QED BY <2>1, <2>2
<1>6. Outer' = Outer /\ Seen' = Seen
  BY <1>2, <1>4, <1>5 DEF Outer, Seen
<1> QED BY <1>1, <1>6 DEF Whole!vars, books

LEMMA LeaveSeen ==
  ASSUME ComposedInv, SingleCall, Told, LeaveExpand, Told'
  PROVE  Whole!Next
<1>1. /\ Running /\ Looping /\ Call.table = 0 /\ ~TurnsLeft(Call)
      /\ H!GiveGrowth(Call.end, Call.new, present) /\ UNCHANGED <<live, requests>>
      /\ calls' = SubSeq(calls, 1, Len(calls) - 1) /\ pending' = Call.request
      /\ present' = present
  <2>1. status' # "lost"
    BY DEF Told
  <2> QED BY <2>1 DEF LeaveExpand, Looping, Stop
<1>2. /\ calls # <<>> /\ calls \in Seq(CallRecords) /\ Call \in CallRecords /\ CallOK(Call)
      /\ endAddress \in Nat /\ Start \in Nat /\ PageSize \in Nat \ {0}
      /\ Call.request # H!NoRequest /\ status = "running"
  BY <1>1, RunningFacts, TurnFacts, NoRequestIsNone, HeapAssumptions
     DEF Calling, CallRecords, Running
<1>3. Len(calls) = 1 /\ calls' = <<>>
  <2>1. calls' = <<>>
    BY <1>1, <1>2 DEF Told, Nested, H!NoRequest
  <2> QED BY <2>1, LeftAlone
<1>4. Asked(Call) /\ Backs(Call)
  BY <1>1, <1>2, <1>3 DEF SingleCall, Straight, Told
<1>5. /\ Outer = Call.request /\ Seen = Call.present
      /\ Outer' = Call.request /\ Seen' = present
  BY <1>1, <1>2, <1>3 DEF Outer, Seen, Call
<1>6. Whole!Need = NeedOf(Call.request)
  BY <1>5, WholeHeap DEF Whole!Need, NeedOf
<1>7. /\ Whole!FindSmallestHole(Whole!Need, Outer.align) = 0
      /\ Whole!ExpandAsserts(Whole!Length, Whole!Length + Whole!Need)
      /\ Call.new = Whole!ExpandedLength(Whole!Word(Whole!Length + Whole!Need))
      /\ Outer # Whole!NoRequest
  BY <1>2, <1>4, <1>5, <1>6, WholeHeap DEF Asked
<1>8. present = Seen \union Whole!ExpandedPages(Start + Call.new)
  <2>1. Call.at \in Nat /\ Call.new \in Nat /\ Call.new <= Call.at
    BY <1>1, <1>2 DEF CallRecords, TurnsLeft
  <2> DEFINE a   == Start + Call.at
             top == Start + Call.new
  <2>2. /\ a \in Nat /\ top \in Nat /\ a % PageSize = endAddress % PageSize
        /\ top <= a /\ a < top + PageSize /\ present = Call.present \union H!ExpandedPages(a)
    BY <1>2, <1>4, <2>1 DEF Backs
  <2> HIDE DEF a, top
  <2>3. H!ExpandedPages(a) = H!ExpandedPages(top)
    BY <1>2, <2>2, LoopEnd
  <2> QED BY <1>5, <2>2, <2>3, WholeHeap DEF top
<1>9. Whole!ExpandHeap(Call.new)
  <2>1. Call.end = endAddress
    BY <1>4 DEF Asked
  <2>2. Whole!GiveGrowth(endAddress, Call.new, present)
    BY <1>1, <2>1, WholeHeap
  <2> QED BY <1>1, <1>5, <1>8, <2>2 DEF Whole!ExpandHeap
<1>10. Whole!Expand
  BY <1>2, <1>7, <1>9 DEF Whole!Expand
<1> QED BY <1>10 DEF Whole!Next

LEMMA StepSeen ==
  ASSUME HP!RequestsCannotWrap, ComposedInv, SingleCall, ComposedNext, Told, Told'
  PROVE  UNCHANGED Whole!vars \/ Whole!Next
<1>1. CASE Boot \/ CreateHeap
  BY <1>1 DEF Told, Boot, CreateHeap, MakeHeapTables, IdentityMap, BackHeap, ComposedInv,
     StaticInv, FreshInv
<1>2. CASE Request \/ Place \/ \E b \in live : Free(b)
  BY <1>2, RequestSeen
<1>3. CASE EnterExpand
  BY <1>3, EnterSeen
<1>4. CASE BackPage
  BY <1>4, TurnSeen
<1>5. CASE LeaveExpand
  BY <1>5, LeaveSeen
<1>6. CASE AskForTable
  <2>1. pending' \in TableRequests
    BY <1>6 DEF AskForTable, TableRequest, TableRequests
  <2>2. calls' # <<>>
    BY <1>6 DEF AskForTable, Looping, composed
  <2> QED BY <2>1, <2>2, NoRequestIsNone DEF Told, Nested, H!NoRequest
<1>7. CASE PlaceTable
  <2>1. calls # <<>> /\ pending # H!NoRequest
    BY <1>7 DEF PlaceTable, H!Place
  <2> QED BY <2>1 DEF Told, Nested
<1>8. CASE InstallTable
  <2>1. calls # <<>> /\ Call.table # 0
    BY <1>8 DEF InstallTable, Looping
  <2> QED BY <2>1 DEF Told, Nested
<1> QED BY <1>1, <1>2, <1>3, <1>4, <1>5, <1>6, <1>7, <1>8 DEF ComposedNext, AllocStep

LEMMA SingleCallAlways ==
  HP!RequestsCannotWrap /\ ComposedSpec => [](ComposedInv /\ SingleCall)
<1> SUFFICES ASSUME HP!RequestsCannotWrap PROVE ComposedSpec => [](ComposedInv /\ SingleCall)
  OBVIOUS
<1>1. ComposedInit => SingleCall
  BY DEF ComposedInit, SingleCall
<1>2. ComposedInv /\ SingleCall /\ [ComposedNext]_allVars => SingleCall'
  BY SingleCallStep
<1>3. ComposedSpec => []ComposedInv
  BY ComposedInvAlways
<1> QED BY <1>1, <1>2, <1>3, PTL DEF ComposedSpec

(* As long as no table is missing, all that happens between a call of       *)
(* expand and its return looks to everybody else like the one step of the   *)
(* module Heap, and every other step is a step of Heap (heap.c:149-197).    *)
THEOREM HeapImplemented == HP!RequestsCannotWrap /\ ComposedSpec => ImplementsHeap
<1> SUFFICES ASSUME HP!RequestsCannotWrap PROVE ComposedSpec => ImplementsHeap
  OBVIOUS
<1>1. ComposedInv /\ SingleCall /\ [ComposedNext]_allVars
        => [Told /\ Told' => UNCHANGED Whole!vars \/ Whole!Next]_allVars
  BY StepSeen
<1>2. ComposedSpec => [](ComposedInv /\ SingleCall)
  BY SingleCallAlways
<1> QED BY <1>1, <1>2, PTL DEF ComposedSpec, ImplementsHeap

-----------------------------------------------------------------------------
(***************************************************************************)
(* What the heap's own proofs say of the heap that others see: as long as  *)
(* no table is missing and frames last, that heap only takes steps of the  *)
(* module Heap, and so keeps its books and what its arena reaches.         *)
(***************************************************************************)
WP == INSTANCE HeapProofs WITH Mapped <- BootPages, pending <- Outer, present <- Seen

LEMMA WholeProofs ==
  /\ Whole!Created <=> WP!Created
  /\ Whole!Next <=> WP!Next
  /\ Whole!vars = WP!vars
<1>1. /\ Whole!Hdr = WP!Hdr
      /\ Whole!Ftr = WP!Ftr
      /\ Whole!Overhead = WP!Overhead
      /\ Whole!Payload = WP!Payload
      /\ Whole!NoRequest = WP!NoRequest
      /\ Whole!Cells = WP!Cells
      /\ Whole!Pages = WP!Pages
  BY DEF Whole!Hdr, WP!Hdr, Whole!Ftr, WP!Ftr, Whole!Overhead, WP!Overhead,
     Whole!Payload, WP!Payload, Whole!NoRequest,
     WP!NoRequest, Whole!Cells, WP!Cells, Whole!Pages, WP!Pages
<1>2. \A x : Whole!Word(x) = WP!Word(x)
  BY DEF Whole!Word, WP!Word
<1>3. Whole!Need = WP!Need
  BY <1>1, <1>2 DEF Whole!Need, WP!Need
<1>4. Whole!Length = WP!Length
  BY DEF Whole!Length, WP!Length
<1>5. \A a, n, pages : Whole!Accessible(a, n, pages) <=> WP!Accessible(a, n, pages)
  BY <1>1 DEF Whole!Accessible, WP!Accessible
<1>6. \A m, a, isHole, size : Whole!PutHeader(m, a, isHole, size) = WP!PutHeader(m, a, isHole, size)
  BY <1>1 DEF Whole!PutHeader, WP!PutHeader
<1>7. \A m, a, header : Whole!PutFooter(m, a, header) = WP!PutFooter(m, a, header)
  BY <1>1 DEF Whole!PutFooter, WP!PutFooter
<1>8. \A m : Whole!SizeKey(m) = WP!SizeKey(m)
  BY <1>1 DEF Whole!SizeKey, WP!SizeKey
<1>9. Whole!Panic <=> WP!Panic
  BY DEF Whole!Panic, WP!Panic
<1>10. Whole!Created <=> WP!Created
  BY <1>1, <1>6 DEF Whole!Created, WP!Created
<1>11. \A s, k : Whole!RemoveAt(s, k) = WP!RemoveAt(s, k)
  BY DEF Whole!RemoveAt, WP!RemoveAt
<1>12. \A s, k, e : Whole!InsertAt(s, k, e) = WP!InsertAt(s, k, e)
  BY DEF Whole!InsertAt, WP!InsertAt
<1>13. \A arr, item, key, k : Whole!IsInsertPosition(arr, item, key, k) <=> WP!IsInsertPosition(arr, item, key, k)
  BY DEF Whole!IsInsertPosition, WP!IsInsertPosition
<1>14. \A arr, item, key : Whole!InsertPosition(arr, item, key) = WP!InsertPosition(arr, item, key)
  BY <1>13 DEF Whole!InsertPosition, WP!InsertPosition
<1>15. \A arr, item, key : Whole!InsertOrderedArray(arr, item, key) = WP!InsertOrderedArray(arr, item, key)
  BY <1>12, <1>14 DEF Whole!InsertOrderedArray, WP!InsertOrderedArray
<1>16. \A arr, k : Whole!RemoveOrderedArray(arr, k) = WP!RemoveOrderedArray(arr, k)
  BY <1>11 DEF Whole!RemoveOrderedArray, WP!RemoveOrderedArray
<1>17. \A S : Whole!Min(S) = WP!Min(S)
  BY DEF Whole!Min, WP!Min
<1>18. \A arr, item : Whole!PositionOf(arr, item) = WP!PositionOf(arr, item)
  BY <1>17 DEF Whole!PositionOf, WP!PositionOf, Whole!SelectInSeq,
     WP!SelectInSeq
<1>19. \A h : Whole!AlignOffset(h) = WP!AlignOffset(h)
  BY <1>1 DEF Whole!AlignOffset, WP!AlignOffset
<1>20. \A h, size, align : Whole!Fits(h, size, align) <=> WP!Fits(h, size, align)
  <2>1. \A x : Whole!Signed(x) = WP!Signed(x)
    BY DEF Whole!Signed, WP!Signed
  <2> QED BY <1>19, <2>1 DEF Whole!Fits, WP!Fits
<1>21. \A size, align : Whole!FindSmallestHole(size, align) = WP!FindSmallestHole(size, align)
  BY <1>17, <1>20 DEF Whole!FindSmallestHole, WP!FindSmallestHole,
     Whole!SelectInSeq, WP!SelectInSeq
<1>22. \A h : Whole!RightOf(h) = WP!RightOf(h)
  BY DEF Whole!RightOf, WP!RightOf
<1>23. \A h : Whole!IsLast(h) <=> WP!IsLast(h)
  BY <1>22 DEF Whole!IsLast, WP!IsLast
<1>24. \A s : Whole!ToSet(s) = WP!ToSet(s)
  BY DEF Whole!ToSet, WP!ToSet
<1>25. Whole!EndsInHole <=> WP!EndsInHole
  BY <1>23, <1>24 DEF Whole!EndsInHole, WP!EndsInHole
<1>26. \A S : Whole!Cardinality(S) = WP!Cardinality(S)
  BY DEF Whole!Cardinality, WP!Cardinality
<1>27. \A size, align : Whole!MayAsk(size, align) <=> WP!MayAsk(size, align)
  BY <1>1, <1>2, <1>21, <1>25 DEF Whole!MayAsk, WP!MayAsk
<1>28. Whole!Request <=> WP!Request
  BY <1>1, <1>26, <1>27 DEF Whole!Request, WP!Request
<1>29. \A need : Whole!ExpandedLength(need) = WP!ExpandedLength(need)
  BY DEF Whole!ExpandedLength, WP!ExpandedLength
<1>30. \A p : Whole!SamePlace(p) = WP!SamePlace(p)
  BY DEF Whole!SamePlace, WP!SamePlace
<1>31. \A newEnd : Whole!ExpandedPages(newEnd) = WP!ExpandedPages(newEnd)
  BY <1>1, <1>30 DEF Whole!ExpandedPages, WP!ExpandedPages
<1>32. \A old, need : Whole!ExpandAsserts(old, need) <=> WP!ExpandAsserts(old, need)
  BY <1>2, <1>29 DEF Whole!ExpandAsserts, WP!ExpandAsserts
<1>33. Whole!EndmostHole = WP!EndmostHole
  BY <1>24 DEF Whole!EndmostHole, WP!EndmostHole
<1>34. \A oldEnd, new, pages : Whole!GiveGrowth(oldEnd, new, pages) <=> WP!GiveGrowth(oldEnd, new, pages)
  <2> TAKE oldEnd, new, pages
  <2>1. CASE index = <<>>
    BY <1>1, <1>2, <1>5, <1>6, <1>7, <1>8, <1>15, <2>1 DEF Whole!GiveGrowth,
       WP!GiveGrowth
  <2>2. CASE index # <<>>
    BY <1>1, <1>2, <1>5, <1>6, <1>7, <1>8, <1>15, <1>33, <2>2, ZenonT(60) DEF Whole!GiveGrowth,
       WP!GiveGrowth
  <2> QED BY <2>1, <2>2
<1>35. \A new : Whole!ExpandHeap(new) <=> WP!ExpandHeap(new)
  BY <1>31, <1>34 DEF Whole!ExpandHeap, WP!ExpandHeap
<1>36. Whole!Expand <=> WP!Expand
  BY <1>1, <1>2, <1>3, <1>4, <1>9, <1>21, <1>29, <1>32, <1>35 DEF
     Whole!Expand, WP!Expand
<1>37. \A m, c, h : Whole!FrontWrites(m, c, h) = WP!FrontWrites(m, c, h)
  BY <1>1, <1>6, <1>7 DEF Whole!FrontWrites, WP!FrontWrites
<1>38. \A h : Whole!Cut(h) = WP!Cut(h)
  BY <1>1, <1>2, <1>3, <1>37 DEF Whole!Cut, WP!Cut
<1>39. \A m, c : Whole!BlockWrites(m, c) = WP!BlockWrites(m, c)
  BY <1>1, <1>6, <1>7 DEF Whole!BlockWrites, WP!BlockWrites
<1>40. \A m, c, hole : Whole!RestWrites(m, c, hole) = WP!RestWrites(m, c, hole)
  BY <1>1, <1>2, <1>6, <1>7 DEF Whole!RestWrites, WP!RestWrites
<1>41. \A c, h : Whole!PlaceTouches(c, h) <=> WP!PlaceTouches(c, h)
  BY <1>1, <1>2, <1>5 DEF Whole!PlaceTouches, WP!PlaceTouches
<1>42. \A c : Whole!Granted(c) = WP!Granted(c)
  BY <1>1 DEF Whole!Granted, WP!Granted
<1>43. \A m, b : Whole!FillPayload(m, b) = WP!FillPayload(m, b)
  BY <1>1 DEF Whole!FillPayload, WP!FillPayload
<1>44. Whole!Place <=> WP!Place
  <2>1. \A c, h : Whole!CutWrites(c, h) = WP!CutWrites(c, h)
    BY <1>37, <1>39, <1>40 DEF Whole!CutWrites, WP!CutWrites
  <2>2. \A c, h, kept : Whole!PlaceIn(c, h, kept) <=> WP!PlaceIn(c, h, kept)
    BY <1>1, <1>5, <1>8, <1>9, <1>15, <1>41, <1>42, <1>43, <2>1 DEF Whole!PlaceIn, WP!PlaceIn
  <2> QED BY <1>1, <1>3, <1>16, <1>21, <1>38, <2>2 DEF Whole!Place, WP!Place
<1>45. \A n : Whole!PageBitSet(n) <=> WP!PageBitSet(n)
  BY DEF Whole!PageBitSet, WP!PageBitSet
<1>46. \A n : Whole!ContractedLength(n) = WP!ContractedLength(n)
  BY <1>45 DEF Whole!ContractedLength, WP!ContractedLength
<1>47. \A p, newEnd : Whole!Dropped(p, newEnd) <=> WP!Dropped(p, newEnd)
  BY <1>30 DEF Whole!Dropped, WP!Dropped
<1>48. \A m, newEnd : Whole!DropPages(m, newEnd) = WP!DropPages(m, newEnd)
  BY <1>1, <1>47 DEF Whole!DropPages, WP!DropPages
<1>49. \A h : Whole!Marked(h) = WP!Marked(h)
  BY DEF Whole!Marked, WP!Marked
<1>50. \A h : Whole!LeftFooter(h) = WP!LeftFooter(h)
  BY <1>1 DEF Whole!LeftFooter, WP!LeftFooter
<1>51. \A h : Whole!IsLeftHole(h) <=> WP!IsLeftHole(h)
  BY <1>1, <1>49, <1>50 DEF Whole!IsLeftHole, WP!IsLeftHole
<1>52. \A h : Whole!UnifyLeft(h) = WP!UnifyLeft(h)
  BY <1>2, <1>49, <1>50, <1>51 DEF Whole!UnifyLeft, WP!UnifyLeft
<1>53. \A m, right : Whole!IsRightHole(m, right) <=> WP!IsRightHole(m, right)
  BY <1>1 DEF Whole!IsRightHole, WP!IsRightHole
<1>54. \A l, right : Whole!UnifyRight(l, right) = WP!UnifyRight(l, right)
  BY <1>2, <1>16, <1>18, <1>53 DEF Whole!UnifyRight, WP!UnifyRight
<1>55. \A r, header, right : Whole!Contract(r, header, right) = WP!Contract(r, header, right)
  BY <1>1, <1>2, <1>4, <1>5, <1>7, <1>16, <1>18, <1>46, <1>48, SMTT(90) DEF
     Whole!Contract, WP!Contract
<1>56. \A h : Whole!LeftSound(h) <=> WP!LeftSound(h)
  BY <1>1, <1>5, <1>50 DEF Whole!LeftSound, WP!LeftSound
<1>57. \A l, right : Whole!RightSound(l, right) <=> WP!RightSound(l, right)
  BY <1>1, <1>5, <1>18, <1>53 DEF Whole!RightSound, WP!RightSound
<1>58. \A r, header : Whole!ContractSound(r, header) <=> WP!ContractSound(r, header)
  BY <1>2, <1>4 DEF Whole!ContractSound, WP!ContractSound
<1>59. \A h : Whole!NoRightHole(h) <=> WP!NoRightHole(h)
  BY <1>22, <1>23, <1>24 DEF Whole!NoRightHole, WP!NoRightHole
<1>60. \A h : Whole!ReachesEnd(h) <=> WP!ReachesEnd(h)
  BY <1>22, <1>23, <1>24 DEF Whole!ReachesEnd, WP!ReachesEnd
<1>61. \A h : Whole!Survives(h) <=> WP!Survives(h)
  BY <1>1, <1>52 DEF Whole!Survives, WP!Survives
<1>62. \A h : Whole!MayFree(h) <=> WP!MayFree(h)
  BY <1>59, <1>60, <1>61, SMTT(30) DEF Whole!MayFree, WP!MayFree
<1>63. \A b : Whole!Free(b) <=> WP!Free(b)
  BY <1>1, <1>5, <1>8, <1>9, <1>15, <1>52, <1>54, <1>55, <1>56, <1>57,
     <1>58, <1>62, SMTT(90) DEF Whole!Free, WP!Free
<1>64. Whole!Next <=> WP!Next
  BY <1>28, <1>36, <1>44, <1>63 DEF Whole!Next, WP!Next
<1>65. Whole!vars = WP!vars
  BY DEF Whole!vars, WP!vars
<1> QED BY <1>10, <1>64, <1>65

(* Between two calls of expand, or inside one that needs no table, the      *)
(* books of the heap are right and its arena is reached page by page, if    *)
(* its clients keep within bounds.  Nothing touches the heap before         *)
(* createHeap, which reaches all of its first arena (heap.c:104-139).       *)
ContainedBooks == WP!BookInv /\ WP!ArenaReached
ArenaInv ==
  /\ ~kheap /\ status = "running" => H!Created
  /\ Running /\ Straight => ContainedBooks

LEMMA SeenAssumptions ==
  /\ PageSize > WP!Overhead
  /\ Sizes \subseteq Nat \ {0} /\ Aligns \subseteq BOOLEAN
  /\ MaxLive \in Nat /\ MaxRequests \in Nat
  /\ Regime \in {"none", "contained", "no_right_hole", "any"}
BY HeapConstants, ClientConstants DEF H!Overhead, H!Hdr, H!Ftr, WP!Overhead, WP!Hdr, WP!Ftr

LEMMA SeenStep ==
  ASSUME WP!ContainedClients, ContainedBooks, [WP!Next]_WP!vars, status' = "running"
  PROVE  ContainedBooks'
<1>1. WP!BookInv /\ WP!ArenaReached
  BY DEF ContainedBooks
<1>2. WP!BookInv'
  BY <1>1, WP!BookInvStep, HeapAssumptions, BootPagesMapped, SeenAssumptions
<1>3. WP!ArenaReached'
  BY <1>1, WP!StepReaches, HeapAssumptions, BootPagesMapped, SeenAssumptions
<1> QED BY <1>2, <1>3 DEF ContainedBooks

LEMMA CreatedSeen ==
  ASSUME H!Created, calls = <<>>
  PROVE  WP!Created
<1>1. Outer = pending
  BY DEF Outer
<1>2. Whole!Created
  <2>1. H!Cells = Whole!Cells /\ H!NoRequest = Whole!NoRequest
    BY DEF H!Cells, Whole!Cells, H!NoRequest, Whole!NoRequest
  <2>2. \A m, a, isHole, size : H!PutHeader(m, a, isHole, size) = Whole!PutHeader(m, a, isHole, size)
    BY DEF H!PutHeader, Whole!PutHeader
  <2> QED BY <1>1, <2>1, <2>2 DEF H!Created, Whole!Created
<1> QED BY <1>2, WholeProofs

LEMMA CreateReaches ==
  ASSUME HP!RequestsCannotWrap, WP!ContainedClients, ComposedInv, ArenaInv, CreateHeap, Running'
  PROVE  ContainedBooks'
<1>1. /\ ~kheap /\ status = "running" /\ BootPages \subseteq present
      /\ UNCHANGED <<books, present, pending, calls>>
  BY DEF CreateHeap, Running
<1>2. calls = <<>> /\ H!Created /\ endAddress = InitialEnd /\ InitialEnd \in Nat
  BY <1>1, HeapAssumptions DEF ComposedInv, StaticInv, FreshInv, ArenaInv
<1>3. Seen = present /\ present \subseteq WP!Pages
  <2>1. present \subseteq H!Pages
    BY HeapPageNumbers DEF ComposedInv, StaticInv, Reached
  <2> QED BY <1>2, <2>1 DEF Seen, H!Pages, WP!Pages, H!Cells, WP!Cells
<1>4. WP!BookInv
  BY <1>2, <1>3, CreatedSeen, WP!CreatedBookInv, HeapAssumptions, BootPagesMapped, SeenAssumptions
<1>5. WP!ArenaReached
  <2>1. (Start - WP!Ftr)..(endAddress - 1) \subseteq (Start - PageSize)..(InitialEnd - 1)
    <3>1. PageSize \in Nat /\ PageSize > 5 /\ Start \in Nat
      BY HeapConstants DEF H!Overhead, H!Hdr, H!Ftr
    <3> QED BY <1>2, <3>1 DEF WP!Ftr
  <2> QED BY <1>1, <1>3, <2>1, BootReached DEF WP!ArenaReached
<1>6. UNCHANGED WP!vars /\ status' = "running"
  BY <1>1 DEF WP!vars, books, Outer, Seen
<1> QED BY <1>4, <1>5, <1>6, SeenStep DEF ContainedBooks

(* A state of a call that needs no table comes from such a state.           *)
LEMMA StraightBefore ==
  ASSUME ComposedInv, SingleCall, ComposedNext, ~CreateHeap, Running', Straight'
  PROVE  Running /\ Straight /\ Told /\ Told'
<1>1. kheap' /\ status' = "running" /\ phase' = "running" /\ astray' = {} /\ ~exhausted'
      /\ ~Nested' /\ Len(calls') <= 1
  BY DEF Running, Straight
<1>2. CASE Boot
  BY <1>1, <1>2 DEF Boot, MakeHeapTables, IdentityMap, BackHeap, composed, ComposedInv, StaticInv,
     FreshInv
<1>3. CASE Request \/ Place \/ \E b \in live : Free(b)
  <2>1. Running /\ calls = <<>> /\ astray = {} /\ ~exhausted
    <3>1. CASE Request \/ Place
      <4>1. Running /\ calls = <<>> /\ UNCHANGED <<paging, composed>>
        BY <3>1 DEF Request, Place
      <4> QED BY <1>1, <4>1 DEF paging, composed
    <3>2. CASE \E b \in live : Free(b)
      BY <1>1, <3>2 DEF Free
    <3> QED BY <1>3, <3>1, <3>2
  <2> QED BY <1>1, <2>1 DEF Straight, Nested, Told, Running
<1>4. CASE EnterExpand
  <2>1. calls = <<>>
    BY <1>4, StraightSteps
  <2>2. Running /\ astray = {} /\ ~exhausted
    BY <1>1, <1>4 DEF EnterExpand, paging
  <2> QED BY <1>1, <2>1, <2>2 DEF Straight, Nested, Told, Running
<1>5. CASE BackPage
  <2>1. Len(calls) = 1
    BY <1>5, TurnSingle
  <2>2. Running /\ astray = {} /\ pending = H!NoRequest /\ Call.table = 0
    BY <1>1, <1>5 DEF BackPage, Looping
  <2>3. ~exhausted
    <3>1. AllocFrame(PageOf(Call)) /\ exhausted \in BOOLEAN
      BY <1>5, <2>2, RunningFacts DEF BackPage, TypeOK
    <3> QED BY <1>1, <3>1 DEF AllocFrame
  <2> QED BY <1>1, <2>1, <2>2, <2>3 DEF Straight, Nested, Told, Running
<1>6. CASE AskForTable \/ PlaceTable \/ InstallTable
  BY <1>6, StraightSteps
<1>7. CASE LeaveExpand
  <2>1. Running /\ Looping /\ Call.table = 0
        /\ UNCHANGED <<paging, astray>>
    BY <1>7 DEF LeaveExpand, Looping
  <2>2. calls' = <<>>
    BY <1>7, StraightSteps
  <2>3. Len(calls) = 1
    BY <1>7, <2>2, LeftAlone
  <2>4. astray = {} /\ ~exhausted /\ pending = H!NoRequest
    BY <1>1, <2>1 DEF paging, Looping
  <2> QED BY <1>1, <2>1, <2>3, <2>4 DEF Straight, Nested, Told, Running
<1> QED BY <1>2, <1>3, <1>4, <1>5, <1>6, <1>7 DEF ComposedNext, AllocStep

LEMMA ArenaStep ==
  ASSUME HP!RequestsCannotWrap, WP!ContainedClients, ComposedInv, SingleCall, ArenaInv,
         [ComposedNext]_allVars
  PROVE  ArenaInv'
<1>1. ASSUME ~kheap', status' = "running" PROVE H!Created'
  <2>1. CASE Boot
    <3>1. ~kheap /\ status = "running" /\ UNCHANGED <<books, pending>>
      BY <1>1, <2>1 DEF Boot, composed, books
    <3> QED BY <3>1 DEF ArenaInv, H!Created, books, H!PutHeader, H!Cells, H!NoRequest
  <2>2. CASE UNCHANGED allVars
    <3>1. ~kheap /\ status = "running" /\ UNCHANGED <<books, pending>>
      BY <1>1, <2>2 DEF allVars, composed, books
    <3> QED BY <3>1 DEF ArenaInv, H!Created, books, H!PutHeader, H!Cells, H!NoRequest
  <2>3. ComposedNext => Boot
    BY <1>1 DEF ComposedNext, CreateHeap, Stop, Request, AllocStep, EnterExpand, BackPage, AskForTable,
       PlaceTable, InstallTable, InstallAt, LeaveExpand, Place, Free, Running, Looping, composed
  <2> QED BY <2>1, <2>2, <2>3
<1>2. ASSUME Running', Straight' PROVE ContainedBooks'
  <2>1. CASE CreateHeap
    BY <1>2, <2>1, CreateReaches
  <2>2. CASE ComposedNext /\ ~CreateHeap
    <3>1. Running /\ Straight /\ Told /\ Told' /\ status' = "running"
      BY <1>2, <2>2, StraightBefore DEF Running
    <3>2. UNCHANGED Whole!vars \/ Whole!Next
      BY <2>2, <3>1, StepSeen
    <3>3. UNCHANGED WP!vars \/ WP!Next
      <4>1. UNCHANGED Whole!vars => UNCHANGED WP!vars
        BY DEF Whole!vars, WP!vars
      <4> QED BY <3>2, <4>1, WholeProofs
    <3>4. ContainedBooks
      BY <3>1 DEF ArenaInv
    <3> QED BY <3>1, <3>3, <3>4, SeenStep
  <2>3. CASE UNCHANGED allVars
    <3>1. UNCHANGED <<books, pending, present, paging, composed>> /\ Running /\ Straight
      BY <1>2, <2>3 DEF allVars, Running, Straight, Nested, Call, paging, books, composed, H!NoRequest
    <3>2. UNCHANGED WP!vars /\ status' = "running"
      BY <1>2, <3>1 DEF WP!vars, books, composed, Outer, Seen, Running
    <3>3. ContainedBooks
      BY <3>1 DEF ArenaInv
    <3> QED BY <3>2, <3>3, SeenStep
  <2> QED BY <2>1, <2>2, <2>3
<1> QED BY <1>1, <1>2 DEF ArenaInv

LEMMA ArenaInvAlways ==
  HP!RequestsCannotWrap /\ WP!ContainedClients /\ ComposedSpec => [](ComposedInv /\ ArenaInv)
<1> SUFFICES ASSUME HP!RequestsCannotWrap, WP!ContainedClients
             PROVE  ComposedSpec => [](ComposedInv /\ ArenaInv)
  OBVIOUS
<1>1. ComposedInit => ArenaInv
  BY DEF ComposedInit, ArenaInv, Running
<1>2. ComposedInv /\ SingleCall /\ ArenaInv /\ [ComposedNext]_allVars => ArenaInv'
  BY ArenaStep
<1>3. ComposedSpec => [](ComposedInv /\ SingleCall)
  BY SingleCallAlways
<1> QED BY <1>1, <1>2, <1>3, PTL DEF ComposedSpec

(* While a client holds the processor every page of the arena is mapped, to *)
(* a frame no other page has, until frames run out or the heap has made a   *)
(* page table for itself (heap.c:28-36, paging.c:97-120).                   *)
THEOREM ArenaBackedHolds ==
  HP!RequestsCannotWrap /\ WP!ContainedClients /\ ComposedSpec => []ArenaBacked
<1> SUFFICES ASSUME HP!RequestsCannotWrap, WP!ContainedClients PROVE ComposedSpec => []ArenaBacked
  OBVIOUS
<1>1. ComposedInv /\ ArenaInv => ArenaBacked
  <2> SUFFICES ASSUME ComposedInv, ArenaInv, Running, calls = <<>>, ~exhausted, astray = {},
                      NEW page \in ArenaPages
               PROVE  LET frame == entry[page].frame
                      IN /\ page \in present
                         /\ IF frame = 0 THEN 0 \notin frames
                            ELSE \A p \in Pages \ {page} : entry[p].frame # frame
    BY DEF ArenaBacked
  <2>1. /\ StaticInv /\ GivenBack /\ present = Reached /\ endAddress \in Nat /\ Start \in Nat
        /\ present \subseteq H!Pages
    BY RunningFacts, HeapAssumptions
  <2>2. WP!ArenaReached /\ Seen = present
    <3>1. Straight
      BY DEF Straight, Nested
    <3> QED BY <3>1 DEF ArenaInv, ContainedBooks, Seen
  <2>3. PICK c \in Start..(endAddress - 1) : page = c \div PageSize
    BY DEF ArenaPages
  <2>4. page \in present /\ entry[page].present
    <3>1. c \in (Start - WP!Ftr)..(endAddress - 1)
      BY <2>1, <2>3 DEF WP!Ftr
    <3> QED BY <2>1, <2>2, <2>3, <3>1 DEF WP!ArenaReached, Reached
  <2>5. page \in HeapPages /\ page \in Pages
    <3>1. endAddress <= MaxAddress /\ MaxAddress \in Nat
      BY RunningFacts, HeapAssumptions
    <3>2. c \in Nat /\ Start <= c /\ c < MaxAddress
      BY <2>1, <2>3, <3>1
    <3> QED BY <2>3, <3>2, PageArithmetic
  <2>6. CASE entry[page].frame = 0
    <3>1. page \in Unbacked
      BY <2>4, <2>5, <2>6 DEF Unbacked
    <3>2. 0 \notin frames
      BY <2>1, <3>1 DEF GivenBack
    <3> QED BY <2>4, <2>6, <3>2
  <2>7. CASE entry[page].frame # 0
    <3>1. NoSharedFrame
      BY <2>1 DEF StaticInv, FramesApart
    <3>2. \A p \in Pages \ {page} : entry[p].frame # entry[page].frame
      BY <2>5, <2>7, <3>1 DEF NoSharedFrame
    <3> QED BY <2>4, <2>7, <3>2
  <2> QED BY <2>6, <2>7
<1>2. ComposedSpec => [](ComposedInv /\ ArenaInv)
  BY ArenaInvAlways
<1> QED BY <1>1, <1>2, PTL
=============================================================================
