------------------------------- MODULE Paging -------------------------------
(***************************************************************************)
(* Physical frames and the kernel's page tables: hal/x86/memory/paging.c,  *)
(* with the placement allocator of kheap.c that feeds it before the heap   *)
(* exists.  initialise_paging builds the tables of the heap's pages, maps  *)
(* low memory one page per step up to a placement address that grows while *)
(* it does so, and backs the heap's pages; afterwards expand and contract  *)
(* of kernel/heap.c ask for frames and give them back.                     *)
(*                                                                         *)
(* Pages are numbered; addresses below the end of the kernel are counted   *)
(* in pages, since every allocation of this phase is page aligned.         *)
(***************************************************************************)
EXTENDS Integers, FiniteSets

CONSTANTS
  NFrames,        \* nframes: frames of physical memory
  WordBits,       \* bits in a word of the bitmap: 32
  Zeroed,         \* frames whose bits the memset of the bitmap reaches
  FrameSize,      \* 0x1000, the divisor of set_frame and clear_frame
  TableSpan,      \* pages per page table: 1024
  KernelEnd,      \* pages used below placement_address, directory included
  NPages,         \* bound: virtual pages of the model
  HeapFirst,      \* first page of the heap (KHEAP_START)
  HeapInitial,    \* pages of KHEAP_INITIAL_SIZE
  Residue         \* values first_frame may "return" when it finds no bit

Frames == 0..(NFrames - 1)
Pages == 0..(NPages - 1)
HeapPages == HeapFirst..(NPages - 1)
NoFrame == -1     \* (uint32_t)-1

ASSUME FrameParameters ==
  /\ NFrames \in Nat \ {0} /\ WordBits \in Nat \ {0}
  /\ Zeroed \in 0..NFrames
  /\ FrameSize \in Nat \ {0} /\ NFrames <= FrameSize
  /\ Residue \subseteq Frames \union {NoFrame}
ASSUME PageParameters ==
  /\ TableSpan \in Nat /\ TableSpan > 2
  /\ KernelEnd \in Nat \ {0} /\ NPages \in Nat
  /\ HeapFirst \in Nat /\ HeapInitial \in Nat
  /\ KernelEnd < HeapFirst /\ HeapFirst + HeapInitial <= NPages

VARIABLES
  frames,         \* the bitmap: frames whose bit is set
  entry,          \* page_t of every page: [present, frame]
  tables,         \* page tables the directory has
  placement,      \* placement_address, in pages
  phase,          \* "tables", "identity", "back", "running" or "panic"
  i,              \* loop counter of initialise_paging
  exhausted       \* history: first_frame has run off its end
vars == <<frames, entry, tables, placement, phase, i, exhausted>>

Init ==
  /\ \E junk \in SUBSET (Zeroed..(NFrames - 1)) : frames = junk
  /\ entry = [p \in Pages |-> [present |-> FALSE, frame |-> 0]]
  /\ tables = {}
  /\ placement = KernelEnd
  /\ phase = "tables" /\ i = HeapFirst
  /\ exhausted = FALSE

(***************************************************************************)
(* get_page(p, 1): a missing table is allocated with kmalloc_int, which    *)
(* moves to the next page even when the placement address is aligned.      *)
(***************************************************************************)
AfterKmalloc(pages) == placement + 1 + pages
TableOf(p) == p \div TableSpan
GetPage(p) ==
  /\ tables' = tables \union {TableOf(p)}
  /\ placement' = IF TableOf(p) \in tables THEN placement ELSE AfterKmalloc(1)

(* first_frame: whole words only; the lowest clear bit, or whatever the    *)
(* register holds when every bit is set.                                   *)
Searched == {f \in Frames : f < (NFrames \div WordBits) * WordBits}
IsFirstFrame(f) ==
  /\ f \in Searched \ frames
  /\ \A g \in Searched \ frames : f <= g
FreeFrameSeen == Searched \ frames # {}

(* set_frame and clear_frame of a byte address.                            *)
FrameNumber(address) == address \div FrameSize
SetFrameOfNumber(address) == frames' = frames \union {FrameNumber(FrameNumber(address))}
SetFrame(address) == frames' = frames \union {FrameNumber(address)}
ClearFrame(address) == frames' = frames \ {FrameNumber(address)}

(***************************************************************************)
(* alloc_frame: a page with a nonzero frame is left alone.  The test       *)
(* "used_frames == nframes" never holds: used_frames stays 0.              *)
(***************************************************************************)
AllocFrame(p) ==
  IF entry[p].frame # 0 THEN UNCHANGED <<frames, entry, exhausted, phase>>
  ELSE \E f \in Frames \union {NoFrame} :
         /\ IF FreeFrameSeen THEN IsFirstFrame(f) ELSE f \in Residue
         /\ exhausted' = (exhausted \/ ~FreeFrameSeen)
         /\ IF f = NoFrame
            THEN phase' = "panic" /\ UNCHANGED <<frames, entry>>
            ELSE /\ SetFrame(f * FrameSize)
                 /\ entry' = [entry EXCEPT ![p] = [present |-> TRUE, frame |-> f]]
                 /\ UNCHANGED phase

(* free_frame: passes the frame's number where clear_frame takes an        *)
(* address, and leaves the present bit set.                                *)
FreeFrameStillMapped(p) ==
  /\ ClearFrame(entry[p].frame * FrameSize)
  /\ UNCHANGED entry
FreeFrame(p) ==
  IF entry[p].frame = 0 THEN UNCHANGED <<frames, entry>>
  ELSE /\ ClearFrame(entry[p].frame)
       /\ entry' = [entry EXCEPT ![p].frame = 0]

(* Loop 1 of initialise_paging: make the tables of the heap's pages.       *)
MakeHeapTables ==
  /\ phase = "tables"
  /\ IF i < HeapFirst + HeapInitial
     THEN GetPage(i) /\ i' = i + 1 /\ UNCHANGED phase
     ELSE phase' = "identity" /\ i' = 0 /\ UNCHANGED <<tables, placement>>
  /\ UNCHANGED <<frames, entry, exhausted>>

(* Loop 2: map low memory, to one page above the placement address.  The   *)
(* bound is read again in every iteration.                                 *)
IdentityMapFixedBound ==
  /\ phase = "identity"
  /\ IF i < KernelEnd
     THEN GetPage(i) /\ AllocFrame(i) /\ i' = i + 1
     ELSE /\ phase' = "back" /\ i' = HeapFirst
          /\ UNCHANGED <<tables, placement, frames, entry, exhausted>>
IdentityMapStuck ==
  /\ phase = "identity"
  /\ IF i < placement + 1
     THEN GetPage(i) /\ AllocFrame(i) /\ i' = i
     ELSE /\ phase' = "back" /\ i' = HeapFirst
          /\ UNCHANGED <<tables, placement, frames, entry, exhausted>>
IdentityMapNoSlack ==
  /\ phase = "identity"
  /\ IF i < placement
     THEN GetPage(i) /\ AllocFrame(i) /\ i' = i + 1
     ELSE /\ phase' = "back" /\ i' = HeapFirst
          /\ UNCHANGED <<tables, placement, frames, entry, exhausted>>
IdentityMap ==
  /\ phase = "identity"
  /\ IF i < placement + 1
     THEN GetPage(i) /\ AllocFrame(i) /\ i' = i + 1
     ELSE /\ phase' = "back" /\ i' = HeapFirst
          /\ UNCHANGED <<tables, placement, frames, entry, exhausted>>

(* Loop 3: back the heap's first pages with frames.                        *)
BackHeap ==
  /\ phase = "back"
  /\ IF i < HeapFirst + HeapInitial
     THEN AllocFrame(i) /\ i' = i + 1
     ELSE phase' = "running" /\ UNCHANGED <<i, frames, entry, exhausted>>
  /\ UNCHANGED <<tables, placement>>

(***************************************************************************)
(* The heap at run time: expand backs a page, contract gives one back.     *)
(* Only pages whose table exists: a new table would come from the heap     *)
(* itself (get_page calls kmalloc), which this module leaves out.          *)
(***************************************************************************)
ExpandPage(p) ==
  /\ phase = "running" /\ TableOf(p) \in tables
  /\ AllocFrame(p)
  /\ UNCHANGED <<tables, placement, i>>
ContractPage(p) ==
  /\ phase = "running" /\ TableOf(p) \in tables
  /\ FreeFrame(p)
  /\ UNCHANGED <<tables, placement, i, phase, exhausted>>

Next ==
  \/ MakeHeapTables \/ IdentityMap \/ BackHeap
  \/ \E p \in HeapPages : ExpandPage(p) \/ ContractPage(p)

(* initialise_paging runs on the only thread of the kernel.                *)
Spec == /\ Init /\ [][Next]_vars
        /\ WF_vars(MakeHeapTables) /\ WF_vars(IdentityMap) /\ WF_vars(BackHeap)

-----------------------------------------------------------------------------
TypeOK ==
  /\ frames \subseteq Frames
  /\ entry \in [Pages -> [present : BOOLEAN, frame : Frames]]
  /\ tables \subseteq Nat
  /\ placement \in Nat
  /\ phase \in {"tables", "identity", "back", "running", "panic"}
  /\ i \in Nat
  /\ exhausted \in BOOLEAN

(* When paging is switched on, every page below the placement address - the *)
(* kernel, the page directory and the tables made while mapping - is mapped *)
(* to the frame of the same number (paging.c:269-286), provided the zeroed  *)
(* and searched part of the bitmap reaches that far, and that memory ends   *)
(* below the heap's addresses.                                              *)
RamSuffices == /\ placement < Zeroed /\ placement < (NFrames \div WordBits) * WordBits
               /\ placement < HeapFirst
IdentityComplete ==
  phase \in {"back", "running"} /\ RamSuffices =>
    \A p \in Pages : p < placement => entry[p] = [present |-> TRUE, frame |-> p]

(* Two pages never share a frame, as long as there was always a frame to    *)
(* find (alloc_frame, paging.c:97-120).  Frame 0 reads as "none" and is left *)
(* out: free_frame gives it back whatever page it is called for, and what   *)
(* first_frame returns when memory is exhausted may be in use (paging.c:94, *)
(* 132).                                                                    *)
NoSharedFrame ==
  ~exhausted =>
    \A p, q \in Pages :
      p # q /\ entry[p].frame # 0 => entry[p].frame # entry[q].frame

(* A frame that backs a page is marked in the bitmap: nobody else gets it.  *)
BackedFramesMarked ==
  ~exhausted => \A p \in Pages : entry[p].frame # 0 => entry[p].frame \in frames

(* The loops of initialise_paging end although the second one moves its own *)
(* bound by making tables.                                                  *)
BootEnds == <>(phase \in {"running", "panic"})

=============================================================================
