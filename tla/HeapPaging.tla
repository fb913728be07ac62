----------------------------- MODULE HeapPaging -----------------------------
(***************************************************************************)
(* The heap on top of the page tables: Heap and Paging composed, from the  *)
(* boot that maps the first pages, through createHeap, to clients that     *)
(* allocate and free.  What neither shows alone is the loop of expand      *)
(* (kernel/heap.c:31-36): it backs one page per turn with alloc_frame and  *)
(* get_page, and get_page takes a missing page table from the very heap    *)
(* that is being expanded, so that alloc and expand run again inside it.   *)
(* The calls of expand that have not returned are a stack.                 *)
(***************************************************************************)
EXTENDS Paging, Sequences

CONSTANTS
  PageSize, Start, InitialEnd, MaxAddress, MinSize, WordSize, Magic, Sizes,
  Aligns, MaxLive, MaxRequests, Regime,
  TableSize,      \* sizeof(page_table_t)
  MaxDepth        \* calls of expand the kernel's stack has room for

VARIABLES
  mem, index, endAddress, present, live, requests, pending, status,   \* Heap
  kheap,          \* the heap has been created
  calls,          \* calls of expand that have not returned, innermost last
  astray          \* tables whose directory entry names another frame
books == <<mem, index, endAddress, live, requests, status>>
paging == <<frames, entry, tables, placement, phase, i, exhausted>>
composed == <<kheap, calls, astray>>
allVars == <<books, present, pending, paging, composed>>

(* The pages the heap starts with, the one of its index included.          *)
BootPages == HeapFirst..(HeapFirst + HeapInitial - 1)
H == INSTANCE Heap WITH Mapped <- BootPages

(* The pages the processor can reach, which is what "present" holds: their *)
(* entry says so, and the directory finds it.                              *)
Reached == {page \in Pages : entry[page].present /\ TableOf(page) \notin astray}

ASSUME CompositionParameters ==
  /\ MaxAddress = NPages * PageSize /\ HeapFirst % TableSpan = 0
  /\ Start > HeapFirst * PageSize
  /\ InitialEnd = (HeapFirst + HeapInitial) * PageSize /\ NFrames > 1
  /\ TableSize \in 1..PageSize /\ MaxDepth \in Nat \ {0}
ASSUME HeapConstants ==   \* what the module Heap assumes
  /\ PageSize \in Nat \ {0} /\ PageSize > H!Overhead
  /\ Start \in Nat /\ Start >= PageSize
  /\ MinSize \in Nat /\ MinSize >= 2 * PageSize /\ MinSize % PageSize = 0
  /\ InitialEnd \in Nat /\ Start + MinSize <= InitialEnd
  /\ Start % PageSize = 0 /\ InitialEnd % PageSize = 0
  /\ MaxAddress \in Nat /\ InitialEnd <= MaxAddress
  /\ WordSize \in Nat /\ MaxAddress < WordSize
  /\ Magic \in Nat /\ MaxAddress - Start < Magic /\ Magic < WordSize
ASSUME ClientConstants ==
  /\ Sizes \subseteq Nat \ {0} /\ Aligns \subseteq BOOLEAN
  /\ MaxLive \in Nat /\ MaxRequests \in Nat
  /\ Regime \in {"none", "contained", "no_right_hole", "any"}

ComposedInit ==
  /\ Init /\ H!Created
  /\ present = {} /\ kheap = FALSE /\ calls = <<>> /\ astray = {}

Boot ==
  /\ MakeHeapTables \/ IdentityMap \/ BackHeap
  /\ UNCHANGED <<books, pending, composed>>
  /\ present' = Reached'

Stop(how) == status' = how /\ UNCHANGED <<mem, index, endAddress, live, requests>>
Running == kheap /\ status = "running" /\ phase = "running"

(* createHeap: its descriptor comes from the placement allocator, after    *)
(* paging was switched on, at the first address nothing mapped on purpose. *)
CreateHeap ==
  /\ phase = "running" /\ ~kheap /\ status = "running"
  /\ IF entry[placement].present /\ BootPages \subseteq present
     THEN kheap' = TRUE /\ UNCHANGED books
     ELSE Stop("panic") /\ UNCHANGED kheap
  /\ UNCHANGED <<present, pending, paging, calls, astray>>

Request == Running /\ calls = <<>> /\ H!Request /\ UNCHANGED <<paging, composed>>

-----------------------------------------------------------------------------
(* expand is called: from alloc's frame, with what that has saved.         *)
Call == calls[Len(calls)]
Looping == Running /\ calls # <<>> /\ pending = H!NoRequest
Update(call) == calls' = [calls EXCEPT ![Len(calls)] = call]
Pushed(new) ==
  Append(calls, [request |-> pending, end |-> endAddress,
                 at |-> H!Length, new |-> new, table |-> 0, present |-> present])
EnterExpand ==
  LET need == H!Length + H!Need
  IN /\ Running /\ pending # H!NoRequest
     /\ H!FindSmallestHole(H!Need, pending.align) = 0
     /\ IF ~H!ExpandAsserts(H!Length, need) THEN H!Panic /\ UNCHANGED calls
        ELSE IF Len(calls) = MaxDepth THEN Stop("overflow") /\ UNCHANGED <<calls, pending>>
        ELSE /\ calls' = Pushed(H!ExpandedLength(H!Word(need)))
             /\ pending' = H!NoRequest
             /\ UNCHANGED books
     /\ UNCHANGED <<present, paging, kheap, astray>>

(* One turn of the loop whose page has a table: alloc_frame.  Once frame 0 *)
(* is handed out the heap shares memory with the first page of the kernel, *)
(* and nothing more is said.                                               *)
PageOf(call) == (Start + call.at) \div PageSize
TurnsLeftShort(call) == call.at + PageSize < call.new
TurnsLeft(call) == call.at < call.new
AdvancedNever(call) == call
Advanced(call) == [call EXCEPT !.at = @ + PageSize]
BackPage ==
  /\ Looping /\ Call.table = 0 /\ TurnsLeft(Call)
  /\ TableOf(PageOf(Call)) \in tables
  /\ AllocFrame(PageOf(Call))
  /\ Update(Advanced(Call))
  /\ IF phase' = "running" /\ entry'[PageOf(Call)].frame = 0 THEN Stop("lost")
     ELSE UNCHANGED books
  /\ UNCHANGED <<pending, tables, placement, i, kheap, astray>>
  /\ present' = Reached'

(* Otherwise get_page calls kmalloc_ap: alloc runs again inside expand ...  *)
TableRequest == [size |-> TableSize, align |-> TRUE]
AskForTable ==
  /\ Looping /\ Call.table = 0 /\ TurnsLeft(Call)
  /\ TableOf(PageOf(Call)) \notin tables
  /\ pending' = TableRequest
  /\ UNCHANGED <<books, present, paging, composed>>
TablePlaced == H!Granted(H!Cut(index[H!FindSmallestHole(H!Need, pending.align)])).ptr
PlaceTable ==
  /\ Running /\ calls # <<>> /\ H!Place
  /\ IF status' = "running"
     THEN Update([Call EXCEPT !.table = TablePlaced])
     ELSE UNCHANGED calls
  /\ UNCHANGED <<paging, kheap, astray>>

(* ... and the table goes into the directory, with what its memory held    *)
(* before; one below the heap lies on the kernel itself, and nothing more   *)
(* is said.  "frame * 0x1000 + addr & 0xFFF" is "(...) & 0xFFF": the        *)
(* physical address of a table in the heap is lost (kheap.c:24).           *)
LocatedInFrame(frame, address) == frame * PageSize + (address % PageSize)
Located(frame, address) == (frame * PageSize + address) % PageSize
Leftover == [present |-> TRUE, frame |-> 1]
InstallAt(table, frame) ==
  /\ tables' = tables \union {table}
  /\ astray' = IF Located(frame, Call.table) = LocatedInFrame(frame, Call.table)
               THEN astray ELSE astray \union {table}
  /\ \E junk \in SUBSET {p \in Pages : TableOf(p) = table} :
       entry' = [p \in Pages |-> IF p \in junk THEN Leftover ELSE entry[p]]
  /\ Update([Call EXCEPT !.table = 0])
  /\ UNCHANGED <<books, pending, frames, placement, phase, i, exhausted, kheap>>
  /\ present' = Reached'
InstallTable ==
  /\ Looping /\ Call.table # 0
  /\ IF Call.table < Start
     THEN Stop("lost") /\ UNCHANGED <<pending, present, paging, composed>>
     ELSE InstallAt(TableOf(PageOf(Call)), entry[Call.table \div PageSize].frame)

(* expand returns: alloc gives the growth to the endmost hole and starts    *)
(* again.  A store through a table that is astray goes to whatever frame 0 *)
(* makes of it: a page fault or any memory at all.                         *)
LeaveExpand ==
  /\ Looping /\ Call.table = 0 /\ ~TurnsLeft(Call)
  /\ \/ H!GiveGrowth(Call.end, Call.new, present) /\ UNCHANGED <<live, requests>>
     \/ astray # {} /\ Stop("lost")
  /\ calls' = SubSeq(calls, 1, Len(calls) - 1) /\ pending' = Call.request
  /\ UNCHANGED <<present, paging, kheap, astray>>

Place == Running /\ calls = <<>> /\ H!Place /\ UNCHANGED <<paging, composed>>

-----------------------------------------------------------------------------
(* free, with the frames that contract gives back: free_frame forgets the  *)
(* page's frame but clears the bit of its number divided by the frame size *)
(* (paging.c:132), and leaves the entry present.                           *)
GivesBack(newEnd) ==
  {page \in Pages : H!Dropped(page, newEnd) /\ entry[page].frame # 0}
Free(b) ==
  /\ Running /\ calls = <<>> /\ H!Free(b)
  /\ LET back == IF status' = "running" THEN GivesBack(endAddress') ELSE {}
     IN /\ frames' = frames \ {FrameNumber(entry[p].frame) : p \in back}
        /\ entry' = [p \in Pages |-> IF p \in back THEN [entry[p] EXCEPT !.frame = 0] ELSE entry[p]]
  /\ UNCHANGED <<tables, placement, phase, i, exhausted, kheap, calls, astray>>

AllocStep ==
  EnterExpand \/ BackPage \/ AskForTable \/ PlaceTable \/ InstallTable \/ LeaveExpand \/ Place
ComposedNext ==
  \/ Boot \/ CreateHeap \/ Request \/ AllocStep
  \/ \E b \in live : Free(b)

(* One thread runs all of it: only a panic stops it.                       *)
ComposedSpec ==
  /\ ComposedInit /\ [][ComposedNext]_allVars
  /\ WF_allVars(Boot) /\ WF_allVars(CreateHeap) /\ WF_allVars(AllocStep)

-----------------------------------------------------------------------------
Stopped == status # "running" \/ phase = "panic"

(* After paging is on, createHeap finds the page of its descriptor mapped:  *)
(* the loop of initialise_paging goes one page beyond the placement address *)
(* (paging.c:281, "Allocate a lil' bit extra").                             *)
HeapStarts == <>(kheap \/ exhausted)

(* While a client holds the processor every page of the arena is mapped, to  *)
(* a frame no other page has (heap.c:28-36, paging.c:97-120), until frames   *)
(* run out or the heap has made a page table for itself.  A page may be left *)
(* with frame 0 once contract has given frames back, which unmarks frame 0.  *)
(* The page the arena ends in may be missing while no block or hole ends     *)
(* there: the loop of an expansion to a length inside a page may stop short *)
(* of it, and alloc notices only when it writes the last hole's footer.     *)
ArenaPages == {c \div PageSize : c \in Start..(endAddress - 1)}
LastPageUsed ==
  \/ H!EndsInHole
  \/ \E b \in live : H!IsLast(b.ptr - H!Hdr)
ArenaBacked ==
  Running /\ calls = <<>> /\ ~exhausted /\ astray = {} =>
    \A page \in ArenaPages :
      LET frame == entry[page].frame
      IN /\ page \in present \/ (page = (endAddress - 1) \div PageSize /\ ~LastPageUsed)
         /\ IF frame = 0 THEN page \in present => 0 \notin frames
            ELSE \A p \in Pages \ {page} : entry[p].frame # frame

(* kheap.h:35: "The physical address is returned in phys".  get_page puts  *)
(* it in the directory (paging.c:327-331), so every table is found where   *)
(* it lies.                                                                *)
TablesAreFound == astray = {}

(* Every alloc returns, or the kernel stops: also the ones that nest, which *)
(* end in an assertion or at the end of the stack (heap.c:197, 33).         *)
AllocReturns ==
  kheap /\ (pending # H!NoRequest \/ calls # <<>>) ~>
    (pending = H!NoRequest /\ calls = <<>>) \/ Stopped

(* As long as no table is missing, all that happens between a call of       *)
(* expand and its return looks to everybody else like the one step of the   *)
(* module Heap, and every other step is a step of Heap (heap.c:149-197).    *)
Outer == IF calls = <<>> THEN pending ELSE calls[1].request
Seen == IF calls = <<>> THEN present ELSE calls[1].present
Whole == INSTANCE Heap WITH Mapped <- BootPages, pending <- Outer, present <- Seen
Nested == calls # <<>> /\ (pending # H!NoRequest \/ Call.table # 0)
Told == kheap /\ ~Nested /\ astray = {} /\ ~exhausted /\ status \in {"running", "panic"}
ImplementsHeap ==
  [][Told /\ Told' => UNCHANGED Whole!vars \/ Whole!Next]_allVars
=============================================================================
