# A TLA+ model of the jslk kernel

jslk is a 32-bit x86 hobby kernel written in C and assembly. It boots from GRUB with an initial
ramdisk, sets up interrupts, paging and a heap, mounts the ramdisk behind a small virtual file
system, and shows files on a text console while a keyboard and a timer interrupt it. It has one
thread and no tests. This directory holds TLA+ modules that model its logic, TLC configurations
that check small instances, and TLAPS proofs for every instance.

Source lines are given as `file:line`, relative to `src/`. `PROJECT.json` maps each definition to
the lines it models.

## 1. Inventory

The kernel that is built consists of `hal/x86` (without `memory/legacy`), `kernel/{jslk, timer,
heap, orderedArray, initrd, vfs}.c`, `kernel/kern_debug/breakpoints.c` and `lib/jstdclib`.

| Component | State | Operations | Interacts with |
|---|---|---|---|
| Heap, `kernel/heap.c` | tags in memory, index of holes, `end_address`, page presence | `createHeap`, `alloc`, `free`, `expand`, `contract` | ordered array (index), paging (maps and unmaps its pages), everything that allocates |
| Ordered array, `kernel/orderedArray.c` | array of pointers, size | insert, lookup, remove | heap |
| Paging and frames, `hal/x86/memory/{paging,kheap}.c` | page directory and tables, frame bitmap, placement address | `initialise_paging`, `get_page`, `alloc_frame`, `free_frame`, `kmalloc_int` | heap, boot |
| Interrupt registration and dispatch, `hal/x86/interrupts/isr.c` | `hiIntHandler`, `chIntHandler`, the chains' memory | `registerInterruptHandler`, `clearInterrupt`, `clearChainedInterrupt`, three dispatchers | every driver; runs at any instant |
| Timers, `kernel/timer.c`, `drivers/pit.c` | `sysTimers`, `totalTimers`, `ticks` | `register_timer`, `delay`, `pitHandler`, `checkTimers` | tick interrupt against the thread |
| Console, `hal/x86/io/vga.c` | `terminal_buffer`, `cursorx`, `cursory`, `clear_calls` | `kputc`, scrolling, `clear_console`, status bar | thread, keyboard handler and panics share it without a lock |
| Formatted output, `kprintf`, `cprintf`, `itoa` | the format, the position in it, the colour | one turn per character or directive | console |
| Keyboard, `drivers/keyboard.c` | `scancode`, `shift`, `inbuf` | the handler, `read_key` | console, kernel main |
| Ramdisk and VFS, `kernel/{initrd,vfs}.c` | headers and file bytes in memory, nodes, the volume | `initialise_initrd`, `read`, `write`, `readdir`, `finddir`, `open`, `close` | kernel main |
| Kernel main, `kernel/jslk.c` | `logOffset`, the buffer of `open` | listing, `open` with its prompt, `vfsLog`, the order of the demonstration | all |
| Real time clock, `drivers/rtc/rtc.c` | the CMOS registers | `getRtcTime` | kernel main |
| Ramdisk tool, `initrd/make_initrd.c` (runs on the build machine) | the image | headers, then the files | mounted by the ramdisk |
| Boot, `hal.c`, `kinit.c`, `tables/`, `interrupt.s` | segments, gates, controllers, interrupt flag | initialisation in its order, faults and panics | all |

Not part of the built kernel, and not modelled: `kernel/jslk_l.c`, `heapclas.c`,
`orderedArrayclas.c`, `sysfs.c`, the scheduler and ELF sketches, `hal/x86/memory/legacy`, the 64 bit
loader, `crt`, the AHCI structures and `lib/j++`. Part of the build without logic to model: port
input and output, the entry code and the descriptor loading. `move_stack`, `clone_table`,
`clone_directory`, `start_pmm`, `initRegions` and `deinit_region` have no caller.

### What is hard here

* **Interrupts at any instant.** `sti` runs in `init_descriptor_tables`, long before the heap, the
  console and the keyboard exist. From then on every table the handlers read is written by a thread
  with interrupts on: the timer slots, the interrupt chains, the cursor.
* **`cli`/`sti` that do not nest.** `atomicalRelease` enables interrupts wherever it is called, in
  handlers too, so a tick may nest in a tick.
* **Data structures in the memory they manage.** The heap's tags and the page tables lie in the
  memory described by them, and the loop that maps low memory moves its own bound.
* **Code that calls itself from below.** `expand` maps pages, `get_page` takes a missing page table
  from `kmalloc`, and so `alloc` and `expand` run again inside the `expand` that called them.
* **Waiting.** `delay` spins until a tick has come, inside handlers also (`page_fault`). A lost end
  of interrupt, or a key that comes too early, would stop it or the keyboard for ever.
* **Arithmetic at boundaries.** The rounding of `expand` and `contract`, the wrap of unsigned
  sizes, the last column and row of the console, the last page of a file, the digits of a number.
* **Reading a device that changes.** The clock changes its registers between two reads.

The main hazards are listed, each at its line and with the properties that cover it, in
`PROJECT.json`; sections 5 and 6 name the smaller ones.

## 2. Modules

```
OrderedArray <- Heap <- HeapProperties <- HeapProofs, MCHeap      AbstractHeap (refined by Heap)
Paging       <- MCPaging
Interrupts   <- InterruptsProofs, MCInterrupts
Timers       <- TimersProofs, MCTimers
Console      <- ConsoleProofs, MCConsole
Initrd       <- InitrdProofs, MCInitrd
Boot         <- BootProofs, MCBoot
Heap, Paging <- HeapPaging <- PagingProofs, MCHeapPaging          (EXTENDS Paging, INSTANCE Heap)
HeapProofs   <- PagingProofs                                      (INSTANCE, for clients that also ask for tables)
Format <- MCFormat    Rtc <- MCRtc
Induction    <- HeapProofs, ConsoleProofs, InitrdProofs           (lemmas about numbers)
```

Each component has a module with its variables, one action per operation or atomic step, its
properties at the end (the heap's are in `HeapProperties`), an `MC` module with the constants that a
configuration cannot write, one configuration per question, and a proof module where there is
something to prove. Recursion is written as a recursive function in the modules the proofs reach.
Next to some definitions stand variants such as `ContractedLengthNoMinimum` or `StepsLate`: the same
definition with a plausible mistake. They take part in no specification; each property is known to
fail when the definition is replaced by its variant, so that no property holds by the shape of the
model.

**Heap and OrderedArray.** Memory is a function from cells to integers, because the allocator keeps
its books in it. A cell stands for one field of a tag and for one byte of size arithmetic: a
`header_t` is three cells, a `footer_t` two, sizes wrap at `WordSize`. `alloc` is split where it
recurses: `Request` (the call), `Expand` (no hole fits: grow, enlarge the endmost hole, start over)
and `Place` (a hole fits: front hole, block, rest). `Free` does in the code's order what `free`
does: unify left, unify right, contract, insert. An access to a page that is not present, and a
failed assert, is `Panic`. `find_smallest_hole` takes the *first* hole of the index that fits, and
the index is sorted by the sizes at the time of insertion only; both as in the code. `Cut` works
out what is left behind the front hole of an aligned block from the size that the front hole's header
then has (`heap.c:224`): when that hole is shorter than its two tags, its footer lies on the size. A
page that `contract` gives back stays present with frame 0 behind it (its entry keeps the present
bit), which the model shows as memory that reads zero. Here `expand` is one step that finds its
pages mapped.

**AbstractHeap** is what the clients of `kmalloc` and `kfree` rely on: a set of disjoint blocks in
the arena, growing and shrinking by one. `ImplementsAbstractHeap` says that `Heap` implements it,
`Request` and `Expand` being stutters.

**Paging** has the three loops of `initialise_paging`, iteration by iteration, with `placement`
counted in frames, and afterwards `expand` and `contract` of the heap's pages through `alloc_frame`
and `free_frame`. The bitmap is the set of marked frames. `Zeroed` says how far the clearing of the
bitmap reaches, `Residue` what `first_frame` returns when it runs off its end.

**HeapPaging** composes the two from the boot on. It takes `Request`, `Place`, `Free` and
`GiveGrowth` from `Heap`, and the boot's loops, `AllocFrame` and the tables from `Paging`; what it
adds is the loop of `expand`, one page per turn. `calls` is the stack of calls of `expand` that have
not returned: a turn whose page table is missing puts a request for `sizeof(page_table_t)` in
`pending` (`AskForTable`), on which `Place`, or another `EnterExpand`, works, and `InstallTable` puts
the result in the directory, at the physical address `kheap.c:24` computes and with the entries its
memory held before. Each call keeps the end of the arena it was entered with, as the local variables
of `alloc` and `expand` do. A table that its wrong address makes unreachable is `astray`; what the
processor then does with the pages behind it is not followed further than one store (`lost`).
`present`, a variable of `Heap`, is here what the processor reaches through directory, table and
entry (`Reached`). `ImplementsHeap` says that from outside the whole
loop is the step `Expand` of `Heap`, as long as no page table is being made.

**Interrupts** has `registerInterruptHandler` as one step (it runs with interrupts off) and
`clearInterrupt` as several, because `clearChainedInterrupt` runs with them on. The local flags that
the code reads uninitialised are a choice over `Garbage`. All chains share one memory, as in the
code, where the pointer `handlers` is never set; the history `shared` has the vectors that were a
chain beside another one since they were last cleared. `Calls(n)` is what the dispatchers would call
for vector `n` in the current state, so that "an interrupt at any instant" is a state property, and
`registered` what clients registered on it and have not cleared.

**Timers** has `register_timer` field by field, `delay`, and the tick's handler statement by
statement, with a stack of handlers for ticks that nest in a listener that enabled interrupts.

**Console** has `kputc` and `clear_console` of the thread split into each load and store of the
cursor, the buffer and `clear_calls`. The keyboard handler, for every kind of key, and both panics
run with interrupts off and are one step each; `full_system_panic` ends with a format whose last
directive is its last character (`modes.c:56`), and prints its terminator and what lies `Behind` it.
A list of what was printed and echoed (`text`) says what the screen should show; it stops being a
claim when a key interrupts the thread (`disturbed`) or leads the cursor away from the text
(`strayed`), which a backspace does too unless the cursor rests behind a character it can take back.
**Format** runs `kprintf` and `cprintf` one turn of their loops at a time over a format given as
characters, with `itoa`, `kernelPrintDec` and `kernelPrintHex` as they compute their digits.
**Initrd** starts from the image as `make_initrd` writes it and the memory behind it (`Room`), mounts
it (`initialise_initrd`), and has the ramdisk as one memory, `read` and `write` with the code's
bounds, `open` with its pages and prompts, the listing of any node, and `vfsLog`, all behind the
checks of `vfs.c`. What `initialise_initrd` leaves unwritten in memory from `kmalloc` (the end of a
name, `eof`, the volume's `open` and `close`) holds anything. **Rtc** has `getRtcTime`
register by register against a clock whose update raises its flag first and then changes the
registers.

**Boot** composes what the others describe one by one: the thread from `kinit` to the end of
`kernel_main`, both interrupt controllers with their end of interrupt, the tick, the keyboard, a
line nobody serves, one exception at any point, and software interrupts. A stub returns only when
the error code it expects is on the stack; otherwise the thread is `lost`.

## 3. Runs

Sizes are distinct states. Every run finishes within a few minutes.

| Run | Instance | States | Checks |
|---|---|---|---|
| `MCHeapQuiet` | 5 pages of 8 cells, minimum 4, room for 12, sizes 1, 6 and 13 (needs 6, 11, 18), 4 live blocks, 6 requests, contained clients | 290 k | `TypeOK`, `EndInBounds`, `Tiling`, `Coalesced`, `IndexFits`, `TagsConsistent`, `PayloadKept`, `ImplementsAbstractHeap`, `PanicsAtTheEdgeOnly` |
| `MCHeapPaging` | 32 frames, 9 pages per table, the boot, then 5 of 11 heap pages, sizes 1, 6, 20, aligned or not, 4 live blocks, 4 requests, 3 nested calls, any clients | 55 k | `ArenaBacked`, `HeapStarts`, `AllocReturns`, `ImplementsHeap` |
| `HeapTables` | the same, a violation: see section 6 | | `TablesAreFound` |
| `HeapIndexOrder` | a violation: see section 6 | | `IndexSorted` |
| `MCPaging` | 20 frames, 4 pages per table, kernel of 3 frames, heap pages 12 to 16 | 18 k | `IdentityComplete`, `NoSharedFrame`, `BootEnds` |
| `MCInterrupts` | 2 exceptions, 1 interrupt line, 2 handlers, any of them chained, up to 3 handlers on each, any leftover flags, 8 bit counts reduced to one bit | 3.9 M | `CallsOnlyRegistered`, `LockStopsGrowth` |
| `MCTimers` | 3 listeners, durations 1 and 2, 4 ticks | 108 k | `NeverEarly`, `FiresOnce`, `PromptAfterTick`, `EveryTimerFires`, `MainProgress` |
| `MCConsole` | 3 columns, 4 rows, 4 characters or clearings, two keys of 11 kinds, a panic at any point | 5.9 M | `StatusBarKept`, `CursorAtRest`, `ScreenShowsText`, `PanicShown` |
| `MCFormat` | 3 hex digits, 7 words, up to 3 pieces | 160 k | `PrintsFormat` |
| `MCInitrd` | files of 5, 2 and 0 bytes, the last one the log, 6 bytes of memory behind them, buffer of 2, messages of 1 and 2, leftovers zero or not | 48 k | `LogConfined`, `OpenShowsFile`, `ListsEachFile`, `OpenReturns` |
| `MCRtc` | all seven registers, two starting times, 2 updates | 126 k | `TimeWasShown`, `CallReturns` |
| `MCBoot` | lines 0, 1, 14; exceptions 8, 13, 14; software vectors 3, 13, 32, 46 | 46 k | `CleanEntryAndReturn`, `FaultHalts`, `BootEnds`, `KeysAreRead` |

### What they show, and why the bounds are enough

* **Heap.** What `Regime` says of the clients decides what the heap can keep. *Contained* clients ask
  for unaligned blocks, free no block with an interior hole on its right (the stale footer of
  `heap.c:304`), ask for more than any hole has only while the arena ends in a hole or has none (the
  growth goes to the endmost hole, `heap.c:190`), and give the end of the arena back only when the
  hole that arises starts below the minimum, so that it survives `contract` (`heap.c:338`). With
  them, while the arena grows and contracts, it is tiled by blocks and holes in every state, no two
  holes touch, every block can be found from both ends, no operation writes in a client's cells, and
  the kernel stops only at the edges of the arena or where an expansion has left one page out. Each of
  the four conditions is needed: TLC finds the books spoiled when one is dropped. Four live blocks
  give a freed block every kind of neighbour (block, hole, last hole) on both sides; the sizes make
  holes that are reused whole and holes that are split; the arena of five pages grows for large
  blocks and contracts to its minimum. Two of the three needs are even, like everything the kernel
  asks for (`kmalloc(8)`, the structures of the file system, and 20 bytes of tags each): the arena
  then ends inside a page, and the next expansion, which steps by whole pages from there, may
  pass over the page the arena then ends in (`heap.c:18`, `31`). `alloc` panics there when it writes the
  footer of the last hole, and `PanicsAtTheEdgeOnly` says where exactly it may.
  `IndexFits` bounds the holes by the blocks in use; nothing compares either with `max_size`.
* **Heap and paging.** Pages of eight cells and tables of nine pages make the boot map five pages of
  the heap and leave four in its table: the loop of `expand` maps fresh pages there, in one turn and
  in several, to lengths at the end of a page and inside one; growing across the end of the table (a
  table from the heap, before and after the growth the outer call has mapped so far), `expand` inside
  `expand` inside `expand`, contracting, which leaves pages with frame 0, and growing again, the
  assert of `expand` and the end of the stack all happen. Clients may do anything and ask for aligned
  blocks. The 32 frames do not run out here; in `MCPaging` they do. What the run shows: as long as the
  heap has made no table for itself, the arena is backed page by page with frames of its own and
  `expand` is the one step of `Heap`; and nothing hangs. `ArenaBacked` makes one exception, the page
  the arena ends in while no block or hole ends there. `HeapTables` shows that the first table the
  heap makes is lost.
* **Paging.** Tables of four pages make the mapping loop create tables while it runs, so that it
  moves its bound; with 20 frames, of which 16 are zeroed, the heap's growth can exhaust them.
* **Interrupts.** Two exceptions and a line can all be plain or chained, in any order, and cleared in
  between. `CallsOnlyRegistered` is claimed of the chains the tables can hold (`Holds`): of an
  exception, alone in the array that all chains share, and no longer than the count, which with one
  bit is two, so that chains of three wrap; the others are in section 6. Nothing is assumed of the
  flags.
* **Timers.** Three listeners fill the slots while others run out; four ticks put a tick between
  any two statements of `register_timer`, before and after each due time.
* **Console.** Three columns and four rows make four characters, a newline and a tab wrap and scroll,
  with keys in every gap between a load and its store; two keys can type over a print, lead the cursor
  off the screen and print there, or take back what was typed. `clear_calls` wraps after four calls,
  of which the boot makes two. A panic prints a line that wraps and a newline; from behind its format
  come nothing, or characters that fill part of the screen.
* **Format.** The words stand at the boundaries of decimal and hexadecimal digits and of the sign
  in a word of three nibbles: 0, 9, 16, 261 (an inner zero nibble), 2047, 2048, 4095. The color of
  every character is compared with the console's for `kprintf`, and with the one it was given for
  `cprintf`.
* **Initrd.** Two and a half pages, exactly one page and none; every node, files included, is listed
  as if it were a directory. The log is empty and the last file, as `Makefile:54` makes it, so that
  every message goes to the memory behind the image, six bytes of which are watched; two messages
  of two bytes reach four of them.
* **Rtc.** From one start the seconds go from 8 over 9 to 10, where the BCD digits and the number
  part; from the other all seven registers carry at the end of a year. With two updates the clock
  may change during both readings.
* **Boot.** Lines 0 and 1 are served, line 14 is on the slave and is not; exception 8 has a handler
  that panics, 14 the one that waits first, and 13 none. Software interrupts enter a stub that expects
  no code (3), one that expects one (13), and the tick's and the disk's.

Properties are stated for the conditions under which the code can keep them; each precondition is
written in the property (`RamSuffices`, `early`, `exhausted`), in a regime of the clients
(`Regime`, `Sizes`, `Aligns`) or in the hazard's note. What happens outside is section 6.

Deadlock checking is off where the system may stop: the bounds on requests, keys or ticks run out
(heap, console), or the kernel halts (boot).

### Fairness

* `Heap`: weak fairness of `Expand \/ Place`. Once `alloc` is called nothing but a panic stops the
  processor from going on; clients are free to call or not.
* `Paging`: weak fairness of the three loops, which run on the only thread.
* `HeapPaging`: weak fairness of the boot, of `createHeap` and of the steps of `alloc` and `expand`,
  which run on the only thread.
* `Timers`: weak fairness of the tick and of the handler; strong fairness of the thread's step,
  because a handler is over long before the next tick (10 ms later).
* `Console`: none; its properties are safety.
* `Initrd`: weak fairness of the thread and of the user pressing Enter, and strong fairness of
  the poll that sees it: a key is held far longer than one turn of the polling loop.
* `Rtc`: weak fairness of the thread and of the end of an update in progress.
* `Boot`: weak fairness of the tick and of the steps of a handler; strong fairness of the thread, of
  exception handlers and of taking each line, since handlers are far shorter than the time between
  interrupts.

## 4. Proofs

The provers show the following for every value of the constants that satisfies the modules' named
assumptions (`HeapParameters`, `FrameParameters`, ...), which say what the code's constants satisfy.

| Theorem | Says | Hypothesis |
|---|---|---|
| `HeapProofs!TypeCorrect` | `Spec => []TypeOK` | |
| `HeapProofs!EndInBoundsHolds` | the end of the arena stays in its bounds | no request wraps the sums of `alloc` |
| `HeapProofs!TilingHolds`, `TagsHold`, `CoalescedHolds`, `IndexFitsHolds`, `PayloadKeptHolds` | the books: arena tiled, tags right at both ends, holes apart, index bounded by the blocks, clients' cells untouched | `ContainedClients` |
| `HeapProofs!HeapImplementsAbstract` | the heap implements `AbstractHeap` | `ContainedClients` |
| `HeapProofs!PanicsAtTheEdge` | `alloc` panics only at the assert of `expand` and where its loop passed over the arena's last page, `free` only for the block that ends the arena | `ContainedClients` |
| `PagingProofs!TypeCorrect`, `NoSharedFrameHolds`, `BackedFramesMarkedHolds` | entries and bitmap are of their types, two pages share no nonzero frame, a backed page's frame stays marked | (until frames run out, in the properties) |
| `PagingProofs!IdentityCompleteHolds` | low memory is mapped to itself up to where the placement address has moved | `RamSuffices`, in the property |
| `PagingProofs!HeapImplemented` | `ImplementsHeap`: the composed heap, which backs its pages turn by turn, refines the module `Heap`, which expands in one step | no request wraps the sums of `alloc` |
| `PagingProofs!ArenaBackedHolds` | heap and page tables composed: every page of the arena is mapped, to a frame of its own | no request wraps; `ContainedClients` |
| `InterruptsProofs!TypeCorrect`, `PlainNeverChainedHolds`, `LockStopsGrowthHolds` | plain handlers stay plain; locked chains do not grow | |
| `InterruptsProofs!CallsOnlyRegisteredHolds` | interrupts run exactly what is registered, for any flags and any vectors chained | (for chains the tables can hold, in the property) |
| `TimersProofs!TypeCorrect`, `NeverEarlyHolds`, `ListenerWrittenHolds` | no early call and none through a half-written slot, nested ticks included | |
| `TimersProofs!FiresOnceHolds` | each listener is called at most once | no listener enables interrupts |
| `TimersProofs!PromptAfterTickHolds` | when a tick is over no listener that was due is left, nested ticks included | |
| `BootProofs!BootInvariant`, `CleanEntry` | interrupts and exceptions enter through tables that are in place and return to what they interrupted | in `CleanEntry`: no exception whose code its stub does not remove |
| `InitrdProofs!InitrdInvariant`, `OpenShowsAll`, `ListingComplete` | `open` shows every file whole, the listing is what the image says | |
| `InitrdProofs!LogStaysConfined` | log messages change nothing before the log, and no more behind its start than two of them take | |
| `ConsoleProofs!ConsoleInvariant`, `CursorStaysOnScreen`, `PanicsShown` | where the cursor is at each step; it rests on the screen; a panic is readable, whatever is printed from behind its format | (that does not fill the screen: `BehindParameters`) |
| `ConsoleProofs!StatusBarStays` | nothing reaches the status bar | the thread prints no backspace |
| `ConsoleProofs!TextShown` | the screen shows, cell by cell, what was printed and typed, wrapped and scrolled | (no key inside a print, in the property) |

**Arguments.**

* *Heap.* `TypeOK` is inductive by itself, but not by inspection: the allocator reads pointers and
  sizes from memory. Each operation has a lemma that follows the values as they are read: what is
  used as an address has passed an access (`AccessibleCells`), the scans of the index return a
  position of it or none (`PositionInRange`, `HoleInRange`, `InsertPositionInRange`, resting on
  `LeastExists`: a set of numbers has a least one, because the intervals below its elements are
  finite), and insertion and removal keep the index a sequence of addresses. `EndInBounds` is
  inductive with `TypeOK`: `expand` rounds up by at most a page, its assert bounds the new end
  *provided the sum did not wrap*, which is the hypothesis `RequestsCannotWrap`; `contract` ends at
  the minimum or at a length below the present one.
* *The heap's books.* None of `Tiling`, `TagsConsistent`, `Coalesced` and `PayloadKept` is inductive:
  that `free` finds its neighbours is due to the tags, that the tags are right is due to the tiling,
  and that no two holes touch is due to both. `BookInv` joins them in a form that the steps keep.
  `Books(m, H, L, e)` says of a memory, a set of holes, the blocks and an end: `Laid` (the units lie
  between `Start` and `e`, each ends where another begins or at `e`, and none reaches into
  another), `TagsRight` (headers and footers name each other; only a last hole may lack its footer)
  and `Contents` (what clients stored lies between the tags). `Covered` derives from `Laid` that
  every cell of the arena is in a unit (the one that begins closest below it), and with it `Tiling`.
  `Books` speaks of any memory and not only of the state because `free` passes through memories of
  its own: `LeftStage`, `RightStage` and `ContractStage` show that each stage of `free` turns books
  into books, in which the merged units have become one. They, `ExpandKeepsBooks` and
  `PlaceKeepsBooks` rest on one lemma per way in which units change (`MarkStage`, `MergeStage`,
  `ResizeStage`, `FreshStage`, `TakeStage`, `SplitStage`), whose hypotheses say what the stores of
  the tags leave in every cell. `Apart`, `Distinct` and
  `Growing` (the request being worked on finds a hole, or one to enlarge at the end) complete it.
  `IndexFits` follows by an injection from the holes to the blocks behind them and the arena's end.
  The refinement needs `BookInv` before and after a step: the block a `Place` hands out is new
  because its header was a hole's.
* *The panics.* `ArenaReached` says that every cell of the arena, and the two before it where `free`
  looks for a footer, lies in a page that is present. It needs nothing of the sizes: the loop of
  `expand` may stop one page short of an end inside a page, but the footer of the enlarged hole lies
  in that page, and `alloc` faults unless the page is mapped (`GrowthReaches`), which is one of the
  panics the property names. All tags that `alloc` and `free` touch belong to units of the arena, and
  what is not a unit's is never reached: `PlaceRuns`, `ExpandRuns` and `FreeRuns` go through the
  accesses and asserts one by one.
* *Paging.* `NoSharedFrame` alone is not inductive, since `alloc_frame` knows only the bitmap. With
  `BackedFramesMarked` (the frame of a backed page is marked) it is, because `free_frame` in fact
  clears bit 0 instead of the frame's. `IdentityComplete` needs `IdentityInv`: while the loop is at
  page `i`, the marked frames of the zeroed part of the bitmap are exactly `0..i-1`, so that
  `first_frame` returns the number of the very page it is called for, wherever the bound has moved.
* *Heap and paging.* `ComposedInv` has two parts. `StaticInv` holds in every state, also after a
  panic: `present` is what the entries and the directory reach (`Reached`), tables are made from the
  bottom up (`TablesInOrder`, `MadeBelow`), and as long as none is astray frames are apart. `GivenBack`
  is there for frame 0. A page with frame 0 is one that `contract` gave back; while there is one, frame
  0 is unmarked, some such page lies ahead of the expansion, and the next `alloc_frame` takes frame 0,
  where the kernel itself is, before any table is needed: so the frame behind a table is never 0, and
  every table from the heap goes astray (`InstallAstray`). `ActiveInv` is
  what the heap has established while it runs: it is well typed and inside its bounds (`HeapSound`),
  and each call of `expand` that has not returned keeps what it was entered with (`Calling`). The steps
  of `alloc` and `free` are not analysed again: `HP` is `HeapProofs` for clients that may also ask for
  a page table, and `SameHeap` says operator by operator that this is the heap of `HeapPaging`.
  `ImplementsHeap` adds `SingleCall`, for states in which one call of `expand` is on the stack and no
  table is missing: what `alloc` found when it called is still so (`Asked`), and exactly the pages of
  the turns so far are mapped on top of those it began with (`Backs`; `LoopPages` is one turn,
  `LoopEnd` says that the last turn maps no page beyond the one step's). A nested state never
  becomes such a state again, because the table that ends the nesting is left astray
  (`InstallAstray`). `WholeHeap` is the dictionary between the heap of the composition and the one
  that others see (`Whole`).
  `ArenaBacked` then comes from the books of the heap alone: the heap that others see takes steps of
  `Heap` only, so it keeps `BookInv` and `ArenaReached` (`ArenaStep`, through the instance `WP` of
  `HeapProofs`). That the frames differ is `NoSharedFrame`, and that frame 0 is free while a page
  has it is `GivenBack`.
* *Interrupts.* `PlainInv` and `ChainInv` say for each vector how the table, the chain's memory and
  the history of registrations agree *at each point of a clearing*: a vector that is being emptied
  was a chain and calls nothing (`Emptying`); a chain that is not in `shared` is alone in the array,
  also from a chain that is still being emptied (`Alone`), and then the array holds its handlers
  (`InChain`). A registration that starts a second chain puts both vectors in `shared`, so that no
  assumption on the clients or on the flags is needed.
* *Timers.* `TimerInv` describes a slot that is being filled (`FillOK`), those that are counted
  (`CountedOK`), what each nested handler has established about the slot it looks at (`FramesOK`)
  and what was called (`CalledOK`). `FiresOnce` adds `OnceInv`: without nesting there is one
  handler, and calls and done marks agree. `PromptAfterTick` needs that a handler at slot `i` has
  passed over no slot below `i` that is due, whatever nested handlers did meanwhile.
* *Boot.* `BootInv` ties, for every place of the thread, the tables and controllers that are set up
  by then to what an interrupt finds, and gives each frame on the stack its return. The processor
  pushes an error code on vectors 21 and 29 for which the stubs have none; they belong to extensions
  that nothing turns on, and are excluded by the hypothesis.
* *Initrd.* The headers and the disk agree with the files at every address, for any lengths: where a
  file lies is a recursive function (`Before`, the sum of the lengths), which `RecursionSolved` and
  `UpTo` of `Induction` make usable. `open`
  has printed exactly the bytes below its offset, the listing exactly the entries below its index.
  `vfsLog` writes at the length of the previous message, so that its bytes lie below the sum of two.
* *Console.* `ConsoleInv` says for each place of `kputc` and `clear_console` what was loaded of the
  cursor and what an echo may have changed since. Scrolling and panics print several
  characters; that each of them keeps the bar and the cursor's range goes by `UpTo` over the
  solution of the recursion that prints them.
  `ScreenShowsText` relates two programs for the same thing: `kputc` of the thread, in up to a dozen
  steps, and the handler's, in one. `Rest(main, Here)` is the console that the thread will leave if
  nothing comes between: it is settled when the thread enters `kputc` or `clear_console`, each of
  their steps keeps it (`ThreadText` and the lemmas before it), and outside of them it is the console
  itself. `TextInv` says that `Rest` matches the text. `Matches` speaks of every column, line and
  character of the screen and of how many lines of the text have scrolled away: one more character
  keeps it (`KputcMatches`, with `ScrollMatches` when the last row is reached), a backspace takes one
  away (`BackspaceMatches`), a clearing begins anew (`ClearedMatches`). That no two characters share
  a place (`PlacesIncrease`) makes the picture a function of the text. An echo finds the thread
  outside of `kputc`, or `disturbed` ends the claim.

**Only model-checked.** All liveness properties (`AllocReturns`, `HeapStarts`, the `BootEnds`,
`EveryTimerFires`, `MainProgress`, `OpenReturns`, `CallReturns`, `FaultHalts`, `KeysAreRead`: fairness
and `ENABLED` are outside the prover's reach); `PrintsFormat`, which compares the code with a
recursive definition of what it should print: its numerals rest on powers such as `16^k`, of which
the provers know no law when `k` is not a number they are given; and `TimeWasShown`, which holds
only as long as few updates fall into one call (an hour between two reads would break it), so that
`MaxTicks` is part of what it says.

## 5. What is left out

* `Heap` and `Paging` on their own assume that the tables of the heap's pages exist, as those made in
  `initialise_paging` do; `HeapPaging` does not. It stops (`lost`) when frame 0 is handed out, which
  the kernel's own first page uses, and at a store through a table whose address was lost.
* The capacity of `sysTimers`, of `inbuf` and of `handlers`: nothing in the code compares anything
  with them, what lies behind them is up to the linker, and the instances stay below.
* The entry of vector 47 (IRQ 15), which lies behind the 47 entries of `hiIntHandler`.
* The effect of a store to memory that is not set up (`kinit` prints before `terminal_buffer` is).
* What happens after a lost stack, or after a jump through what `kmalloc` left in a volume.
* `clone_table` and `clone_directory` (a directory for a second address space), `start_pmm`,
  `initRegions` and `deinit_region`: no code calls them, and no state of the program says with which
  arguments it would. `addDescription` stores a text nothing prints, and `findFreeInterrupt` always
  returns 0.
* The rounding of due times to a `float`, the wrap of the tick counter, and the rate of the timer
  chip (its command byte goes to port 0x46 instead of 0x43): time is a small counter.
* Colours and the hardware cursor of the console, the key maps beyond one key of each kind, the 12
  hour clock.
* The parts that are not built, listed in section 1.

## 6. Where the code does not do what it says

`HeapIndexOrder` is kept as a run: `include/orderedArray.h:11` says the index "always remains in a
sorted state (between calls)", but unifying on the left (`heap.c:293`), enlarging and shrinking the
last hole change a size in place. TLC needs a few allocations and frees to show it.

`HeapTables` is the other: `hal/x86/memory/kheap.h:35` says of `kmalloc_ap` "The physical address is
returned in phys", but `kheap.c:24` computes `(frame * 0x1000 + addr) & 0xFFF`. `get_page` enters a
page table that came from the heap under that address, where it does not lie. TLC lets the heap grow
past the table of the boot to show it.

The others limit what the properties above claim. They were met while modelling; for most of them
the property holds under its precondition, and TLC finds a counterexample when it is removed.

| Line | What the code does |
|---|---|
| `heap.c:18` | `new_size&0xFFFFF000 != 0` parses as `new_size & 1`: even lengths are not rounded "to a page boundary" (l. 27), and a later expansion may leave a page unmapped although "we now have enough space" (l. 196) |
| `heap.c:25` | the assert that an expansion is not "overreaching ourselves" (l. 24) passes when the sum wraps |
| `heap.c:33` | an inner `expand`, for a page table, completes and moves `end_address` while the outer one holds the old end |
| `paging.c:330` | a page table from the heap is not cleared: its entries are what its memory held |
| `heap.c:46` | "the nearest following page boundary" (l. 45) tests one bit and yields two pages |
| `heap.c:190` | the growth goes to the hole with the highest address, across a block that lies behind it |
| `heap.c:215` | the front of an aligned block is negative when the hole starts just below a page boundary |
| `heap.c:224` | the size of a front hole shorter than its two tags is read back after the hole's footer was stored on it |
| `heap.c:300` | freeing the last block of a full arena reads a header behind the arena |
| `heap.c:304` | the footer of an absorbed right hole still names the absorbed header |
| `heap.c:338` | a last hole that vanishes is looked up as its right neighbour and may stay in the index |
| `paging.c:94`, `99` | `first_frame` has no result when memory is exhausted, and `used_frames` is never updated, so "no free frames" never panics |
| `paging.c:132` | `free_frame` clears the bit of the frame whose *address* is the frame's number: bit 0 |
| `isr.c:91` | four flags are read uninitialised when they are not passed |
| `isr.c:149`, `152` | `totalHandlers` starts at the last index and is 8 bits; the chains of all vectors share the memory at 0 |
| `isr.c:176` | a plain registration assigns `chainProtect`, so that every such vector is protected |
| `isr.c:193` | the refusal to clear a protected chain is ignored (`hal.h:88`) |
| `isr.c:239-251` | a chained hardware interrupt calls a NULL `handler`; a key that comes before the keyboard's handler is ended unread and blocks the keyboard |
| `timer.c:28` | with a tick nested in a listener another listener is called twice |
| `isr.c:82`, `255` | the test lets vector 47 through, one beyond the table, and the search for a free vector is empty |
| `interrupt.s:19-69` | a software interrupt (`genInterrupt`) on 8, 10 to 14, 17 or 30 returns to an address that is none |
| `keyboard.c:112-117` | the release of any key ends shift (the comment names the shift keys) |
| `keyboard.c:125-140`, `vga.c:15` | arrows and backspace move the cursor off the screen |
| `vga.c:57`, `348` | the 256th `clear_console` leaves the cursor where it is; `setMenubarText` keeps the cursor and never restores it |
| `vga.c:111` | a carriage return advances to column 1 |
| `vfs.c:20`, `26` | `open_fs` and `close_fs` test pointers that are never written |
| `jslk.c:40-41` | one held Enter satisfies several prompts |
| `vga.c:293` | a directive right after another directive is printed as text, and one at the end reads beyond it (`jslk.c:101`, `103`, `modes.c:56`) |
| `initrd.c:152`, `jslk.c:54` | the log of the image is empty and nothing limits a write: each message goes to the memory behind the image, where `placement_address` begins (`kinit.c:62`) |

## 7. Plan

Done: the modules above, their runs, and the proofs of section 4. Next, in this order:

1. **The books of any client.** Which of the four conditions of `Regime` a client may break for how
   long before the books are spoiled, as bounds on the sequences of calls.
2. **Capacities.** The ten timers and `inbuf` as bounded arrays with their neighbours in memory, once
   a linker map fixes what these are.
3. **Rtc.** `TimeWasShown` for every set of registers, with the bound on the updates of one call
   that it needs.
4. **Tasking**, if `move_stack` gets a caller.
