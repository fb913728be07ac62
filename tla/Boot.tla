-------------------------------- MODULE Boot --------------------------------
(***************************************************************************)
(* The kernel from kinit to the end of kernel_main, with the machine       *)
(* around it: the interrupt controllers, the tick, the keyboard, and       *)
(* exceptions.  It composes what the other modules describe one by one:    *)
(* hal.c and kinit.c (the order of initialisation), the descriptor tables, *)
(* the stubs of interrupt.s with isr_handler and irq_handler, the delays,  *)
(* the page fault handler and the panic.  Interrupts are on from           *)
(* init_descriptor_tables, long before most of what they touch is set up.  *)
(*                                                                         *)
(* Code that runs with interrupts off, or touches nothing the interrupts   *)
(* do, is one step.                                                        *)
(***************************************************************************)
EXTENDS Integers, Sequences

CONSTANTS
  DelayTicks,      \* ticks a call of delay waits for
  Lines,           \* interrupt lines that may be raised: 0 tick, 1 keyboard
  Exceptions,      \* exceptions that may strike
  SoftVectors      \* arguments of genInterrupt

ASSUME BootParameters ==
  /\ DelayTicks \in Nat /\ {0, 1} \subseteq Lines /\ Lines \subseteq 0..15 \ {2}
  /\ Exceptions \subseteq 0..31 /\ SoftVectors \subseteq 0..47

VARIABLES
  pc,              \* where the thread is
  iflag,           \* the interrupt flag of the processor
  segments,        \* the kernel's own segments are loaded
  remapped,        \* lines whose vector is 32 + line
  gates,           \* vectors with a gate in the loaded table
  hooked,          \* vectors with hasHandler set
  paging,          \* paging is on
  left,            \* ticks the thread's delay and the fault handler's wait for
  frames,          \* interrupts being served, innermost last
  requested,       \* lines the controllers hold a request of
  inService,       \* lines they have delivered and not seen the end of
  port,            \* the byte in the keyboard controller, "empty" if none
  scancode,        \* the variable of keyboard.c
  module,          \* GRUB loaded the initial ramdisk
  fault,           \* the exception that has struck, or NoFault
  early,           \* history: a key came before its handler
  halted           \* _halt
machine == <<iflag, segments, remapped, gates, hooked, paging>>
vars == <<pc, machine, left, frames, requested, inService, port, scancode,
          module, fault, early, halted>>

NoFault == -1
PageFault == 14
Irq(line) == 32 + line

(* The multiboot state: interrupts off, controllers as the BIOS left them.  *)
Init ==
  /\ pc = "kinit" /\ iflag = FALSE /\ segments = FALSE /\ remapped = {} /\ gates = {}
  /\ hooked = {} /\ paging = FALSE /\ left = [thread |-> 0, fault |-> 0] /\ frames = <<>>
  /\ requested = {} /\ inService = {} /\ port = "empty" /\ scancode = "none"
  /\ module \in BOOLEAN /\ fault = NoFault /\ early = FALSE /\ halted = FALSE

-----------------------------------------------------------------------------
(* The thread, which runs when nothing is being served.                    *)
Thread(now, then) == ~halted /\ frames = <<>> /\ pc = now /\ pc' = then
devices == <<requested, inService, port, scancode, module, early>>
ThreadOnly == UNCHANGED <<frames, devices, fault>>

Kinit ==
  /\ Thread("kinit", "segments")
  /\ iflag' = FALSE
  /\ UNCHANGED <<segments, remapped, gates, hooked, paging, left, halted>> /\ ThreadOnly

(* init_gdt: a null, a code and a data segment.  Its panic, for a slot past  *)
(* the last or one marked as taken, cannot come: nothing marks a slot.     *)
InitGdt ==
  /\ Thread("segments", "remap")
  /\ segments' = TRUE
  /\ UNCHANGED <<iflag, remapped, gates, hooked, paging, left, halted>> /\ ThreadOnly

(* init_idt: move the controllers' vectors, fill and load the table, sti.   *)
RemapMasterOnly ==
  /\ Thread("remap", "gates")
  /\ remapped' = 0..7
  /\ UNCHANGED <<iflag, segments, gates, hooked, paging, left, halted>> /\ ThreadOnly
Remap ==
  /\ Thread("remap", "gates")
  /\ remapped' = 0..15
  /\ UNCHANGED <<iflag, segments, gates, hooked, paging, left, halted>> /\ ThreadOnly
LoadTable ==
  /\ Thread("gates", "pit")
  /\ gates' = 0..47
  /\ iflag' = TRUE
  /\ UNCHANGED <<segments, remapped, hooked, paging, left, halted>> /\ ThreadOnly

(* registerInterruptHandler: cli, the entry, sti.                          *)
Hook(now, vectors, then) ==
  /\ Thread(now, then)
  /\ hooked' = hooked \union vectors
  /\ iflag' = TRUE
  /\ UNCHANGED <<segments, remapped, gates, paging, left, halted>> /\ ThreadOnly
StartPit == Hook("pit", {Irq(0)}, "fatal")
HookFatal == Hook("fatal", {8, 10, 11, 12}, "initrd")

(* PANIC: interrupts off, the message, and _halt, which never returns.      *)
Halt == halted' = TRUE /\ iflag' = FALSE
Panic ==
  /\ Halt
  /\ UNCHANGED <<pc, segments, remapped, gates, hooked, paging, left, frames, devices, fault>>

(* assert(bootinfo->mods_count > 0), and the placement address.            *)
FindInitrd ==
  \/ /\ module
     /\ Thread("initrd", "delay1")
     /\ UNCHANGED <<machine, left, halted>> /\ ThreadOnly
  \/ /\ ~module /\ ~halted /\ frames = <<>> /\ pc = "initrd"
     /\ Panic

DelayStart(now, then) ==
  /\ Thread(now, then)
  /\ left' = [left EXCEPT !.thread = DelayTicks]
  /\ UNCHANGED <<machine, halted>> /\ ThreadOnly
DelayEnd(now, then) ==
  /\ Thread(now, then)
  /\ left.thread = 0
  /\ UNCHANGED <<machine, left, halted>> /\ ThreadOnly

(* initialise_paging.  The tables are the subject of Paging.               *)
PagingDelay == DelayStart("delay1", "tables")
PagingHook ==
  /\ left.thread = 0
  /\ Hook("tables", {PageFault}, "switch")
SwitchPageDirectory ==
  /\ Thread("switch", "delay2")
  /\ paging' = TRUE
  /\ UNCHANGED <<iflag, segments, remapped, gates, hooked, left, halted>> /\ ThreadOnly
HeapDelay == DelayStart("delay2", "heap")
CreateHeap == DelayEnd("heap", "delay3")
LastDelay == DelayStart("delay3", "mount")
InitialiseInitrd == DelayEnd("mount", "keyboard")

KeyboardVectorRaw == 1
KeyboardVector == Irq(1)
KeyboardInstall == Hook("keyboard", {KeyboardVector}, "greet")

(* kernel_main: its delays, and open, which waits for Enter.               *)
Greet == DelayStart("greet", "clock")
ShowTime == DelayEnd("clock", "delay4")
ListDelay == DelayStart("delay4", "list")
ListFiles == DelayEnd("list", "open")
OpenEnds ==
  /\ Thread("open", "done")
  /\ scancode = "enter"
  /\ UNCHANGED <<machine, left, halted>> /\ ThreadOnly

BootStep ==
  \/ Kinit \/ InitGdt \/ Remap \/ LoadTable \/ StartPit \/ HookFatal \/ FindInitrd
  \/ PagingDelay \/ PagingHook \/ SwitchPageDirectory \/ HeapDelay \/ CreateHeap
  \/ LastDelay \/ InitialiseInitrd \/ KeyboardInstall
  \/ Greet \/ ShowTime \/ ListDelay \/ ListFiles \/ OpenEnds

-----------------------------------------------------------------------------
(* Serving an interrupt: the gate clears the flag; iret brings it back.    *)
Serve(kind, vector) ==
  /\ frames' = Append(frames, [kind |-> kind, vector |-> vector, step |-> 1, saved |-> iflag])
  /\ iflag' = FALSE
Top == frames[Len(frames)]
Running(kind) == ~halted /\ frames # <<>> /\ Top.kind = kind
GoTo(step) == frames' = [frames EXCEPT ![Len(frames)].step = step]
Advance == GoTo(Top.step + 1)
Iret == /\ frames' = SubSeq(frames, 1, Len(frames) - 1)
        /\ iflag' = Top.saved

(* The two controllers: a line waits for those of its rank and above it.    *)
(* The slave has the rank of the master's line 2.                          *)
Rank(line) == IF line >= 8 THEN 2 ELSE line
VectorOf(line) ==
  IF line \in remapped THEN Irq(line) ELSE IF line < 8 THEN 8 + line ELSE 112 + line - 8
TakeIrq(line) ==
  /\ iflag /\ ~halted /\ line \in requested
  /\ \A l \in inService : Rank(line) < Rank(l)
  /\ requested' = requested \ {line}
  /\ inService' = inService \union {line}
  /\ Serve("irq", VectorOf(line))
  /\ UNCHANGED <<pc, segments, remapped, gates, hooked, paging, left, port, scancode, module,
                 fault, early, halted>>

(* irq_handler, first the controllers, then the vector's handler.  The end  *)
(* of interrupt is not specific: it is for the line of the highest rank.   *)
StepsLate == <<"handler", "eoi">>
Steps == <<"eoi", "handler">>
Does(step) == Running("irq") /\ Top.step <= 2 /\ Steps[Top.step] = step
AcknowledgedBySlave(vector) ==
  {l \in inService : vector < 40 \/ \E k \in inService : Rank(k) < Rank(l)}
Acknowledged(vector) ==
  {l \in inService : \/ vector < 40 /\ l >= 8
                     \/ \E k \in inService : Rank(k) < Rank(l)}
Eoi ==
  /\ Does("eoi")
  /\ inService' = Acknowledged(Top.vector)
  /\ Advance
  /\ UNCHANGED <<pc, machine, left, requested, port, scancode, module, fault, early, halted>>
Down(n) == IF n > 0 THEN n - 1 ELSE 0
PitHandler ==
  /\ left' = [thread |-> Down(left.thread), fault |-> Down(left.fault)]
  /\ UNCHANGED <<port, scancode, early>>
KeyboardHandler ==
  /\ scancode' = IF port = "empty" THEN scancode ELSE port
  /\ port' = "empty"
  /\ UNCHANGED <<left, early>>
NoHandler ==
  /\ early' = (early \/ Top.vector = Irq(1))
  /\ UNCHANGED <<left, port, scancode>>
Handler ==
  /\ Does("handler")
  /\ IF Top.vector \notin hooked THEN NoHandler
     ELSE IF Top.vector = Irq(0) THEN PitHandler ELSE KeyboardHandler
  /\ Advance
  /\ UNCHANGED <<pc, machine, requested, inService, module, fault, halted>>
IrqReturn ==
  /\ Running("irq") /\ Top.step = 3
  /\ Iret
  /\ UNCHANGED <<pc, segments, remapped, gates, hooked, paging, left, devices, fault, halted>>
IrqStep == Eoi \/ Handler \/ IrqReturn

-----------------------------------------------------------------------------
(* An exception, in the thread or in a handler; a page fault needs paging.  *)
Fault(vector) ==
  /\ ~halted /\ pc # "lost" /\ fault = NoFault
  /\ frames = <<>> \/ Does("handler")
  /\ vector \in gates /\ (vector = PageFault => paging)
  /\ fault' = vector
  /\ Serve("isr", vector)
  /\ UNCHANGED <<pc, segments, remapped, gates, hooked, paging, left, devices, halted>>

(* genInterrupt, offered by hal.h to whatever runs after kinit.            *)
GenInterrupt(vector) ==
  /\ ~halted /\ frames = <<>> /\ pc = "done"
  /\ Serve(IF vector < 32 THEN "int" ELSE "irq", vector)
  /\ UNCHANGED <<pc, segments, remapped, gates, hooked, paging, left, devices, fault, halted>>

(***************************************************************************)
(* The stub takes an error code off the stack.  It has pushed a zero where *)
(* it expects none from the processor, which pushes a code for some        *)
(* exceptions and for no software interrupt.  With one code too few or too *)
(* many, iret leaves for an address that is none.                          *)
(***************************************************************************)
StubExpectsCode == {8, 10, 11, 12, 13, 14, 17, 30}
ProcessorPushesCode == {8, 10, 11, 12, 13, 14, 17, 21, 29, 30}
CodesPushed(frame) ==
  (IF frame.kind = "isr" /\ frame.vector \in ProcessorPushesCode THEN 1 ELSE 0)
  + (IF frame.vector \in StubExpectsCode THEN 0 ELSE 1)

(***************************************************************************)
(* isr_handler.  A vector without a handler returns, and an exception's    *)
(* instruction runs again, with the flag as it was.  page_fault prints     *)
(* with interrupts off, releases them, waits, and panics; the other        *)
(* handlers panic at once.                                                 *)
(***************************************************************************)
isr == Running("isr") \/ Running("int")
Unhooked == isr /\ Top.step = 1 /\ Top.vector \notin hooked
Unhandled ==
  /\ Unhooked /\ CodesPushed(Top) = 1
  /\ IF Top.kind = "int" THEN Iret ELSE iflag' = Top.saved /\ GoTo(2)
  /\ UNCHANGED <<pc, segments, remapped, gates, hooked, paging, left, devices, fault, halted>>
Unbalanced ==
  /\ Unhooked /\ CodesPushed(Top) # 1
  /\ pc' = "lost" /\ iflag' = FALSE /\ frames' = <<>>
  /\ UNCHANGED <<segments, remapped, gates, hooked, paging, left, devices, fault, halted>>
Retry ==
  /\ isr /\ Top.step = 2
  /\ iflag' = FALSE /\ GoTo(1)
  /\ UNCHANGED <<pc, segments, remapped, gates, hooked, paging, left, devices, fault, halted>>
PageFaultReports ==
  /\ isr /\ Top.step = 1 /\ Top.vector = PageFault /\ PageFault \in hooked
  /\ iflag' = TRUE
  /\ left' = [left EXCEPT !.fault = DelayTicks]
  /\ GoTo(3)
  /\ UNCHANGED <<pc, segments, remapped, gates, hooked, paging, devices, fault, halted>>
PageFaultPanics == isr /\ Top.step = 3 /\ left.fault = 0 /\ Panic
FatalPanics ==
  /\ isr /\ Top.step = 1 /\ Top.vector \in hooked \ {PageFault}
  /\ Panic
IsrStep == Unhandled \/ Unbalanced \/ Retry \/ PageFaultReports \/ PageFaultPanics \/ FatalPanics

-----------------------------------------------------------------------------
(* The machine.  The keyboard controller sends the next byte, a key pressed *)
(* or released, when the last one has been read.                           *)
Raise(line) ==
  /\ requested' = requested \union {line}
  /\ UNCHANGED <<pc, machine, left, frames, inService, scancode, module, fault, early, halted>>
TickArrives == 0 \notin requested /\ Raise(0) /\ UNCHANGED port
KeyArrives(code) == port = "empty" /\ port' = code /\ Raise(1)
OtherArrives(line) == line \notin requested /\ Raise(line) /\ UNCHANGED port

Next ==
  \/ BootStep \/ IrqStep \/ IsrStep
  \/ \E line \in Lines : TakeIrq(line)
  \/ \E vector \in Exceptions : Fault(vector)
  \/ \E vector \in SoftVectors : GenInterrupt(vector)
  \/ TickArrives
  \/ \E code \in {"enter", "other"} : KeyArrives(code)
  \/ \E line \in Lines \ {0, 1} : OtherArrives(line)

(***************************************************************************)
(* The tick goes on; a line that is requested and let through is taken;    *)
(* handlers end long before the next interrupt, so that the code they      *)
(* interrupt gets its turn.                                                *)
(***************************************************************************)
Spec ==
  /\ Init /\ [][Next]_vars
  /\ WF_vars(TickArrives) /\ WF_vars(IrqStep) /\ SF_vars(IsrStep) /\ SF_vars(BootStep)
  /\ \A line \in Lines : SF_vars(TakeIrq(line))

-----------------------------------------------------------------------------
(* A line never enters the vector of an exception, nor one without a gate,  *)
(* nor a gate whose segments are not loaded: interrupts are off until the  *)
(* segments, the controllers and the table are done                        *)
(* (descriptor_tables.c:28-45, 74-143).  And the stubs return from every   *)
(* exception: only a software interrupt on the vector of an exception that *)
(* has an error code loses the stack (interrupt.s:19-69).                  *)
CleanEntryAndReturn ==
  /\ \A k \in DOMAIN frames :
       /\ segments
       /\ frames[k].kind = "irq" => frames[k].vector \in gates /\ frames[k].vector >= 32
  /\ pc = "lost" => fault = NoFault

(* A page fault, and any other exception that has a handler, ends with the  *)
(* processor halted, wherever it struck: page_fault waits for ticks inside *)
(* a handler (paging.c:378), also when it interrupted the tick's handler.  *)
FaultHalts ==
  \A vector \in Exceptions :
    fault = vector /\ vector \in hooked \union {PageFault} ~> halted

(* With a ramdisk and no exception the kernel reaches its last prompt:      *)
(* every delay of the boot (paging.c:239, 296, 302, jslk.c:68, 72) ends,   *)
(* whatever interrupts come, handled or not.                               *)
BootEnds ==
  module /\ [](fault = NoFault) => <>(pc = "open")

(* Once the keyboard is installed every key is read, unless one came before *)
(* that (irq_handler ends it unread, isr.c:239-251) or an exception struck. *)
KeysAreRead ==
  pc \in {"greet", "clock", "delay4", "list", "open", "done"} /\ ~early /\ port # "empty" ~>
    port = "empty" \/ fault # NoFault \/ halted \/ pc = "lost"
=============================================================================
