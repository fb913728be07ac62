------------------------------ MODULE BootProofs ------------------------------
(***************************************************************************)
(* What holds of the boot and of the stubs of interrupt.s for any delay,   *)
(* any set of interrupt lines, exceptions and software interrupts.         *)
(***************************************************************************)
EXTENDS Boot, SequenceTheorems, TLAPS

-----------------------------------------------------------------------------
(***************************************************************************)
(* The inductive invariant.  Everything an interrupt relies on is set up   *)
(* before the flag is first set, in the order of init_descriptor_tables,   *)
(* and what runs after that never undoes it.  An exception's frame stays   *)
(* until the processor halts, since its instruction runs again; so a       *)
(* software interrupt's frame, always the outermost, is left only when no  *)
(* exception has struck.                                                   *)
(***************************************************************************)
Frame == [kind : {"irq", "isr", "int"}, vector : 0..47, step : 1..3, saved : BOOLEAN]
Flags ==
  /\ frames \in Seq(Frame) /\ iflag \in BOOLEAN
  /\ fault \in {NoFault} \union Exceptions
Ready == segments /\ remapped = 0..15 /\ gates = 0..47
LoadedInOrder ==
  /\ pc \notin {"kinit", "segments"} => segments
  /\ pc \notin {"kinit", "segments", "remap"} => remapped = 0..15
  /\ pc \notin {"kinit", "segments", "remap", "gates"} => gates = 0..47
ReadyBeforeInterrupts == iflag \/ frames # <<>> \/ gates # {} => Ready
Entered ==
  \A k \in DOMAIN frames :
    /\ frames[k].kind = "irq" => frames[k].vector >= 32
    /\ frames[k].kind = "isr" => frames[k].vector = fault /\ fault # NoFault
    /\ frames[k].kind = "int" => k = 1
FaultStays ==
  fault # NoFault /\ pc # "lost" => \E k \in DOMAIN frames : frames[k].kind = "isr"
Lost == pc = "lost" => fault \in {NoFault} \union (ProcessorPushesCode \ StubExpectsCode)
Gone == pc = "lost" => frames = <<>> /\ ~iflag
BootInv ==
  /\ Flags /\ LoadedInOrder /\ ReadyBeforeInterrupts
  /\ Entered /\ FaultStays /\ Lost /\ Gone

LEMMA BootInit == Init => BootInv
<1> SUFFICES ASSUME Init PROVE BootInv
  OBVIOUS
<1>1. frames = <<>> /\ DOMAIN frames = {} /\ frames \in Seq(Frame)
  BY DEF Init
<1> QED
  BY <1>1 DEF Init, BootInv, Flags, LoadedInOrder, ReadyBeforeInterrupts, Entered, FaultStays,
              Lost, Gone

(* The thread moves only while nothing is served, forward in the order of   *)
(* kinit; the flag is set from the loading of the table on.                *)
LEMMA ThreadSteps ==
  ASSUME BootInv, BootStep
  PROVE  BootInv'
<1>1. frames = <<>> /\ frames' = frames /\ DOMAIN frames = {} /\ fault' = fault /\ pc # "lost"
  BY DEF BootStep, Kinit, InitGdt, Remap, LoadTable, StartPit, HookFatal, FindInitrd,
         PagingDelay, PagingHook, SwitchPageDirectory, HeapDelay, CreateHeap, LastDelay,
         InitialiseInitrd, KeyboardInstall, Greet, ShowTime, ListDelay, ListFiles, OpenEnds,
         Thread, ThreadOnly, Hook, DelayStart, DelayEnd, Panic
<1>2. pc' # "lost" /\ iflag' \in BOOLEAN
  BY DEF BootStep, Kinit, InitGdt, Remap, LoadTable, StartPit, HookFatal, FindInitrd,
         PagingDelay, PagingHook, SwitchPageDirectory, HeapDelay, CreateHeap, LastDelay,
         InitialiseInitrd, KeyboardInstall, Greet, ShowTime, ListDelay, ListFiles, OpenEnds,
         Thread, ThreadOnly, Hook, DelayStart, DelayEnd, Panic, Halt, machine, BootInv, Flags
<1>3. LoadedInOrder' /\ ReadyBeforeInterrupts'
  <2>0. BootInv
    OBVIOUS
  <2>1. CASE Kinit
    BY <1>1, <2>0, <2>1
    DEF Kinit, Thread, BootInv, LoadedInOrder, ReadyBeforeInterrupts, Ready
  <2>2. CASE InitGdt
    BY <1>1, <2>0, <2>2
    DEF InitGdt, Thread, BootInv, LoadedInOrder, ReadyBeforeInterrupts, Ready
  <2>3. CASE Remap
    BY <1>1, <2>0, <2>3
    DEF Remap, Thread, BootInv, LoadedInOrder, ReadyBeforeInterrupts, Ready
  <2>4. CASE LoadTable
    BY <1>1, <2>0, <2>4
    DEF LoadTable, Thread, BootInv, LoadedInOrder, ReadyBeforeInterrupts, Ready
  <2>5. CASE ~(Kinit \/ InitGdt \/ Remap \/ LoadTable)
    <3>1. /\ pc \notin {"kinit", "segments", "remap", "gates", "lost"}
          /\ UNCHANGED <<segments, remapped, gates>>
          /\ pc' \notin {"kinit", "segments", "remap", "gates", "lost"}
      BY <2>5 DEF BootStep, StartPit, HookFatal, FindInitrd,
           PagingDelay, PagingHook, SwitchPageDirectory, HeapDelay, CreateHeap, LastDelay,
           InitialiseInitrd, KeyboardInstall, Greet, ShowTime, ListDelay, ListFiles, OpenEnds,
           Thread, ThreadOnly, Hook, DelayStart, DelayEnd, Panic, Halt, machine
    <3> QED BY <2>0, <3>1 DEF BootInv, LoadedInOrder, ReadyBeforeInterrupts, Ready
  <2> QED BY <2>1, <2>2, <2>3, <2>4, <2>5
<1>4. fault = NoFault /\ DOMAIN frames' = {}
  BY <1>1 DEF BootInv, FaultStays
<1>5. Flags'
  BY <1>1, <1>2 DEF BootInv, Flags
<1>6. Entered' /\ FaultStays'
  BY <1>1, <1>4 DEF Entered, FaultStays
<1> QED
  BY <1>2, <1>3, <1>5, <1>6 DEF BootInv, Lost, Gone

(* Serving an interrupt on top of what is being served.                    *)
LEMMA Served ==
  ASSUME BootInv, NEW kind \in {"irq", "isr", "int"}, NEW vector \in 0..47, Serve(kind, vector)
  PROVE  /\ frames' \in Seq(Frame) /\ iflag' = FALSE /\ frames' # <<>>
         /\ DOMAIN frames' = 1..(Len(frames) + 1)
         /\ \A k \in DOMAIN frames : frames'[k] = frames[k]
         /\ frames'[Len(frames) + 1].kind = kind
         /\ frames'[Len(frames) + 1].vector = vector
<1> DEFINE f == [kind |-> kind, vector |-> vector, step |-> 1, saved |-> iflag]
<1>1. f \in Frame /\ frames \in Seq(Frame)
  BY DEF Frame, BootInv, Flags
<1>2. frames' = Append(frames, f) /\ iflag' = FALSE
  BY DEF Serve
<1> HIDE DEF f
<1>3. /\ frames' \in Seq(Frame) /\ Len(frames') = Len(frames) + 1
      /\ \A k \in 1..Len(frames) : frames'[k] = frames[k]
      /\ frames'[Len(frames) + 1] = f
  BY <1>1, <1>2, AppendProperties
<1> QED BY <1>1, <1>2, <1>3, LenProperties DEF f

LEMMA LineServed ==
  ASSUME BootInv, NEW line \in Lines, TakeIrq(line)
  PROVE  BootInv'
<1>1. Ready /\ pc # "lost"
  BY DEF TakeIrq, BootInv, ReadyBeforeInterrupts, Gone
<1>2. VectorOf(line) \in 32..47
  BY <1>1, BootParameters DEF Ready, VectorOf, Irq
<1>3. /\ UNCHANGED <<pc, segments, remapped, gates, fault>>
      /\ Serve("irq", VectorOf(line))
  BY DEF TakeIrq
<1>4. /\ frames' \in Seq(Frame) /\ iflag' = FALSE
      /\ DOMAIN frames' = 1..(Len(frames) + 1)
      /\ \A k \in DOMAIN frames : frames'[k] = frames[k]
      /\ frames'[Len(frames) + 1].kind = "irq"
      /\ frames'[Len(frames) + 1].vector = VectorOf(line)
  <2>1. VectorOf(line) \in 0..47 /\ "irq" \in {"irq", "isr", "int"}
    BY <1>2
  <2> QED BY <1>3, <2>1, Served
<1>5. DOMAIN frames = 1..Len(frames) /\ Len(frames) \in Nat
  BY LenProperties DEF BootInv, Flags
<1>6. Entered'
  BY <1>2, <1>3, <1>4, <1>5 DEF BootInv, Entered
<1>7. FaultStays'
  BY <1>3, <1>4, <1>5 DEF BootInv, FaultStays
<1> QED
  BY <1>1, <1>3, <1>4, <1>6, <1>7
  DEF BootInv, Flags, LoadedInOrder, ReadyBeforeInterrupts, Ready, Lost, Gone

LEMMA ExceptionServed ==
  ASSUME BootInv, NEW vector \in Exceptions, Fault(vector)
  PROVE  BootInv'
<1>1. vector \in 0..31 /\ fault = NoFault /\ pc # "lost"
  BY BootParameters DEF Fault
<1>2. /\ UNCHANGED <<pc, segments, remapped, gates>> /\ fault' = vector
      /\ Serve("isr", vector)
  BY DEF Fault
<1>3. /\ frames' \in Seq(Frame) /\ iflag' = FALSE
      /\ DOMAIN frames' = 1..(Len(frames) + 1)
      /\ \A k \in DOMAIN frames : frames'[k] = frames[k]
      /\ frames'[Len(frames) + 1].kind = "isr"
      /\ frames'[Len(frames) + 1].vector = vector
  <2>1. vector \in 0..47 /\ "isr" \in {"irq", "isr", "int"}
    BY <1>1
  <2> QED BY <1>2, <2>1, Served
<1>4. DOMAIN frames = 1..Len(frames) /\ Len(frames) \in Nat
  BY LenProperties DEF BootInv, Flags
<1>5. Entered'
  <2>1. \A k \in DOMAIN frames :
          /\ frames[k].kind = "irq" => frames[k].vector >= 32
          /\ frames[k].kind # "isr"
          /\ frames[k].kind = "int" => k = 1
    BY <1>1 DEF BootInv, Entered
  <2>2. vector # NoFault
    BY <1>1 DEF NoFault
  <2> SUFFICES ASSUME NEW k \in DOMAIN frames'
               PROVE  /\ frames'[k].kind = "irq" => frames'[k].vector >= 32
                      /\ frames'[k].kind = "isr" => frames'[k].vector = fault' /\ fault' # NoFault
                      /\ frames'[k].kind = "int" => k = 1
    BY DEF Entered
  <2>3. CASE k \in DOMAIN frames
    BY <1>3, <2>1, <2>3
  <2>4. CASE k = Len(frames) + 1
    BY <1>2, <1>3, <2>2, <2>4
  <2> QED BY <1>3, <1>4, <2>3, <2>4
<1>6. FaultStays'
  BY <1>3, <1>4 DEF FaultStays
<1>7. Ready
  BY DEF Fault, BootInv, ReadyBeforeInterrupts
<1> QED
  BY <1>1, <1>2, <1>3, <1>5, <1>6, <1>7
  DEF BootInv, Flags, LoadedInOrder, ReadyBeforeInterrupts, Ready, Lost, Gone

(* A software interrupt finds nothing being served, so that its frame is    *)
(* the outermost.                                                          *)
LEMMA SoftwareServed ==
  ASSUME BootInv, NEW vector \in SoftVectors, GenInterrupt(vector)
  PROVE  BootInv'
<1> DEFINE kind == IF vector < 32 THEN "int" ELSE "irq"
<1>1. vector \in 0..47 /\ kind \in {"irq", "isr", "int"} /\ pc # "lost" /\ frames = <<>>
  BY BootParameters DEF GenInterrupt
<1>2. /\ UNCHANGED <<pc, segments, remapped, gates, fault>> /\ Serve(kind, vector)
  BY DEF GenInterrupt
<1>3. kind = "irq" => vector >= 32
  BY <1>1
<1>4. kind # "isr"
  OBVIOUS
<1> HIDE DEF kind
<1>5. /\ frames' \in Seq(Frame) /\ iflag' = FALSE
      /\ DOMAIN frames' = 1..(Len(frames) + 1)
      /\ \A k \in DOMAIN frames : frames'[k] = frames[k]
      /\ frames'[Len(frames) + 1].kind = kind
      /\ frames'[Len(frames) + 1].vector = vector
  BY <1>1, <1>2, Served
<1>6. Len(frames) = 0 /\ DOMAIN frames' = {1} /\ DOMAIN frames = {}
  <2>1. Len(frames) = 0 /\ DOMAIN frames = {}
    BY <1>1
  <2> QED BY <1>5, <2>1
<1>7. Entered'
  BY <1>3, <1>4, <1>5, <1>6 DEF Entered
<1>8. FaultStays'
  BY <1>1, <1>2, <1>6 DEF BootInv, FaultStays
<1>9. Ready
  <2>1. gates = 0..47
    BY DEF GenInterrupt, BootInv, LoadedInOrder
  <2>2. gates # {}
    BY <2>1
  <2> QED BY <2>2 DEF BootInv, ReadyBeforeInterrupts
<1> QED
  BY <1>1, <1>2, <1>5, <1>7, <1>8, <1>9
  DEF BootInv, Flags, LoadedInOrder, ReadyBeforeInterrupts, Ready, Lost, Gone

(* What a step does to the innermost frame: it moves it on, and leaves what *)
(* it is and what lies under it.                                           *)
LEMMA FrameMoves ==
  ASSUME BootInv, frames # <<>>, NEW step \in 1..3, GoTo(step)
  PROVE  /\ frames' \in Seq(Frame) /\ frames' # <<>> /\ DOMAIN frames' = DOMAIN frames
         /\ \A k \in DOMAIN frames :
              frames'[k].kind = frames[k].kind /\ frames'[k].vector = frames[k].vector
<1> DEFINE n == Len(frames)
<1>1. frames \in Seq(Frame) /\ n \in Nat \ {0} /\ DOMAIN frames = 1..n
  BY EmptySeq, LenProperties DEF BootInv, Flags
<1>2. frames[n] \in Frame
  BY <1>1, ElementOfSeq
<1>3. [frames[n] EXCEPT !.step = step] \in Frame
  BY <1>2 DEF Frame
<1>4. frames' = [frames EXCEPT ![n] = [frames[n] EXCEPT !.step = step]]
  BY DEF GoTo
<1>5. frames' \in Seq(Frame) /\ Len(frames') = n
  BY <1>1, <1>3, <1>4, ExceptSeq
<1>6. DOMAIN frames' = DOMAIN frames /\ frames' # <<>>
  BY <1>1, <1>5, LenProperties
<1>7. \A k \in DOMAIN frames :
        frames'[k].kind = frames[k].kind /\ frames'[k].vector = frames[k].vector
  BY <1>1, <1>2, <1>4 DEF Frame
<1> QED BY <1>5, <1>6, <1>7

(* A step that moves the innermost frame on, whatever it does to the flag.  *)
LEMMA MovedOn ==
  ASSUME BootInv, frames # <<>>, NEW step \in 1..3, GoTo(step), iflag' \in BOOLEAN,
         UNCHANGED <<pc, segments, remapped, gates, fault>>
  PROVE  BootInv'
<1>1. /\ frames' \in Seq(Frame) /\ frames' # <<>> /\ DOMAIN frames' = DOMAIN frames
      /\ \A k \in DOMAIN frames :
           frames'[k].kind = frames[k].kind /\ frames'[k].vector = frames[k].vector
  BY FrameMoves
<1>2. Ready /\ pc # "lost"
  BY DEF BootInv, ReadyBeforeInterrupts, Gone
<1>3. Entered'
  BY <1>1 DEF BootInv, Entered
<1>4. FaultStays'
  BY <1>1 DEF BootInv, FaultStays
<1> QED
  BY <1>1, <1>2, <1>3, <1>4
  DEF BootInv, Flags, LoadedInOrder, ReadyBeforeInterrupts, Ready, Lost, Gone

(* The innermost frame is left by iret: those under it stay.                *)
LEMMA FrameLeft ==
  ASSUME BootInv, frames # <<>>, Top.kind # "isr", Iret,
         UNCHANGED <<pc, segments, remapped, gates, fault>>
  PROVE  BootInv'
<1> DEFINE n == Len(frames)
<1>1. frames \in Seq(Frame) /\ n \in Nat \ {0} /\ DOMAIN frames = 1..n
  BY EmptySeq, LenProperties DEF BootInv, Flags
<1>2. frames[n] \in Frame /\ Top = frames[n]
  BY <1>1, ElementOfSeq DEF Top
<1>3. frames' = SubSeq(frames, 1, n - 1) /\ iflag' = Top.saved
  BY DEF Iret
<1>4. /\ frames' \in Seq(Frame) /\ Len(frames') = n - 1
      /\ \A k \in 1..(n - 1) : frames'[k] = frames[k]
  <2>1. 1 \in 1..(n + 1) /\ n - 1 \in 0..n /\ n - 1 \in Int
    BY <1>1
  <2>2. \A k \in 1..(n - 1) : k \in 1..n
    BY <1>1
  <2> QED BY <1>1, <1>3, <2>1, <2>2
<1>5. DOMAIN frames' = 1..(n - 1)
  BY <1>4, LenProperties
<1>6. iflag' \in BOOLEAN
  BY <1>2, <1>3 DEF Frame
<1>7. Ready /\ pc # "lost"
  BY DEF BootInv, ReadyBeforeInterrupts, Gone
<1>8. Entered'
  BY <1>1, <1>4, <1>5 DEF BootInv, Entered
<1>9. FaultStays'
  BY <1>1, <1>2, <1>4, <1>5 DEF BootInv, FaultStays
<1> QED
  BY <1>4, <1>6, <1>7, <1>8, <1>9
  DEF BootInv, Flags, LoadedInOrder, ReadyBeforeInterrupts, Ready, Lost, Gone

(* irq_handler and the stub's return (isr.c:173-201, interrupt.s).          *)
LEMMA LineSteps ==
  ASSUME BootInv, IrqStep
  PROVE  BootInv'
<1>1. CASE Eoi \/ Handler
  <2>1. /\ frames # <<>> /\ Top.step \in 1..2 /\ GoTo(Top.step + 1)
        /\ UNCHANGED <<pc, iflag, segments, remapped, gates, fault>>
    <3>1. frames # <<>> /\ Top \in Frame
      <4>1. frames # <<>> /\ frames \in Seq(Frame)
        BY <1>1 DEF Eoi, Handler, Does, Running, BootInv, Flags
      <4> QED BY <4>1, EmptySeq, LenProperties, ElementOfSeq DEF Top
    <3>2. Top.step <= 2 /\ GoTo(Top.step + 1)
      BY <1>1 DEF Eoi, Handler, Does, Advance
    <3>3. UNCHANGED <<pc, iflag, segments, remapped, gates, fault>>
      BY <1>1 DEF Eoi, Handler, machine
    <3> QED BY <3>1, <3>2, <3>3 DEF Frame
  <2>2. Top.step + 1 \in 1..3 /\ iflag' \in BOOLEAN
    BY <2>1 DEF BootInv, Flags
  <2> QED BY <2>1, <2>2, MovedOn
<1>2. CASE IrqReturn
  <2>1. /\ frames # <<>> /\ Top.kind # "isr" /\ Iret
        /\ UNCHANGED <<pc, segments, remapped, gates, fault>>
    BY <1>2 DEF IrqReturn, Running
  <2> QED BY <2>1, FrameLeft
<1> QED BY <1>1, <1>2 DEF IrqStep

(***************************************************************************)
(* isr_handler (isr.c:173-201).  A software interrupt on top means that no  *)
(* exception's frame is there, so none has struck; an exception's frame    *)
(* that the stub unbalances is one whose code the stub does not expect.    *)
(***************************************************************************)
LEMMA NothingUnderSoftware ==
  ASSUME BootInv, frames # <<>>, Top.kind = "int"
  PROVE  fault = NoFault
<1>1. frames \in Seq(Frame) /\ Len(frames) \in Nat \ {0} /\ DOMAIN frames = 1..Len(frames)
  BY EmptySeq, LenProperties DEF BootInv, Flags
<1>2. Len(frames) = 1 /\ frames[1].kind = "int"
  BY <1>1 DEF Top, BootInv, Entered
<1>3. pc # "lost"
  BY DEF BootInv, Gone
<1> QED BY <1>1, <1>2, <1>3 DEF BootInv, FaultStays

LEMMA UnbalancedLoses ==
  ASSUME BootInv, Unbalanced
  PROVE  BootInv'
<1>1. frames # <<>> /\ Top.kind \in {"isr", "int"} /\ CodesPushed(Top) # 1
  BY DEF Unbalanced, Unhooked, isr, Running
<1>2. /\ pc' = "lost" /\ iflag' = FALSE /\ frames' = <<>>
      /\ UNCHANGED <<segments, remapped, gates, fault>>
  BY DEF Unbalanced
<1>3. frames \in Seq(Frame) /\ Len(frames) \in Nat \ {0} /\ DOMAIN frames = 1..Len(frames)
  BY <1>1, EmptySeq, LenProperties DEF BootInv, Flags
<1>4. fault \in {NoFault} \union (ProcessorPushesCode \ StubExpectsCode)
  <2>1. CASE Top.kind = "int"
    BY <1>1, <2>1, NothingUnderSoftware
  <2>2. CASE Top.kind = "isr"
    <3>1. Top.vector = fault
      BY <1>3, <2>2 DEF Top, BootInv, Entered
    <3>2. Top.vector \in ProcessorPushesCode /\ Top.vector \notin StubExpectsCode
      <4>1. CASE Top.vector \in StubExpectsCode
        <5>1. Top.vector \in ProcessorPushesCode
          BY <4>1 DEF StubExpectsCode, ProcessorPushesCode
        <5> QED BY <1>1, <2>2, <4>1, <5>1 DEF CodesPushed
      <4>2. CASE Top.vector \notin StubExpectsCode
        BY <1>1, <2>2, <4>2 DEF CodesPushed
      <4> QED BY <4>1, <4>2
    <3> QED BY <3>1, <3>2
  <2> QED BY <1>1, <2>1, <2>2
<1>5. Ready
  BY <1>1 DEF BootInv, ReadyBeforeInterrupts
<1>6. frames' \in Seq(Frame) /\ DOMAIN frames' = {}
  BY <1>2
<1> QED
  BY <1>2, <1>4, <1>5, <1>6
  DEF BootInv, Flags, LoadedInOrder, ReadyBeforeInterrupts, Ready, Entered, FaultStays, Lost, Gone

LEMMA PanicKeeps ==
  ASSUME BootInv, Panic
  PROVE  BootInv'
<1>1. UNCHANGED <<pc, frames, segments, remapped, gates, fault>> /\ iflag' = FALSE
  BY DEF Panic, Halt
<1> QED
  BY <1>1 DEF BootInv, Flags, LoadedInOrder, ReadyBeforeInterrupts, Ready, Entered, FaultStays,
              Lost, Gone

LEMMA ExceptionSteps ==
  ASSUME BootInv, IsrStep
  PROVE  BootInv'
<1>1. frames # <<>> /\ frames \in Seq(Frame) /\ Top \in Frame
  <2>1. frames # <<>> /\ frames \in Seq(Frame)
    BY DEF IsrStep, Unhandled, Unbalanced, Retry, PageFaultReports, PageFaultPanics, FatalPanics,
           Unhooked, isr, Running, BootInv, Flags
  <2> QED BY <2>1, EmptySeq, LenProperties, ElementOfSeq DEF Top
<1>2. CASE Unhandled
  <2>1. UNCHANGED <<pc, segments, remapped, gates, fault>>
    BY <1>2 DEF Unhandled
  <2>2. CASE Top.kind = "int"
    <3>1. Iret /\ Top.kind # "isr"
      BY <1>2, <2>2 DEF Unhandled
    <3> QED BY <1>1, <2>1, <3>1, FrameLeft
  <2>3. CASE Top.kind # "int"
    <3>1. GoTo(2) /\ iflag' = Top.saved /\ Top.saved \in BOOLEAN
      BY <1>1, <1>2, <2>3 DEF Unhandled, Frame
    <3>2. 2 \in 1..3
      OBVIOUS
    <3> QED BY <1>1, <2>1, <3>1, <3>2, MovedOn
  <2> QED BY <2>2, <2>3
<1>3. CASE Unbalanced
  BY <1>3, UnbalancedLoses
<1>4. CASE Retry
  <2>1. GoTo(1) /\ iflag' \in BOOLEAN /\ UNCHANGED <<pc, segments, remapped, gates, fault>>
    BY <1>4 DEF Retry
  <2>2. 1 \in 1..3
    OBVIOUS
  <2> QED BY <1>1, <2>1, <2>2, MovedOn
<1>5. CASE PageFaultReports
  <2>1. GoTo(3) /\ iflag' \in BOOLEAN /\ UNCHANGED <<pc, segments, remapped, gates, fault>>
    BY <1>5 DEF PageFaultReports
  <2>2. 3 \in 1..3
    OBVIOUS
  <2> QED BY <1>1, <2>1, <2>2, MovedOn
<1>6. CASE PageFaultPanics \/ FatalPanics
  BY <1>6, PanicKeeps DEF PageFaultPanics, FatalPanics
<1> QED BY <1>2, <1>3, <1>4, <1>5, <1>6 DEF IsrStep

LEMMA BootInvStep == BootInv /\ [Next]_vars => BootInv'
<1> SUFFICES ASSUME BootInv, [Next]_vars PROVE BootInv'
  OBVIOUS
<1>1. CASE BootStep
  BY <1>1, ThreadSteps
<1>2. CASE IrqStep
  BY <1>2, LineSteps
<1>3. CASE IsrStep
  BY <1>3, ExceptionSteps
<1>4. ASSUME NEW line \in Lines, TakeIrq(line) PROVE BootInv'
  BY <1>4, LineServed
<1>5. ASSUME NEW vector \in Exceptions, Fault(vector) PROVE BootInv'
  BY <1>5, ExceptionServed
<1>6. ASSUME NEW vector \in SoftVectors, GenInterrupt(vector) PROVE BootInv'
  BY <1>6, SoftwareServed
<1>7. CASE \/ UNCHANGED vars
           \/ TickArrives
           \/ \E code \in {"enter", "other"} : KeyArrives(code)
           \/ \E line \in Lines \ {0, 1} : OtherArrives(line)
  <2>1. UNCHANGED <<pc, iflag, frames, segments, remapped, gates, fault>>
    BY <1>7 DEF vars, machine, TickArrives, KeyArrives, OtherArrives, Raise
  <2> QED
    BY <2>1 DEF BootInv, Flags, LoadedInOrder, ReadyBeforeInterrupts, Ready, Entered,
                FaultStays, Lost, Gone
<1> QED BY <1>1, <1>2, <1>3, <1>4, <1>5, <1>6, <1>7 DEF Next

(* What the boot keeps: an interrupt is served only with segments,          *)
(* controllers and gates in place, and an exception's frame stays where it *)
(* is (descriptor_tables.c:28-45, 74-143, interrupt.s:19-69).              *)
THEOREM BootInvariant == Spec => []BootInv
  BY BootInit, BootInvStep, PTL DEF Spec

(* No line enters an exception's vector or a vector without a gate, and the *)
(* stubs return from every exception that can strike a processor without   *)
(* the extensions behind vectors 21 and 29, which nothing here turns on:   *)
(* the tables of the stub and of the processor differ on these two alone   *)
(* (interrupt.s:19-69, descriptor_tables.c:74-143).                        *)
THEOREM CleanEntry ==
  ASSUME Exceptions \intersect (ProcessorPushesCode \ StubExpectsCode) = {}
  PROVE  Spec => []CleanEntryAndReturn
<1>1. BootInv => CleanEntryAndReturn
  <2> SUFFICES ASSUME BootInv PROVE CleanEntryAndReturn
    OBVIOUS
  <2>1. ASSUME NEW k \in DOMAIN frames
        PROVE  /\ segments
               /\ frames[k].kind = "irq" => frames[k].vector \in gates /\ frames[k].vector >= 32
    <3>1. frames \in Seq(Frame) /\ frames # <<>> /\ frames[k] \in Frame
      <4>1. frames \in Seq(Frame)
        BY DEF BootInv, Flags
      <4>2. DOMAIN frames = 1..Len(frames)
        BY <4>1, LenProperties
      <4>3. frames[k] \in Frame
        BY <4>1, <4>2, ElementOfSeq
      <4>4. frames # <<>>
        BY <2>1, <4>2, EmptySeq
      <4> QED BY <4>1, <4>3, <4>4
    <3>2. Ready /\ frames[k].vector \in 0..47
      BY <3>1 DEF BootInv, ReadyBeforeInterrupts, Frame
    <3> QED BY <3>2 DEF Ready, BootInv, Entered
  <2>2. pc = "lost" => fault = NoFault
    BY DEF BootInv, Flags, Lost
  <2> QED BY <2>1, <2>2 DEF CleanEntryAndReturn
<1> QED BY <1>1, BootInvariant, PTL
=============================================================================
