---------------------------- MODULE TimersProofs ----------------------------
(***************************************************************************)
(* What holds of kernel/timer.c for any listeners, durations and capacity, *)
(* and for any interleaving of the tick with register_timer and delay.     *)
(***************************************************************************)
EXTENDS Timers, SequenceTheorems, TLAPS

FrameType == [pc : {"test", "mark", "call"}, i : 0..Capacity]
SlotType == [timer : 0..MaxTicks, listener : Listeners \union {Null}, status : {0, 1}]

-----------------------------------------------------------------------------
(* The stack of running handlers: what entering one, moving the innermost   *)
(* one on and leaving it do to the sequence of frames.                      *)
LEMMA FrameSet ==
  ASSUME NEW S, NEW fs \in Seq(S), fs # <<>>, NEW x \in S
  PROVE  LET gs == [fs EXCEPT ![Len(fs)] = x]
         IN /\ gs \in Seq(S) /\ Len(gs) = Len(fs)
            /\ gs[Len(fs)] = x
            /\ \A k \in 1..Len(fs) : k # Len(fs) => gs[k] = fs[k]
<1>1. Len(fs) \in 1..Len(fs)
  OBVIOUS
<1> QED BY <1>1, ExceptSeq

LEMMA FrameAlone ==
  ASSUME NEW S, NEW fs \in Seq(S), fs # <<>>, Len(fs) <= 1
  PROVE  Len(fs) = 1 /\ fs[1] \in S
<1> DEFINE n == Len(fs)
<1>1. n \in Nat /\ n > 0 /\ \A k \in 1..n : fs[k] \in S
  OBVIOUS
<1>2. n <= 1
  OBVIOUS
<1> HIDE DEF n
<1>3. n = 1
  BY <1>1, <1>2
<1> QED BY <1>1, <1>3 DEF n

LEMMA FramePush ==
  ASSUME NEW S, NEW fs \in Seq(S), NEW x \in S
  PROVE  LET gs == Append(fs, x)
         IN /\ gs \in Seq(S) /\ Len(gs) = Len(fs) + 1
            /\ gs[Len(fs) + 1] = x
            /\ \A k \in 1..Len(fs) : gs[k] = fs[k]
  OBVIOUS

LEMMA FramePop ==
  ASSUME NEW S, NEW fs \in Seq(S), fs # <<>>
  PROVE  LET gs == SubSeq(fs, 1, Len(fs) - 1)
         IN /\ gs \in Seq(S) /\ Len(gs) = Len(fs) - 1
            /\ \A k \in 1..(Len(fs) - 1) : gs[k] = fs[k]
<1>1. Len(fs) \in Nat /\ Len(fs) > 0 /\ \A k \in 1..Len(fs) : fs[k] \in S
  OBVIOUS
<1> DEFINE n == Len(fs) - 1
<1>2. n \in Nat /\ \A k \in 1..n : fs[k] \in S
  BY <1>1
<1> HIDE DEF n
<1>3. /\ SubSeq(fs, 1, n) \in Seq(S)
      /\ Len(SubSeq(fs, 1, n)) = IF 1 <= n THEN n - 1 + 1 ELSE 0
      /\ \A k \in 1..(n - 1 + 1) : SubSeq(fs, 1, n)[k] = fs[1 + k - 1]
  BY <1>2, SubSeqProperties
<1>4. /\ Len(SubSeq(fs, 1, n)) = n
      /\ \A k \in 1..n : SubSeq(fs, 1, n)[k] = fs[k]
  BY <1>2, <1>3
<1> QED BY <1>3, <1>4 DEF n

-----------------------------------------------------------------------------
(***************************************************************************)
(* The slots.  The slot being filled is the one behind the last counted    *)
(* one, and it is complete when it is counted: that the count comes last   *)
(* in register_timer (timer.c:16-19) is what the handler relies on.        *)
(***************************************************************************)
Filling == main.pc \in {"timer", "listener", "status", "count"}
FillOK ==
  /\ Filling => /\ total < Capacity /\ main.listener \in Listeners
                /\ main.target = due[main.listener]
  /\ main.pc \in {"listener", "status", "count"} => slots[total].timer = main.target
  /\ main.pc \in {"status", "count"} => slots[total].listener = main.listener
CountedOK ==
  \A s \in Slots : s < total =>
    /\ slots[s].listener \in Listeners
    /\ slots[s].timer = due[slots[s].listener]
FramesOK ==
  \A f \in 1..Len(frames) : frames[f].pc # "test" =>
    frames[f].i < total /\ slots[frames[f].i].timer <= ticks
CalledOK ==
  \A l \in Listeners : calls[l] > 0 =>
    /\ due[l] <= calledAt[l]
    /\ \E s \in Slots : s < total /\ slots[s].listener = l
TimerInv == TypeOK /\ FillOK /\ CountedOK /\ FramesOK /\ CalledOK

(* No timer is registered at first.                                         *)
LEMMA TimerInit == Init => TimerInv
  BY TimerParameters
     DEF Init, TimerInv, TypeOK, FillOK, CountedOK, FramesOK, CalledOK, Filling, Idle, Slots

(* The thread's side: register_timer and delay (timer.c:8-20, 35-41).       *)
LEMMA ThreadStep ==
  ASSUME TimerInv,
         \/ \E d \in Durations : DelayStart(d) \/ \E l \in Listeners : RegisterStart(l, d)
         \/ MainStep
  PROVE  TimerInv'
<1> USE TimerParameters
<1>1. /\ ticks \in 0..MaxTicks /\ total \in 0..Capacity /\ slots \in [Slots -> SlotType]
      /\ frames = <<>> /\ calls \in [Listeners -> Nat]
      /\ calledAt \in [Listeners -> 0..MaxTicks] /\ due \in [Listeners -> 0..MaxTicks]
      /\ main \in [pc : {"idle", "timer", "listener", "status", "count", "delay"},
                   target : 0..MaxTicks, listener : Listeners \union {Null}]
      /\ seen \in 0..Capacity /\ flag \in BOOLEAN
  BY DEF TimerInv, TypeOK, SlotType, MainStep, DelayStart, RegisterStart, SetTimer,
         SetListener, SetStatus, Fill, Count, DelayEnd, Thread
<1>2. ASSUME NEW d \in Durations, DelayStart(d) PROVE TimerInv'
  BY <1>1, <1>2 DEF TimerInv, TypeOK, FillOK, CountedOK, FramesOK, CalledOK, Filling,
                    DelayStart, history, Slots
<1>3. ASSUME NEW d \in Durations, NEW l \in Listeners, RegisterStart(l, d)
      PROVE  TimerInv'
  <2>1. /\ ticks + d \in 0..MaxTicks /\ total < Capacity
        /\ \A s \in Slots : slots[s].listener # l
        /\ main' = [pc |-> "timer", target |-> ticks + d, listener |-> l]
        /\ due' = [due EXCEPT ![l] = ticks + d]
        /\ UNCHANGED <<ticks, total, slots, frames, flag, calls, calledAt, seen>>
    BY <1>1, <1>3 DEF RegisterStart
  <2>2. TypeOK'
    BY <1>1, <2>1 DEF TypeOK, SlotType
  <2>3. FillOK'
    BY <1>1, <2>1 DEF FillOK, Filling
  <2>4. CountedOK' /\ FramesOK'
    BY <1>1, <2>1 DEF CountedOK, FramesOK, TimerInv
  <2>5. CalledOK'
    BY <1>1, <2>1 DEF CalledOK, TimerInv
  <2> QED BY <2>2, <2>3, <2>4, <2>5 DEF TimerInv
<1>4. ASSUME NEW from, NEW to, NEW slot, Fill(from, to, slot), slot \in SlotType,
             main.pc = from, from \in {"timer", "listener", "status"},
             to \in {"listener", "status", "count"},
             to = "listener" => from = "timer",
             slot.timer = main.target,
             to \in {"status", "count"} => slot.listener = main.listener
      PROVE  TimerInv'
  <2>1. /\ total \in Slots /\ slots' = [slots EXCEPT ![total] = slot]
        /\ main' = [main EXCEPT !.pc = to]
        /\ UNCHANGED <<ticks, total, frames, flag, calls, calledAt, due, seen>>
    BY <1>1, <1>4 DEF Fill, history, TimerInv, FillOK, Filling, Slots
  <2>2. TypeOK'
    <3>1. slots' \in [Slots -> SlotType]
      BY <1>1, <1>4, <2>1
    <3>2. main' \in [pc : {"idle", "timer", "listener", "status", "count", "delay"},
                     target : 0..MaxTicks, listener : Listeners \union {Null}]
      BY <1>1, <1>4, <2>1
    <3>3. /\ ticks' \in 0..MaxTicks /\ total' \in 0..Capacity /\ frames' = <<>>
          /\ calls' \in [Listeners -> Nat] /\ calledAt' \in [Listeners -> 0..MaxTicks]
          /\ due' \in [Listeners -> 0..MaxTicks] /\ seen' \in 0..Capacity /\ flag' \in BOOLEAN
      BY <1>1, <2>1
    <3>4. frames' \in Seq([pc : {"test", "mark", "call"}, i : 0..Capacity])
      BY <3>3
    <3> QED BY <3>1, <3>2, <3>3, <3>4 DEF TypeOK, SlotType
  <2>3. FillOK'
    BY <1>1, <1>4, <2>1 DEF FillOK, Filling, TimerInv
  <2>4. CountedOK' /\ FramesOK' /\ CalledOK'
    BY <1>1, <2>1 DEF CountedOK, FramesOK, CalledOK, TimerInv
  <2> QED BY <2>2, <2>3, <2>4 DEF TimerInv
<1>5. CASE SetTimer
  <2> DEFINE slot == [slots[total] EXCEPT !.timer = main.target]
  <2>1. main.pc = "timer" /\ Fill("timer", "listener", slot)
    BY <1>5 DEF SetTimer, Fill, Thread
  <2>2. total \in Slots /\ slots[total] \in SlotType
    BY <1>1, <2>1 DEF TimerInv, FillOK, Filling, Slots
  <2>3. slot \in SlotType /\ slot.timer = main.target
    BY <1>1, <2>1, <2>2 DEF SlotType, TimerInv, FillOK
  <2>4. "listener" # "listener" => slot.listener = main.listener
    BY <1>1, <2>1, <2>2 DEF SlotType, TimerInv, FillOK
  <2> HIDE DEF slot
  <2> QED BY <1>4, <2>1, <2>3, <2>4
<1>6. CASE SetListener
  <2> DEFINE slot == [slots[total] EXCEPT !.listener = main.listener]
  <2>1. main.pc = "listener" /\ Fill("listener", "status", slot)
    BY <1>6 DEF SetListener, Fill, Thread
  <2>2. total \in Slots /\ slots[total] \in SlotType
    BY <1>1, <2>1 DEF TimerInv, FillOK, Filling, Slots
  <2>3. slot \in SlotType /\ slot.timer = main.target
    BY <1>1, <2>1, <2>2 DEF SlotType, TimerInv, FillOK
  <2>4. "status" # "listener" => slot.listener = main.listener
    BY <1>1, <2>1, <2>2 DEF SlotType, TimerInv, FillOK
  <2> HIDE DEF slot
  <2> QED BY <1>4, <2>1, <2>3, <2>4
<1>7. CASE SetStatus
  <2> DEFINE slot == [slots[total] EXCEPT !.status = 0]
  <2>1. main.pc = "status" /\ Fill("status", "count", slot)
    BY <1>7 DEF SetStatus, Fill, Thread
  <2>2. total \in Slots /\ slots[total] \in SlotType
    BY <1>1, <2>1 DEF TimerInv, FillOK, Filling, Slots
  <2>3. slot \in SlotType /\ slot.timer = main.target
    BY <1>1, <2>1, <2>2 DEF SlotType, TimerInv, FillOK
  <2>4. "count" # "listener" => slot.listener = main.listener
    BY <1>1, <2>1, <2>2 DEF SlotType, TimerInv, FillOK
  <2> HIDE DEF slot
  <2> QED BY <1>4, <2>1, <2>3, <2>4
<1>8. CASE Count
  BY <1>1, <1>8 DEF Count, Thread, TimerInv, TypeOK, FillOK, CountedOK, FramesOK, CalledOK,
                    Filling, history, Slots, Idle, SlotType
<1>9. CASE DelayEnd
  BY <1>1, <1>9 DEF DelayEnd, Thread, TimerInv, TypeOK, FillOK, CountedOK, FramesOK, CalledOK,
                    Filling, history, Idle
<1> QED BY <1>2, <1>3, <1>5, <1>6, <1>7, <1>8, <1>9 DEF MainStep

-----------------------------------------------------------------------------
(* Moving the innermost handler on: what Goto keeps.                        *)
LEMMA GotoStep ==
  ASSUME TimerInv, NEW pc \in {"test", "mark", "call"}, NEW j \in 0..Capacity,
         frames # <<>>, Goto(pc, j), total' = total, ticks' = ticks,
         \A s \in Slots : slots'[s].timer = slots[s].timer,
         pc # "test" => j < total /\ slots[j].timer <= ticks
  PROVE  frames' \in Seq(FrameType) /\ FramesOK'
<1> DEFINE x == [pc |-> pc, i |-> j]
<1>1. frames \in Seq(FrameType) /\ x \in FrameType /\ total \in 0..Capacity
  BY DEF TimerInv, TypeOK, FrameType
<1>2. frames' = [frames EXCEPT ![Len(frames)] = x]
  BY DEF Goto, Top
<1>3. x.pc = pc /\ x.i = j
  OBVIOUS
<1> HIDE DEF x
<1>4. /\ frames' \in Seq(FrameType) /\ Len(frames') = Len(frames)
      /\ frames'[Len(frames)] = x
      /\ \A k \in 1..Len(frames) : k # Len(frames) => frames'[k] = frames[k]
  BY <1>1, <1>2, FrameSet
<1>5. ASSUME NEW k \in 1..Len(frames'), frames'[k].pc # "test"
      PROVE  frames'[k].i < total' /\ slots'[frames'[k].i].timer <= ticks'
  <2>1. CASE k = Len(frames)
    <3>1. frames'[k].i = j /\ frames'[k].pc = pc
      BY <1>3, <1>4, <2>1
    <3>2. j \in Slots
      BY <1>1, <1>5, <3>1, TimerParameters DEF Slots
    <3> QED BY <1>5, <3>1, <3>2
  <2>2. CASE k # Len(frames)
    <3>1. frames'[k] = frames[k] /\ frames[k] \in FrameType /\ k \in 1..Len(frames)
      BY <1>1, <1>4, <2>2
    <3>2. frames[k].i < total /\ slots[frames[k].i].timer <= ticks
      BY <1>5, <3>1 DEF TimerInv, FramesOK
    <3>3. frames[k].i \in Slots
      BY <1>1, <3>1, <3>2, TimerParameters DEF Slots, FrameType
    <3> QED BY <3>1, <3>2, <3>3
  <2> QED BY <2>1, <2>2
<1> QED BY <1>4, <1>5 DEF FramesOK

(* The interrupt's side: the tick and checkTimers (pit.c:8-13, timer.c:22-33). *)
LEMMA HandlerSide ==
  ASSUME TimerInv, Tick \/ HandlerStep
  PROVE  TimerInv'
<1> USE TimerParameters
<1>1. /\ ticks \in 0..MaxTicks /\ total \in 0..Capacity /\ slots \in [Slots -> SlotType]
      /\ frames \in Seq(FrameType) /\ calls \in [Listeners -> Nat]
      /\ calledAt \in [Listeners -> 0..MaxTicks] /\ due \in [Listeners -> 0..MaxTicks]
      /\ main \in [pc : {"idle", "timer", "listener", "status", "count", "delay"},
                   target : 0..MaxTicks, listener : Listeners \union {Null}]
      /\ seen \in 0..Capacity /\ flag \in BOOLEAN
      /\ FillOK /\ CountedOK /\ FramesOK /\ CalledOK
  BY DEF TimerInv, TypeOK, SlotType, FrameType
<1>2. CASE Tick
  <2>1. /\ ticks' \in 0..MaxTicks /\ ticks <= ticks' /\ flag' \in BOOLEAN
        /\ frames' = Append(frames, [pc |-> "test", i |-> 0])
        /\ UNCHANGED <<total, slots, main, calls, calledAt, due, seen>>
    <3>1. /\ ticks' = IF ticks < MaxTicks THEN ticks + 1 ELSE ticks
          /\ flag' = FALSE
          /\ frames' = Append(frames, [pc |-> "test", i |-> 0])
          /\ UNCHANGED <<total, slots, main, calls, calledAt, due, seen>>
      BY <1>2 DEF Tick, history
    <3>2. ticks \in 0..MaxTicks /\ ticks' = IF ticks < MaxTicks THEN ticks + 1 ELSE ticks
      BY <1>1, <3>1
    <3>3. ticks' \in 0..MaxTicks /\ ticks <= ticks'
      BY <3>2
    <3> QED BY <3>1, <3>3
  <2>2. [pc |-> "test", i |-> 0] \in FrameType
    BY DEF FrameType
  <2>3. /\ frames' \in Seq(FrameType) /\ Len(frames') = Len(frames) + 1
        /\ frames'[Len(frames) + 1].pc = "test"
        /\ \A k \in 1..Len(frames) : frames'[k] = frames[k] /\ frames[k] \in FrameType
    BY <1>1, <2>1, <2>2, FramePush
  <2>4. FramesOK'
    <3> SUFFICES ASSUME NEW k \in 1..Len(frames'), frames'[k].pc # "test"
                 PROVE  frames'[k].i < total' /\ slots'[frames'[k].i].timer <= ticks'
      BY DEF FramesOK
    <3>1. k \in 1..Len(frames)
      BY <1>1, <2>3
    <3>2. frames[k].i < total /\ slots[frames[k].i].timer <= ticks /\ frames[k].i \in 0..Capacity
      BY <1>1, <2>3, <3>1 DEF FramesOK, FrameType
    <3>3. slots[frames[k].i].timer \in 0..MaxTicks
      BY <1>1, <3>2 DEF Slots, SlotType
    <3> QED BY <1>1, <2>1, <2>3, <3>1, <3>2, <3>3
  <2>5. TypeOK'
    BY <1>1, <2>1, <2>3 DEF TypeOK, SlotType, FrameType
  <2> QED BY <1>1, <2>1, <2>4, <2>5 DEF TimerInv, FillOK, CountedOK, CalledOK, Filling
<1>3. ASSUME frames # <<>>
      PROVE  /\ Running = frames[Len(frames)] /\ Running \in FrameType
             /\ Running.i \in 0..Capacity
             /\ Running.pc # "test" => /\ Running.i < total /\ Running.i \in Slots
                                       /\ slots[Running.i].timer <= ticks
  <2>1. Len(frames) \in 1..Len(frames) /\ Running = frames[Len(frames)]
    BY <1>1, <1>3 DEF Running, Top
  <2>2. Running \in FrameType
    BY <1>1, <2>1
  <2>3. Running.i \in 0..Capacity
    BY <2>2 DEF FrameType
  <2>4. Running.pc # "test" => Running.i < total /\ slots[Running.i].timer <= ticks
    BY <1>1, <2>1 DEF FramesOK
  <2> QED BY <1>1, <2>1, <2>2, <2>3, <2>4 DEF Slots
<1>4. CASE Test
  <2>1. /\ frames # <<>> /\ Running.i < total
        /\ UNCHANGED <<ticks, total, slots, main, flag, calls, calledAt, due, seen>>
        /\ \/ IsDue(Running.i) /\ Goto("mark", Running.i)
           \/ Goto("test", Running.i + 1)
    BY <1>4 DEF Test, Handler, history
  <2>2. Running.i \in 0..Capacity /\ Running.i + 1 \in 0..Capacity
    BY <1>1, <1>3, <2>1
  <2>3. frames' \in Seq(FrameType) /\ FramesOK'
    BY <2>1, <2>2, GotoStep DEF IsDue
  <2>4. TypeOK'
    BY <1>1, <2>1, <2>3 DEF TypeOK, SlotType, FrameType
  <2> QED BY <1>1, <2>1, <2>3, <2>4 DEF TimerInv, FillOK, CountedOK, CalledOK, Filling
<1>5. CASE Mark
  <2>1. /\ frames # <<>> /\ Running.pc = "mark" /\ Goto("call", Running.i)
        /\ slots' = [slots EXCEPT ![Running.i] = [@ EXCEPT !.status = 1]]
        /\ UNCHANGED <<ticks, total, main, flag, calls, calledAt, due, seen>>
    BY <1>5 DEF Mark, Handler, history
  <2>2. /\ Running.i < total /\ Running.i \in Slots /\ Running.i \in 0..Capacity
        /\ slots[Running.i].timer <= ticks
    BY <1>3, <2>1
  <2>3. /\ slots' \in [Slots -> SlotType]
        /\ \A s \in Slots : /\ slots'[s].timer = slots[s].timer
                            /\ slots'[s].listener = slots[s].listener
    <3>. slots[Running.i] \in SlotType
      BY <1>1, <2>2
    <3>1. [slots[Running.i] EXCEPT !.status = 1] \in SlotType
      BY DEF SlotType
    <3>2. /\ [slots[Running.i] EXCEPT !.status = 1].timer = slots[Running.i].timer
          /\ [slots[Running.i] EXCEPT !.status = 1].listener = slots[Running.i].listener
      BY DEF SlotType
    <3> DEFINE e == [slots[Running.i] EXCEPT !.status = 1]
    <3>3. slots' = [slots EXCEPT ![Running.i] = e]
      BY <2>1
    <3>4. /\ e \in SlotType /\ e.timer = slots[Running.i].timer
          /\ e.listener = slots[Running.i].listener
      BY <3>1, <3>2
    <3> HIDE DEF e
    <3> QED BY <1>1, <2>2, <3>3, <3>4
  <2>4. frames' \in Seq(FrameType) /\ FramesOK'
    BY <2>1, <2>2, <2>3, GotoStep
  <2>5. TypeOK'
    BY <1>1, <2>1, <2>3, <2>4 DEF TypeOK, SlotType, FrameType
  <2>6. total < Capacity => total \in Slots
    BY <1>1 DEF Slots
  <2>7. FillOK' /\ CountedOK' /\ CalledOK'
    BY <1>1, <2>1, <2>3, <2>6 DEF FillOK, CountedOK, CalledOK, Filling
  <2> QED BY <2>4, <2>5, <2>7 DEF TimerInv
<1>6. CASE Call
  <2> DEFINE l == slots[Running.i].listener
  <2>1. /\ frames # <<>> /\ Running.pc = "call" /\ Goto("test", Running.i + 1)
        /\ calls' = [calls EXCEPT ![l] = @ + 1]
        /\ calledAt' = [calledAt EXCEPT ![l] = ticks]
        /\ flag' \in BOOLEAN
        /\ UNCHANGED <<ticks, total, slots, main, due, seen>>
    BY <1>1, <1>6 DEF Call, Handler
  <2>2. /\ Running.i < total /\ Running.i \in Slots /\ Running.i \in 0..Capacity
        /\ Running.i + 1 \in 0..Capacity /\ slots[Running.i].timer <= ticks
    <3>1. frames # <<>> /\ Running.pc # "test"
      BY <2>1
    <3>2. /\ Running.i \in 0..Capacity /\ Running.i < total /\ Running.i \in Slots
          /\ slots[Running.i].timer <= ticks
      BY <1>3, <3>1
    <3>3. total \in 0..Capacity
      BY <1>1
    <3>4. Running.i + 1 \in 0..Capacity
      BY <3>2, <3>3, TimerParameters
    <3> QED BY <3>2, <3>4
  <2>3. l \in Listeners /\ due[l] <= ticks
    BY <1>1, <2>2 DEF CountedOK
  <2>4. frames' \in Seq(FrameType) /\ FramesOK'
    BY <2>1, <2>2, GotoStep
  <2> HIDE DEF l
  <2>5. TypeOK'
    <3>1. calls \in [Listeners -> Nat] /\ calledAt \in [Listeners -> 0..MaxTicks] /\ ticks \in 0..MaxTicks
      BY <1>1 DEF TypeOK
    <3>2. calls' \in [Listeners -> Nat] /\ calledAt' \in [Listeners -> 0..MaxTicks]
      BY <2>1, <2>3, <3>1
    <3>3. frames' \in Seq([pc : {"test", "mark", "call"}, i : 0..Capacity])
      BY <2>4 DEF FrameType
    <3>4. /\ ticks' \in 0..MaxTicks /\ total' \in 0..Capacity
          /\ slots' \in [Slots -> [timer : 0..MaxTicks, listener : Listeners \union {Null},
                                   status : {0, 1}]]
          /\ main' \in [pc : {"idle", "timer", "listener", "status", "count", "delay"},
                        target : 0..MaxTicks, listener : Listeners \union {Null}]
          /\ due' \in [Listeners -> 0..MaxTicks] /\ seen' \in 0..Capacity
      <4>1. /\ ticks' = ticks /\ total' = total /\ slots' = slots /\ main' = main
            /\ due' = due /\ seen' = seen
        BY <2>1
      <4>2. TypeOK
        BY DEF TimerInv
      <4> QED BY <4>1, <4>2 DEF TypeOK
    <3>5. flag' \in BOOLEAN
      BY <2>1
    <3> QED BY <3>2, <3>3, <3>4, <3>5 DEF TypeOK
  <2>6. CalledOK'
    BY <1>1, <2>1, <2>2, <2>3 DEF CalledOK, l
  <2> QED BY <1>1, <2>1, <2>4, <2>5, <2>6 DEF TimerInv, FillOK, CountedOK, Filling
<1>7. CASE Return
  <2>1. /\ frames # <<>> /\ frames' = SubSeq(frames, 1, Len(frames) - 1)
        /\ flag' = TRUE /\ seen' = total
        /\ UNCHANGED <<ticks, total, slots, main, calls, calledAt, due>>
    BY <1>7 DEF Return, Handler, Top
  <2>2. /\ frames' \in Seq(FrameType) /\ Len(frames') = Len(frames) - 1
        /\ \A k \in 1..(Len(frames) - 1) : frames'[k] = frames[k]
    BY <1>1, <2>1, FramePop
  <2>3. FramesOK'
    BY <1>1, <2>1, <2>2 DEF FramesOK
  <2>4. TypeOK'
    BY <1>1, <2>1, <2>2 DEF TypeOK, SlotType, FrameType
  <2> QED BY <1>1, <2>1, <2>3, <2>4 DEF TimerInv, FillOK, CountedOK, CalledOK, Filling
<1> QED BY <1>2, <1>4, <1>5, <1>6, <1>7 DEF HandlerStep

(* Every step of thread and interrupt keeps the invariant.                  *)
LEMMA TimerStep == TimerInv /\ [Next]_vars => TimerInv'
<1> SUFFICES ASSUME TimerInv, [Next]_vars PROVE TimerInv'
  OBVIOUS
<1>1. CASE UNCHANGED vars
  BY <1>1 DEF vars, TimerInv, TypeOK, FillOK, CountedOK, FramesOK, CalledOK, Filling
<1> QED BY <1>1, ThreadStep, HandlerSide DEF Next

(* The slots, the counters and the handlers' positions stay in range        *)
(* whatever the interleaving (timer.c, pit.c:8-13).                         *)
THEOREM TypeCorrect == Spec => []TypeOK
<1>1. TimerInv => TypeOK
  BY DEF TimerInv
<1> QED BY <1>1, TimerInit, TimerStep, PTL DEF Spec

(* No listener is called before its time, for any durations and any         *)
(* interleaving of the tick with register_timer, nested ticks included.     *)
THEOREM NeverEarlyHolds == Spec => []NeverEarly
<1>1. TimerInv => NeverEarly
  BY DEF TimerInv, CalledOK, NeverEarly
<1> QED BY <1>1, TimerInit, TimerStep, PTL DEF Spec

(* checkTimers never calls through a slot that register_timer has not       *)
(* finished, because the slot is counted last (timer.c:16-19, 27-30).       *)
THEOREM ListenerWrittenHolds == Spec => []ListenerWritten
<1>1. TimerInv => ListenerWritten
  <2> SUFFICES ASSUME TimerInv, NEW f \in 1..Len(frames), frames[f].pc # "test"
               PROVE  slots[frames[f].i].listener # Null
    BY DEF ListenerWritten
  <2>1. frames[f] \in FrameType
    <3>1. frames \in Seq(FrameType)
      BY DEF TimerInv, TypeOK, FrameType
    <3> QED BY <3>1
  <2>2. frames[f].i < total /\ total \in 0..Capacity
    BY DEF TimerInv, FramesOK, TypeOK
  <2>3. frames[f].i \in Slots
    BY <2>1, <2>2, TimerParameters DEF Slots, FrameType
  <2> QED BY <2>2, <2>3, TimerParameters DEF TimerInv, CountedOK
<1> QED BY <1>1, TimerInit, TimerStep, PTL DEF Spec

-----------------------------------------------------------------------------
(***************************************************************************)
(* A listener runs at most once as long as none sets the interrupt flag:   *)
(* then no handler nests, a timer that is due is marked before its call    *)
(* (timer.c:28-30), and the call comes once for each marking.              *)
(***************************************************************************)
NoneEnables == Enabling = {}
Active(s) == frames # <<>> /\ Running.pc # "test" /\ Running.i = s
OneHandler == Len(frames) <= 1 /\ (flag => frames = <<>>)
OneSlotEach ==
  /\ \A s, t \in Slots : s < total /\ t < total /\ slots[s].listener = slots[t].listener => s = t
  /\ Filling => \A s \in Slots : s < total => slots[s].listener # main.listener
CallsCounted ==
  \A s \in Slots : s < total =>
    /\ calls[slots[s].listener] <= 1
    /\ slots[s].status = 0 \/ Active(s) => calls[slots[s].listener] = 0
    /\ Active(s) /\ Running.pc = "call" => slots[s].status = 1
OnceInv == OneHandler /\ OneSlotEach /\ CallsCounted

(* No handler runs at first.                                                *)
LEMMA OnceInit == Init => OnceInv
<1> SUFFICES ASSUME Init PROVE OnceInv
  OBVIOUS
<1>1. \A s \in Slots : ~(s < total)
  BY TimerParameters DEF Init, Slots
<1>2. OneHandler /\ ~Filling
  BY DEF Init, OneHandler, Filling, Idle
<1> QED BY <1>1, <1>2 DEF OnceInv, OneSlotEach, CallsCounted

(* register_timer keeps each listener in one slot and calls none.           *)
LEMMA OnceThread ==
  ASSUME TimerInv, OnceInv,
         \/ \E d \in Durations : DelayStart(d) \/ \E l \in Listeners : RegisterStart(l, d)
         \/ MainStep
  PROVE  OnceInv'
<1> USE TimerParameters
<1>1. /\ total \in 0..Capacity /\ slots \in [Slots -> SlotType] /\ frames = <<>>
      /\ calls \in [Listeners -> Nat] /\ frames' = frames /\ flag' = flag /\ calls' = calls
  BY DEF TimerInv, TypeOK, SlotType, MainStep, DelayStart, RegisterStart, SetTimer,
         SetListener, SetStatus, Fill, Count, DelayEnd, Thread, history
<1>2. OneHandler' /\ \A s : ~Active(s)'
  BY <1>1 DEF OnceInv, OneHandler, Active
<1>3. ASSUME UNCHANGED <<total, slots>>,
             Filling' => \A s \in Slots : s < total => slots[s].listener # main'.listener
      PROVE  OnceInv'
  BY <1>1, <1>2, <1>3 DEF OnceInv, OneSlotEach, CallsCounted
<1>4. ASSUME total' = total, Filling => Filling', main'.listener = main.listener, Filling,
             \A s \in Slots : s < total => slots'[s] = slots[s]
      PROVE  OnceInv'
  <2>1. OneSlotEach'
    BY <1>1, <1>4 DEF OnceInv, OneSlotEach
  <2>2. CallsCounted'
    BY <1>1, <1>2, <1>4 DEF OnceInv, CallsCounted
  <2> QED BY <1>2, <2>1, <2>2 DEF OnceInv
<1>5. ASSUME NEW d \in Durations, DelayStart(d) PROVE OnceInv'
  BY <1>3, <1>5 DEF DelayStart, Filling
<1>6. ASSUME NEW d \in Durations, NEW l \in Listeners, RegisterStart(l, d) PROVE OnceInv'
  BY <1>3, <1>6 DEF RegisterStart
<1>7. ASSUME NEW from, NEW to, NEW slot, Fill(from, to, slot),
             from \in {"timer", "listener", "status"}, to \in {"listener", "status", "count"}
      PROVE  OnceInv'
  <2>1. /\ slots' = [slots EXCEPT ![total] = slot] /\ total' = total
        /\ main' = [main EXCEPT !.pc = to] /\ main.pc = from
    BY <1>7 DEF Fill, Thread
  <2>2. main \in [pc : {"idle", "timer", "listener", "status", "count", "delay"},
                  target : 0..MaxTicks, listener : Listeners \union {Null}]
    BY DEF TimerInv, TypeOK
  <2>3. main'.pc = to /\ main'.listener = main.listener
    BY <2>1, <2>2
  <2>4. \A s \in Slots : s < total => slots'[s] = slots[s]
    BY <1>1, <2>1 DEF Slots
  <2> QED BY <1>4, <1>7, <2>1, <2>3, <2>4 DEF Filling
<1>8. CASE SetTimer \/ SetListener \/ SetStatus
  BY <1>7, <1>8 DEF SetTimer, SetListener, SetStatus
<1>9. CASE Count
  <2>1. /\ main.pc = "count" /\ total' = total + 1 /\ main'.pc = "idle" /\ slots' = slots
    BY <1>9 DEF Count, Thread, Idle
  <2>2. total \in Slots /\ slots[total].listener = main.listener /\ main.listener \in Listeners
    BY <1>1, <2>1 DEF TimerInv, FillOK, Filling, Slots
  <2>3. \A s \in Slots : s < total' => s < total \/ s = total
    BY <1>1, <2>1 DEF Slots
  <2>4. OneSlotEach'
    BY <1>1, <2>1, <2>2, <2>3 DEF OnceInv, OneSlotEach, Filling
  <2>5. calls[main.listener] = 0
    BY <1>1, <2>1, <2>2 DEF TimerInv, CalledOK, OnceInv, OneSlotEach, Filling
  <2>6. CallsCounted'
    <3>1. \A s \in Slots : s < total' =>
            /\ calls[slots[s].listener] <= 1
            /\ slots[s].status = 0 => calls[slots[s].listener] = 0
      BY <2>2, <2>3, <2>5 DEF OnceInv, CallsCounted
    <3> QED BY <1>1, <1>2, <2>1, <3>1 DEF CallsCounted
  <2> QED BY <1>2, <2>4, <2>6 DEF OnceInv
<1>10. CASE DelayEnd
  BY <1>3, <1>10 DEF DelayEnd, Filling, Idle
<1> QED BY <1>5, <1>6, <1>8, <1>9, <1>10 DEF MainStep

(* checkTimers: the only handler calls a listener it has just marked.       *)
LEMMA OnceHandler ==
  ASSUME NoneEnables, TimerInv, OnceInv, Tick \/ HandlerStep
  PROVE  OnceInv'
<1> USE TimerParameters
<1>1. /\ total \in 0..Capacity /\ slots \in [Slots -> SlotType] /\ frames \in Seq(FrameType)
      /\ calls \in [Listeners -> Nat] /\ flag \in BOOLEAN
      /\ OneHandler /\ OneSlotEach /\ CallsCounted /\ CountedOK
  BY DEF TimerInv, TypeOK, SlotType, FrameType, OnceInv
<1>2. CASE Tick
  <2>1. /\ frames = <<>> /\ frames' = Append(frames, [pc |-> "test", i |-> 0])
        /\ flag' = FALSE /\ UNCHANGED <<total, slots, main, calls>>
    BY <1>1, <1>2 DEF Tick, history, OneHandler
  <2>2. frames' = <<[pc |-> "test", i |-> 0]>>
    BY <2>1
  <2>3. Len(frames') = 1 /\ Running'.pc = "test"
    BY <2>2 DEF Running, Top
  <2>4. OneHandler' /\ \A s : ~Active(s)'
    BY <2>1, <2>3 DEF OneHandler, Active
  <2> QED BY <1>1, <2>1, <2>4 DEF OnceInv, OneSlotEach, CallsCounted, Filling
<1>3. ASSUME frames # <<>>
      PROVE  /\ Len(frames) = 1 /\ Top = 1 /\ Running = frames[1] /\ Running \in FrameType
             /\ flag = FALSE
             /\ Running.pc # "test" => Running.i < total /\ Running.i \in Slots
  <2>0. Len(frames) <= 1 /\ flag = FALSE
    BY <1>1, <1>3 DEF OneHandler
  <2>1. Len(frames) = 1 /\ flag = FALSE /\ frames[1] \in FrameType
    BY <1>1, <1>3, <2>0, FrameAlone
  <2>5. Top = 1 /\ Running = frames[1]
    BY <2>1 DEF Top, Running
  <2>2. Top = 1 /\ Running = frames[1] /\ Running \in FrameType
    BY <2>1, <2>5
  <2>3. Running.pc # "test" => Running.i < total
    BY <2>1, <2>2 DEF TimerInv, FramesOK
  <2>4. Running.i \in 0..Capacity
    BY <2>2 DEF FrameType
  <2> QED BY <1>1, <2>1, <2>2, <2>3, <2>4 DEF Slots
<1>4. ASSUME NEW pc, NEW j, frames # <<>>, Goto(pc, j)
      PROVE  frames' # <<>> /\ Len(frames') = 1 /\ Running' = [pc |-> pc, i |-> j]
  <2>1. frames' = [frames EXCEPT ![1] = [pc |-> pc, i |-> j]]
    BY <1>3, <1>4 DEF Goto
  <2> DEFINE x == [pc |-> pc, i |-> j]
  <2> HIDE DEF x
  <2>2. frames' = [frames EXCEPT ![1] = x]
    BY <2>1 DEF x
  <2>3. Len(frames') = 1 /\ frames'[1] = x
    BY <1>1, <1>3, <1>4, <2>2
  <2>4. frames' # <<>> /\ Running' = x
    BY <2>3 DEF Running, Top
  <2> QED BY <2>3, <2>4 DEF x
<1>5. CASE Test
  <2>1. /\ frames # <<>> /\ Running.i < total /\ Running.pc = "test"
        /\ UNCHANGED <<total, slots, main, flag, calls>>
        /\ \/ IsDue(Running.i) /\ Goto("mark", Running.i)
           \/ Goto("test", Running.i + 1)
    BY <1>5 DEF Test, Handler, history
  <2>2. Running.i \in Slots
    BY <1>1, <1>3, <2>1 DEF FrameType, Slots
  <2>3. /\ Len(frames') = 1 /\ Running'.pc \in {"mark", "test"}
        /\ \A s : Active(s)' => s = Running.i /\ slots[s].status = 0
    <3>1. CASE IsDue(Running.i) /\ Goto("mark", Running.i)
      <4>1. Running' = [pc |-> "mark", i |-> Running.i] /\ Len(frames') = 1
        BY <1>4, <2>1, <3>1
      <4>2. slots[Running.i].status = 0
        BY <1>1, <2>2, <3>1 DEF IsDue, SlotType
      <4> QED BY <4>1, <4>2 DEF Active
    <3>2. CASE Goto("test", Running.i + 1)
      <4>1. Running' = [pc |-> "test", i |-> Running.i + 1] /\ Len(frames') = 1
        BY <1>4, <2>1, <3>2
      <4> QED BY <4>1 DEF Active
    <3> QED BY <2>1, <3>1, <3>2
  <2>4. OneHandler' /\ OneSlotEach'
    BY <1>1, <1>3, <2>1, <2>3 DEF OneHandler, OneSlotEach, Filling
  <2>5. CallsCounted'
    BY <1>1, <2>1, <2>3 DEF CallsCounted
  <2> QED BY <2>4, <2>5 DEF OnceInv
<1>6. CASE Mark
  <2>1. /\ frames # <<>> /\ Running.pc = "mark" /\ Goto("call", Running.i)
        /\ slots' = [slots EXCEPT ![Running.i] = [@ EXCEPT !.status = 1]]
        /\ UNCHANGED <<total, main, flag, calls>>
    BY <1>6 DEF Mark, Handler, history
  <2> DEFINE r == Running.i
  <2> DEFINE e == [slots[r] EXCEPT !.status = 1]
  <2>2. r < total /\ r \in Slots /\ slots[r] \in SlotType
    BY <1>1, <1>3, <2>1
  <2>3. e.status = 1 /\ e.listener = slots[r].listener
    BY <2>2 DEF SlotType
  <2>4. slots' = [slots EXCEPT ![r] = e]
    BY <2>1
  <2>5. calls[slots[r].listener] = 0
    BY <1>1, <2>1, <2>2 DEF CallsCounted, Active
  <2>6. Len(frames') = 1 /\ frames' # <<>> /\ Running' = [pc |-> "call", i |-> r]
    BY <1>4, <2>1
  <2> HIDE DEF r, e
  <2>7. /\ slots'[r].status = 1 /\ slots'[r].listener = slots[r].listener
        /\ \A s \in Slots : s # r => slots'[s] = slots[s]
    BY <1>1, <2>2, <2>3, <2>4
  <2>8. \A s \in Slots : slots'[s].listener = slots[s].listener
    BY <2>7
  <2>9. OneHandler' /\ OneSlotEach'
    BY <1>1, <1>3, <2>1, <2>6, <2>8 DEF OneHandler, OneSlotEach, Filling
  <2>10. \A s \in Slots : Active(s)' => s = r
    BY <2>6 DEF Active
  <2>11. CallsCounted'
    BY <1>1, <2>1, <2>5, <2>7, <2>8, <2>10 DEF CallsCounted
  <2> QED BY <2>9, <2>11 DEF OnceInv
<1>7. CASE Call
  <2> DEFINE r == Running.i
  <2> DEFINE l == slots[r].listener
  <2>1. /\ frames # <<>> /\ Running.pc = "call" /\ Goto("test", r + 1)
        /\ calls' = [calls EXCEPT ![l] = @ + 1] /\ flag' = (flag \/ l \in Enabling)
        /\ UNCHANGED <<total, slots, main>>
    BY <1>7 DEF Call, Handler
  <2>2. r < total /\ r \in Slots
    BY <1>3, <2>1
  <2>3. l \in Listeners /\ calls[l] = 0 /\ slots[r].status = 1
    BY <1>1, <2>1, <2>2 DEF CallsCounted, CountedOK, Active
  <2>4. flag' = FALSE
    BY <1>3, <2>1 DEF NoneEnables
  <2>5. Len(frames') = 1 /\ Running' = [pc |-> "test", i |-> r + 1]
    BY <1>4, <2>1
  <2>6. \A s : ~Active(s)'
    BY <2>5 DEF Active
  <2>7. \A s \in Slots : s < total /\ slots[s].listener = l => s = r
    BY <1>1, <2>2 DEF OneSlotEach
  <2> HIDE DEF r, l
  <2>8. OneHandler' /\ OneSlotEach'
    BY <1>1, <2>1, <2>4, <2>5 DEF OneHandler, OneSlotEach, Filling
  <2>9. calls'[l] = 1 /\ \A m \in Listeners : m # l => calls'[m] = calls[m]
    BY <1>1, <2>1, <2>3
  <2>10. ASSUME NEW s \in Slots, s < total
         PROVE  calls'[slots[s].listener] <= 1
                /\ (slots[s].status = 0 => calls'[slots[s].listener] = 0)
    <3>1. CASE s = r
      BY <2>3, <2>9, <3>1 DEF l
    <3>2. CASE s # r
      <4>1. slots[s].listener \in Listeners /\ slots[s].listener # l
        BY <1>1, <2>7, <2>10, <3>2 DEF CountedOK
      <4> QED BY <1>1, <2>9, <2>10, <4>1 DEF CallsCounted
    <3> QED BY <3>1, <3>2
  <2>11. CallsCounted'
    BY <2>1, <2>6, <2>10 DEF CallsCounted
  <2> QED BY <2>8, <2>11 DEF OnceInv
<1>8. CASE Return
  <2>1. /\ frames # <<>> /\ frames' = SubSeq(frames, 1, Len(frames) - 1)
        /\ flag' = TRUE /\ UNCHANGED <<total, slots, main, calls>>
    BY <1>8 DEF Return, Handler, Top
  <2>2. frames' \in Seq(FrameType) /\ Len(frames') = 0
    BY <1>1, <1>3, <2>1, FramePop
  <2>3. frames' = <<>>
    BY <2>2
  <2>4. OneHandler' /\ \A s : ~Active(s)'
    BY <2>3 DEF OneHandler, Active
  <2> QED BY <1>1, <2>1, <2>4 DEF OnceInv, OneSlotEach, CallsCounted, Filling
<1> QED BY <1>2, <1>5, <1>6, <1>7, <1>8 DEF HandlerStep

(* timer.h:9, "0 = running 1 = done": however the ticks fall, a listener    *)
(* is called at most once, provided that no listener sets the interrupt     *)
(* flag while checkTimers runs it.                                          *)
THEOREM FiresOnceHolds == NoneEnables => (Spec => []FiresOnce)
<1> SUFFICES ASSUME NoneEnables PROVE Spec => []FiresOnce
  OBVIOUS
<1>1. OnceInv /\ TimerInv /\ [Next]_vars => OnceInv'
  <2> SUFFICES ASSUME OnceInv, TimerInv, [Next]_vars PROVE OnceInv'
    OBVIOUS
  <2>1. CASE UNCHANGED vars
    BY <2>1 DEF vars, OnceInv, OneHandler, OneSlotEach, CallsCounted, Filling, Active,
                Running, Top
  <2> QED BY <2>1, OnceThread, OnceHandler DEF Next
<1>2. OnceInv /\ TimerInv => FiresOnce
  <2> SUFFICES ASSUME OnceInv, TimerInv, NEW l \in Listeners PROVE calls[l] <= 1
    BY DEF FiresOnce
  <2>1. calls[l] \in Nat
    BY DEF TimerInv, TypeOK
  <2>2. CASE calls[l] > 0
    <3>1. PICK s \in Slots : s < total /\ slots[s].listener = l
      BY <2>2 DEF TimerInv, CalledOK
    <3> QED BY <3>1 DEF OnceInv, CallsCounted
  <2> QED BY <2>1, <2>2
<1> QED BY <1>1, <1>2, OnceInit, TimerInit, TimerStep, PTL DEF Spec

-----------------------------------------------------------------------------
(***************************************************************************)
(* No timer is passed over.  The handler on top has done every due timer   *)
(* before its position; one that it interrupted may have fallen behind,    *)
(* since time has gone on, but when the inner one ends everything counted  *)
(* is done, so the outer one is up to date again.                          *)
(***************************************************************************)
DoneBelow(n) == \A s \in Slots : s < n /\ slots[s].timer <= ticks => slots[s].status = 1
Passed == IF Running.pc = "call" THEN Running.i + 1 ELSE Running.i
PromptInv ==
  /\ seen <= total
  /\ \A k \in 1..Len(frames) : frames[k].i <= total
  /\ frames # <<>> => DoneBelow(Passed)
  /\ frames = <<>> => DoneBelow(seen)

LEMMA PromptInit == Init => PromptInv
<1> SUFFICES ASSUME Init PROVE PromptInv
  OBVIOUS
<1>1. seen = 0 /\ total = 0 /\ frames = <<>> /\ Len(frames) = 0
  BY DEF Init
<1>2. DoneBelow(0)
  BY DEF DoneBelow, Slots
<1> QED BY <1>1, <1>2 DEF PromptInv

(* The thread writes only the slot behind the counted ones.                 *)
LEMMA PromptThread ==
  ASSUME TimerInv, PromptInv,
         \/ \E d \in Durations : DelayStart(d) \/ \E l \in Listeners : RegisterStart(l, d)
         \/ MainStep
  PROVE  PromptInv'
<1>1. frames = <<>> /\ UNCHANGED <<ticks, frames, seen>>
  BY DEF DelayStart, RegisterStart, MainStep, SetTimer, SetListener, SetStatus, Fill, Count,
         DelayEnd, Thread, history
<1>2. /\ \/ total' = total
         \/ total' = total + 1
      /\ \/ slots' = slots
         \/ \E slot : slots' = [slots EXCEPT ![total] = slot]
  BY DEF DelayStart, RegisterStart, MainStep, SetTimer, SetListener, SetStatus, Fill, Count,
         DelayEnd, Thread, history
<1>3. /\ total \in 0..Capacity /\ seen \in 0..Capacity /\ Capacity \in Nat
      /\ slots \in [Slots -> SlotType]
  BY TimerParameters DEF TimerInv, TypeOK, SlotType
<1>4. \A s \in Slots : s < seen => slots'[s] = slots[s]
  BY <1>2, <1>3 DEF PromptInv, Slots
<1>5. DoneBelow(seen)'
  BY <1>1, <1>4 DEF PromptInv, DoneBelow
<1>6. seen' <= total'
  BY <1>1, <1>2, <1>3 DEF PromptInv
<1>7. frames' = <<>> /\ Len(frames') = 0
  BY <1>1
<1> QED BY <1>5, <1>6, <1>7 DEF PromptInv

(* Where the handler on top is, after a step that moves it on.              *)
LEMMA PassedAfter ==
  ASSUME TimerInv, frames # <<>>, NEW pc \in {"test", "mark", "call"}, NEW j \in 0..Capacity,
         Goto(pc, j)
  PROVE  /\ frames' # <<>> /\ Len(frames') = Len(frames)
         /\ Passed' = IF pc = "call" THEN j + 1 ELSE j
         /\ \A k \in 1..Len(frames) : frames'[k].i = IF k = Len(frames) THEN j ELSE frames[k].i
<1> DEFINE x == [pc |-> pc, i |-> j]
<1>1. frames \in Seq(FrameType) /\ x \in FrameType
  BY DEF TimerInv, TypeOK, FrameType
<1>2. frames' = [frames EXCEPT ![Len(frames)] = x]
  BY DEF Goto, Top
<1>3. x.pc = pc /\ x.i = j
  OBVIOUS
<1> HIDE DEF x
<1>4. /\ frames' \in Seq(FrameType) /\ Len(frames') = Len(frames)
      /\ frames'[Len(frames)] = x
      /\ \A k \in 1..Len(frames) : k # Len(frames) => frames'[k] = frames[k]
  BY <1>1, <1>2, FrameSet
<1>5. Len(frames) # 0 /\ Len(frames) \in Nat
  BY <1>1
<1>6. frames' # <<>>
  BY <1>4, <1>5
<1>7. Running' = x
  BY <1>4 DEF Running, Top
<1>8. Passed' = IF pc = "call" THEN j + 1 ELSE j
  BY <1>3, <1>7 DEF Passed
<1> QED BY <1>3, <1>4, <1>6, <1>8

LEMMA PromptHandler ==
  ASSUME TimerInv, PromptInv, Tick \/ HandlerStep
  PROVE  PromptInv'
<1>1. /\ total \in 0..Capacity /\ seen \in 0..Capacity /\ Capacity \in Nat
      /\ slots \in [Slots -> SlotType] /\ frames \in Seq(FrameType)
      /\ ticks \in 0..MaxTicks
  BY TimerParameters DEF TimerInv, TypeOK, SlotType, FrameType
<1>2. ASSUME frames # <<>>
      PROVE  /\ Running \in FrameType /\ Running = frames[Len(frames)]
             /\ Running.i \in 0..Capacity /\ Running.i <= total
             /\ Running.pc # "test" => Running.i < total /\ Running.i \in Slots
  <2>1. Len(frames) \in 1..Len(frames) /\ Running = frames[Len(frames)]
    BY <1>1, <1>2 DEF Running, Top
  <2>2. Running \in FrameType
    BY <1>1, <2>1
  <2>3. Running.pc # "test" => Running.i < total
    BY <2>1 DEF TimerInv, FramesOK
  <2>4. Running.i <= total
    BY <2>1 DEF PromptInv
  <2> QED BY <1>1, <2>1, <2>2, <2>3, <2>4 DEF FrameType, Slots
<1>3. CASE Tick
  <2>1. /\ frames' = Append(frames, [pc |-> "test", i |-> 0])
        /\ UNCHANGED <<total, slots, seen>>
    BY <1>3 DEF Tick, history
  <2>2. [pc |-> "test", i |-> 0] \in FrameType
    BY <1>1 DEF FrameType
  <2>3. /\ frames' \in Seq(FrameType) /\ Len(frames') = Len(frames) + 1
        /\ frames'[Len(frames) + 1] = [pc |-> "test", i |-> 0]
        /\ \A k \in 1..Len(frames) : frames'[k] = frames[k]
    BY <1>1, <2>1, <2>2, FramePush
  <2>4. Passed' = 0 /\ frames' # <<>>
    BY <1>1, <2>3 DEF Passed, Running, Top
  <2>5. DoneBelow(Passed)'
    BY <2>4 DEF DoneBelow, Slots
  <2>6. \A k \in 1..Len(frames') : frames'[k].i <= total
    BY <1>1, <2>3 DEF PromptInv
  <2> QED BY <2>1, <2>4, <2>5, <2>6 DEF PromptInv
<1>4. CASE Test
  <2>1. /\ frames # <<>> /\ Running.pc = "test" /\ Running.i < total
        /\ UNCHANGED <<ticks, total, slots, seen>>
        /\ \/ Goto("mark", Running.i)
           \/ ~IsDue(Running.i) /\ Goto("test", Running.i + 1)
    BY <1>4 DEF Test, Handler, history
  <2>2. Running.i + 1 \in 0..Capacity /\ Running.i \in Slots /\ Passed = Running.i
    BY <1>1, <1>2, <2>1 DEF Slots, Passed
  <2>3. CASE Goto("mark", Running.i)
    <3>1. /\ frames' # <<>> /\ Len(frames') = Len(frames) /\ Passed' = Running.i
          /\ \A k \in 1..Len(frames) :
               frames'[k].i = IF k = Len(frames) THEN Running.i ELSE frames[k].i
      BY <1>2, <2>1, <2>3, PassedAfter
    <3>2. \A k \in 1..Len(frames') : frames'[k].i <= total
      BY <1>2, <2>1, <3>1 DEF PromptInv
    <3> QED BY <2>1, <2>2, <3>1, <3>2 DEF PromptInv, DoneBelow
  <2>4. CASE ~IsDue(Running.i) /\ Goto("test", Running.i + 1)
    <3>1. /\ frames' # <<>> /\ Len(frames') = Len(frames) /\ Passed' = Running.i + 1
          /\ \A k \in 1..Len(frames) :
               frames'[k].i = IF k = Len(frames) THEN Running.i + 1 ELSE frames[k].i
      BY <2>1, <2>2, <2>4, PassedAfter
    <3>2. \A k \in 1..Len(frames') : frames'[k].i <= total
      BY <1>1, <1>2, <2>1, <3>1 DEF PromptInv
    <3>3. slots[Running.i].timer <= ticks => slots[Running.i].status = 1
      BY <2>4 DEF IsDue
    <3>4. DoneBelow(Running.i + 1)
      <4>1. DoneBelow(Running.i)
        BY <2>1, <2>2 DEF PromptInv
      <4>2. \A s \in Slots : s < Running.i + 1 => s < Running.i \/ s = Running.i
        BY <1>2, <2>1 DEF Slots
      <4> QED BY <3>3, <4>1, <4>2 DEF DoneBelow
    <3> QED BY <2>1, <3>1, <3>2, <3>4 DEF PromptInv, DoneBelow
  <2> QED BY <2>1, <2>3, <2>4
<1>5. CASE Mark
  <2>1. /\ frames # <<>> /\ Running.pc = "mark" /\ Goto("call", Running.i)
        /\ slots' = [slots EXCEPT ![Running.i] = [@ EXCEPT !.status = 1]]
        /\ UNCHANGED <<ticks, total, seen>>
    BY <1>5 DEF Mark, Handler, history
  <2>2. /\ frames' # <<>> /\ Len(frames') = Len(frames) /\ Passed' = Running.i + 1
        /\ \A k \in 1..Len(frames) :
             frames'[k].i = IF k = Len(frames) THEN Running.i ELSE frames[k].i
    BY <1>2, <2>1, PassedAfter
  <2>3. \A k \in 1..Len(frames') : frames'[k].i <= total
    BY <1>2, <2>1, <2>2 DEF PromptInv
  <2>4. /\ Running.i \in Slots /\ slots[Running.i] \in SlotType
        /\ slots'[Running.i].status = 1
        /\ \A s \in Slots \ {Running.i} : slots'[s] = slots[s]
    BY <1>1, <1>2, <2>1 DEF SlotType
  <2>5. DoneBelow(Running.i)
    BY <2>1 DEF PromptInv, Passed
  <2>6. \A s \in Slots : s < Running.i + 1 => s < Running.i \/ s = Running.i
    BY <1>2, <2>1 DEF Slots
  <2>7. DoneBelow(Passed)'
    BY <2>1, <2>2, <2>4, <2>5, <2>6 DEF DoneBelow
  <2> QED BY <2>1, <2>2, <2>3, <2>7 DEF PromptInv
<1>6. CASE Call
  <2>1. /\ frames # <<>> /\ Running.pc = "call" /\ Goto("test", Running.i + 1)
        /\ UNCHANGED <<ticks, total, slots, seen>>
    BY <1>6 DEF Call, Handler
  <2>2. Running.i + 1 \in 0..Capacity /\ Passed = Running.i + 1 /\ Running.i + 1 <= total
    BY <1>1, <1>2, <2>1 DEF Passed
  <2>3. /\ frames' # <<>> /\ Len(frames') = Len(frames) /\ Passed' = Running.i + 1
        /\ \A k \in 1..Len(frames) :
             frames'[k].i = IF k = Len(frames) THEN Running.i + 1 ELSE frames[k].i
    BY <2>1, <2>2, PassedAfter
  <2>4. \A k \in 1..Len(frames') : frames'[k].i <= total
    BY <2>2, <2>3 DEF PromptInv
  <2> QED BY <2>1, <2>2, <2>3, <2>4 DEF PromptInv, DoneBelow
<1>7. CASE Return
  <2>1. /\ frames # <<>> /\ frames' = SubSeq(frames, 1, Len(frames) - 1)
        /\ Running.pc = "test" /\ Running.i >= total
        /\ seen' = total /\ UNCHANGED <<ticks, total, slots>>
    BY <1>7 DEF Return, Handler, Top
  <2>2. /\ frames' \in Seq(FrameType) /\ Len(frames') = Len(frames) - 1
        /\ \A k \in 1..(Len(frames) - 1) : frames'[k] = frames[k]
    BY <1>1, <2>1, FramePop
  <2>3. DoneBelow(total)
    BY <1>1, <1>2, <2>1 DEF PromptInv, Passed, DoneBelow
  <2>4. \A k \in 1..Len(frames') : frames'[k].i <= total
    BY <1>1, <2>2 DEF PromptInv
  <2>5. ASSUME frames' # <<>> PROVE DoneBelow(Passed)'
    <3>1. /\ Len(frames') \in 1..Len(frames') /\ Len(frames') \in 1..Len(frames)
          /\ Running' = frames'[Len(frames')] /\ Running' \in FrameType
          /\ frames'[Len(frames')] = frames[Len(frames')]
      BY <1>1, <2>2, <2>5 DEF Running, Top
    <3>2. Running'.i <= total
      BY <2>4, <3>1
    <3>3. Running'.pc # "test" => Running'.i < total
      BY <3>1 DEF TimerInv, FramesOK
    <3>4. Passed' \in Int /\ Passed' <= total
      BY <1>1, <3>1, <3>2, <3>3 DEF Passed, FrameType
    <3> QED BY <1>1, <2>1, <2>3, <3>4 DEF DoneBelow, Slots
  <2>6. DoneBelow(total)'
    BY <2>1, <2>3 DEF DoneBelow
  <2> QED BY <1>1, <2>1, <2>4, <2>5, <2>6 DEF PromptInv
<1> QED BY <1>3, <1>4, <1>5, <1>6, <1>7 DEF HandlerStep

(* When the last handler ends nothing it should have called is left, also    *)
(* when ticks nested in its listeners (timer.c:22-33): a due time that has *)
(* passed is still found, since the test is not for the tick alone.        *)
THEOREM PromptAfterTickHolds == Spec => []PromptAfterTick
<1>1. TimerInv /\ PromptInv /\ [Next]_vars => PromptInv'
  <2> SUFFICES ASSUME TimerInv, PromptInv, [Next]_vars PROVE PromptInv'
    OBVIOUS
  <2>1. CASE UNCHANGED vars
    BY <2>1 DEF vars, PromptInv, DoneBelow, Passed, Running, Top
  <2> QED BY <2>1, PromptThread, PromptHandler DEF Next
<1>2. PromptInv => PromptAfterTick
  BY DEF PromptInv, DoneBelow, PromptAfterTick
<1> QED BY <1>1, <1>2, PromptInit, TimerInit, TimerStep, PTL DEF Spec
=============================================================================
