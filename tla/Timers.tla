------------------------------- MODULE Timers -------------------------------
(***************************************************************************)
(* System timers: kernel/timer.c, driven by the tick of                    *)
(* hal/x86/drivers/pit.c.  The kernel's only thread registers timers,      *)
(* statement by statement, and waits in delay; the timer interrupt arrives *)
(* between any two of its statements and runs checkTimers, whose due       *)
(* listeners it calls.  A listener that calls a function ending in         *)
(* atomicalRelease (registerInterruptHandler, clearInterrupt, ...) sets    *)
(* the interrupt flag inside the handler: the next tick then nests.        *)
(***************************************************************************)
EXTENDS Integers, Sequences

CONSTANTS
  Listeners,      \* the clients' listeners; each is registered once
  Null,           \* no listener: a slot that was never written
  Enabling,       \* listeners that set the interrupt flag
  Durations,      \* arguments of register_timer and delay, in ticks
  Capacity,       \* length of sysTimers: 10
  MaxTicks,       \* bound: sys_ticks stops there, and no due time is later
  MaxNesting      \* bound: handlers nested in one another

ASSUME TimerParameters ==
  /\ Null \notin Listeners /\ Enabling \subseteq Listeners
  /\ Durations \subseteq Nat
  /\ Capacity \in Nat /\ MaxTicks \in Nat /\ MaxNesting \in Nat

VARIABLES
  ticks,          \* sys_ticks
  total,          \* totalTimers
  slots,          \* sysTimers: [timer, listener, status]
  main,           \* the thread: [pc, target, listener]
  frames,         \* running timer interrupts, innermost last: [pc, i]
  flag,           \* the interrupt flag of the processor
  calls,          \* history: how often a listener was called
  calledAt,       \* history: the tick of its last call
  due,            \* history: when it asked to be called
  seen            \* history: totalTimers when the last handler ended
vars == <<ticks, total, slots, main, frames, flag, calls, calledAt, due, seen>>
history == <<calls, calledAt, due, seen>>

Slots == 0..(Capacity - 1)
Idle == [pc |-> "idle", target |-> 0, listener |-> Null]
Top == Len(frames)
Running == frames[Top]

Init ==
  /\ ticks = 0 /\ total = 0
  /\ slots = [s \in Slots |-> [timer |-> 0, listener |-> Null, status |-> 0]]
  /\ main = Idle
  /\ frames = <<>> /\ flag = TRUE
  /\ calls = [l \in Listeners |-> 0]
  /\ calledAt = [l \in Listeners |-> 0]
  /\ due = [l \in Listeners |-> 0]
  /\ seen = 0

-----------------------------------------------------------------------------
(* The thread runs only while no handler does.                             *)
Thread(pc) == frames = <<>> /\ main.pc = pc

(* register_timer(d, l): read the time, then fill the slot field by field  *)
(* and count it last.  Nothing checks total against Capacity; clients here *)
(* stay below it.                                                          *)
RegisterStart(l, d) ==
  /\ Thread("idle")
  /\ total < Capacity
  /\ \A s \in Slots : slots[s].listener # l
  /\ ticks + d <= MaxTicks
  /\ main' = [pc |-> "timer", target |-> ticks + d, listener |-> l]
  /\ due' = [due EXCEPT ![l] = ticks + d]
  /\ UNCHANGED <<ticks, total, slots, frames, flag, calls, calledAt, seen>>

Fill(from, to, slot) ==
  /\ Thread(from)
  /\ slots' = [slots EXCEPT ![total] = slot]
  /\ main' = [main EXCEPT !.pc = to]
  /\ UNCHANGED <<ticks, total, frames, flag, history>>
SetTimer    == Fill("timer", "listener", [slots[total] EXCEPT !.timer = main.target])
SetListener == Fill("listener", "status", [slots[total] EXCEPT !.listener = main.listener])
SetStatus   == Fill("status", "count", [slots[total] EXCEPT !.status = 0])
Count ==
  /\ Thread("count")
  /\ total' = total + 1
  /\ main' = Idle
  /\ UNCHANGED <<ticks, slots, frames, flag, history>>

(* delay(d): read the time once, then wait for it to have advanced by d.   *)
DelayStart(d) ==
  /\ Thread("idle")
  /\ ticks + d <= MaxTicks
  /\ main' = [pc |-> "delay", target |-> ticks + d, listener |-> Null]
  /\ UNCHANGED <<ticks, total, slots, frames, flag, history>>
DelayEndExact ==
  /\ Thread("delay")
  /\ main.target = ticks
  /\ main' = Idle
  /\ UNCHANGED <<ticks, total, slots, frames, flag, history>>
DelayEnd ==
  /\ Thread("delay")
  /\ main.target <= ticks
  /\ main' = Idle
  /\ UNCHANGED <<ticks, total, slots, frames, flag, history>>

MainStep == SetTimer \/ SetListener \/ SetStatus \/ Count \/ DelayEnd

-----------------------------------------------------------------------------
(* The timer interrupt: the gate clears the flag, pitHandler counts.       *)
Tick ==
  /\ flag /\ Len(frames) < MaxNesting
  /\ ticks' = IF ticks < MaxTicks THEN ticks + 1 ELSE ticks
  /\ frames' = Append(frames, [pc |-> "test", i |-> 0])
  /\ flag' = FALSE
  /\ UNCHANGED <<total, slots, main, history>>

Handler(pc) == frames # <<>> /\ Running.pc = pc
Goto(pc, i) == frames' = [frames EXCEPT ![Top] = [pc |-> pc, i |-> i]]

(* checkTimers: one turn of its loop is the test, the store and the call.  *)
IsDueExactly(s) == slots[s].timer = ticks /\ slots[s].status # 1
IsDueAhead(s) == slots[s].timer <= ticks + 1 /\ slots[s].status # 1
IsDue(s) == slots[s].timer <= ticks /\ slots[s].status # 1
Test ==
  /\ Handler("test") /\ Running.i < total
  /\ IF IsDue(Running.i) THEN Goto("mark", Running.i) ELSE Goto("test", Running.i + 1)
  /\ UNCHANGED <<ticks, total, slots, main, flag, history>>
MarkNothing ==
  /\ Handler("mark")
  /\ Goto("call", Running.i)
  /\ UNCHANGED <<ticks, total, slots, main, flag, history>>
Mark ==
  /\ Handler("mark")
  /\ slots' = [slots EXCEPT ![Running.i] = [@ EXCEPT !.status = 1]]
  /\ Goto("call", Running.i)
  /\ UNCHANGED <<ticks, total, main, flag, history>>
Call ==
  LET l == slots[Running.i].listener
  IN /\ Handler("call") /\ l # Null
     /\ calls' = [calls EXCEPT ![l] = @ + 1]
     /\ calledAt' = [calledAt EXCEPT ![l] = ticks]
     /\ flag' = (flag \/ l \in Enabling)
     /\ Goto("test", Running.i + 1)
     /\ UNCHANGED <<ticks, total, slots, main, due, seen>>

(* The loop ends; iret restores the flag, which was set when the tick came. *)
Return ==
  /\ Handler("test") /\ Running.i >= total
  /\ frames' = SubSeq(frames, 1, Top - 1)
  /\ flag' = TRUE
  /\ seen' = total
  /\ UNCHANGED <<ticks, total, slots, main, calls, calledAt, due>>

HandlerStep == Test \/ Mark \/ Call \/ Return

Next ==
  \/ \E d \in Durations : DelayStart(d) \/ \E l \in Listeners : RegisterStart(l, d)
  \/ MainStep
  \/ Tick
  \/ HandlerStep

(***************************************************************************)
(* The timer keeps ticking; a handler that runs goes on; and the thread,   *)
(* which every handler interrupts, gets its turn because a handler is over *)
(* long before the next tick is due.                                       *)
(***************************************************************************)
Spec == /\ Init /\ [][Next]_vars
        /\ WF_vars(Tick) /\ WF_vars(HandlerStep) /\ SF_vars(MainStep)

-----------------------------------------------------------------------------
TypeOK ==
  /\ ticks \in 0..MaxTicks
  /\ total \in 0..Capacity
  /\ slots \in [Slots -> [timer : 0..MaxTicks, listener : Listeners \union {Null},
                          status : {0, 1}]]
  /\ main \in [pc : {"idle", "timer", "listener", "status", "count", "delay"},
               target : 0..MaxTicks, listener : Listeners \union {Null}]
  /\ frames \in Seq([pc : {"test", "mark", "call"}, i : 0..Capacity])
  /\ flag \in BOOLEAN
  /\ calls \in [Listeners -> Nat]
  /\ calledAt \in [Listeners -> 0..MaxTicks]
  /\ due \in [Listeners -> 0..MaxTicks]
  /\ seen \in 0..Capacity

(* A listener is not called before the time it was registered for, however  *)
(* ticks fall between the statements of register_timer (timer.c:9-19).      *)
NeverEarly == \A l \in Listeners : calls[l] > 0 => due[l] <= calledAt[l]

(* timer.h:9: a timer is running and then done; its listener runs once,     *)
(* unless a listener enables interrupts and the next tick nests in its own, *)
(* between the test and the done mark of another timer (timer.c:27-28).     *)
FiresOnce == \A l \in Listeners : calls[l] <= 1

(* checkTimers never calls through a slot whose listener is not written     *)
(* yet, although the slot is filled while ticks arrive.                     *)
ListenerWritten ==
  \A f \in 1..Len(frames) : frames[f].pc # "test" => slots[frames[f].i].listener # Null

(* When a tick is over, no timer that was registered before it is due and   *)
(* not done: checkTimers passes over none.                                  *)
PromptAfterTick ==
  frames = <<>> =>
    \A s \in Slots : s < seen /\ slots[s].timer <= ticks => slots[s].status = 1

(* Every registered timer fires: no tick is lost to a half-written slot.    *)
Registered(l) == \E s \in Slots : s < total /\ slots[s].listener = l
EveryTimerFires == \A l \in Listeners : Registered(l) ~> calls[l] > 0

(* delay returns, and so does register_timer.                               *)
MainProgress == main.pc # "idle" ~> main.pc = "idle"
=============================================================================
