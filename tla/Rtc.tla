-------------------------------- MODULE Rtc --------------------------------
(***************************************************************************)
(* getRtcTime (hal/x86/drivers/rtc/rtc.c) reading the seven registers of   *)
(* the real time clock one at a time while the clock goes on.  A clock     *)
(* update announces itself with the update flag and then changes the       *)
(* registers one by one, in any order.  Nothing bounds the time between    *)
(* two accesses: interrupts are enabled throughout.                        *)
(*                                                                         *)
(* The code tests constants where it means register B, so it always        *)
(* converts from BCD and never from 12 hours; the clock here is in the     *)
(* mode that fits, BCD and 24 hours.                                       *)
(***************************************************************************)
EXTENDS Integers, Sequences

CONSTANTS
  Registers,      \* [unit, values, first]: seconds per step, number of values, least value
  HoursRegister,  \* index of the hours in Registers
  Starts,         \* seconds at which the system may be started
  MaxTicks        \* bound: updates of the clock

Fields == DOMAIN Registers
ASSUME ClockParameters ==
  /\ Registers \in Seq([unit : Nat \ {0}, values : 1..100, first : {0, 1}])
  /\ HoursRegister \in Fields
  /\ Starts \subseteq Nat /\ MaxTicks \in Nat

VARIABLES
  time,           \* the time the clock shows, or is changing to
  uip,            \* update in progress
  regs,           \* the registers, in BCD
  ticks,          \* updates so far
  pc,             \* "idle", "wait", "first", "convert", "check", "second", "compare"
  next,           \* next register to read
  read,           \* the locals seconds .. year
  result,
  called          \* history: the time of the call
vars == <<time, uip, regs, ticks, pc, next, read, result, called>>
clock == <<time, uip, regs, ticks>>

Value(t) == [f \in Fields |->
  ((t \div Registers[f].unit) % Registers[f].values) + Registers[f].first]
ToBcd(n) == 16 * (n \div 10) + (n % 10)
Shown(t) == [f \in Fields |-> ToBcd(Value(t)[f])]

(* The conversion, on all registers; the hours keep bit 7.                 *)
LowDigits(x) == (x % 16) + 10 * (x \div 16)
Convert(r) == [f \in Fields |->
  IF f = HoursRegister THEN LowDigits(r[f] % 128) + 128 * (r[f] \div 128)
  ELSE LowDigits(r[f])]

Init ==
  /\ time \in Starts /\ uip = FALSE /\ regs = Shown(time) /\ ticks = 0
  /\ pc = "idle" /\ next = 1 /\ called = time
  /\ read = [f \in Fields |-> 0] /\ result = [f \in Fields |-> 0]

-----------------------------------------------------------------------------
(* The clock.                                                              *)
UpdateStart ==
  /\ ~uip /\ ticks < MaxTicks
  /\ uip' = TRUE /\ time' = time + 1 /\ ticks' = ticks + 1
  /\ UNCHANGED <<regs, pc, next, read, result, called>>
UpdateRegister(f) ==
  /\ uip /\ regs[f] # Shown(time)[f]
  /\ regs' = [regs EXCEPT ![f] = Shown(time)[f]]
  /\ UNCHANGED <<time, uip, ticks, pc, next, read, result, called>>
UpdateEnd ==
  /\ uip /\ regs = Shown(time)
  /\ uip' = FALSE
  /\ UNCHANGED <<time, regs, ticks, pc, next, read, result, called>>

-----------------------------------------------------------------------------
Call ==
  /\ pc = "idle"
  /\ pc' = "wait" /\ called' = time
  /\ UNCHANGED <<clock, next, read, result>>

(* while (checkRtcUpdate()) {}                                             *)
Wait ==
  /\ pc = "wait" /\ ~uip
  /\ pc' = "first" /\ next' = 1
  /\ UNCHANGED <<clock, read, result, called>>

(* getRtcReg: seconds, minutes, ..., year.                                 *)
ReadRegister(now, then) ==
  /\ pc = now
  /\ read' = [read EXCEPT ![next] = regs[next]]
  /\ IF next = Len(Registers) THEN next' = 1 /\ pc' = then ELSE next' = next + 1 /\ UNCHANGED pc
  /\ UNCHANGED <<clock, result, called>>
ReadFirst == ReadRegister("first", "convert")
ReadSecond == ReadRegister("second", "compare")

(* The inner loop's body, on the values it has converted already if the    *)
(* loop goes round, and its condition.                                     *)
ConvertFirst ==
  /\ pc = "convert"
  /\ read' = Convert(read) /\ result' = Convert(read)
  /\ pc' = "check"
  /\ UNCHANGED <<clock, next, called>>
AfterCheckIgnored == "second"
AfterCheck == IF uip THEN "convert" ELSE "second"
Check ==
  /\ pc = "check"
  /\ pc' = AfterCheck /\ next' = 1
  /\ UNCHANGED <<clock, read, result, called>>

(* The outer loop's condition, after the second conversion.                *)
SameUnconverted == read = result
Same == Convert(read) = result
Compare ==
  /\ pc = "compare"
  /\ read' = Convert(read)
  /\ pc' = IF Same THEN "idle" ELSE "wait"
  /\ UNCHANGED <<clock, next, result, called>>

GetRtcTime == Wait \/ ReadFirst \/ ConvertFirst \/ Check \/ ReadSecond \/ Compare
Clock == UpdateStart \/ UpdateEnd \/ \E f \in Fields : UpdateRegister(f)
Next == Call \/ GetRtcTime \/ Clock

(* The processor goes on and an update that has begun ends.                *)
Spec == Init /\ [][Next]_vars /\ WF_vars(GetRtcTime) /\ WF_vars(uip /\ Clock)

-----------------------------------------------------------------------------
(* The time returned is one the clock showed between the call and the      *)
(* return, although it was read register by register, maybe in the middle  *)
(* of updates, and maybe converted more than once (rtc.c:35-95).           *)
TimeWasShown ==
  [][pc = "compare" /\ pc' = "idle" => \E t \in called..time : result = Value(t)]_vars

(* getRtcTime returns once the clock lets it read twice in peace: no time  *)
(* makes the comparison of rtc.c:88-94 fail for ever.                      *)
CallReturns == pc # "idle" ~> pc = "idle"
=============================================================================
