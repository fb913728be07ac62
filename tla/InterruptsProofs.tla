-------------------------- MODULE InterruptsProofs --------------------------
(***************************************************************************)
(* What holds of hal/x86/interrupts/isr.c for any number of vectors, any   *)
(* handlers, any flags and any values of the uninitialised locals.         *)
(***************************************************************************)
EXTENDS Interrupts, TLAPS

-----------------------------------------------------------------------------
(* Every step keeps the tables of handlers well formed; the count of a      *)
(* chain, an uint8_t, wraps but never leaves its range (isr.c:149, 222).    *)
LEMMA TypeInit == Init => TypeOK
  BY VectorParameters DEF Init, TypeOK, HiEntry, ChEntry, Slots, Idle

(* Registration in a chain leaves the tables well formed (isr.c:119-164).   *)
LEMMA TypeRegisterChained ==
  ASSUME TypeOK, NEW n \in Vectors, NEW h \in Handlers,
         NEW freeProtect \in BOOLEAN, NEW chainLock \in BOOLEAN,
         RegisterChained(n, h, freeProtect, chainLock), clearing' = clearing
  PROVE  TypeOK'
<1>1. CASE ChainRefused(n)
  BY <1>1 DEF RegisterChained, TypeOK
<1>2. CASE ~ChainRefused(n)
  <2>1. ChainPlace(n) \in Slots
    BY VectorParameters DEF TypeOK, ChEntry, Slots, ChainPlace
  <2>2. ChainBase(n) \in [Slots -> Handlers \union {Null, Wild}]
    BY DEF TypeOK, HiEntry, ChainBase
  <2>3. chainMem' \in [Slots -> Handlers \union {Null, Wild}]
    BY <1>2, <2>1, <2>2 DEF RegisterChained
  <2>4. ChainEntry(n, freeProtect, chainLock) \in ChEntry
    BY <2>1 DEF TypeOK, ChEntry, ChainEntry
  <2>5. ch' \in [Vectors -> ChEntry]
    BY <1>2, <2>4 DEF RegisterChained, TypeOK
  <2>6. hi' \in [Vectors -> HiEntry]
    <3>1. hi' = [hi EXCEPT ![n] = [@ EXCEPT !.hasHandler = TRUE, !.isChained = TRUE]]
      BY <1>2 DEF RegisterChained
    <3> QED BY <3>1 DEF TypeOK, HiEntry
  <2>7. registered' \in [Vectors -> Seq(Handlers)]
    <3>1. registered' = [registered EXCEPT ![n] = Append(@, h)]
      BY <1>2 DEF RegisterChained
    <3> QED BY <3>1 DEF TypeOK
  <2>8. shared' \subseteq Vectors
    BY <1>2 DEF RegisterChained, OtherChains, TypeOK
  <2> QED BY <2>3, <2>5, <2>6, <2>7, <2>8 DEF TypeOK
<1> QED BY <1>1, <1>2

(* Every step of registration and clearing leaves the tables well formed.   *)
LEMMA TypeStep == TypeOK /\ [Next]_vars => TypeOK'
<1> SUFFICES ASSUME TypeOK, [Next]_vars PROVE TypeOK'
  OBVIOUS
<1>1. ASSUME NEW n \in Vectors, NEW h \in Handlers, NEW flags \in FlagSets,
             Register(n, h, flags)
      PROVE  TypeOK'
  <2>1. PICK isChained, freeProtect, chainLock \in BOOLEAN :
          IF isChained THEN RegisterChained(n, h, freeProtect, chainLock)
          ELSE RegisterPlain(n, h)
    BY <1>1 DEF Register
  <2>2. CASE isChained
    BY <1>1, <2>1, <2>2, TypeRegisterChained DEF Register
  <2>3. CASE ~isChained
    <3>1. CASE PlainRefused(n)
      BY <1>1, <2>1, <2>3, <3>1 DEF Register, RegisterPlain, TypeOK
    <3>2. CASE ~PlainRefused(n)
      <4>1. hi' \in [Vectors -> HiEntry]
        <5>1. hi' = [hi EXCEPT ![n] = PlainEntry(h)]
          BY <2>1, <2>3, <3>2 DEF RegisterPlain
        <5> QED BY <5>1 DEF PlainEntry, TypeOK, HiEntry
      <4>2. registered' \in [Vectors -> Seq(Handlers)]
        <5>1. registered' = [registered EXCEPT ![n] = Append(@, h)]
          BY <2>1, <2>3, <3>2 DEF RegisterPlain
        <5> QED BY <5>1 DEF TypeOK
      <4> QED BY <1>1, <2>1, <2>3, <3>2, <4>1, <4>2 DEF Register, RegisterPlain, TypeOK
    <3> QED BY <3>1, <3>2
  <2> QED BY <2>2, <2>3
<1>2. ASSUME NEW n \in Vectors, ClearStart(n) PROVE TypeOK'
  <2>1. hi' \in [Vectors -> HiEntry]
    <3>1. \/ hi' = hi
          \/ hi' = [hi EXCEPT ![n] = [@ EXCEPT !.hasHandler = FALSE, !.isChained = FALSE,
                                               !.chainProtect = TRUE]]
      BY <1>2 DEF ClearStart
    <3>2. hi \in [Vectors -> HiEntry] /\ hi[n] \in HiEntry
      BY DEF TypeOK
    <3>3. [hi[n] EXCEPT !.hasHandler = FALSE, !.isChained = FALSE, !.chainProtect = TRUE] \in HiEntry
      BY <3>2 DEF HiEntry
    <3> QED BY <3>1, <3>2, <3>3
  <2>2. registered' = registered /\ shared' \subseteq Vectors
    BY <1>2 DEF ClearStart, TypeOK
  <2>3. clearing' \in [step : {"empty", "unhook"}, vector : Vectors]
    BY <1>2 DEF ClearStart
  <2> QED BY <1>2, <2>1, <2>2, <2>3 DEF ClearStart, TypeOK
<1>3. ASSUME NEW n \in Vectors, ClearEmpty(n) PROVE TypeOK'
  <2>1. ch' \in [Vectors -> ChEntry]
    <3>1. ch[n] \in ChEntry
      BY DEF TypeOK
    <3>2. ch[n].totalHandlers - 1 \in Slots
      BY <1>3, <3>1, VectorParameters DEF ClearEmpty, ChEntry, Slots
    <3>3. [ch[n] EXCEPT !.totalHandlers = @ - 1] \in ChEntry
      BY <3>1, <3>2 DEF ChEntry
    <3>4. ch' = [ch EXCEPT ![n] = [@ EXCEPT !.totalHandlers = ch[n].totalHandlers - 1]]
      BY <1>3 DEF ClearEmpty
    <3> QED BY <3>3, <3>4 DEF TypeOK, ChEntry
  <2>2. chainMem' \in [Slots -> Handlers \union {Null, Wild}]
    BY <1>3 DEF ClearEmpty, TypeOK
  <2> QED BY <1>3, <2>1, <2>2 DEF ClearEmpty, TypeOK
<1>4. ASSUME NEW n \in Vectors, ClearFinish(n) PROVE TypeOK'
  <2>1. /\ ch' = [ch EXCEPT ![n].initialized = FALSE]
        /\ hi' = [hi EXCEPT ![n].chainProtect = FALSE]
        /\ clearing' = [step |-> "unhook", vector |-> n]
        /\ UNCHANGED <<chainMem, registered, shared>>
    BY <1>4 DEF ClearFinish
  <2>2. ch' \in [Vectors -> ChEntry]
    BY <2>1 DEF TypeOK, ChEntry
  <2>3. hi' \in [Vectors -> HiEntry]
    BY <2>1 DEF TypeOK, HiEntry
  <2> QED BY <2>1, <2>2, <2>3 DEF TypeOK
<1>5. ASSUME NEW n \in Vectors, ClearUnhook(n) PROVE TypeOK'
  <2>1. hi' \in [Vectors -> HiEntry]
    BY <1>5 DEF ClearUnhook, TypeOK, HiEntry
  <2>2. registered' \in [Vectors -> Seq(Handlers)]
    <3>1. registered' = registered \/ registered' = [registered EXCEPT ![n] = <<>>]
      BY <1>5 DEF ClearUnhook
    <3>2. <<>> \in Seq(Handlers)
      OBVIOUS
    <3> QED BY <3>1, <3>2 DEF TypeOK
  <2> QED BY <1>5, <2>1, <2>2 DEF ClearUnhook, TypeOK
<1>6. CASE UNCHANGED vars
  BY <1>6 DEF vars, TypeOK
<1> QED BY <1>1, <1>2, <1>3, <1>4, <1>5, <1>6 DEF Next

(* Type correctness of the handler tables (isr.h:15-29).                    *)
THEOREM TypeCorrect == Spec => []TypeOK
  BY TypeInit, TypeStep, PTL DEF Spec

-----------------------------------------------------------------------------
(***************************************************************************)
(* Plain handlers.  The invariant that carries the proof says, for each    *)
(* vector, how the table and the history agree at each point of            *)
(* clearInterrupt: a vector that is being emptied was a chain, so it never *)
(* had a plain handler (isr.c:205-226).                                    *)
(***************************************************************************)
Step(n) ==
  \/ \E h \in Handlers, flags \in FlagSets : Register(n, h, flags)
  \/ ClearStart(n) \/ ClearEmpty(n) \/ ClearFinish(n) \/ ClearUnhook(n)

NeverChained(n) == hi[n].initialized => hi[n].chainProtect /\ ~hi[n].isChained
Recorded(n) ==
  ~hi[n].isChained =>
    \/ registered[n] = IF hi[n].hasHandler THEN <<hi[n].handler>> ELSE <<>>
    \/ Busy(n) /\ ~hi[n].hasHandler
Emptying(n) ==
  Busy(n) /\ clearing.step = "empty" =>
    ~hi[n].initialized /\ ~hi[n].isChained /\ ~hi[n].hasHandler
Plain(n) == NeverChained(n) /\ Recorded(n) /\ Emptying(n)
PlainInv == TypeOK /\ \A n \in Vectors : Plain(n)

(* Initially no vector is registered, chained or being cleared.             *)
LEMMA PlainInit == Init => PlainInv
<1> SUFFICES ASSUME Init, NEW n \in Vectors PROVE Plain(n)
  BY TypeInit DEF PlainInv
<1>1. ~Busy(n)
  BY DEF Init, Busy
<1> QED BY <1>1 DEF Init, Plain, NeverChained, Recorded, Emptying

(* Registering or clearing one vector leaves the others as they are, and    *)
(* only one vector is being cleared.                                        *)
LEMMA OtherVectors ==
  ASSUME TypeOK, NEW n \in Vectors, Step(n), NEW m \in Vectors, m # n
  PROVE  /\ hi'[m] = hi[m] /\ ch'[m] = ch[m] /\ registered'[m] = registered[m]
         /\ ~Busy(m) /\ ~Busy(m)'
<1>1. ASSUME NEW h \in Handlers, NEW flags \in FlagSets, Register(n, h, flags)
      PROVE  /\ hi'[m] = hi[m] /\ ch'[m] = ch[m] /\ registered'[m] = registered[m]
             /\ ~Busy(m) /\ ~Busy(m)'
  <2>1. PICK isChained, freeProtect, chainLock \in BOOLEAN :
          IF isChained THEN RegisterChained(n, h, freeProtect, chainLock)
          ELSE RegisterPlain(n, h)
    BY <1>1 DEF Register
  <2>2. ~Busy(m) /\ ~Busy(m)'
    BY <1>1 DEF Register, Busy
  <2>3. hi'[m] = hi[m] /\ ch'[m] = ch[m] /\ registered'[m] = registered[m]
    BY <2>1 DEF RegisterChained, RegisterPlain, TypeOK
  <2> QED BY <2>2, <2>3
<1>2. CASE ClearStart(n)
  BY <1>2 DEF ClearStart, Busy, TypeOK, Idle
<1>3. CASE ClearEmpty(n)
  BY <1>3 DEF ClearEmpty, Busy, TypeOK, Idle
<1>4. CASE ClearFinish(n)
  BY <1>4 DEF ClearFinish, Busy, TypeOK, Idle
<1>5. CASE ClearUnhook(n)
  BY <1>5 DEF ClearUnhook, Busy, TypeOK, Idle
<1> QED BY <1>1, <1>2, <1>3, <1>4, <1>5 DEF Step

(* A plain handler is registered only on a vector that has none and no      *)
(* chain; a chain is made only where no plain handler ever was              *)
(* (isr.c:121-133, 167-179).                                                *)
LEMMA PlainRegister ==
  ASSUME PlainInv, NEW n \in Vectors, NEW h \in Handlers, NEW flags \in FlagSets,
         Register(n, h, flags)
  PROVE  Plain(n)'
<1>1. PICK isChained, freeProtect, chainLock \in BOOLEAN :
        IF isChained THEN RegisterChained(n, h, freeProtect, chainLock)
        ELSE RegisterPlain(n, h)
  BY DEF Register
<1>2. clearing = Idle /\ clearing' = Idle /\ ~Busy(n) /\ ~Busy(n)'
  BY DEF Register, Busy
<1>3. hi \in [Vectors -> HiEntry] /\ registered \in [Vectors -> Seq(Handlers)]
  BY DEF PlainInv, TypeOK
<1>4. NeverChained(n) /\ Recorded(n)
  BY DEF PlainInv, Plain
<1>5. CASE isChained
  <2>1. CASE ChainRefused(n)
    <3>1. hi'[n] = hi[n] /\ registered'[n] = registered[n]
      BY <1>1, <1>5, <2>1 DEF RegisterChained
    <3> QED BY <1>2, <1>4, <3>1 DEF Plain, NeverChained, Recorded, Emptying
  <2>2. CASE ~ChainRefused(n)
    <3>1. hi'[n] = [hi[n] EXCEPT !.hasHandler = TRUE, !.isChained = TRUE]
      BY <1>1, <1>3, <1>5, <2>2 DEF RegisterChained
    <3>2. hi'[n].isChained /\ hi'[n].initialized = hi[n].initialized
      BY <1>3, <3>1 DEF HiEntry
    <3>3. ~hi[n].initialized
      BY <1>4, <2>2 DEF ChainRefused, NeverChained
    <3> QED BY <1>2, <3>2, <3>3 DEF Plain, NeverChained, Recorded, Emptying
  <2> QED BY <2>1, <2>2
<1>6. CASE ~isChained
  <2>1. CASE PlainRefused(n)
    <3>1. hi'[n] = hi[n] /\ registered'[n] = registered[n]
      BY <1>1, <1>6, <2>1 DEF RegisterPlain
    <3> QED BY <1>2, <1>4, <3>1 DEF Plain, NeverChained, Recorded, Emptying
  <2>2. CASE ~PlainRefused(n)
    <3>1. hi'[n] = PlainEntry(h) /\ registered'[n] = Append(registered[n], h)
      BY <1>1, <1>3, <1>6, <2>2 DEF RegisterPlain
    <3>2. registered[n] = <<>>
      BY <1>2, <1>4, <2>2 DEF PlainRefused, Recorded
    <3>3. registered'[n] = <<h>>
      BY <3>1, <3>2
    <3> QED BY <1>2, <3>1, <3>3
            DEF Plain, NeverChained, Recorded, Emptying, PlainEntry
  <2> QED BY <2>1, <2>2
<1> QED BY <1>5, <1>6

(* clearInterrupt unhooks whatever clearChainedInterrupt left               *)
(* (isr.c:190-227).                                                         *)
LEMMA PlainClear ==
  ASSUME PlainInv, NEW n \in Vectors,
         ClearStart(n) \/ ClearEmpty(n) \/ ClearFinish(n) \/ ClearUnhook(n)
  PROVE  Plain(n)'
<1>1. /\ hi \in [Vectors -> HiEntry] /\ registered \in [Vectors -> Seq(Handlers)]
      /\ hi[n] \in HiEntry
  BY DEF PlainInv, TypeOK
<1>2. NeverChained(n) /\ Recorded(n) /\ Emptying(n)
  BY DEF PlainInv, Plain
<1>3. ASSUME ClearStart(n) PROVE Plain(n)'
  <2>1. Busy(n)' /\ clearing'.vector = n /\ registered' = registered
    BY <1>3 DEF ClearStart, Busy, Idle
  <2>2. CASE hi[n].isChained /\ ~ch[n].freeProtect
    <3>1. hi'[n] = [hi[n] EXCEPT !.hasHandler = FALSE, !.isChained = FALSE,
                                 !.chainProtect = TRUE]
      BY <1>1, <1>3, <2>2 DEF ClearStart
    <3>2. /\ ~hi'[n].hasHandler /\ ~hi'[n].isChained
          /\ hi'[n].initialized = hi[n].initialized
      BY <1>1, <3>1 DEF HiEntry
    <3>3. ~hi[n].initialized
      BY <1>2, <2>2 DEF NeverChained
    <3> QED BY <2>1, <3>2, <3>3 DEF Plain, NeverChained, Recorded, Emptying
  <2>3. CASE ~(hi[n].isChained /\ ~ch[n].freeProtect)
    <3>1. hi' = hi /\ clearing'.step = "unhook"
      BY <1>3, <2>3 DEF ClearStart
    <3> QED BY <1>2, <2>1, <3>1 DEF Plain, NeverChained, Recorded, Emptying
  <2> QED BY <2>2, <2>3
<1>4. ASSUME ClearEmpty(n) PROVE Plain(n)'
  BY <1>2, <1>4 DEF ClearEmpty, Plain, NeverChained, Recorded, Emptying, Busy
<1>5. ASSUME ClearFinish(n) PROVE Plain(n)'
  <2>1. Busy(n) /\ clearing.step = "empty" /\ Busy(n)' /\ clearing'.step = "unhook"
    BY <1>5 DEF ClearFinish, Busy, Idle
  <2>2. hi'[n] = [hi[n] EXCEPT !.chainProtect = FALSE] /\ registered' = registered
    BY <1>1, <1>5 DEF ClearFinish
  <2>3. hi'[n].initialized = hi[n].initialized /\ hi'[n].isChained = hi[n].isChained
    BY <1>1, <2>2 DEF HiEntry
  <2> QED BY <1>2, <2>1, <2>2, <2>3 DEF Plain, NeverChained, Recorded, Emptying
<1>6. ASSUME ClearUnhook(n) PROVE Plain(n)'
  <2>1. clearing' = Idle /\ ~Busy(n)'
    BY <1>6 DEF ClearUnhook, Busy
  <2>2. hi'[n] = [hi[n] EXCEPT !.hasHandler = FALSE, !.handler = Null]
    BY <1>1, <1>6 DEF ClearUnhook
  <2>3. /\ hi'[n].initialized = hi[n].initialized /\ hi'[n].isChained = hi[n].isChained
        /\ hi'[n].chainProtect = hi[n].chainProtect /\ ~hi'[n].hasHandler
    BY <1>1, <2>2 DEF HiEntry
  <2>4. ~hi[n].isChained => registered'[n] = <<>>
    BY <1>1, <1>6 DEF ClearUnhook
  <2> QED BY <1>2, <2>1, <2>3, <2>4 DEF Plain, NeverChained, Recorded, Emptying
<1> QED BY <1>3, <1>4, <1>5, <1>6

(* The invariant is kept by every step.                                     *)
LEMMA PlainStep == PlainInv /\ [Next]_vars => PlainInv'
<1> SUFFICES ASSUME PlainInv, [Next]_vars PROVE PlainInv'
  OBVIOUS
<1>1. TypeOK'
  BY TypeStep DEF PlainInv
<1>2. ASSUME NEW n \in Vectors, Step(n), NEW m \in Vectors PROVE Plain(m)'
  <2>1. CASE m = n
    BY <1>2, <2>1, PlainRegister, PlainClear DEF Step
  <2>2. CASE m # n
    <3>1. /\ hi'[m] = hi[m] /\ registered'[m] = registered[m]
          /\ ~Busy(m) /\ ~Busy(m)'
      BY <1>2, <2>2, OtherVectors DEF PlainInv
    <3>2. Plain(m)
      BY DEF PlainInv
    <3> QED BY <3>1, <3>2 DEF Plain, NeverChained, Recorded, Emptying
  <2> QED BY <2>1, <2>2
<1>3. ASSUME UNCHANGED vars, NEW m \in Vectors PROVE Plain(m)'
  <2>1. Plain(m)
    BY DEF PlainInv
  <2> QED BY <1>3, <2>1 DEF vars, Plain, NeverChained, Recorded, Emptying, Busy
<1>4. (\E n \in Vectors : Step(n)) \/ UNCHANGED vars
  BY DEF Next, Step
<1> QED BY <1>1, <1>2, <1>3, <1>4 DEF PlainInv

(* Registrations and clearings in any order: a vector that ever had a plain *)
(* handler is never turned into a chain (isr.c:121-141).                    *)
THEOREM PlainNeverChainedHolds == Spec => []PlainNeverChained
<1>1. PlainInv => PlainNeverChained
  BY DEF PlainInv, Plain, NeverChained, PlainNeverChained
<1> QED BY <1>1, PlainInit, PlainStep, PTL DEF Spec

-----------------------------------------------------------------------------
(* No step adds to a chain whose chainLock is set, and none starts a chain  *)
(* there again (isr.c:128, isr.h:28).                                       *)
LEMMA LockStep ==
  ASSUME TypeOK, [Next]_vars, NEW m \in Vectors, ch[m].chainLock
  PROVE  /\ ch'[m].totalHandlers <= ch[m].totalHandlers
         /\ hi'[m].isChained => hi[m].isChained
<1>1. /\ hi \in [Vectors -> HiEntry] /\ ch \in [Vectors -> ChEntry]
      /\ hi[m] \in HiEntry /\ ch[m] \in ChEntry /\ ch[m].totalHandlers \in Nat
  BY DEF TypeOK, ChEntry, Slots
<1>2. CASE hi'[m] = hi[m] /\ ch'[m] = ch[m]
  BY <1>1, <1>2
<1>3. ASSUME NEW h \in Handlers, NEW flags \in FlagSets, Register(m, h, flags)
      PROVE  ch'[m] = ch[m] /\ (hi'[m].isChained => hi[m].isChained)
  <2>1. PICK isChained, freeProtect, chainLock \in BOOLEAN :
          IF isChained THEN RegisterChained(m, h, freeProtect, chainLock)
          ELSE RegisterPlain(m, h)
    BY <1>3 DEF Register
  <2>2. ChainRefused(m)
    BY DEF ChainRefused
  <2>3. CASE isChained
    BY <2>1, <2>2, <2>3 DEF RegisterChained
  <2>4. CASE ~isChained
    BY <1>1, <2>1, <2>4 DEF RegisterPlain, PlainEntry
  <2> QED BY <2>3, <2>4
<1>4. ASSUME ClearStart(m)
      PROVE  ch'[m] = ch[m] /\ (hi'[m].isChained => hi[m].isChained)
  BY <1>1, <1>4 DEF ClearStart, HiEntry
<1>5. ASSUME ClearEmpty(m)
      PROVE  ch'[m].totalHandlers = ch[m].totalHandlers - 1 /\ hi'[m] = hi[m]
  BY <1>1, <1>5 DEF ClearEmpty, ChEntry
<1>6. ASSUME ClearFinish(m)
      PROVE  /\ ch'[m].totalHandlers = ch[m].totalHandlers
             /\ hi'[m].isChained = hi[m].isChained
  BY <1>1, <1>6 DEF ClearFinish, HiEntry, ChEntry
<1>7. ASSUME ClearUnhook(m)
      PROVE  ch'[m] = ch[m] /\ hi'[m].isChained = hi[m].isChained
  BY <1>1, <1>7 DEF ClearUnhook, HiEntry
<1>8. ASSUME NEW n \in Vectors, Step(n), n # m PROVE hi'[m] = hi[m] /\ ch'[m] = ch[m]
  BY <1>8, OtherVectors
<1>9. CASE UNCHANGED vars
  BY <1>2, <1>9 DEF vars
<1>10. CASE Step(m)
  BY <1>1, <1>3, <1>4, <1>5, <1>6, <1>7, <1>10 DEF Step
<1> QED BY <1>2, <1>8, <1>9, <1>10 DEF Next, Step

(* isr.h:28 "if this is set, no more handlers will be added", for any       *)
(* number of vectors and any order of registrations and clearings.          *)
THEOREM LockStopsGrowthHolds == Spec => LockStopsGrowth
<1>1. TypeOK /\ [Next]_vars =>
        [\A n \in Vectors :
           ch[n].chainLock => ch'[n].totalHandlers <= ch[n].totalHandlers
                              /\ (hi'[n].isChained => hi[n].isChained)]_vars
  BY LockStep
<1> QED BY <1>1, TypeInit, TypeStep, PTL DEF Spec, LockStopsGrowth

-----------------------------------------------------------------------------
(***************************************************************************)
(* What an interrupt calls.  The invariant says of each chain that it is   *)
(* alone, unless its vector is in shared, and that the array at address 0  *)
(* then holds its handlers; nothing is assumed of the flags of a           *)
(* registration, nor of how many vectors are chained, or which.            *)
(***************************************************************************)
InChain(n) ==
  hi[n].isChained =>
    /\ ch[n].initialized
    /\ n \notin shared /\ Len(registered[n]) <= ByteSize =>
         /\ Len(registered[n]) = ch[n].totalHandlers + 1
         /\ \A k \in 1..Len(registered[n]) : chainMem[k - 1] = registered[n][k]
Alone(n) ==
  hi[n].isChained /\ n \notin shared =>
    \A m \in Vectors \ {n} :
      ~hi[m].isChained /\ ~(Busy(m) /\ clearing.step = "empty")
NotInChain(n) ==
  ~hi[n].isChained =>
    /\ hi[n].hasHandler => hi[n].initialized
    /\ ch[n].initialized => Busy(n) /\ clearing.step = "empty"
Chain(n) == InChain(n) /\ Alone(n) /\ NotInChain(n)
ChainInv == PlainInv /\ \A n \in Vectors : Chain(n)

(* No vector is chained at first.                                           *)
LEMMA ChainInit == Init => ChainInv
<1> SUFFICES ASSUME Init, NEW n \in Vectors PROVE Chain(n)
  BY PlainInit DEF ChainInv
<1> QED BY DEF Init, Chain, InChain, Alone, NotInChain

(* A chain grows by one slot, the one after its last handler, and the       *)
(* handler goes there (isr.c:134-152).                                      *)
LEMMA ChainGrows ==
  ASSUME ChainInv, NEW n \in Vectors, NEW h \in Handlers,
         NEW freeProtect \in BOOLEAN, NEW chainLock \in BOOLEAN,
         RegisterChained(n, h, freeProtect, chainLock), ~ChainRefused(n),
         clearing = Idle
  PROVE  InChain(n)' /\ hi'[n].isChained
<1>1. /\ hi \in [Vectors -> HiEntry] /\ ch \in [Vectors -> ChEntry]
      /\ chainMem \in [Slots -> Handlers \union {Null, Wild}]
      /\ registered \in [Vectors -> Seq(Handlers)]
  BY DEF ChainInv, PlainInv, TypeOK
<1>2. hi[n] \in HiEntry /\ ch[n] \in ChEntry /\ registered[n] \in Seq(Handlers)
  BY <1>1
<1>3. ~hi[n].initialized
  BY <1>1 DEF ChainInv, PlainInv, Plain, NeverChained, ChainRefused
<1>4. ~Busy(n) /\ InChain(n) /\ NotInChain(n) /\ Recorded(n)
  BY <1>1 DEF ChainInv, Chain, PlainInv, Plain, Busy
<1>5. /\ hi'[n] = [hi[n] EXCEPT !.hasHandler = TRUE, !.isChained = TRUE]
      /\ ch'[n] = ChainEntry(n, freeProtect, chainLock)
      /\ chainMem' = [ChainBase(n) EXCEPT ![ChainPlace(n)] = h]
      /\ registered'[n] = Append(registered[n], h)
      /\ shared \subseteq shared'
  BY <1>1 DEF RegisterChained
<1>6. hi'[n].isChained
  BY <1>2, <1>5 DEF HiEntry
<1>7. /\ ch'[n].initialized /\ ch'[n].totalHandlers = ChainPlace(n)
      /\ ChainBase(n) = chainMem
  BY <1>3, <1>5 DEF ChainEntry, ChainBase
<1>8. /\ Len(registered[n]) \in Nat /\ Len(registered'[n]) = Len(registered[n]) + 1
      /\ \A k \in 1..(Len(registered[n]) + 1) :
           registered'[n][k] = IF k = Len(registered[n]) + 1 THEN h ELSE registered[n][k]
  BY <1>2, <1>5
<1>9. ASSUME n \notin shared', Len(registered'[n]) <= ByteSize
      PROVE  /\ ChainPlace(n) = Len(registered[n])
             /\ ChainPlace(n) \in Slots
             /\ \A k \in 1..Len(registered[n]) : chainMem[k - 1] = registered[n][k]
  <2>1. CASE hi[n].isChained
    <3>1. ChainPlace(n) = (ch[n].totalHandlers + 1) % ByteSize
      BY <1>3, <1>4, <2>1 DEF ChainPlace, InChain
    <3>2. n \notin shared /\ Len(registered[n]) <= ByteSize /\ Len(registered[n]) < ByteSize
      BY <1>5, <1>8, <1>9, VectorParameters
    <3>3. /\ ch[n].totalHandlers \in Nat
          /\ Len(registered[n]) = ch[n].totalHandlers + 1
          /\ \A k \in 1..Len(registered[n]) : chainMem[k - 1] = registered[n][k]
      <4>1. ch[n].totalHandlers \in Nat
        BY <1>2, VectorParameters DEF ChEntry, Slots
      <4> QED BY <1>4, <2>1, <3>2, <4>1 DEF InChain
    <3>4. ChainPlace(n) = ch[n].totalHandlers + 1
      <4> DEFINE t == ch[n].totalHandlers + 1
      <4>1. t \in Nat /\ t < ByteSize /\ ByteSize \in Nat
        BY <3>2, <3>3, VectorParameters
      <4> HIDE DEF t
      <4>2. t % ByteSize = t
        BY <4>1
      <4> QED BY <3>1, <4>2 DEF t
    <3>5. ChainPlace(n) \in Slots
      BY <3>2, <3>3, <3>4, VectorParameters DEF Slots
    <3> QED BY <3>3, <3>4, <3>5
  <2>2. CASE ~hi[n].isChained
    <3>1. ~ch[n].initialized /\ ~hi[n].hasHandler
      BY <1>3, <1>4, <2>2 DEF NotInChain
    <3>2. registered[n] = <<>> /\ Len(registered[n]) = 0
      BY <1>4, <2>2, <3>1 DEF Recorded
    <3>3. ChainPlace(n) = 0 /\ 0 \in Slots
      BY <1>3, <3>1, VectorParameters DEF ChainPlace, Slots
    <3> QED BY <3>2, <3>3
  <2> QED BY <2>1, <2>2
<1>10. ASSUME n \notin shared', Len(registered'[n]) <= ByteSize,
              NEW k \in 1..(Len(registered[n]) + 1)
       PROVE  chainMem'[k - 1] = registered'[n][k]
  <2>1. /\ ChainPlace(n) = Len(registered[n]) /\ ChainPlace(n) \in Slots
        /\ \A l \in 1..Len(registered[n]) : chainMem[l - 1] = registered[n][l]
    BY <1>9, <1>10
  <2>2. CASE k = Len(registered[n]) + 1
    <3>1. k - 1 = ChainPlace(n)
      BY <1>8, <2>1, <2>2
    <3> QED BY <1>1, <1>5, <1>7, <1>8, <2>1, <2>2, <3>1
  <2>3. CASE k # Len(registered[n]) + 1
    <3>1. k \in 1..Len(registered[n]) /\ k - 1 # ChainPlace(n) /\ k - 1 \in 0..ChainPlace(n)
      BY <1>8, <2>1, <2>3
    <3>2. k - 1 \in Slots
      BY <2>1, <3>1, VectorParameters DEF Slots
    <3>3. chainMem'[k - 1] = chainMem[k - 1]
      BY <1>1, <1>5, <1>7, <3>1, <3>2
    <3> QED BY <1>8, <2>1, <2>3, <3>1, <3>3
  <2> QED BY <2>2, <2>3
<1>11. ASSUME n \notin shared', Len(registered'[n]) <= ByteSize
       PROVE  Len(registered'[n]) = ch'[n].totalHandlers + 1
  BY <1>7, <1>8, <1>9, <1>11
<1> QED BY <1>6, <1>7, <1>8, <1>10, <1>11 DEF InChain

(* A registration on one vector: the chains of all others share the array   *)
(* from then on, if it started one or added to one (isr.c:80-185).          *)
LEMMA ChainRegister ==
  ASSUME ChainInv, NEW n \in Vectors, NEW h \in Handlers,
         NEW flags \in FlagSets, Register(n, h, flags), NEW m \in Vectors
  PROVE  Chain(m)'
<1>1. PICK isChained, freeProtect, chainLock \in BOOLEAN :
        IF isChained THEN RegisterChained(n, h, freeProtect, chainLock)
        ELSE RegisterPlain(n, h)
  BY DEF Register
<1>2. clearing = Idle /\ clearing' = Idle /\ \A v : ~Busy(v) /\ ~Busy(v)'
  BY DEF Register, Busy
<1>3. hi \in [Vectors -> HiEntry] /\ ch \in [Vectors -> ChEntry]
      /\ registered \in [Vectors -> Seq(Handlers)]
  BY DEF ChainInv, PlainInv, TypeOK
<1>4. Chain(m) /\ Chain(n)
  BY DEF ChainInv
<1>5. CASE UNCHANGED <<hi, ch, chainMem, registered, shared>>
  BY <1>2, <1>4, <1>5 DEF Chain, InChain, Alone, NotInChain
<1>6. CASE isChained /\ ~ChainRefused(n)
  <2>1. /\ hi' = [hi EXCEPT ![n] = [@ EXCEPT !.hasHandler = TRUE, !.isChained = TRUE]]
        /\ ch' = [ch EXCEPT ![n] = ChainEntry(n, freeProtect, chainLock)]
        /\ shared' = IF OtherChains(n) = {} THEN shared
                     ELSE shared \union {n} \union OtherChains(n)
    BY <1>1, <1>6 DEF RegisterChained
  <2>2. InChain(n)' /\ hi'[n].isChained
    BY <1>1, <1>2, <1>6, ChainGrows
  <2>3. \A v \in Vectors \ {n} : hi'[v] = hi[v] /\ ch'[v] = ch[v]
    BY <1>3, <2>1
  <2>4. \A v \in Vectors \ {n} : hi[v].isChained => v \in OtherChains(n) /\ v \in shared' /\ n \in shared'
    BY <2>1 DEF OtherChains
  <2>5. CASE m = n
    <3>1. Alone(n)'
      BY <1>2, <2>3, <2>4 DEF Alone
    <3> QED BY <2>2, <2>5, <3>1 DEF Chain, NotInChain
  <2>6. CASE m # n /\ hi[m].isChained
    <3>1. m \in shared' /\ hi'[m] = hi[m] /\ ch'[m] = ch[m]
      BY <2>3, <2>4, <2>6
    <3> QED BY <1>4, <2>6, <3>1 DEF Chain, InChain, Alone, NotInChain
  <2>7. CASE m # n /\ ~hi[m].isChained
    <3>1. hi'[m] = hi[m] /\ ch'[m] = ch[m]
      BY <2>3, <2>7
    <3> QED BY <1>2, <1>4, <2>7, <3>1 DEF Chain, InChain, Alone, NotInChain
  <2> QED BY <2>5, <2>6, <2>7
<1>7. CASE ~isChained /\ ~PlainRefused(n)
  <2>1. /\ hi' = [hi EXCEPT ![n] = PlainEntry(h)]
        /\ registered' = [registered EXCEPT ![n] = Append(@, h)]
        /\ ch' = ch /\ chainMem' = chainMem /\ shared' = shared
    BY <1>1, <1>7 DEF RegisterPlain
  <2>2. hi'[n] = PlainEntry(h) /\ ~hi'[n].isChained /\ hi'[n].initialized
    BY <1>3, <2>1 DEF PlainEntry
  <2>3. \A v \in Vectors \ {n} : hi'[v] = hi[v] /\ registered'[v] = registered[v]
    BY <1>3, <2>1
  <2>4. CASE m = n
    <3>1. ~ch[n].initialized
      BY <1>2, <1>4, <1>7 DEF Chain, NotInChain, PlainRefused
    <3> QED BY <2>1, <2>2, <2>4, <3>1 DEF Chain, InChain, Alone, NotInChain
  <2>5. CASE m # n
    <3>1. hi'[m] = hi[m] /\ registered'[m] = registered[m]
      BY <2>3, <2>5
    <3>2. \A v \in Vectors : hi'[v].isChained => hi[v].isChained
      BY <2>2, <2>3
    <3> QED BY <1>2, <1>4, <2>1, <3>1, <3>2 DEF Chain, InChain, Alone, NotInChain
  <2> QED BY <2>4, <2>5
<1> QED BY <1>1, <1>5, <1>6, <1>7 DEF RegisterChained, RegisterPlain

(* clearInterrupt takes the whole chain away or nothing of it, and writes   *)
(* to the shared array only what no chain that is alone has there           *)
(* (isr.c:190-227).                                                         *)
LEMMA ChainClear ==
  ASSUME ChainInv, NEW n \in Vectors,
         ClearStart(n) \/ ClearEmpty(n) \/ ClearFinish(n) \/ ClearUnhook(n),
         NEW m \in Vectors
  PROVE  Chain(m)'
<1>1. /\ hi \in [Vectors -> HiEntry] /\ ch \in [Vectors -> ChEntry]
      /\ hi[n] \in HiEntry /\ ch[n] \in ChEntry
      /\ registered \in [Vectors -> Seq(Handlers)]
  BY DEF ChainInv, PlainInv, TypeOK
<1>2. Chain(m) /\ Chain(n) /\ Emptying(n)
  BY DEF ChainInv, PlainInv, Plain
<1>3. m # n => /\ hi'[m] = hi[m] /\ ch'[m] = ch[m] /\ registered'[m] = registered[m]
               /\ ~Busy(m) /\ ~Busy(m)'
  <2> SUFFICES ASSUME m # n
               PROVE  /\ hi'[m] = hi[m] /\ ch'[m] = ch[m] /\ registered'[m] = registered[m]
                      /\ ~Busy(m) /\ ~Busy(m)'
    OBVIOUS
  <2>1. Step(n)
    BY DEF Step
  <2> QED BY <2>1, OtherVectors DEF ChainInv, PlainInv
<1>4. CASE ClearStart(n) /\ hi[n].isChained /\ ~ch[n].freeProtect
  <2>1. /\ hi' = [hi EXCEPT ![n] = [@ EXCEPT !.hasHandler = FALSE, !.isChained = FALSE,
                                          !.chainProtect = TRUE]]
        /\ shared' = shared \ {n} /\ ch' = ch /\ chainMem' = chainMem /\ registered' = registered
        /\ clearing' = [step |-> "empty", vector |-> n]
    BY <1>4 DEF ClearStart
  <2>2. ~hi'[n].isChained /\ ~hi'[n].hasHandler /\ Busy(n)' /\ clearing'.step = "empty"
    BY <1>1, <2>1 DEF HiEntry, Busy, Idle
  <2>3. CASE m = n
    BY <2>2, <2>3 DEF Chain, InChain, Alone, NotInChain
  <2>4. CASE m # n
    <3>1. hi[m].isChained => m \in shared /\ m \in shared'
      BY <1>2, <1>4, <2>1, <2>4 DEF Chain, Alone
    <3> QED BY <1>2, <1>3, <2>1, <2>4, <3>1 DEF Chain, InChain, Alone, NotInChain
  <2> QED BY <2>3, <2>4
<1>5. CASE ClearStart(n) /\ ~(hi[n].isChained /\ ~ch[n].freeProtect)
  <2>1. /\ UNCHANGED <<hi, ch, chainMem, registered, shared>>
        /\ clearing = Idle /\ clearing'.step = "unhook"
    BY <1>5 DEF ClearStart
  <2>2. \A v : ~Busy(v)
    BY <2>1 DEF Busy
  <2> QED BY <1>2, <2>1, <2>2 DEF Chain, InChain, Alone, NotInChain
<1>6. CASE ClearEmpty(n)
  <2>1. /\ Busy(n) /\ Busy(n)' /\ clearing.step = "empty" /\ clearing' = clearing
        /\ hi' = hi /\ shared' = shared /\ registered' = registered
    BY <1>6 DEF ClearEmpty, Busy, Idle
  <2>2. CASE m = n
    BY <1>2, <2>1, <2>2 DEF Chain, InChain, Alone, NotInChain, Emptying
  <2>3. CASE m # n
    <3>1. hi[m].isChained => m \in shared
      BY <1>2, <2>1, <2>3 DEF Chain, Alone
    <3>2. Alone(m)'
      BY <1>2, <2>1 DEF Chain, Alone, Busy
    <3> QED BY <1>2, <1>3, <2>1, <2>3, <3>1, <3>2 DEF Chain, InChain, NotInChain
  <2> QED BY <2>2, <2>3
<1>7. CASE ClearFinish(n)
  <2>1. /\ Busy(n) /\ clearing.step = "empty" /\ clearing'.step = "unhook"
        /\ chainMem' = chainMem /\ shared' = shared /\ registered' = registered
    BY <1>7 DEF ClearFinish, Busy, Idle
  <2>2. /\ hi' = [hi EXCEPT ![n].chainProtect = FALSE]
        /\ ch' = [ch EXCEPT ![n].initialized = FALSE]
    BY <1>7 DEF ClearFinish
  <2>3. hi'[n] = [hi[n] EXCEPT !.chainProtect = FALSE] /\ ch'[n] = [ch[n] EXCEPT !.initialized = FALSE]
    BY <1>1, <2>2
  <2>4. /\ hi'[n].isChained = hi[n].isChained /\ hi'[n].hasHandler = hi[n].hasHandler
        /\ ~ch'[n].initialized
    BY <1>1, <2>3 DEF HiEntry, ChEntry
  <2>5. CASE m = n
    BY <1>2, <2>1, <2>4, <2>5 DEF Chain, InChain, Alone, NotInChain, Emptying
  <2>6. CASE m # n
    <3>1. \A v \in Vectors : hi'[v].isChained = hi[v].isChained
      BY <1>1, <2>2, <2>4
    <3>2. Alone(m)'
      BY <1>2, <2>1, <3>1 DEF Chain, Alone
    <3> QED BY <1>2, <1>3, <2>1, <2>6, <3>2 DEF Chain, InChain, NotInChain
  <2> QED BY <2>5, <2>6
<1>8. CASE ClearUnhook(n)
  <2>1. /\ ch' = ch /\ chainMem' = chainMem /\ shared' = shared
        /\ clearing.step = "unhook" /\ clearing' = Idle /\ \A v : ~Busy(v)'
        /\ registered' = IF hi[n].isChained THEN registered ELSE [registered EXCEPT ![n] = <<>>]
        /\ hi' = [hi EXCEPT ![n] = [@ EXCEPT !.hasHandler = FALSE, !.handler = Null]]
    BY <1>8 DEF ClearUnhook, Busy
  <2>2. hi'[n] = [hi[n] EXCEPT !.hasHandler = FALSE, !.handler = Null]
    BY <1>1, <2>1
  <2>3. hi'[n].isChained = hi[n].isChained /\ ~hi'[n].hasHandler
    BY <1>1, <2>2 DEF HiEntry
  <2>4. \A v \in Vectors : hi'[v].isChained = hi[v].isChained
    BY <1>1, <2>1, <2>3
  <2>5. Alone(m)'
    BY <1>2, <2>1, <2>4 DEF Chain, Alone
  <2>6. CASE m = n
    BY <1>2, <2>1, <2>3, <2>5, <2>6 DEF Chain, InChain, NotInChain
  <2>7. CASE m # n
    BY <1>2, <1>3, <2>1, <2>5, <2>7 DEF Chain, InChain, NotInChain
  <2> QED BY <2>6, <2>7
<1> QED BY <1>4, <1>5, <1>6, <1>7, <1>8

(* The invariant is kept by every step.                                     *)
LEMMA ChainStep == ChainInv /\ [Next]_vars => ChainInv'
<1> SUFFICES ASSUME ChainInv, [Next]_vars PROVE ChainInv'
  OBVIOUS
<1>1. PlainInv'
  BY PlainStep DEF ChainInv
<1>2. ASSUME NEW n \in Vectors, Step(n), NEW m \in Vectors PROVE Chain(m)'
  BY <1>2, ChainRegister, ChainClear DEF Step
<1>3. ASSUME UNCHANGED vars, NEW m \in Vectors PROVE Chain(m)'
  <2>1. Chain(m)
    BY DEF ChainInv
  <2> QED BY <1>3, <2>1 DEF vars, Chain, InChain, Alone, NotInChain, Busy
<1>4. (\E n \in Vectors : Step(n)) \/ UNCHANGED vars
  BY DEF Next, Step
<1> QED BY <1>1, <1>2, <1>3, <1>4 DEF ChainInv

(* What a chain calls is what was registered on its vector.                 *)
LEMMA ChainCallsRegistered ==
  ASSUME ChainInv, NEW n \in Vectors, hi[n].isChained, Holds(n)
  PROVE  ChainCalls(n) = registered[n]
<1>1. registered[n] \in Seq(Handlers)
  BY DEF ChainInv, PlainInv, TypeOK
<1>2. /\ Len(registered[n]) = ch[n].totalHandlers + 1
      /\ \A k \in 1..Len(registered[n]) : chainMem[k - 1] = registered[n][k]
  BY DEF ChainInv, Chain, InChain, Holds
<1>3. registered[n] = [k \in 1..Len(registered[n]) |-> registered[n][k]]
  BY <1>1
<1>4. ChainCalls(n) = [k \in 1..Len(registered[n]) |-> chainMem[k - 1]]
  BY <1>2 DEF ChainCalls
<1>5. [k \in 1..Len(registered[n]) |-> chainMem[k - 1]]
        = [k \in 1..Len(registered[n]) |-> registered[n][k]]
  BY <1>2
<1> QED BY <1>3, <1>4, <1>5

(* At any instant an interrupt on a vector calls exactly the handlers that  *)
(* were registered on it, or none while it is being cleared; on a chained   *)
(* vector as long as it is an exception, alone in the array of the chains   *)
(* and within the count of an uint8_t (isr.c:44-65, 239-251).  The flags    *)
(* that a registration does not pass may be anything (isr.c:91).            *)
THEOREM CallsOnlyRegisteredHolds == Spec => []CallsOnlyRegistered
<1>1. ChainInv => CallsOnlyRegistered
  <2> SUFFICES ASSUME ChainInv, NEW n \in Vectors, Holds(n)
               PROVE  Calls(n) = registered[n] \/ (Busy(n) /\ Calls(n) = <<>>)
    BY DEF CallsOnlyRegistered
  <2>1. CASE hi[n].isChained
    <3>1. n \notin IrqVectors
      BY <2>1 DEF Holds
    <3> QED BY <2>1, <3>1, ChainCallsRegistered DEF Calls, IsrCalls
  <2>2. CASE ~hi[n].isChained
    <3>1. Calls(n) = IF hi[n].hasHandler THEN <<hi[n].handler>> ELSE <<>>
      BY <2>2 DEF Calls, IsrCalls, IrqCalls
    <3> QED BY <2>2, <3>1 DEF ChainInv, PlainInv, Plain, Recorded
  <2> QED BY <2>1, <2>2
<1> QED BY <1>1, ChainInit, ChainStep, PTL DEF Spec
=============================================================================
