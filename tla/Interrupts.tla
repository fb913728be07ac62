----------------------------- MODULE Interrupts -----------------------------
(***************************************************************************)
(* The interrupt handler tables of hal/x86/interrupts/isr.c: one plain     *)
(* handler per vector, or a chain of handlers.  Registration runs with     *)
(* interrupts off and is one step; clearInterrupt is not, and an interrupt *)
(* may arrive between any two of its steps.  What an interrupt on a vector *)
(* would call in the current state is the operator Calls.                  *)
(*                                                                         *)
(* The pointer chainedInterrupts[n].handlers is never set to anything but  *)
(* NULL, so the chains of all vectors are the same array, the memory at    *)
(* address 0: chainMem.                                                    *)
(***************************************************************************)
EXTENDS Integers, Sequences

CONSTANTS
  Vectors,        \* interrupt numbers below TOTAL_INTERRUPTS
  IrqVectors,     \* those that enter by irq_handler, 32 and above
  Handlers,       \* the clients' handler functions
  Null,           \* the NULL handler
  Wild,           \* what memory at address 0 held before
  ByteSize,       \* 2^8: totalHandlers is an uint8_t
  MaxChain,       \* bound: handlers registered on one vector
  FlagSets,       \* the sets of flags that clients pass
  Garbage         \* values an uninitialised bool of the stack may have

Flags == {"CHAINED_INTERRUPT", "CHAIN_PROTECT", "FREE_PROTECT", "CHAIN_LOCK"}
ASSUME VectorParameters ==
  /\ IrqVectors \subseteq Vectors
  /\ Null \notin Handlers /\ Wild \notin Handlers /\ Wild # Null
  /\ ByteSize \in Nat \ {0} /\ MaxChain \in Nat
  /\ FlagSets \subseteq SUBSET Flags /\ Garbage \subseteq BOOLEAN /\ Garbage # {}

Slots == 0..(ByteSize - 1)

VARIABLES
  hi,             \* hiIntHandler
  ch,             \* chainedInterrupts, without the handlers pointer
  chainMem,       \* the array all chains share
  clearing,       \* what clearInterrupt is doing: [step, vector]
  registered,     \* history: handlers accepted on a vector and not cleared
  shared          \* history: vectors that were a chain beside another one
vars == <<hi, ch, chainMem, clearing, registered, shared>>

HiEntry == [initialized : BOOLEAN, hasHandler : BOOLEAN, isChained : BOOLEAN,
            chainProtect : BOOLEAN, handler : Handlers \union {Null}]
ChEntry == [initialized : BOOLEAN, freeProtect : BOOLEAN, chainLock : BOOLEAN,
            totalHandlers : Slots]
Idle == [step |-> "idle", vector |-> Null]

(* Both tables are static: zero.                                           *)
Init ==
  /\ hi = [n \in Vectors |->
             [initialized |-> FALSE, hasHandler |-> FALSE, isChained |-> FALSE,
              chainProtect |-> FALSE, handler |-> Null]]
  /\ ch = [n \in Vectors |->
             [initialized |-> FALSE, freeProtect |-> FALSE, chainLock |-> FALSE,
              totalHandlers |-> 0]]
  /\ chainMem = [s \in Slots |-> Wild]
  /\ clearing = Idle
  /\ registered = [n \in Vectors |-> <<>>] /\ shared = {}

(***************************************************************************)
(* The handlers an interrupt on n runs, in order: chainedIsrHandler and    *)
(* isr_handler, or irq_handler, which knows nothing of chains.             *)
(***************************************************************************)
ChainCalls(n) == [k \in 1..(ch[n].totalHandlers + 1) |-> chainMem[k - 1]]
IrqCalls(n) == IF hi[n].hasHandler THEN <<hi[n].handler>> ELSE <<>>
IsrCalls(n) ==
  IF hi[n].isChained THEN ChainCalls(n)
  ELSE IF hi[n].hasHandler THEN <<hi[n].handler>> ELSE <<>>
Calls(n) == IF n \in IrqVectors THEN IrqCalls(n) ELSE IsrCalls(n)

(***************************************************************************)
(* registerInterruptHandler.  A flag that is not passed leaves its local   *)
(* variable uninitialised.  "if (chainProtect = true)" assigns, so every   *)
(* plain registration protects the vector.                                 *)
(***************************************************************************)
Local(flag, flags, value) == IF flag \in flags THEN value = TRUE ELSE value \in Garbage

ChainRefusedUnlocked(n) == hi[n].chainProtect
ChainRefused(n) ==
  \/ hi[n].hasHandler /\ ~hi[n].isChained /\ hi[n].chainProtect
  \/ hi[n].chainProtect \/ ch[n].chainLock

(* Lines 136-151: a vector with a plain handler would move it into the new  *)
(* chain; another one starts its chain or takes the next place.             *)
ChainPlace(n) ==
  IF hi[n].initialized THEN 1 % ByteSize
  ELSE IF ch[n].initialized THEN (ch[n].totalHandlers + 1) % ByteSize
  ELSE 0
ChainBase(n) ==
  IF hi[n].initialized THEN [chainMem EXCEPT ![0] = hi[n].handler] ELSE chainMem
ChainEntry(n, freeProtect, chainLock) ==
  [initialized |-> TRUE, totalHandlers |-> ChainPlace(n),
   freeProtect |-> ch[n].freeProtect \/ freeProtect,
   chainLock |-> ch[n].chainLock \/ chainLock]

OtherChains(n) == {m \in Vectors \ {n} : hi[m].isChained}
RegisterChained(n, h, freeProtect, chainLock) ==
  IF ChainRefused(n) THEN UNCHANGED <<hi, ch, chainMem, registered, shared>>
  ELSE /\ hi' = [hi EXCEPT ![n] = [@ EXCEPT !.hasHandler = TRUE, !.isChained = TRUE]]
       /\ ch' = [ch EXCEPT ![n] = ChainEntry(n, freeProtect, chainLock)]
       /\ chainMem' = [ChainBase(n) EXCEPT ![ChainPlace(n)] = h]
       /\ registered' = [registered EXCEPT ![n] = Append(@, h)]
       /\ shared' = IF OtherChains(n) = {} THEN shared
                    ELSE shared \union {n} \union OtherChains(n)

PlainRefused(n) == hi[n].hasHandler \/ hi[n].isChained
PlainEntry(h) ==
  [initialized |-> TRUE, hasHandler |-> TRUE, isChained |-> FALSE,
   chainProtect |-> TRUE, handler |-> h]
RegisterPlain(n, h) ==
  IF PlainRefused(n) THEN UNCHANGED <<hi, ch, chainMem, registered, shared>>
  ELSE /\ hi' = [hi EXCEPT ![n] = PlainEntry(h)]
       /\ registered' = [registered EXCEPT ![n] = Append(@, h)]
       /\ UNCHANGED <<ch, chainMem, shared>>

Register(n, h, flags) ==
  /\ clearing = Idle
  /\ Len(registered[n]) < MaxChain
  /\ \E isChained, freeProtect, chainLock \in BOOLEAN :
       /\ Local("CHAINED_INTERRUPT", flags, isChained)
       /\ Local("FREE_PROTECT", flags, freeProtect)
       /\ Local("CHAIN_LOCK", flags, chainLock)
       /\ IF isChained THEN RegisterChained(n, h, freeProtect, chainLock)
          ELSE RegisterPlain(n, h)
  /\ UNCHANGED clearing

(***************************************************************************)
(* clearInterrupt.  On a chained vector it calls clearChainedInterrupt,    *)
(* which gives up on a protected chain; clearInterrupt ignores that and    *)
(* goes on.  Each step below is what runs between two points where an      *)
(* interrupt may be taken.                                                 *)
(***************************************************************************)
ClearStartHooked(n) ==
  /\ clearing = Idle /\ (hi[n].isChained \/ hi[n].hasHandler)
  /\ IF hi[n].isChained /\ ~ch[n].freeProtect
     THEN /\ clearing' = [step |-> "empty", vector |-> n]
          /\ hi' = [hi EXCEPT ![n] = [@ EXCEPT !.hasHandler = FALSE, !.chainProtect = TRUE]]
          /\ shared' = shared \ {n}
     ELSE /\ clearing' = [step |-> "unhook", vector |-> n]
          /\ UNCHANGED <<hi, shared>>
  /\ UNCHANGED <<ch, chainMem, registered>>
ClearStart(n) ==
  /\ clearing = Idle /\ (hi[n].isChained \/ hi[n].hasHandler)
  /\ IF hi[n].isChained /\ ~ch[n].freeProtect
     THEN /\ clearing' = [step |-> "empty", vector |-> n]
          /\ hi' = [hi EXCEPT ![n] = [@ EXCEPT !.hasHandler = FALSE, !.isChained = FALSE,
                                            !.chainProtect = TRUE]]
          /\ shared' = shared \ {n}
     ELSE /\ clearing' = [step |-> "unhook", vector |-> n]
          /\ UNCHANGED <<hi, shared>>
  /\ UNCHANGED <<ch, chainMem, registered>>

(* One turn of the loop that empties the chain, from its end; slot 0 stays. *)
ClearEmpty(n) ==
  /\ clearing = [step |-> "empty", vector |-> n]
  /\ ch[n].totalHandlers # 0
  /\ chainMem' = [chainMem EXCEPT ![ch[n].totalHandlers] = Null]
  /\ ch' = [ch EXCEPT ![n] = [@ EXCEPT !.totalHandlers = ch[n].totalHandlers - 1]]
  /\ UNCHANGED <<hi, clearing, registered, shared>>

ClearFinish(n) ==
  /\ clearing = [step |-> "empty", vector |-> n]
  /\ ch[n].totalHandlers = 0
  /\ ch' = [ch EXCEPT ![n].initialized = FALSE]
  /\ hi' = [hi EXCEPT ![n].chainProtect = FALSE]
  /\ clearing' = [step |-> "unhook", vector |-> n]
  /\ UNCHANGED <<chainMem, registered, shared>>

(* What stays a chain, being protected, keeps its handlers.                 *)
ClearUnhook(n) ==
  /\ clearing = [step |-> "unhook", vector |-> n]
  /\ hi' = [hi EXCEPT ![n] = [@ EXCEPT !.hasHandler = FALSE, !.handler = Null]]
  /\ clearing' = Idle
  /\ registered' = IF hi[n].isChained THEN registered ELSE [registered EXCEPT ![n] = <<>>]
  /\ UNCHANGED <<ch, chainMem, shared>>

Next ==
  \E n \in Vectors :
    \/ \E h \in Handlers, flags \in FlagSets : Register(n, h, flags)
    \/ ClearStart(n) \/ ClearEmpty(n) \/ ClearFinish(n) \/ ClearUnhook(n)

Spec == Init /\ [][Next]_vars

-----------------------------------------------------------------------------
TypeOK ==
  /\ hi \in [Vectors -> HiEntry]
  /\ ch \in [Vectors -> ChEntry]
  /\ chainMem \in [Slots -> Handlers \union {Null, Wild}]
  /\ clearing \in [step : {"empty", "unhook"}, vector : Vectors] \union {Idle}
  /\ registered \in [Vectors -> Seq(Handlers)] /\ shared \subseteq Vectors

Busy(n) == clearing # Idle /\ clearing.vector = n

(* The chains the tables can hold: of an exception, since irq_handler knows *)
(* none and calls the NULL that a chain leaves in handler; alone in the     *)
(* array that all chains share; and no longer than an uint8_t counts.       *)
Holds(n) ==
  hi[n].isChained => n \notin IrqVectors /\ n \notin shared /\ Len(registered[n]) <= ByteSize

(* At any instant, also between two steps of clearInterrupt, and whatever   *)
(* the uninitialised flags of the registrations were, an interrupt calls    *)
(* exactly the functions that were registered on its vector and not         *)
(* cleared, or, while that vector is being cleared, none: never some of a   *)
(* chain, a NULL pointer or another vector's handler.  It is claimed of     *)
(* plain handlers and of the chains the tables can hold (isr.c:44-65,       *)
(* 239-251 against 80-227).                                                 *)
CallsOnlyRegistered ==
  \A n \in Vectors :
    Holds(n) => Calls(n) = registered[n] \/ (Busy(n) /\ Calls(n) = <<>>)

(* A vector that ever had a plain handler is protected and never becomes a  *)
(* chain: lines 136-141, which would move a plain handler into a new chain, *)
(* are never reached.                                                       *)
PlainNeverChained ==
  \A n \in Vectors : hi[n].initialized => hi[n].chainProtect /\ ~hi[n].isChained

(* isr.h:28: once chainLock is set no more handlers are added to the chain, *)
(* not even after the chain was cleared.                                    *)
LockStopsGrowth ==
  [][\A n \in Vectors :
       ch[n].chainLock => ch'[n].totalHandlers <= ch[n].totalHandlers
                          /\ (hi'[n].isChained => hi[n].isChained)]_vars

=============================================================================
