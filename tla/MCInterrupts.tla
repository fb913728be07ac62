---------------------------- MODULE MCInterrupts ----------------------------
(***************************************************************************)
(* An instance of Interrupts for TLC: exception vectors e1 and e2 and the  *)
(* hardware interrupt q.                                                   *)
(***************************************************************************)
EXTENDS Interrupts, TLC
CONSTANTS e1, e2, q, h1, h2
MCVectors == {e1, e2, q}
MCIrqVectors == {q}
MCHandlers == {h1, h2}
MCFlagSets == {{}, {"CHAINED_INTERRUPT", "FREE_PROTECT"}}
MCSymmetry == Permutations(MCHandlers) \union Permutations({e1, e2})
=============================================================================
