------------------------------- MODULE MCBoot -------------------------------
(* An instance of Boot for TLC: the tick, the keyboard, the disk's line on  *)
(* the slave controller; a double fault, a general protection fault, which *)
(* has no handler, and a page fault.                                       *)
EXTENDS Boot
MCLines == {0, 1, 14}
MCExceptions == {8, 13, 14}
MCSoftVectors == {3, 13, 32, 46}
=============================================================================
