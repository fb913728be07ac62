------------------------------ MODULE MCInitrd ------------------------------
(***************************************************************************)
(* An instance of Initrd for TLC: a file that takes three pages of two     *)
(* bytes, one that fits a page, and, like the image the makefile builds,   *)
(* an empty log at the end.                                                *)
(***************************************************************************)
EXTENDS Initrd
MCLengths == <<5, 2, 0>>
MCWordSize == 64
=============================================================================
