------------------------------ MODULE MCPaging ------------------------------
(***************************************************************************)
(* Instances of Paging for TLC.  Tables of four pages, so that the loop    *)
(* that maps low memory makes tables and moves its own bound; bitmap words *)
(* of four bits.  WordsReturned is what first_frame leaves in its return   *)
(* register when compiled without optimisation: the last loop bound read.  *)
(***************************************************************************)
EXTENDS Paging
MCTableSpan == 4
MCWordBits == 4
MCFrameSize == 64
WordsReturned == {NFrames \div WordBits}
=============================================================================
