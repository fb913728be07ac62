----------------------------- MODULE MCConsole -----------------------------
(***************************************************************************)
(* An instance of Console for TLC: a status bar and three rows of three    *)
(* columns, so that a handful of characters wrap and scroll; clear_calls   *)
(* wraps at four.                                                          *)
(***************************************************************************)
EXTENDS Console
MCColumns == 3
MCRows == 4
MCWordSize == 64
MCLetters == <<"a", "b", "c", "d">>
MCBehind == {<<>>, <<"a">>, <<"b", "newline">>}
MCPanicText == <<"P", "newline", "Q", "R">>
=============================================================================
