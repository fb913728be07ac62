----------------------------- MODULE MCFormat -----------------------------
(* An instance of Format for TLC: words of three hexadecimal digits, at the   *)
(* boundaries of digits, nibbles and the sign bit.                          *)
EXTENDS Format
MCWords == {0, 9, 16, 261, 2047, 2048, 4095}
MCTexts == {<<>>, <<"t", "%", "i">>}
MCBehind == {<<>>, <<"plain", NUL>>}
=============================================================================
