----------------------------- MODULE MCConsole -----------------------------
(***************************************************************************)
(* Console for TLC.  A screen of 3 by 3 cells and registers with 4 values: *)
(* the last cell, 8, and the first ones off the screen, 9 to 11, share the *)
(* high register, as 1999 and 2000 to 2047 do in the real one.             *)
(***************************************************************************)
EXTENDS Console

Texts == {<<"letter">>, <<"letter", "letter">>, <<"letter", "newline">>}
=============================================================================
