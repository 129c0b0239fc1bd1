---------------------------- MODULE MCInterrupts ----------------------------
(***************************************************************************)
(* Interrupts for TLC: the timer, the keyboard, the first line of the      *)
(* slave PIC and the IDE channel, an exception without and two with an     *)
(* error code.                                                             *)
(***************************************************************************)
EXTENDS Interrupts
=============================================================================
