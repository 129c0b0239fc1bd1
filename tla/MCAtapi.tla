------------------------------ MODULE MCAtapi ------------------------------
(***************************************************************************)
(* Atapi for TLC: reads of one and of two sectors, one after the other.    *)
(***************************************************************************)
EXTENDS Atapi
=============================================================================
