--------------------------- MODULE MCKmallocLoop ---------------------------
(***************************************************************************)
(* KmallocLoop for TLC: one run of two blocks at boot, then requests of    *)
(* one and of two blocks, so that the scan also counts free blocks that    *)
(* are not next to each other.                                             *)
(***************************************************************************)
EXTENDS KmallocLoop, TLC

OneStack == <<2>>
=============================================================================
