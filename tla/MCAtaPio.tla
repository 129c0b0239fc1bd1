------------------------------ MODULE MCAtaPio ------------------------------
(* AtaPio with registers of two bits.  LBA28 then addresses 128 sectors, and  *)
(* a track has 3 of them.                                                     *)
EXTENDS AtaPio

\* The last sector of a cylinder, the last one of LBA28, and the first of LBA48.
LbasValue == {5, 127, 128}
CountsValue == {1, 2}
=============================================================================
