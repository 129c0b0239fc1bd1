------------------------------- MODULE MCBoot -------------------------------
(***************************************************************************)
(* Boot for TLC: tables of 13 entries.  Pages 0 to 5 are named, 6 to 9 are *)
(* the stack, 10 and 11 the heap; entry 3 of a directory is the kernel's.  *)
(***************************************************************************)
EXTENDS Boot

Empty(d) == {p \in Places : d[p] = "none"}

\* Up to two places in use, and four.
BusesValue ==
  {d \in [Places -> Kinds] : Cardinality(Empty(d)) >= 2}
  \cup {d \in [Places -> {"ATA", "ATAPI"}] : d[3] = "ATA"}
MapBusesValue == {d \in BusesValue : d[0] = "ATA" /\ Cardinality(Empty(d)) = 3}
=============================================================================
