----------------------------- MODULE MCKmalloc -----------------------------
(***************************************************************************)
(* Kmalloc for TLC.  Boot asks for two runs of two blocks, the kernel      *)
(* stack and the interrupt stack (kernel.c:41 and 44).                     *)
(***************************************************************************)
EXTENDS Kmalloc, TLC

BootOfKernelMain == <<2, 2>>

\* Owners are interchangeable: no definition singles one out.
OwnerSymmetry == Permutations(Owners)
=============================================================================
