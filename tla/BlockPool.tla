----------------------------- MODULE BlockPool -----------------------------
(***************************************************************************)
(* What a block allocator promises to its clients: an owner that asks for  *)
(* memory gets a contiguous run of blocks that nobody else holds, keeps it *)
(* until it gives it back, and is refused only when there really are too   *)
(* few blocks left.  Where the run lies and how it is found is left open.  *)
(* Kmalloc.tla implements this specification.                              *)
(***************************************************************************)
EXTENDS Integers, FiniteSets

CONSTANTS
  Blocks,  \* the blocks of the pool, an interval of the naturals
  Owners,  \* whoever can hold a run
  MaxRun   \* no request that can be refused asks for more blocks than this

VARIABLES
  owned,   \* owned[o] is the set of blocks o holds
  refused  \* a request was refused, which ends the run of the kernel

vars == <<owned, refused>>

Available == Blocks \ UNION {owned[o] : o \in Owners}

IsRun(S) == \E first, last \in S : S = first .. last

TypeOK ==
  /\ owned \in [Owners -> SUBSET Blocks]
  /\ refused \in BOOLEAN

Init ==
  /\ owned = [o \in Owners |-> {}]
  /\ refused = FALSE

Grant(o) ==
  /\ ~refused
  /\ owned[o] = {}
  /\ \E S \in SUBSET Available :
       /\ IsRun(S)
       /\ owned' = [owned EXCEPT ![o] = S]
  /\ UNCHANGED refused

Return(o) ==
  /\ ~refused
  /\ owned[o] # {}
  /\ owned' = [owned EXCEPT ![o] = {}]
  /\ UNCHANGED refused

\* A request may be refused only when fewer than MaxRun blocks are left.
Refuse ==
  /\ ~refused
  /\ Cardinality(Available) < MaxRun
  /\ refused' = TRUE
  /\ UNCHANGED owned

Next ==
  \/ \E o \in Owners : Grant(o) \/ Return(o)
  \/ Refuse

Spec == Init /\ [][Next]_vars
=============================================================================
