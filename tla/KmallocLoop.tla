---------------------------- MODULE KmallocLoop ----------------------------
(***************************************************************************)
(* kmalloc() and kfree() (kernel/kmalloc.c) one loop iteration at a time:  *)
(* the scan of the map, the loop that locks the run, the clearing of the   *)
(* block, the loop of kfree.  The names of the variables are those of the  *)
(* locals in the code.                                                     *)
(*                                                                         *)
(* The module adds to Kmalloc.tla, in which a whole call is one step: its  *)
(* variables are what the clients of a call see.  For them the call takes  *)
(* effect when it returns, so k_memory_map is here the map as it was at    *)
(* the last return, and map_now what the loops make of it.                 *)
(***************************************************************************)
EXTENDS Kmalloc

CONSTANT Nobody  \* the caller while no call runs

ASSUME LoopAssumption == Nobody \notin Owners

VARIABLES
  map_now,            \* the byte map, also inside a call
  pc,                 \* where the kernel is: "idle" outside both functions
  caller,             \* the pointer the call is about
  block_count,        \* the argument
  current_block_id, found_block_count, starting_block_id, c  \* locals

call == <<caller, block_count>>
locals == <<current_block_id, found_block_count, starting_block_id, c>>
loop_vars == <<vars, map_now, pc, call, locals>>

LoopInit ==
  /\ Init
  /\ map_now = k_memory_map
  /\ pc = "idle"
  /\ caller = Nobody
  /\ block_count = 0
  /\ current_block_id = 0 /\ found_block_count = 0
  /\ starting_block_id = 0 /\ c = 0

CallKmalloc(o, n) ==
  /\ pc = "idle" /\ ~exited /\ held[o] = Nothing
  /\ MayRequest(n)
  /\ pc' = "scan"
  /\ caller' = o /\ block_count' = n
  /\ UNCHANGED <<vars, map_now, locals>>

\* Variant: the loop does not advance.
StayAtBlock == current_block_id' = current_block_id

NextBlock == current_block_id' = current_block_id + 1

\* One iteration of the scan; it falls out into the locking loop when the
\* count is reached.
ScanBlock ==
  LET free  == map_now[current_block_id] = 0
      found == found_block_count + (IF free THEN 1 ELSE 0)
      start == IF free /\ found_block_count = 0
               THEN current_block_id ELSE starting_block_id
  IN /\ pc = "scan" /\ ~exited /\ current_block_id < Entries
     /\ found_block_count' = found /\ starting_block_id' = start
     /\ \/ /\ found = block_count
           /\ pc' = "lock" /\ c' = start
           /\ UNCHANGED current_block_id
        \/ /\ found # block_count
           /\ NextBlock
           /\ UNCHANGED <<pc, c>>
     /\ UNCHANGED <<vars, map_now, call>>

\* The scan ran through the map: kernel_exit(2).
ScanFails ==
  /\ pc = "scan" /\ ~exited /\ current_block_id = Entries
  /\ exited' = TRUE
  /\ UNCHANGED <<k_memory_map, memory, held, boot, map_now, pc, call, locals>>

LockBlock ==
  /\ pc = "lock" /\ c < starting_block_id + block_count
  /\ map_now' = [map_now EXCEPT ![c] = 1]
  /\ c' = c + 1
  /\ UNCHANGED <<vars, pc, call, current_block_id, found_block_count, starting_block_id>>

\* Variant: found_block_count is not initialised for the next call.
ReturnKeepsCount ==
  /\ pc' = "idle"
  /\ caller' = Nobody /\ block_count' = 0
  /\ current_block_id' = 0 /\ UNCHANGED found_block_count
  /\ starting_block_id' = 0 /\ c' = 0
  /\ k_memory_map' = map_now
  /\ UNCHANGED map_now

\* The locals and the arguments of a call end with it.
Return ==
  /\ pc' = "idle"
  /\ caller' = Nobody /\ block_count' = 0
  /\ current_block_id' = 0 /\ found_block_count' = 0
  /\ starting_block_id' = 0 /\ c' = 0
  /\ k_memory_map' = map_now
  /\ UNCHANGED map_now

\* memory_set(block_address, 0, BLOCK_SIZE) and the return.
ClearAndReturn ==
  /\ pc = "lock" /\ c = starting_block_id + block_count
  /\ memory' = [memory EXCEPT ![starting_block_id] = Zero]
  /\ held' = [held EXCEPT ![caller] = [address |-> starting_block_id * BlockSize,
                                       block_count |-> block_count]]
  /\ boot' = IF boot = <<>> THEN <<>> ELSE Tail(boot)
  /\ Return
  /\ UNCHANGED exited

\* Variant: the block of a pointer is found by rounding up.
CallKfreeRoundsUp(o, offset) ==
  LET start == (held[o].address + offset + BlockSize - 1) \div BlockSize
  IN /\ pc = "idle" /\ ~exited /\ boot = <<>> /\ held[o] # Nothing
     /\ pc' = "unlock"
     /\ caller' = o /\ block_count' = held[o].block_count
     /\ starting_block_id' = start /\ c' = start
     /\ UNCHANGED <<vars, map_now, current_block_id, found_block_count>>

\* kfree's starting_block is a local of its own, of the same meaning.
CallKfree(o, offset) ==
  LET start == (held[o].address + offset) \div BlockSize
  IN /\ pc = "idle" /\ ~exited /\ boot = <<>> /\ held[o] # Nothing
     /\ pc' = "unlock"
     /\ caller' = o /\ block_count' = held[o].block_count
     /\ starting_block_id' = start /\ c' = start
     /\ UNCHANGED <<vars, map_now, current_block_id, found_block_count>>

UnlockBlock ==
  /\ pc = "unlock" /\ c < starting_block_id + block_count
  /\ map_now' = [map_now EXCEPT ![c] = 0]
  /\ c' = c + 1
  /\ UNCHANGED <<vars, pc, call, current_block_id, found_block_count, starting_block_id>>

ReturnFromKfree ==
  /\ pc = "unlock" /\ c = starting_block_id + block_count
  /\ held' = [held EXCEPT ![caller] = Nothing]
  /\ Return
  /\ UNCHANGED <<memory, boot, exited>>

\* Between calls a client may write into its memory.
UseBetween(o) ==
  /\ pc = "idle"
  /\ UNCHANGED <<map_now, pc, call, locals>>
  /\ Use(o)

LoopHalted == exited /\ UNCHANGED loop_vars

Step == ScanBlock \/ ScanFails \/ LockBlock \/ ClearAndReturn
        \/ UnlockBlock \/ ReturnFromKfree

LoopNext ==
  \/ \E o \in Owners, n \in Requests : CallKmalloc(o, n)
  \/ \E o \in Owners, offset \in 0 .. BlockSize - 1 : CallKfree(o, offset)
  \/ \E o \in Owners : UseBetween(o)
  \/ Step
  \/ LoopHalted

\* The kernel's thread is never descheduled inside a call: an interrupt
\* handler runs and returns.
LoopSpec == LoopInit /\ [][LoopNext]_loop_vars /\ WF_loop_vars(Step)

-----------------------------------------------------------------------------
\* Types and ranges.
LoopTypeOK ==
  /\ TypeOK
  /\ map_now \in [Blocks -> {0, 1}]
  /\ pc \in {"idle", "scan", "lock", "unlock"}
  /\ caller \in Owners \cup {Nobody}
  /\ pc = "idle" => k_memory_map = map_now
  /\ block_count \in Nat
  /\ {current_block_id, found_block_count, starting_block_id} \subseteq 0 .. Entries
  /\ c \in 0 .. Entries

\* Both loops write inside the map, although the run that kmalloc locks
\* begins at the first free block of a count that need not be contiguous.
WritesInsideMap ==
  pc \in {"lock", "unlock"} =>
    starting_block_id .. starting_block_id + block_count - 1 \subseteq Blocks

\* The loop invariant of the scan: found_block_count is the number of free
\* blocks passed, starting_block_id the first of them, and the count asked
\* for is not reached yet.
Passed == {b \in Blocks : b < current_block_id /\ map_now[b] = 0}
ScanCounts ==
  pc = "scan" => /\ found_block_count = Cardinality(Passed)
                 /\ found_block_count < block_count
                 /\ Passed # {} => starting_block_id = Min(Passed)

\* What is held lies inside the map, from the first byte of a block on.
HeldInside ==
  \A o \in Owners : \E s \in 0 .. Entries :
    held[o].address = s * BlockSize /\ s + held[o].block_count <= Entries

\* The map as the loops leave it: the blocks before c have the new value.
Written(value) ==
  /\ c \in starting_block_id .. starting_block_id + block_count
  /\ map_now = [b \in Blocks |-> IF b \in starting_block_id .. c - 1
                                 THEN value ELSE k_memory_map[b]]

\* Where a call is, for its clients: what Kmalloc.tla requires of the step that
\* its return is.
CallsAgree ==
  /\ pc = "idle" => {current_block_id, found_block_count} = {0}
  /\ pc \in {"idle", "scan"} => k_memory_map = map_now
  /\ pc # "idle" => caller \in Owners
  /\ exited => pc = "scan"
  /\ pc \in {"scan", "lock"} =>
       held[caller] = Nothing /\ block_count \in Requests /\ MayRequest(block_count)
  /\ pc = "lock" => /\ Cardinality(Free) >= block_count
                    /\ starting_block_id = Min(Free)
                    /\ Written(1)
  /\ pc = "unlock" => /\ boot = <<>> /\ held[caller] # Nothing
                      /\ block_count = held[caller].block_count
                      /\ starting_block_id * BlockSize = held[caller].address
                      /\ Written(0)

\* The loop invariant of both functions: nothing a call leaves behind, in the
\* map or in a counter, makes a later scan miscount or a loop leave the map.
LoopIInv == LoopTypeOK /\ WritesInsideMap /\ ScanCounts /\ HeldInside /\ CallsAgree

\* The loops compute what the atomic actions of Kmalloc.tla say.
ImplementsAtomic == Spec

\* Every call comes to an end: it returns or the kernel exits.
CallsEnd == pc # "idle" ~> (pc = "idle" \/ exited)
=============================================================================
