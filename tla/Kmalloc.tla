------------------------------ MODULE Kmalloc ------------------------------
(***************************************************************************)
(* The kernel's block allocator (kernel/kmalloc.c): a byte map with one    *)
(* entry per block, kmalloc() that locks a run of entries and hands out    *)
(* the address of its first block, kfree() that unlocks it again.          *)
(*                                                                         *)
(* kmalloc and kfree run to completion on the kernel's only thread and no  *)
(* interrupt handler calls either, so each call is one action here;        *)
(* KmallocLoop.tla breaks the same calls into their loop iterations.       *)
(*                                                                         *)
(* The search loop never resets found_block_count when it meets a locked   *)
(* block: it counts the free blocks of the whole map, and starting_block_id*)
(* is the first free one, whether or not the blocks after it are free.     *)
(***************************************************************************)
EXTENDS Integers, Sequences, FiniteSets, FiniteSetsExt

CONSTANTS
  Entries,    \* k_memory_map_entries
  BlockSize,  \* BLOCK_SIZE, in bytes
  Owners,     \* pointer variables of the kernel that can hold a result
  BootSizes,  \* block_counts kernel_main asks for before anything is freed
  Sizes,      \* block_counts asked for afterwards
  Zero        \* contents of a block filled with zero bytes

ASSUME KmallocAssumption ==
  /\ Entries \in Nat \ {0}
  /\ BlockSize \in Nat \ {0}
  /\ BootSizes \in Seq(Nat \ {0})
  /\ Sizes \in SUBSET (Nat \ {0})
  /\ Zero \notin Owners

VARIABLES
  k_memory_map,  \* 0 free, 1 locked
  memory,        \* who filled each block of kmalloc_memory last, or Zero
  held,          \* held[o]: the address and block_count o was given
  boot,          \* the requests of kernel_main still to come
  exited         \* kernel_exit(2), "out of kernel memory", was called

vars == <<k_memory_map, memory, held, boot, exited>>

Blocks  == 0 .. Entries - 1

\* Variant: the scan stops one entry early.
FreeButLast == {b \in 0 .. Entries - 2 : k_memory_map[b] = 0}

Free == {b \in Blocks : k_memory_map[b] = 0}

Nothing == [address |-> 0, block_count |-> 0]

\* The blocks [address, address + count * BLOCK_SIZE) falls on, for any
\* address inside the first of them: kfree divides, dropping the remainder.
Run(address, count) ==
  LET start == address \div BlockSize IN start .. start + count - 1

BlocksOf(o) == Run(held[o].address, held[o].block_count)

TypeOK ==
  /\ k_memory_map \in [Blocks -> {0, 1}]
  /\ memory \in [Blocks -> Owners \cup {Zero}]
  /\ held \in [Owners -> [address : Nat, block_count : Nat]]
  /\ boot \in Seq(Nat \ {0})
  /\ exited \in BOOLEAN

\* .bss: no block is locked, all of kmalloc_memory is zero.
Init ==
  /\ k_memory_map = [b \in Blocks |-> 0]
  /\ memory = [b \in Blocks |-> Zero]
  /\ held = [o \in Owners |-> Nothing]
  /\ boot = BootSizes
  /\ exited = FALSE

-----------------------------------------------------------------------------
\* Variant: the two runs kernel_main asks for are also asked for later.
RequestAny(n) == n \in Sizes \cup {BootSizes[i] : i \in DOMAIN BootSizes}

\* The order of requests: those of kernel_main first, one after the other.
MayRequest(n) == IF boot = <<>> THEN n \in Sizes ELSE n = Head(boot)
Requests == Sizes \cup {BootSizes[i] : i \in DOMAIN BootSizes}

\* kmalloc(n), when the scan of the map counts n free blocks.  memory_set
\* clears BLOCK_SIZE bytes, the first block of the run, whatever n is.
Kmalloc(o, n) ==
  LET start == Min(Free)
      address == start * BlockSize
  IN /\ ~exited /\ held[o] = Nothing /\ MayRequest(n)
     /\ Cardinality(Free) >= n
     /\ k_memory_map' = [b \in Blocks |-> IF b \in Run(address, n)
                                          THEN 1 ELSE k_memory_map[b]]
     /\ memory' = [memory EXCEPT ![start] = Zero]
     /\ held' = [held EXCEPT ![o] = [address |-> address, block_count |-> n]]
     /\ boot' = IF boot = <<>> THEN <<>> ELSE Tail(boot)
     /\ UNCHANGED exited

\* kmalloc(n), when the scan reaches the end of the map: kernel_exit(2).
KmallocExits(n) ==
  /\ ~exited /\ MayRequest(n)
  /\ Cardinality(Free) < n
  /\ exited' = TRUE
  /\ UNCHANGED <<k_memory_map, memory, held, boot>>

\* Variant: the block of a pointer is found by rounding up.
KfreeRoundsUp(o, offset) ==
  LET p == held[o].address + offset + BlockSize - 1
  IN /\ ~exited /\ boot = <<>> /\ held[o] # Nothing
     /\ k_memory_map' = [b \in Blocks |->
            IF b \in Run(p, held[o].block_count) THEN 0 ELSE k_memory_map[b]]
     /\ held' = [held EXCEPT ![o] = Nothing]
     /\ UNCHANGED <<memory, boot, exited>>

\* kfree(p, n) with the block_count of the request and a pointer p that may
\* have been advanced inside the first block (ext2_find_file_inode does).
Kfree(o, offset) ==
  /\ ~exited /\ boot = <<>> /\ held[o] # Nothing
  /\ k_memory_map' = [b \in Blocks |->
         IF b \in Run(held[o].address + offset, held[o].block_count)
         THEN 0 ELSE k_memory_map[b]]
  /\ held' = [held EXCEPT ![o] = Nothing]
  /\ UNCHANGED <<memory, boot, exited>>

\* A client fills the memory it was given.
Use(o) ==
  /\ ~exited /\ held[o] # Nothing
  /\ memory' = [b \in Blocks |-> IF b \in BlocksOf(o) THEN o ELSE memory[b]]
  /\ UNCHANGED <<k_memory_map, held, boot, exited>>

\* for (;;) {} at the end of kernel_exit.
Halted == exited /\ UNCHANGED vars

Next ==
  \/ \E o \in Owners, n \in Requests : Kmalloc(o, n)
  \/ \E n \in Requests : KmallocExits(n)
  \/ \E o \in Owners, offset \in 0 .. BlockSize - 1 : Kfree(o, offset)
  \/ \E o \in Owners : Use(o)
  \/ Halted

Spec == Init /\ [][Next]_vars

-----------------------------------------------------------------------------
\* Two pointers the kernel holds never share a block (kmalloc must not hand
\* out a block somebody still uses, kfree must not release one).
NoOverlap ==
  \A o1, o2 \in Owners : o1 # o2 => BlocksOf(o1) \cap BlocksOf(o2) = {}

\* The byte map agrees with who holds what: an entry is 1 exactly when some
\* pointer covers the block, and every run lies inside the map, so the
\* locking loop of kmalloc and the clearing loop of kfree stay inside
\* k_memory_map.
MapExact ==
  /\ \A b \in Blocks : k_memory_map[b] = 1 <=> \E o \in Owners : b \in BlocksOf(o)
  /\ \A o \in Owners : BlocksOf(o) \subseteq Blocks

\* The inductive invariant behind the three above, for a kernel that asks
\* for single blocks once it has booted: addresses are block addresses, and
\* until the last boot request is served the free blocks are the upper end of
\* the map (nothing has been freed yet), which is why a request for more than
\* one block finds a run there.
BlockAddresses == \A o \in Owners : \E s \in Blocks : held[o].address = s * BlockSize
BootContiguous == boot # <<>> => \E k \in 0 .. Entries : Free = k .. Entries - 1
IInv == TypeOK /\ BlockAddresses /\ MapExact /\ NoOverlap /\ BootContiguous

\* kernel_exit(2) says "out of kernel memory" only when it is: fewer blocks
\* than were being asked for are unheld.
ExitsOnlyWhenFull ==
  exited => \E n \in Requests :
              /\ MayRequest(n)
              /\ Cardinality(Blocks \ UNION {BlocksOf(o) : o \in Owners}) < n

\* What a client wrote stays until that client writes again or frees it: no
\* call on behalf of another pointer changes it (memory_set in kmalloc clears
\* only the new run).
KeepsData ==
  [][\A o \in Owners : held'[o] = held[o] =>
       \A b \in BlocksOf(o) : memory'[b] \in {memory[b], o}]_vars

\* The comments "found a long enough sequence" and "lock all blocks in
\* sequence" (kmalloc.c:28 and 32): the blocks kmalloc locks were all free.
FoundSequence ==
  [][\A o \in Owners : held[o] = Nothing /\ held'[o] # Nothing =>
       Run(held'[o].address, held'[o].block_count) \subseteq Free]_vars

\* kmalloc and kfree implement the contract of BlockPool.
Pool == INSTANCE BlockPool WITH
  owned <- [o \in Owners |-> BlocksOf(o)],
  refused <- exited,
  MaxRun <- Max(Sizes)

ImplementsPool == Pool!Spec
=============================================================================
