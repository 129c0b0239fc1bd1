--------------------------- MODULE KmallocProofs ---------------------------
(***************************************************************************)
(* Theorems about Kmalloc and KmallocLoop for every number of entries,     *)
(* block size, set of owners and sequence of boot requests: first the      *)
(* calls as single steps, then the loops, which stay inside the map and    *)
(* compute what those calls say.                                           *)
(***************************************************************************)
EXTENDS KmallocLoop, FiniteSetTheorems, SequenceTheorems, WellFoundedInduction, TLAPS

\* < on the naturals as a set of pairs, which well-foundedness is about.
LEMMA LessThanPairs == \A a, b \in Nat : a < b => <<a, b>> \in OpToRel(<, Nat)
  BY Zenon DEF OpToRel

\* The minimum of a nonempty set of naturals is its least element.
LEMMA MinOfNat ==
  ASSUME NEW S \in SUBSET Nat, S # {}
  PROVE  Min(S) \in S /\ \A y \in S : Min(S) <= y
<1>1. PICK x \in S : \A y \in S : ~ (<<y, x>> \in OpToRel(<, Nat))
  BY NatLessThanWellFounded, WFMin
<1>2. \A y \in S : ~ (y < x)
  BY <1>1, LessThanPairs, Zenon
<1>3. \A y \in S : x <= y
  BY <1>2
<1> QED
  BY <1>3, Zenon DEF Min

\* An address anywhere inside block s stands for the run that starts at s:
\* kfree's division undoes the multiplication of kmalloc.
LEMMA RunAt ==
  ASSUME NEW s \in Nat, NEW offset \in 0 .. BlockSize - 1, NEW n
  PROVE  Run(s * BlockSize + offset, n) = s .. s + n - 1
<1>1. (s * BlockSize + offset) \div BlockSize = s
  BY KmallocAssumption, SMT
<1> QED
  BY <1>1 DEF Run

\* The run from the first byte of a block begins with that block.
LEMMA RunAtBlock ==
  ASSUME NEW s \in Nat, NEW n
  PROVE  Run(s * BlockSize, n) = s .. s + n - 1
<1>1. 0 \in 0 .. BlockSize - 1 /\ s * BlockSize + 0 = s * BlockSize
  BY KmallocAssumption, SMT
<1> QED
  BY <1>1, RunAt

\* Nobody asks for no blocks.
LEMMA RequestsPositive == Requests \subseteq Nat \ {0}
<1>1. DOMAIN BootSizes = 1 .. Len(BootSizes)
  BY KmallocAssumption, LenProperties
<1>2. \A i \in 1 .. Len(BootSizes) : BootSizes[i] \in Nat \ {0}
  BY KmallocAssumption, ElementOfSeq, Zenon
<1> QED
  BY <1>1, <1>2, KmallocAssumption DEF Requests

\* Whatever is asked for, the run kmalloc locks starts at the first free
\* block and ends inside the map: counting n free blocks from there on leaves
\* room for n entries.
LEMMA LockedRun ==
  ASSUME TypeOK, NEW n \in Nat \ {0}, Cardinality(Free) >= n
  PROVE  /\ Min(Free) \in Free
         /\ \A b \in Free : Min(Free) <= b
         /\ Run(Min(Free) * BlockSize, n) = Min(Free) .. Min(Free) + n - 1
         /\ Min(Free) + n <= Entries
<1>1. IsFiniteSet(Blocks) /\ Free \in SUBSET Blocks /\ Blocks \subseteq Nat
  BY FS_Interval, KmallocAssumption DEF Blocks, Free
<1>2. IsFiniteSet(Free) /\ Free # {}
  <2>1. IsFiniteSet(Free)
    BY <1>1, FS_Subset
  <2>2. ASSUME Free = {} PROVE FALSE
    <3>1. Cardinality(Free) = 0
      BY <2>2, FS_EmptySet
    <3> QED
      BY <3>1
  <2> QED
    BY <2>1, <2>2
<1>3. Min(Free) \in Free /\ \A b \in Free : Min(Free) <= b
  BY <1>1, <1>2, MinOfNat
<1>4. Run(Min(Free) * BlockSize, n) = Min(Free) .. Min(Free) + n - 1
  BY <1>1, <1>3, RunAtBlock
<1>5. Min(Free) + n <= Entries
  <2>1. PICK m \in Nat : m = Min(Free) /\ m \in 0 .. Entries - 1
    BY <1>1, <1>3 DEF Blocks
  <2>2. m \in Int /\ Entries - 1 \in Int /\ ~(m > Entries - 1)
    BY <2>1, KmallocAssumption
  <2>3. /\ IsFiniteSet(m .. Entries - 1)
        /\ Cardinality(m .. Entries - 1) = Entries - 1 - m + 1
    BY <2>2, FS_Interval
  <2>4. Free \in SUBSET (m .. Entries - 1)
    BY <1>1, <1>3, <2>1, KmallocAssumption DEF Blocks
  <2>5. Cardinality(Free) <= Cardinality(m .. Entries - 1)
    BY <2>3, <2>4, FS_Subset
  <2>6. Cardinality(Free) \in Nat
    BY <1>2, FS_CardinalityType
  <2> QED
    BY <2>1, <2>3, <2>5, <2>6, KmallocAssumption
<1> QED
  BY <1>3, <1>4, <1>5

-----------------------------------------------------------------------------
\* What .bss and the constants give is well typed.
LEMMA InitTypeOK == Init => TypeOK
<1> SUFFICES ASSUME Init PROVE TypeOK
  OBVIOUS
<1>1. boot \in Seq(Nat \ {0})
  BY KmallocAssumption DEF Init
<1>2. held \in [Owners -> [address : Nat, block_count : Nat]]
  BY DEF Init, Nothing
<1> QED
  BY <1>1, <1>2 DEF Init, TypeOK

\* Each call leaves every variable well typed.
LEMMA NextTypeOK ==
  ASSUME TypeOK, [Next]_vars
  PROVE  TypeOK'
<1>1. ASSUME NEW o \in Owners, NEW n \in Requests, Kmalloc(o, n) PROVE TypeOK'
  <2>1. n \in Nat \ {0}
    BY RequestsPositive
  <2>2. Min(Free) \in Blocks
    BY <1>1, <2>1, LockedRun DEF Kmalloc, Free
  <2>3. Min(Free) * BlockSize \in Nat
    BY <2>2, KmallocAssumption, SMT DEF Blocks
  <2>4. held' \in [Owners -> [address : Nat, block_count : Nat]]
    BY <1>1, <2>1, <2>3 DEF Kmalloc, TypeOK
  <2>5. boot' \in Seq(Nat \ {0})
    BY <1>1, EmptySeq, HeadTailProperties DEF Kmalloc, TypeOK
  <2> QED
    BY <1>1, <2>4, <2>5 DEF Kmalloc, TypeOK
<1>2. ASSUME NEW n \in Requests, KmallocExits(n) PROVE TypeOK'
  BY <1>2 DEF KmallocExits, TypeOK
<1>3. ASSUME NEW o \in Owners, NEW offset \in 0 .. BlockSize - 1, Kfree(o, offset)
      PROVE  TypeOK'
  BY <1>3 DEF Kfree, TypeOK, Nothing
<1>4. ASSUME NEW o \in Owners, Use(o) PROVE TypeOK'
  BY <1>4 DEF Use, TypeOK
<1>5. CASE UNCHANGED vars
  BY <1>5 DEF vars, TypeOK
<1> QED
  BY <1>1, <1>2, <1>3, <1>4, <1>5 DEF Next, Halted

\* Every variable keeps its type, whatever sizes are asked for.
THEOREM TypeCorrect == Spec => []TypeOK
<1>1. TypeOK /\ [Next]_vars => TypeOK'
  BY NextTypeOK
<1> QED
  BY InitTypeOK, <1>1, PTL DEF Spec

-----------------------------------------------------------------------------
\* For a kernel that asks for single blocks after boot, the blocks kmalloc
\* locks are all free.  Before the last boot request the free blocks are an
\* interval and the run is a prefix of it; afterwards the run is one block.
LEMMA LockedRunWasFree ==
  ASSUME IInv, Sizes \subseteq {1},
         NEW n \in Nat \ {0}, MayRequest(n), Cardinality(Free) >= n
  PROVE  Min(Free) .. Min(Free) + n - 1 \subseteq Free
<1>1. /\ Min(Free) \in Free
      /\ \A b \in Free : Min(Free) <= b
      /\ Min(Free) + n <= Entries
  BY LockedRun DEF IInv
<1>2. CASE boot = <<>>
  <2>1. n = 1 /\ Min(Free) \in Int
    BY <1>1, <1>2 DEF MayRequest, Free, Blocks
  <2>2. Min(Free) .. Min(Free) + n - 1 = {Min(Free)}
    BY <2>1
  <2> QED
    BY <1>1, <2>2
<1>3. CASE boot # <<>>
  <2>1. PICK k \in 0 .. Entries : Free = k .. Entries - 1
    BY <1>3 DEF IInv, BootContiguous
  <2>2. Min(Free) \in Int
    BY <1>1 DEF Free, Blocks
  <2> QED
    BY <1>1, <2>1, <2>2, KmallocAssumption
<1> QED
  BY <1>2, <1>3

\* At first nothing is held and all of the map is free.
LEMMA InitInv == Init => IInv
<1> SUFFICES ASSUME Init PROVE IInv
  OBVIOUS
<1>1. TypeOK
  BY InitTypeOK
<1>2. \A o \in Owners : held[o] = Nothing
  BY DEF Init
<1>3. \A o \in Owners : BlocksOf(o) = {}
  <2>1. Run(0 * BlockSize, 0) = {} /\ 0 * BlockSize = 0
    BY RunAtBlock, KmallocAssumption
  <2> QED
    BY <1>2, <2>1 DEF BlocksOf, Nothing
<1>4. BlockAddresses
  BY <1>2, KmallocAssumption DEF BlockAddresses, Nothing, Blocks
<1>5. MapExact /\ NoOverlap
  BY <1>3 DEF MapExact, NoOverlap, Init
<1>6. BootContiguous
  <2>1. Free = 0 .. Entries - 1
    BY DEF Init, Free, Blocks
  <2> QED
    BY <2>1, KmallocAssumption DEF BootContiguous
<1> QED
  BY <1>1, <1>4, <1>5, <1>6 DEF IInv

\* kmalloc keeps the map exact and its runs apart.
LEMMA KmallocInv ==
  ASSUME IInv, Sizes \subseteq {1}, NEW o \in Owners, NEW n \in Requests,
         Kmalloc(o, n)
  PROVE  IInv'
<1> DEFINE start == Min(Free)
           run == start .. start + n - 1
<1>1. n \in Nat \ {0} /\ Cardinality(Free) >= n /\ MayRequest(n)
  BY RequestsPositive DEF Kmalloc
<1>2. /\ start \in Free
      /\ \A b \in Free : start <= b
      /\ Run(start * BlockSize, n) = run
      /\ start + n <= Entries
  BY <1>1, LockedRun DEF IInv
<1>3. run \subseteq Free /\ start \in Blocks
  BY <1>1, <1>2, LockedRunWasFree DEF Free
<1>4. TypeOK'
  BY NextTypeOK DEF IInv, Next
<1>5. /\ BlocksOf(o)' = run
      /\ \A p \in Owners \ {o} : BlocksOf(p)' = BlocksOf(p)
  BY <1>2 DEF Kmalloc, BlocksOf, IInv, TypeOK
<1>6. k_memory_map' = [b \in Blocks |-> IF b \in run THEN 1 ELSE k_memory_map[b]]
  BY <1>2 DEF Kmalloc
<1>7. Free' = Free \ run
  BY <1>3, <1>6 DEF Free
<1>8. BlocksOf(o) = {}
  <2>1. Run(0 * BlockSize, 0) = {} /\ 0 * BlockSize = 0
    BY RunAtBlock, KmallocAssumption
  <2> QED
    BY <2>1 DEF Kmalloc, BlocksOf, Nothing
<1>9. BlockAddresses'
  BY <1>3 DEF Kmalloc, BlockAddresses, IInv, TypeOK, Blocks
<1>10. MapExact'
  <2>1. \A b \in Blocks : k_memory_map'[b] = 1 <=> \E p \in Owners : b \in BlocksOf(p)'
    BY <1>5, <1>6, <1>8 DEF MapExact, IInv
  <2>2. \A p \in Owners : BlocksOf(p)' \subseteq Blocks
    BY <1>3, <1>5 DEF MapExact, IInv, Free
  <2> QED
    BY <2>1, <2>2 DEF MapExact
<1>11. NoOverlap'
  <2>1. \A p \in Owners : BlocksOf(p) \cap run = {}
    BY <1>3 DEF MapExact, IInv, Free
  <2> QED
    BY <1>5, <2>1 DEF NoOverlap, IInv
<1>12. BootContiguous'
  <2> SUFFICES ASSUME boot' # <<>> PROVE \E k \in 0 .. Entries : Free' = k .. Entries - 1
    BY DEF BootContiguous
  <2>1. boot # <<>>
    BY DEF Kmalloc
  <2>2. PICK k \in 0 .. Entries : Free = k .. Entries - 1
    BY <2>1 DEF IInv, BootContiguous
  <2>3. start = k
    BY <1>2, <1>3, <2>2, KmallocAssumption DEF Blocks
  <2>4. Free' = k + n .. Entries - 1
    BY <1>1, <1>7, <2>2, <2>3, KmallocAssumption
  <2> QED
    BY <1>1, <1>2, <2>3, <2>4, KmallocAssumption
<1> QED
  BY <1>4, <1>9, <1>10, <1>11, <1>12 DEF IInv

\* So does kfree.
LEMMA KfreeInv ==
  ASSUME IInv, NEW o \in Owners, NEW offset \in 0 .. BlockSize - 1, Kfree(o, offset)
  PROVE  IInv'
<1>1. PICK s \in Nat : held[o].address = s * BlockSize
  BY DEF IInv, BlockAddresses, Blocks
<1>2. Run(held[o].address + offset, held[o].block_count) = BlocksOf(o)
  BY <1>1, RunAt, RunAtBlock DEF BlocksOf
<1>3. TypeOK'
  BY NextTypeOK DEF IInv, Next
<1>4. /\ BlocksOf(o)' = {}
      /\ \A p \in Owners \ {o} : BlocksOf(p)' = BlocksOf(p)
  <2>1. Run(0 * BlockSize, 0) = {} /\ 0 * BlockSize = 0
    BY RunAtBlock, KmallocAssumption
  <2> QED
    BY <2>1 DEF Kfree, BlocksOf, Nothing, IInv, TypeOK
<1>5. k_memory_map' = [b \in Blocks |-> IF b \in BlocksOf(o) THEN 0 ELSE k_memory_map[b]]
  BY <1>2 DEF Kfree
<1>6. BlockAddresses'
  <2>1. \A p \in Owners : held'[p] \in {held[p], Nothing}
    BY DEF Kfree, IInv, TypeOK
  <2>2. 0 = 0 * BlockSize /\ 0 \in Blocks
    BY KmallocAssumption DEF Blocks
  <2>3. ASSUME NEW p \in Owners
        PROVE  \E start \in Blocks : held'[p].address = start * BlockSize
    <3>1. CASE held'[p] = held[p]
      BY <3>1 DEF BlockAddresses, IInv
    <3>2. CASE held'[p] = Nothing
      BY <3>2, <2>2 DEF Nothing
    <3> QED
      BY <3>1, <3>2, <2>1
  <2> QED
    BY <2>3 DEF BlockAddresses
<1>7. MapExact' /\ NoOverlap'
  <2>1. \A p \in Owners \ {o} : BlocksOf(p) \cap BlocksOf(o) = {}
    BY DEF NoOverlap, IInv
  <2>2. \A b \in Blocks : k_memory_map'[b] = 1 <=> \E p \in Owners : b \in BlocksOf(p)'
    BY <1>4, <1>5, <2>1 DEF MapExact, IInv
  <2>3. \A p \in Owners : BlocksOf(p)' \subseteq Blocks
    BY <1>4 DEF MapExact, IInv
  <2>4. NoOverlap'
    BY <1>4 DEF NoOverlap, IInv
  <2> QED
    BY <2>2, <2>3, <2>4 DEF MapExact
<1>8. BootContiguous'
  BY DEF Kfree, BootContiguous
<1> QED
  BY <1>3, <1>6, <1>7, <1>8 DEF IInv

\* So does every step.
LEMMA NextInv ==
  ASSUME IInv, Sizes \subseteq {1}, [Next]_vars
  PROVE  IInv'
<1>1. ASSUME NEW o \in Owners, NEW n \in Requests, Kmalloc(o, n) PROVE IInv'
  BY <1>1, KmallocInv
<1>2. ASSUME NEW o \in Owners, NEW offset \in 0 .. BlockSize - 1, Kfree(o, offset)
      PROVE  IInv'
  BY <1>2, KfreeInv
<1>3. ASSUME UNCHANGED <<k_memory_map, held, boot>> PROVE IInv'
  <2>1. TypeOK'
    BY NextTypeOK DEF IInv
  <2>2. Free' = Free /\ \A o \in Owners : BlocksOf(o)' = BlocksOf(o)
    BY <1>3 DEF Free, BlocksOf
  <2>3. BlockAddresses' /\ BootContiguous'
    BY <1>3, <2>2 DEF BlockAddresses, BootContiguous, IInv
  <2>4. MapExact' /\ NoOverlap'
    BY <1>3, <2>2 DEF MapExact, NoOverlap, IInv
  <2> QED
    BY <2>1, <2>3, <2>4 DEF IInv
<1>4. \/ \E o \in Owners, n \in Requests : Kmalloc(o, n)
      \/ \E o \in Owners, offset \in 0 .. BlockSize - 1 : Kfree(o, offset)
      \/ UNCHANGED <<k_memory_map, held, boot>>
  BY DEF Next, KmallocExits, Use, Halted, vars
<1> QED
  BY <1>1, <1>2, <1>3, <1>4

\* A kernel that asks for single blocks once it has booted keeps the byte map
\* exact (an entry is 1 exactly when a pointer covers the block, and no run
\* leaves the map), and no two of its pointers ever share a block.
THEOREM AllocatorInvariant ==
  ASSUME Sizes \subseteq {1}
  PROVE  Spec => []IInv
<1>1. IInv /\ [Next]_vars => IInv'
  BY NextInv
<1> QED
  BY InitInv, <1>1, PTL DEF Spec

\* For the same kernel, kernel_exit(2) comes only when the blocks nobody
\* holds are fewer than were asked for: none is lost on the way.
THEOREM MemoryIsShortAtExit ==
  ASSUME Sizes \subseteq {1}
  PROVE  Spec => []ExitsOnlyWhenFull
<1>1. Init => ExitsOnlyWhenFull
  BY DEF Init, ExitsOnlyWhenFull
<1>2. ASSUME IInv, ExitsOnlyWhenFull, [Next]_vars PROVE ExitsOnlyWhenFull'
  <2>1. ASSUME NEW n \in Requests, KmallocExits(n) PROVE ExitsOnlyWhenFull'
    <3>1. Blocks \ UNION {BlocksOf(o) : o \in Owners} = Free
      BY <1>2 DEF IInv, MapExact, TypeOK, Free
    <3>2. /\ MayRequest(n)' = MayRequest(n)
          /\ \A o \in Owners : BlocksOf(o)' = BlocksOf(o)
      BY <2>1 DEF KmallocExits, MayRequest, BlocksOf
    <3>3. MayRequest(n)' /\ Cardinality(Free) < n
      BY <2>1, <3>2 DEF KmallocExits
    <3>4. UNION {BlocksOf(o) : o \in Owners}' = UNION {BlocksOf(o) : o \in Owners}
      BY <3>2
    <3> QED
      BY <3>1, <3>3, <3>4 DEF ExitsOnlyWhenFull
  <2>2. CASE UNCHANGED vars
    BY <1>2, <2>2 DEF vars, ExitsOnlyWhenFull, MayRequest, BlocksOf
  <2>3. CASE ~exited'
    BY <2>3 DEF ExitsOnlyWhenFull
  <2>4. (\E n \in Requests : KmallocExits(n)) \/ UNCHANGED vars \/ ~exited'
    BY <1>2 DEF Next, Kmalloc, Kfree, Use, Halted
  <2> QED
    BY <2>1, <2>2, <2>3, <2>4
<1>3. IInv /\ [Next]_vars => IInv'
  BY NextInv
<1> QED
  BY InitInv, <1>1, <1>2, <1>3, PTL DEF Spec

\* For the same kernel, the comments in kmalloc hold: what it locks was free.
THEOREM LocksOnlyFreeBlocks ==
  ASSUME Sizes \subseteq {1}
  PROVE  Spec => FoundSequence
<1>1. ASSUME IInv, [Next]_vars
      PROVE  [\A o \in Owners : held[o] = Nothing /\ held'[o] # Nothing =>
                Run(held'[o].address, held'[o].block_count) \subseteq Free]_vars
  <2> SUFFICES ASSUME NEW o \in Owners, held[o] = Nothing, held'[o] # Nothing, Next
               PROVE  Run(held'[o].address, held'[o].block_count) \subseteq Free
    BY <1>1
  <2>1. PICK p \in Owners, n \in Requests : Kmalloc(p, n)
    BY <1>1 DEF Next, KmallocExits, Kfree, Use, Halted, vars, IInv, TypeOK
  <2>2. held'[o] = [address |-> Min(Free) * BlockSize, block_count |-> n]
    BY <1>1, <2>1 DEF Kmalloc, IInv, TypeOK
  <2>3. n \in Nat \ {0} /\ Cardinality(Free) >= n /\ MayRequest(n)
    BY <2>1, RequestsPositive DEF Kmalloc
  <2>4. Run(Min(Free) * BlockSize, n) = Min(Free) .. Min(Free) + n - 1
    BY <1>1, <2>3, LockedRun DEF IInv
  <2>5. Min(Free) .. Min(Free) + n - 1 \subseteq Free
    BY <1>1, <2>3, LockedRunWasFree
  <2>6. held'[o].address = Min(Free) * BlockSize /\ held'[o].block_count = n
    BY <2>2
  <2> QED
    BY <2>4, <2>5, <2>6
<1>2. IInv /\ [Next]_vars => IInv'
  BY NextInv
<1> QED
  BY InitInv, <1>1, <1>2, PTL DEF Spec, FoundSequence

\* For the same kernel, data survives everybody else's calls.
THEOREM DataSurvives ==
  ASSUME Sizes \subseteq {1}
  PROVE  Spec => KeepsData
<1>1. ASSUME IInv, [Next]_vars
      PROVE  [\A o \in Owners : held'[o] = held[o] =>
                \A b \in BlocksOf(o) : memory'[b] \in {memory[b], o}]_vars
  <2> SUFFICES ASSUME NEW o \in Owners, held'[o] = held[o], NEW b \in BlocksOf(o), Next
               PROVE  memory'[b] \in {memory[b], o}
    BY <1>1
  <2>1. b \in Blocks /\ k_memory_map[b] = 1
    BY <1>1 DEF IInv, MapExact
  <2>2. ASSUME NEW p \in Owners, NEW n \in Requests, Kmalloc(p, n)
        PROVE  memory'[b] = memory[b]
    <3>1. n \in Nat \ {0} /\ Cardinality(Free) >= n
      BY <2>2, RequestsPositive DEF Kmalloc
    <3>2. b # Min(Free)
      BY <1>1, <2>1, <3>1, LockedRun DEF IInv, Free
    <3> QED
      BY <1>1, <2>1, <2>2, <3>2 DEF Kmalloc, IInv, TypeOK
  <2>3. ASSUME NEW p \in Owners, Use(p) PROVE memory'[b] \in {memory[b], o}
    <3>1. p # o => b \notin BlocksOf(p)
      BY <1>1 DEF IInv, NoOverlap
    <3> QED
      BY <1>1, <2>1, <2>3, <3>1 DEF Use, IInv, TypeOK
  <2>4. (\E p \in Owners, n \in Requests : Kmalloc(p, n)) \/ (\E p \in Owners : Use(p))
        \/ memory' = memory
    BY DEF Next, KmallocExits, Kfree, Halted, vars
  <2> QED
    BY <2>2, <2>3, <2>4
<1>2. IInv /\ [Next]_vars => IInv'
  BY NextInv
<1> QED
  BY InitInv, <1>1, <1>2, PTL DEF Spec, KeepsData

-----------------------------------------------------------------------------
\* The refinement of BlockPool.  Its hypotheses are those of a kernel whose
\* boot requests fit into the map: Total, the sum of a sequence of requests,
\* is given by its equations.

\* The free blocks suffice for the boot requests still to come, and a pointer
\* that holds something holds a block.
BootFits(Total) == boot # <<>> => Total[boot] <= Cardinality(Free)
HeldRuns == \A o \in Owners : held[o] # Nothing => held[o].block_count # 0

IsTotal(Total) ==
  /\ Total \in [Seq(Nat \ {0}) -> Nat]
  /\ Total[<<>>] = 0
  /\ \A s \in Seq(Nat \ {0}) : s # <<>> => Total[s] = Head(s) + Total[Tail(s)]

\* The intervals of the map, and how many blocks they have.
LEMMA UpperEnd ==
  ASSUME NEW k \in 0 .. Entries
  PROVE  IsFiniteSet(k .. Entries - 1) /\ Cardinality(k .. Entries - 1) = Entries - k
<1>1. k \in Int /\ Entries - 1 \in Int
  BY KmallocAssumption
<1>2. IsFiniteSet(k .. Entries - 1)
      /\ Cardinality(k .. Entries - 1) = IF k > Entries - 1 THEN 0 ELSE Entries - 1 - k + 1
  BY <1>1, FS_Interval
<1> QED
  BY <1>2, KmallocAssumption

\* A pointer that holds nothing covers no block.
LEMMA NothingIsEmpty == \A o \in Owners : held[o] = Nothing => BlocksOf(o) = {}
<1>1. Run(0 * BlockSize, 0) = {} /\ 0 * BlockSize = 0
  BY RunAtBlock, KmallocAssumption
<1> QED
  BY <1>1 DEF BlocksOf, Nothing

\* A boot request takes as many blocks from the map as from the sum.
LEMMA BootFitsInductive ==
  ASSUME Sizes \subseteq {1}, NEW Total, IsTotal(Total)
  PROVE  IInv /\ IInv' /\ BootFits(Total) /\ [Next]_vars => BootFits(Total)'
<1> SUFFICES ASSUME IInv, IInv', BootFits(Total), [Next]_vars, boot' # <<>>
             PROVE  Total[boot'] <= Cardinality(Free')
  BY DEF BootFits
<1>1. CASE UNCHANGED <<boot, k_memory_map>>
  <2>1. Free' = Free
    BY <1>1 DEF Free
  <2> QED
    BY <1>1, <2>1 DEF BootFits
<1>2. ASSUME NEW o \in Owners, NEW n \in Requests, Kmalloc(o, n)
      PROVE  Total[boot'] <= Cardinality(Free')
  <2>1. boot # <<>> /\ boot' = Tail(boot) /\ n = Head(boot) /\ n \in Nat \ {0}
        /\ Cardinality(Free) >= n /\ MayRequest(n)
    BY <1>2, RequestsPositive DEF Kmalloc, MayRequest
  <2>2. PICK k \in 0 .. Entries : Free = k .. Entries - 1
    BY <2>1 DEF IInv, BootContiguous
  <2>3. /\ Min(Free) \in Free /\ \A b \in Free : Min(Free) <= b
        /\ Run(Min(Free) * BlockSize, n) = Min(Free) .. Min(Free) + n - 1
        /\ Min(Free) + n <= Entries
    BY <2>1, LockedRun DEF IInv
  <2>4. Min(Free) = k
    BY <2>2, <2>3, KmallocAssumption
  <2>5. k_memory_map' = [b \in Blocks |-> IF b \in k .. k + n - 1
                                          THEN 1 ELSE k_memory_map[b]]
    BY <1>2, <2>3, <2>4 DEF Kmalloc
  <2>6. Free' = Free \ (k .. k + n - 1)
    BY <2>5 DEF Free
  <2>7. Free' = k + n .. Entries - 1 /\ k + n \in 0 .. Entries
    <3>1. k + n <= Entries /\ n \in Nat \ {0} /\ k \in Nat /\ Entries \in Nat
      BY <2>1, <2>3, <2>4, KmallocAssumption
    <3>2. (k .. Entries - 1) \ (k .. k + n - 1) = k + n .. Entries - 1
      BY <3>1
    <3> QED
      BY <2>2, <2>6, <3>1, <3>2
  <2>8. Cardinality(Free) = Entries - k /\ Cardinality(Free') = Entries - (k + n)
    BY <2>2, <2>7, UpperEnd
  <2>9. Total[boot] = n + Total[boot'] /\ Total[boot'] \in Nat
    BY <2>1 DEF IsTotal, IInv, TypeOK
  <2>10. Total[boot] <= Cardinality(Free)
    BY <2>1 DEF BootFits
  <2> QED
    BY <2>1, <2>8, <2>9, <2>10, KmallocAssumption
<1>3. (\E o \in Owners, n \in Requests : Kmalloc(o, n)) \/ UNCHANGED <<boot, k_memory_map>>
  BY DEF Next, KmallocExits, Kfree, Use, Halted, vars
<1> QED
  BY <1>1, <1>2, <1>3

\* A pointer holds a run of at least one block.
LEMMA HeldRunsInductive == IInv /\ HeldRuns /\ [Next]_vars => HeldRuns'
<1> SUFFICES ASSUME IInv, HeldRuns, [Next]_vars PROVE HeldRuns'
  OBVIOUS
<1>1. ASSUME NEW o \in Owners, NEW n \in Requests, Kmalloc(o, n) PROVE HeldRuns'
  BY <1>1, RequestsPositive DEF Kmalloc, HeldRuns, IInv, TypeOK
<1>2. ASSUME NEW o \in Owners, NEW offset \in 0 .. BlockSize - 1, Kfree(o, offset)
      PROVE  HeldRuns'
  BY <1>2 DEF Kfree, HeldRuns, IInv, TypeOK
<1>3. CASE UNCHANGED held
  BY <1>3 DEF HeldRuns
<1> QED
  BY <1>1, <1>2, <1>3 DEF Next, KmallocExits, Use, Halted, vars

\* What the pool calls available are the free entries of the map.
LEMMA AvailableIsFree == IInv => Pool!Available = Free
<1> SUFFICES ASSUME IInv PROVE Pool!Available = Free
  OBVIOUS
<1>1. Pool!Available = Blocks \ UNION {BlocksOf(o) : o \in Owners}
  BY DEF Pool!Available
<1>2. Blocks \ UNION {BlocksOf(o) : o \in Owners} = Free
  BY DEF IInv, MapExact, TypeOK, Free
<1> QED
  BY <1>1, <1>2

\* The two modules count blocks alike.
LEMMA SameCardinality == ASSUME NEW S PROVE Pool!Cardinality(S) = Cardinality(S)
BY Zenon DEF Pool!Cardinality, Cardinality

\* kmalloc grants its caller a run of available blocks.
LEMMA KmallocGrants ==
  ASSUME IInv, Sizes \subseteq {1}, NEW o \in Owners, NEW n \in Requests, Kmalloc(o, n)
  PROVE  Pool!Grant(o)
<1> DEFINE start == Min(Free)
           run == start .. start + n - 1
           owned == [p \in Owners |-> BlocksOf(p)]
<1>1. n \in Nat \ {0} /\ Cardinality(Free) >= n /\ MayRequest(n)
  BY RequestsPositive DEF Kmalloc
<1>2. start \in Free /\ Run(start * BlockSize, n) = run
  BY <1>1, LockedRun DEF IInv
<1>3. run \subseteq Free
  BY <1>1, LockedRunWasFree
<1>4. start \in Int
  BY <1>2 DEF Free, Blocks
<1>5. Pool!IsRun(run)
  <2>1. start \in run /\ start + n - 1 \in run
    BY <1>1, <1>4
  <2> QED
    BY <2>1 DEF Pool!IsRun
<1>6. ~exited /\ exited' = exited /\ BlocksOf(o) = {}
  BY NothingIsEmpty DEF Kmalloc
<1>7. /\ BlocksOf(o)' = run
      /\ \A p \in Owners \ {o} : BlocksOf(p)' = BlocksOf(p)
  BY <1>2 DEF Kmalloc, BlocksOf, IInv, TypeOK
<1> HIDE DEF run
<1>8. owned' = [owned EXCEPT ![o] = run]
  BY <1>7
<1>9. run \in SUBSET Pool!Available
  BY <1>3, AvailableIsFree
<1> QED
  BY <1>5, <1>6, <1>8, <1>9 DEF Pool!Grant

\* kfree returns the run of its caller, from any pointer into its first block.
LEMMA KfreeReturns ==
  ASSUME IInv, HeldRuns, NEW o \in Owners, NEW offset \in 0 .. BlockSize - 1,
         Kfree(o, offset)
  PROVE  Pool!Return(o)
<1> DEFINE owned == [p \in Owners |-> BlocksOf(p)]
<1>1. /\ ~exited /\ exited' = exited /\ held[o] # Nothing
      /\ held' = [held EXCEPT ![o] = Nothing]
  BY DEF Kfree
<1>2. PICK s \in Nat : held[o].address = s * BlockSize
  BY DEF IInv, BlockAddresses, Blocks
<1>3. held[o].block_count \in Nat \ {0}
  BY <1>1 DEF HeldRuns, IInv, TypeOK
<1>4. BlocksOf(o) = s .. s + held[o].block_count - 1
  BY <1>2, RunAtBlock DEF BlocksOf
<1>5. s \in BlocksOf(o)
  BY <1>3, <1>4
<1>6. BlocksOf(o)' = {}
  <2>1. Run(0 * BlockSize, 0) = {} /\ 0 * BlockSize = 0
    BY RunAtBlock, KmallocAssumption
  <2> QED
    BY <1>1, <2>1 DEF BlocksOf, Nothing, IInv, TypeOK
<1>7. \A p \in Owners \ {o} : BlocksOf(p)' = BlocksOf(p)
  BY <1>1 DEF BlocksOf, IInv, TypeOK
<1>8. owned' = [owned EXCEPT ![o] = {}]
  BY <1>6, <1>7
<1> QED
  BY <1>1, <1>5, <1>8 DEF Pool!Return

\* Every step of the allocator is a step of the pool: only a request for a
\* single block is ever refused, and only when no block is left.
LEMMA StepRefinesPool ==
  ASSUME Sizes = {1}, NEW Total, IsTotal(Total),
         IInv, HeldRuns, BootFits(Total), [Next]_vars
  PROVE  [Pool!Next]_(Pool!vars)
<1>1. ASSUME NEW o \in Owners, NEW n \in Requests, Kmalloc(o, n) PROVE Pool!Next
  BY <1>1, KmallocGrants DEF Pool!Next
<1>2. ASSUME NEW o \in Owners, NEW offset \in 0 .. BlockSize - 1, Kfree(o, offset)
      PROVE  Pool!Next
  BY <1>2, KfreeReturns DEF Pool!Next
<1>3. CASE UNCHANGED <<held, exited>>
  <2>1. \A o \in Owners : BlocksOf(o)' = BlocksOf(o)
    BY <1>3 DEF BlocksOf
  <2> QED
    BY <1>3, <2>1 DEF Pool!vars
<1>4. ASSUME NEW n \in Requests, KmallocExits(n) PROVE Pool!Next
  <2>1. /\ ~exited /\ exited' = TRUE /\ MayRequest(n) /\ Cardinality(Free) < n
        /\ UNCHANGED held
    BY <1>4 DEF KmallocExits
  <2>2. \A o \in Owners : BlocksOf(o)' = BlocksOf(o)
    BY <2>1 DEF BlocksOf
  <2>3. boot = <<>>
    <3> SUFFICES ASSUME boot # <<>> PROVE FALSE
      OBVIOUS
    <3>1. n = Head(boot) /\ n \in Nat /\ boot \in Seq(Nat \ {0})
      BY <2>1, RequestsPositive DEF MayRequest, IInv, TypeOK
    <3>2. Tail(boot) \in Seq(Nat \ {0})
      BY <3>1, HeadTailProperties
    <3>3. Total[boot] = n + Total[Tail(boot)] /\ Total[Tail(boot)] \in Nat
      BY <3>1, <3>2 DEF IsTotal
    <3>4. PICK k \in 0 .. Entries : Free = k .. Entries - 1
      BY DEF IInv, BootContiguous
    <3>5. Cardinality(Free) \in Int
      BY <3>4, UpperEnd, KmallocAssumption
    <3> QED
      BY <2>1, <3>1, <3>3, <3>5 DEF BootFits
  <2>4. n = 1
    BY <2>1, <2>3 DEF MayRequest
  <2>5. Max(Sizes) = 1
    BY DEF Max
  <2>6. Pool!Cardinality(Pool!Available) < Max(Sizes)
    BY <2>1, <2>4, <2>5, AvailableIsFree, SameCardinality
  <2> QED
    BY <2>1, <2>2, <2>6 DEF Pool!Refuse, Pool!Next
<1> QED
  BY <1>1, <1>2, <1>3, <1>4 DEF Next, Use, Halted, vars

\* For a kernel that asks for single blocks once it has booted, and whose boot
\* requests fit into the map together, kmalloc and kfree are a pool of blocks:
\* contiguous runs nobody else holds, kept until they are given back, refused
\* only when no block is left.
THEOREM AllocatorIsAPool ==
  ASSUME Sizes = {1}, NEW CONSTANT Total, IsTotal(Total), Total[BootSizes] <= Entries
  PROVE  Spec => ImplementsPool
<1>1. Init => Pool!Init
  BY NothingIsEmpty DEF Init, Pool!Init
<1>2. Init => HeldRuns /\ BootFits(Total)
  <2> SUFFICES ASSUME Init PROVE HeldRuns /\ BootFits(Total)
    OBVIOUS
  <2>1. Free = 0 .. Entries - 1 /\ 0 \in 0 .. Entries
    BY KmallocAssumption DEF Init, Free, Blocks
  <2>2. Cardinality(Free) = Entries
    BY <2>1, UpperEnd, KmallocAssumption
  <2> QED
    BY <2>2 DEF Init, HeldRuns, BootFits
<1>3. IInv /\ [Next]_vars => IInv'
  BY NextInv
<1>4. IInv /\ IInv' /\ BootFits(Total) /\ [Next]_vars => BootFits(Total)'
  BY BootFitsInductive
<1>5. IInv /\ HeldRuns /\ BootFits(Total) /\ [Next]_vars => [Pool!Next]_(Pool!vars)
  BY StepRefinesPool
<1> QED
  BY <1>1, <1>2, <1>3, <1>4, <1>5, InitInv, HeldRunsInductive, PTL
     DEF Spec, ImplementsPool, Pool!Spec

-----------------------------------------------------------------------------
\* An element no other is below is the minimum.
LEMMA MinIs ==
  ASSUME NEW S \in SUBSET Nat, NEW m \in S, \A y \in S : m <= y
  PROVE  Min(S) = m
<1>1. Min(S) \in S /\ Min(S) <= m
  BY MinOfNat
<1>2. m <= Min(S) /\ m \in Nat /\ Min(S) \in Nat
  BY <1>1
<1> QED
  BY <1>1, <1>2

\* kfree's division undoes the multiplication of kmalloc, wherever in its
\* first block the pointer is.
LEMMA BlockOfAddress ==
  ASSUME NEW s \in Nat, NEW offset \in 0 .. BlockSize - 1
  PROVE  (s * BlockSize + offset) \div BlockSize = s
BY KmallocAssumption, SMT

\* The blocks up to some entry, as sets to count.
LEMMA BlocksFinite ==
  /\ IsFiniteSet(Blocks) /\ Cardinality(Blocks) = Entries
  /\ Blocks \subseteq Nat /\ Free \subseteq Blocks /\ Passed \subseteq Blocks
<1>1. 0 \in Int /\ Entries - 1 \in Int /\ ~(0 > Entries - 1)
  BY KmallocAssumption
<1>2. /\ IsFiniteSet(0 .. Entries - 1)
      /\ Cardinality(0 .. Entries - 1) = Entries - 1 - 0 + 1
  BY <1>1, FS_Interval
<1> QED
  BY <1>2, KmallocAssumption DEF Blocks, Free, Passed

\* Counting n free blocks from the first of them on leaves room for n entries,
\* whether or not they are next to each other.
LEMMA RunFits ==
  ASSUME NEW n \in Nat \ {0}, Cardinality(Free) >= n
  PROVE  /\ Min(Free) \in Free
         /\ \A b \in Free : Min(Free) <= b
         /\ Min(Free) \in Nat
         /\ Min(Free) + n <= Entries
<1> DEFINE F == Free
<1>1. IsFiniteSet(F) /\ F \subseteq Nat /\ F \subseteq Blocks
  BY BlocksFinite, FS_Subset
<1>2. F # {}
  <2> SUFFICES ASSUME F = {} PROVE FALSE
    OBVIOUS
  <2>1. Cardinality(F) = 0
    BY FS_EmptySet
  <2> QED
    BY <2>1
<1> HIDE DEF F
<1>3. Min(F) \in F /\ \A b \in F : Min(F) <= b
  BY <1>1, <1>2, MinOfNat
<1>4. PICK m \in Nat : m = Min(F)
  BY <1>1, <1>3
<1>5. m \in 0 .. Entries - 1
  BY <1>1, <1>3, <1>4 DEF Blocks
<1>6. m \in Int /\ Entries - 1 \in Int /\ ~(m > Entries - 1)
  BY <1>5, KmallocAssumption
<1>7. /\ IsFiniteSet(m .. Entries - 1)
      /\ Cardinality(m .. Entries - 1) = Entries - 1 - m + 1
  BY <1>6, FS_Interval
<1>8. F \in SUBSET (m .. Entries - 1)
  BY <1>1, <1>3, <1>4, KmallocAssumption DEF Blocks
<1>9. Cardinality(F) <= Cardinality(m .. Entries - 1)
  BY <1>7, <1>8, FS_Subset
<1>10. Cardinality(F) \in Nat
  BY <1>1, FS_CardinalityType
<1>11. m + n <= Entries
  BY <1>7, <1>9, <1>10, KmallocAssumption DEF F
<1> QED
  BY <1>3, <1>4, <1>11 DEF F

-----------------------------------------------------------------------------
\* Initially nothing is locked and no call runs.
LEMMA LoopInitially == LoopInit => LoopIInv
<1> SUFFICES ASSUME LoopInit PROVE LoopIInv
  OBVIOUS
<1>1. Entries \in Nat \ {0} /\ BlockSize \in Nat \ {0} /\ BootSizes \in Seq(Nat \ {0})
  BY KmallocAssumption
<1>2. TypeOK
  <2>1. held \in [Owners -> [address : Nat, block_count : Nat]]
    BY DEF LoopInit, Init, Nothing
  <2>2. boot \in Seq(Nat \ {0})
    BY <1>1 DEF LoopInit, Init
  <2> QED
    BY <2>1, <2>2 DEF LoopInit, Init, TypeOK
<1>3. map_now \in [Blocks -> {0, 1}] /\ k_memory_map = map_now
  BY DEF LoopInit, Init
<1>4. LoopTypeOK
  <2>1. /\ {current_block_id, found_block_count, starting_block_id} \subseteq 0 .. Entries
        /\ c \in 0 .. Entries /\ block_count \in Nat
    BY <1>1 DEF LoopInit
  <2>2. pc = "idle" /\ caller = Nobody
    BY DEF LoopInit
  <2> QED
    BY <1>2, <1>3, <2>1, <2>2, Zenon DEF LoopTypeOK
<1>5. HeldInside
  <2>1. 0 \in 0 .. Entries /\ 0 = 0 * BlockSize /\ 0 + 0 <= Entries
    BY <1>1
  <2> QED
    BY <2>1 DEF LoopInit, Init, Nothing, HeldInside
<1>6. WritesInsideMap /\ ScanCounts /\ CallsAgree
  BY <1>3 DEF LoopInit, Init, WritesInsideMap, ScanCounts, CallsAgree
<1> QED
  BY <1>4, <1>5, <1>6 DEF LoopIInv

\* A call begins with the counters at 0, and the map as the last one left it.
LEMMA CallKmallocIInv ==
  ASSUME LoopIInv, NEW o \in Owners, NEW n \in Requests, CallKmalloc(o, n)
  PROVE  LoopIInv'
<1>1. /\ pc = "idle" /\ ~exited /\ held[o] = Nothing /\ MayRequest(n)
      /\ pc' = "scan" /\ caller' = o /\ block_count' = n
      /\ UNCHANGED <<map_now, k_memory_map, memory, held, boot, exited,
                     current_block_id, found_block_count, starting_block_id, c>>
  BY DEF CallKmalloc, locals, vars
<1>2. n \in Nat \ {0}
  BY RequestsPositive
<1>3. LoopTypeOK'
  <2>1. TypeOK'
    BY <1>1 DEF LoopIInv, LoopTypeOK, TypeOK
  <2>2. /\ {current_block_id', found_block_count', starting_block_id'} \subseteq 0 .. Entries
        /\ c' \in 0 .. Entries /\ block_count' \in Nat
        /\ map_now' \in [Blocks -> {0, 1}] /\ caller' \in Owners \cup {Nobody}
    BY <1>1, <1>2 DEF LoopIInv, LoopTypeOK
  <2> QED
    BY <1>1, <2>1, <2>2 DEF LoopTypeOK
<1>4. current_block_id = 0 /\ found_block_count = 0
  BY <1>1 DEF LoopIInv, CallsAgree
<1>5. Passed' = {}
  BY <1>1, <1>4, BlocksFinite DEF Passed, Blocks
<1>6. ScanCounts'
  BY <1>1, <1>2, <1>4, <1>5, FS_EmptySet DEF ScanCounts
<1>7. WritesInsideMap' /\ HeldInside'
  BY <1>1 DEF LoopIInv, WritesInsideMap, HeldInside
<1>8. CallsAgree'
  BY <1>1 DEF LoopIInv, CallsAgree, MayRequest
<1> QED
  BY <1>3, <1>6, <1>7, <1>8 DEF LoopIInv

\* An iteration of the scan counts its block.
LEMMA ScanBlockIInv ==
  ASSUME LoopIInv, ScanBlock
  PROVE  LoopIInv'
<1> DEFINE free == map_now[current_block_id] = 0
           found == found_block_count + (IF free THEN 1 ELSE 0)
           start == IF free /\ found_block_count = 0
                    THEN current_block_id ELSE starting_block_id
           seen == Passed \cup (IF free THEN {current_block_id} ELSE {})
<1>1. /\ pc = "scan" /\ ~exited /\ current_block_id < Entries
      /\ found_block_count' = found /\ starting_block_id' = start
      /\ UNCHANGED <<map_now, k_memory_map, memory, held, boot, exited, caller, block_count>>
      /\ \/ found = block_count /\ pc' = "lock" /\ c' = start /\ UNCHANGED current_block_id
         \/ /\ found # block_count
            /\ current_block_id' = current_block_id + 1 /\ UNCHANGED <<pc, c>>
  BY DEF ScanBlock, NextBlock, call, vars
<1>2. /\ current_block_id \in Nat /\ current_block_id \in Blocks /\ Entries \in Nat
      /\ found_block_count \in 0 .. Entries /\ starting_block_id \in 0 .. Entries
      /\ c \in 0 .. Entries
      /\ block_count \in Nat
  BY <1>1, KmallocAssumption DEF LoopIInv, LoopTypeOK, Blocks
<1>3. /\ found_block_count = Cardinality(Passed) /\ found_block_count < block_count
      /\ Passed # {} => starting_block_id = Min(Passed)
  BY <1>1 DEF LoopIInv, ScanCounts
<1>4. IsFiniteSet(Passed) /\ Passed \subseteq Nat /\ current_block_id \notin Passed
  <2>1. IsFiniteSet(Passed) /\ Passed \subseteq Nat
    BY BlocksFinite, FS_Subset
  <2>2. current_block_id \notin Passed
    BY <1>2 DEF Passed
  <2> QED
    BY <2>1, <2>2
<1>5. found = Cardinality(seen) /\ IsFiniteSet(seen) /\ seen \subseteq Blocks
  <2>1. CASE free
    <3>1. /\ IsFiniteSet(Passed \cup {current_block_id})
          /\ Cardinality(Passed \cup {current_block_id}) = Cardinality(Passed) + 1
      BY <1>4, FS_AddElement
    <3> QED
      BY <1>2, <1>3, <2>1, <3>1, BlocksFinite
  <2>2. CASE ~free
    <3>1. seen = Passed /\ found = found_block_count
      BY <1>2, <2>2
    <3> QED
      BY <1>3, <1>4, <3>1, BlocksFinite
  <2> QED
    BY <2>1, <2>2
<1>6. found \in 0 .. Entries /\ found <= block_count
  <2>1. found <= Entries
    BY <1>5, BlocksFinite, FS_Subset
  <2> QED
    BY <1>2, <1>3, <2>1
<1>7. seen = {b \in Blocks : b < current_block_id + 1 /\ map_now[b] = 0}
  BY <1>2 DEF Passed, Blocks
<1>8. seen # {} => start = Min(seen)
  <2>1. CASE Passed = {}
    <3>1. found_block_count = 0
      BY <1>3, <2>1, FS_EmptySet
    <3>2. CASE free
      <4>1. seen = {current_block_id} /\ start = current_block_id
        BY <2>1, <3>1, <3>2
      <4> QED
        BY <4>1, <1>2, MinIs
    <3>3. CASE ~free
      BY <2>1, <3>3
    <3> QED
      BY <3>2, <3>3
  <2>2. CASE Passed # {}
    <3>1. found_block_count # 0
      BY <1>3, <1>4, <2>2, FS_EmptySet
    <3>2. start = Min(Passed)
      BY <1>3, <2>2, <3>1
    <3>3. Min(Passed) \in Passed /\ \A b \in Passed : Min(Passed) <= b
      BY <1>4, <2>2, MinOfNat
    <3>4. Min(Passed) <= current_block_id
      BY <1>2, <3>3 DEF Passed, Blocks
    <3>5. seen \in SUBSET Nat /\ Min(Passed) \in seen /\ \A b \in seen : Min(Passed) <= b
      BY <1>2, <1>4, <3>3, <3>4
    <3>6. Min(seen) = Min(Passed)
      BY <3>5, MinIs
    <3> QED
      BY <3>2, <3>6
  <2> QED
    BY <2>1, <2>2
<1> HIDE DEF found, start, seen
<1>9. start \in 0 .. Entries
  BY <1>1, <1>2 DEF start
<1>10. LoopTypeOK'
  <2>1. TypeOK'
    BY <1>1 DEF LoopIInv, LoopTypeOK, TypeOK
  <2>2. current_block_id' \in 0 .. Entries /\ c' \in 0 .. Entries
    BY <1>1, <1>2, <1>9
  <2> QED
    BY <1>1, <1>6, <1>9, <2>1, <2>2 DEF LoopIInv, LoopTypeOK
<1>11. HeldInside'
  BY <1>1 DEF LoopIInv, HeldInside
<1>12. CASE found # block_count
  <2>1. pc' = "scan" /\ current_block_id' = current_block_id + 1
    BY <1>1, <1>12
  <2>2. Passed' = seen
    BY <1>1, <1>7, <2>1 DEF Passed
  <2>3. ScanCounts'
    BY <1>1, <1>2, <1>5, <1>6, <1>8, <1>12, <2>2 DEF ScanCounts
  <2>4. WritesInsideMap' /\ CallsAgree'
    BY <1>1, <2>1 DEF LoopIInv, WritesInsideMap, CallsAgree, MayRequest
  <2> QED
    BY <1>10, <1>11, <2>3, <2>4 DEF LoopIInv
<1>13. CASE found = block_count
  <2>1. pc' = "lock" /\ c' = start
    BY <1>1, <1>13
  <2>2. block_count \in Nat \ {0}
    BY <1>1, RequestsPositive DEF LoopIInv, CallsAgree
  <2>3. k_memory_map = map_now
    BY <1>1 DEF LoopIInv, CallsAgree
  <2>4. Free = {b \in Blocks : map_now[b] = 0}
    BY <2>3 DEF Free
  <2>5. seen \subseteq Free
    BY <1>7, <2>4
  <2>6. Cardinality(Free) >= block_count
    <3>1. IsFiniteSet(Free) /\ Cardinality(Free) \in Nat
      BY BlocksFinite, FS_Subset, FS_CardinalityType
    <3>2. Cardinality(seen) <= Cardinality(Free)
      BY <2>5, <3>1, FS_Subset
    <3> QED
      BY <1>5, <1>13, <3>1, <3>2, <2>2
  <2>7. start = Min(Free)
    <3>1. seen # {}
      BY <1>5, <1>13, <2>2, FS_EmptySet
    <3>2. start \in seen /\ \A b \in seen : start <= b
      BY <1>5, <1>8, <3>1, BlocksFinite, MinOfNat
    <3>3. start <= current_block_id
      BY <1>2, <1>7, <3>2, BlocksFinite
    <3>4. ASSUME NEW b \in Free PROVE start <= b
      <4>1. CASE b < current_block_id + 1
        BY <1>7, <2>4, <3>2, <4>1
      <4>2. CASE ~(b < current_block_id + 1)
        BY <1>2, <1>9, <2>4, <3>3, <4>2, BlocksFinite
      <4> QED
        BY <4>1, <4>2
    <3> QED
      BY <2>5, <3>2, <3>4, BlocksFinite, MinIs
  <2>8. start + block_count <= Entries
    BY <2>2, <2>6, <2>7, RunFits
  <2>9. WritesInsideMap'
    BY <1>1, <1>2, <1>9, <2>8 DEF WritesInsideMap, Blocks
  <2>10. Written(1)'
    <3>1. start \in start .. start + block_count
      BY <1>9, <1>2
    <3>2. map_now = [b \in Blocks |-> IF b \in start .. start - 1 THEN 1 ELSE k_memory_map[b]]
      BY <1>9, <2>3 DEF LoopIInv, LoopTypeOK
    <3> QED
      BY <1>1, <2>1, <3>1, <3>2 DEF Written
  <2>11. Free' = Free
    BY <1>1 DEF Free
  <2>12. CallsAgree'
    <3>1. /\ caller \in Owners /\ held[caller] = Nothing
          /\ block_count \in Requests /\ MayRequest(block_count)
      BY <1>1 DEF LoopIInv, CallsAgree
    <3>2. MayRequest(block_count)'
      BY <1>1, <3>1 DEF MayRequest
    <3> QED
      BY <1>1, <2>1, <2>6, <2>7, <2>10, <2>11, <3>1, <3>2 DEF CallsAgree
  <2>13. ScanCounts'
    BY <2>1 DEF ScanCounts
  <2> QED
    BY <1>10, <1>11, <2>9, <2>12, <2>13 DEF LoopIInv
<1> QED
  BY <1>12, <1>13

\* An iteration that writes an entry stays inside the map and goes on with the
\* next one.
LEMMA WritesNext ==
  ASSUME LoopIInv, NEW value \in {0, 1}, Written(value), pc \in {"lock", "unlock"},
         c < starting_block_id + block_count,
         map_now' = [map_now EXCEPT ![c] = value], c' = c + 1,
         UNCHANGED <<k_memory_map, block_count, starting_block_id>>
  PROVE  /\ Written(value)' /\ map_now' \in [Blocks -> {0, 1}] /\ c' \in 0 .. Entries
<1>1. /\ starting_block_id \in 0 .. Entries /\ block_count \in Nat /\ c \in 0 .. Entries
      /\ map_now \in [Blocks -> {0, 1}] /\ Entries \in Nat
  BY KmallocAssumption DEF LoopIInv, LoopTypeOK
<1>2. starting_block_id .. starting_block_id + block_count - 1 \subseteq 0 .. Entries - 1
  BY DEF LoopIInv, WritesInsideMap, Blocks
<1>3. c \in starting_block_id .. starting_block_id + block_count
  BY DEF Written
<1>4. c \in 0 .. Entries - 1
  BY <1>1, <1>2, <1>3
<1>5. c' \in 0 .. Entries
  BY <1>1, <1>4
<1>6. map_now' \in [Blocks -> {0, 1}]
  BY <1>1, <1>4 DEF Blocks
<1>7. map_now' = [b \in Blocks |-> IF b \in starting_block_id .. c + 1 - 1
                                        THEN value ELSE k_memory_map[b]]
  <2>1. map_now = [b \in Blocks |-> IF b \in starting_block_id .. c - 1
                                         THEN value ELSE k_memory_map[b]]
    BY DEF Written
  <2>2. \A b \in Blocks : b \in Nat /\ (b \in starting_block_id .. c + 1 - 1 <=>
                                    b = c \/ b \in starting_block_id .. c - 1)
    BY <1>1, <1>3 DEF Blocks
  <2> QED
    BY <1>4, <2>1, <2>2 DEF Blocks
<1>8. c' \in starting_block_id .. starting_block_id + block_count
  BY <1>1, <1>3
<1> QED
  BY <1>5, <1>6, <1>7, <1>8 DEF Written

\* An iteration of the locking loop keeps the invariant.
LEMMA LockBlockIInv ==
  ASSUME LoopIInv, LockBlock
  PROVE  LoopIInv'
<1>1. /\ pc = "lock" /\ c < starting_block_id + block_count
      /\ map_now' = [map_now EXCEPT ![c] = 1] /\ c' = c + 1
      /\ UNCHANGED <<k_memory_map, memory, held, boot, exited, pc, caller, block_count,
                     current_block_id, found_block_count, starting_block_id>>
  BY DEF LockBlock, call, vars
<1>2. Written(1)' /\ map_now' \in [Blocks -> {0, 1}] /\ c' \in 0 .. Entries
  BY <1>1, WritesNext DEF LoopIInv, CallsAgree
<1>3. TypeOK'
  BY <1>1 DEF LoopIInv, LoopTypeOK, TypeOK
<1>4. LoopTypeOK'
  BY <1>1, <1>2, <1>3 DEF LoopIInv, LoopTypeOK
<1>5. HeldInside' /\ WritesInsideMap' /\ ScanCounts'
  BY <1>1 DEF LoopIInv, HeldInside, WritesInsideMap, ScanCounts
<1>6. Free' = Free
  BY <1>1 DEF Free
<1>7. CallsAgree'
  BY <1>1, <1>2, <1>6 DEF LoopIInv, CallsAgree, MayRequest
<1> QED
  BY <1>4, <1>5, <1>7 DEF LoopIInv

\* An iteration of kfree's loop keeps the invariant.
LEMMA UnlockBlockIInv ==
  ASSUME LoopIInv, UnlockBlock
  PROVE  LoopIInv'
<1>1. /\ pc = "unlock" /\ c < starting_block_id + block_count
      /\ map_now' = [map_now EXCEPT ![c] = 0] /\ c' = c + 1
      /\ UNCHANGED <<k_memory_map, memory, held, boot, exited, pc, caller, block_count,
                     current_block_id, found_block_count, starting_block_id>>
  BY DEF UnlockBlock, call, vars
<1>2. Written(0)' /\ map_now' \in [Blocks -> {0, 1}] /\ c' \in 0 .. Entries
  BY <1>1, WritesNext DEF LoopIInv, CallsAgree
<1>3. TypeOK'
  BY <1>1 DEF LoopIInv, LoopTypeOK, TypeOK
<1>4. LoopTypeOK'
  BY <1>1, <1>2, <1>3 DEF LoopIInv, LoopTypeOK
<1>5. HeldInside' /\ WritesInsideMap' /\ ScanCounts'
  BY <1>1 DEF LoopIInv, HeldInside, WritesInsideMap, ScanCounts
<1>6. CallsAgree'
  BY <1>1, <1>2 DEF LoopIInv, CallsAgree
<1> QED
  BY <1>4, <1>5, <1>6 DEF LoopIInv

\* A call that returns leaves its locals at 0.
LEMMA ReturnIInv ==
  ASSUME LoopIInv, Return, TypeOK', HeldInside', ~exited, UNCHANGED exited
  PROVE  LoopIInv'
<1>1. /\ pc' = "idle" /\ caller' = Nobody /\ block_count' = 0
      /\ current_block_id' = 0 /\ found_block_count' = 0
      /\ starting_block_id' = 0 /\ c' = 0
      /\ k_memory_map' = map_now /\ UNCHANGED map_now
  BY DEF Return
<1>2. 0 \in 0 .. Entries
  BY KmallocAssumption
<1>3. LoopTypeOK'
  BY <1>1, <1>2 DEF LoopIInv, LoopTypeOK
<1>4. WritesInsideMap' /\ ScanCounts' /\ CallsAgree'
  BY <1>1 DEF WritesInsideMap, ScanCounts, CallsAgree
<1> QED
  BY <1>3, <1>4 DEF LoopIInv

\* What kmalloc hands out lies inside the map.
LEMMA ClearAndReturnIInv ==
  ASSUME LoopIInv, ClearAndReturn
  PROVE  LoopIInv'
<1>1. /\ pc = "lock" /\ Return /\ UNCHANGED exited
      /\ memory' = [memory EXCEPT ![starting_block_id] = Zero]
      /\ held' = [held EXCEPT ![caller] = [address |-> starting_block_id * BlockSize,
                                           block_count |-> block_count]]
      /\ boot' = IF boot = <<>> THEN <<>> ELSE Tail(boot)
  BY DEF ClearAndReturn
<1>2. /\ caller \in Owners /\ block_count \in Nat \ {0} /\ ~exited
      /\ Cardinality(Free) >= block_count
      /\ starting_block_id = Min(Free)
  BY <1>1, RequestsPositive DEF LoopIInv, CallsAgree
<1>3. starting_block_id \in 0 .. Entries /\ starting_block_id + block_count <= Entries
  BY <1>2, RunFits DEF LoopIInv, LoopTypeOK
<1>4. starting_block_id * BlockSize \in Nat
  BY <1>3, KmallocAssumption, SMT
<1>5. TypeOK'
  <2>1. held' \in [Owners -> [address : Nat, block_count : Nat]]
    BY <1>1, <1>2, <1>4 DEF LoopIInv, LoopTypeOK, TypeOK
  <2>2. boot' \in Seq(Nat \ {0})
    BY <1>1, EmptySeq, HeadTailProperties DEF LoopIInv, LoopTypeOK, TypeOK
  <2>3. k_memory_map' \in [Blocks -> {0, 1}]
    BY <1>1 DEF Return, LoopIInv, LoopTypeOK
  <2> QED
    BY <1>1, <2>1, <2>2, <2>3 DEF LoopIInv, LoopTypeOK, TypeOK
<1>6. HeldInside'
  BY <1>1, <1>2, <1>3 DEF LoopIInv, HeldInside, LoopTypeOK, TypeOK
<1> QED
  BY <1>1, <1>2, <1>5, <1>6, ReturnIInv

\* kfree starts at the first block of what the pointer holds.
LEMMA CallKfreeIInv ==
  ASSUME LoopIInv, NEW o \in Owners, NEW offset \in 0 .. BlockSize - 1, CallKfree(o, offset)
  PROVE  LoopIInv'
<1> DEFINE start == (held[o].address + offset) \div BlockSize
<1>1. /\ pc = "idle" /\ ~exited /\ boot = <<>> /\ held[o] # Nothing
      /\ pc' = "unlock" /\ caller' = o /\ block_count' = held[o].block_count
      /\ starting_block_id' = start /\ c' = start
      /\ UNCHANGED <<map_now, k_memory_map, memory, held, boot, exited,
                     current_block_id, found_block_count>>
  BY DEF CallKfree, vars
<1>2. PICK s \in 0 .. Entries :
        held[o].address = s * BlockSize /\ s + held[o].block_count <= Entries
  BY DEF LoopIInv, HeldInside
<1>3. start = s
  BY <1>2, BlockOfAddress
<1>4. held[o].block_count \in Nat
  BY DEF LoopIInv, LoopTypeOK, TypeOK
<1> HIDE DEF start
<1>5. LoopTypeOK'
  <2>1. TypeOK'
    BY <1>1 DEF LoopIInv, LoopTypeOK, TypeOK
  <2> QED
    BY <1>1, <1>2, <1>3, <1>4, <2>1 DEF LoopIInv, LoopTypeOK
<1>6. WritesInsideMap'
  BY <1>1, <1>2, <1>3, <1>4, KmallocAssumption DEF WritesInsideMap, Blocks
<1>7. ScanCounts' /\ HeldInside'
  BY <1>1 DEF LoopIInv, ScanCounts, HeldInside
<1>8. Written(0)'
  <2>1. s \in s .. s + held[o].block_count
    BY <1>4
  <2>2. map_now = [b \in Blocks |-> IF b \in s .. s - 1 THEN 0 ELSE k_memory_map[b]]
    BY <1>1 DEF LoopIInv, LoopTypeOK, CallsAgree
  <2> QED
    BY <1>1, <1>3, <2>1, <2>2 DEF Written
<1>9. CallsAgree'
  BY <1>1, <1>2, <1>3, <1>8 DEF CallsAgree
<1> QED
  BY <1>5, <1>6, <1>7, <1>9 DEF LoopIInv

\* What kfree took back is held no longer.
LEMMA ReturnFromKfreeIInv ==
  ASSUME LoopIInv, ReturnFromKfree
  PROVE  LoopIInv'
<1>1. /\ pc = "unlock" /\ Return /\ UNCHANGED <<memory, boot, exited>>
      /\ held' = [held EXCEPT ![caller] = Nothing]
  BY DEF ReturnFromKfree
<1>2. caller \in Owners /\ ~exited
  BY <1>1 DEF LoopIInv, CallsAgree
<1>3. TypeOK'
  <2>1. held' \in [Owners -> [address : Nat, block_count : Nat]]
    BY <1>1, <1>2 DEF LoopIInv, LoopTypeOK, TypeOK, Nothing
  <2>2. k_memory_map' \in [Blocks -> {0, 1}]
    BY <1>1 DEF Return, LoopIInv, LoopTypeOK
  <2> QED
    BY <1>1, <2>1, <2>2 DEF LoopIInv, LoopTypeOK, TypeOK
<1>4. HeldInside'
  <2>1. 0 \in 0 .. Entries /\ 0 = 0 * BlockSize /\ 0 + 0 <= Entries
    BY KmallocAssumption
  <2>2. ASSUME NEW o \in Owners
        PROVE  \E s \in 0 .. Entries :
                 held'[o].address = s * BlockSize /\ s + held'[o].block_count <= Entries
    <3>1. CASE o = caller
      <4>1. held'[o].address = 0 /\ held'[o].block_count = 0
        BY <1>1, <3>1 DEF LoopIInv, LoopTypeOK, TypeOK, Nothing
      <4> QED
        BY <2>1, <4>1
    <3>2. CASE o # caller
      <4>1. held'[o] = held[o]
        BY <1>1, <3>2 DEF LoopIInv, LoopTypeOK, TypeOK
      <4> QED
        BY <4>1 DEF LoopIInv, HeldInside
    <3> QED
      BY <3>1, <3>2
  <2> QED
    BY <2>2 DEF HeldInside
<1> QED
  BY <1>1, <1>2, <1>3, <1>4, ReturnIInv

\* Every iteration and every call keeps the invariant.
LEMMA LoopNextKeeps == LoopIInv /\ [LoopNext]_loop_vars => LoopIInv'
<1> SUFFICES ASSUME LoopIInv, [LoopNext]_loop_vars PROVE LoopIInv'
  OBVIOUS
<1>1. CASE /\ UNCHANGED <<map_now, k_memory_map, held, boot, pc, caller, block_count,
                          current_block_id, found_block_count, starting_block_id, c>>
           /\ memory' \in [Blocks -> Owners \cup {Zero}]
           /\ exited' \in BOOLEAN
           /\ (exited' => pc = "scan")
  <2>1. TypeOK'
    BY <1>1 DEF LoopIInv, LoopTypeOK, TypeOK
  <2>2. LoopTypeOK'
    BY <1>1, <2>1 DEF LoopIInv, LoopTypeOK
  <2>3. Passed' = Passed /\ Free' = Free
    BY <1>1 DEF Passed, Free
  <2>4. WritesInsideMap' /\ ScanCounts' /\ HeldInside'
    BY <1>1, <2>3 DEF LoopIInv, WritesInsideMap, ScanCounts, HeldInside
  <2>5. CallsAgree'
    BY <1>1, <2>3 DEF LoopIInv, CallsAgree, MayRequest, Written
  <2> QED
    BY <2>2, <2>4, <2>5 DEF LoopIInv
<1>2. CASE ScanFails
  BY <1>1, <1>2 DEF ScanFails, call, locals, LoopIInv, LoopTypeOK, TypeOK
<1>3. ASSUME NEW o \in Owners, UseBetween(o) PROVE LoopIInv'
  <2>1. memory' \in [Blocks -> Owners \cup {Zero}]
    BY <1>3 DEF UseBetween, Use, LoopIInv, LoopTypeOK, TypeOK
  <2>2. ~exited /\ UNCHANGED <<k_memory_map, held, boot, exited>> /\ exited' \in BOOLEAN
    BY <1>3 DEF UseBetween, Use, LoopIInv, LoopTypeOK, TypeOK
  <2> QED
    BY <1>1, <1>3, <2>1, <2>2 DEF UseBetween, call, locals
<1>4. CASE UNCHANGED loop_vars
  <2>1. /\ memory \in [Blocks -> Owners \cup {Zero}] /\ exited \in BOOLEAN
        /\ exited => pc = "scan"
    BY DEF LoopIInv, LoopTypeOK, TypeOK, CallsAgree
  <2> QED
    BY <1>1, <1>4, <2>1 DEF loop_vars, vars, call, locals
<1>5. CASE Step
  BY <1>2, <1>5, ScanBlockIInv, LockBlockIInv, ClearAndReturnIInv, UnlockBlockIInv,
     ReturnFromKfreeIInv DEF Step
<1> QED
  BY <1>3, <1>4, <1>5, CallKmallocIInv, CallKfreeIInv DEF LoopNext, LoopHalted

\* Whatever sizes are asked for, and however the free blocks lie, the scan
\* counts right and no loop leaves the map.
THEOREM LoopsStayInside == LoopSpec => []LoopIInv
BY LoopInitially, LoopNextKeeps, PTL DEF LoopSpec

-----------------------------------------------------------------------------
\* The scan that has passed every block has counted all that are free, so the
\* kernel exits only where the atomic kmalloc does.
LEMMA ExitIsAtomic ==
  ASSUME LoopIInv, ScanFails
  PROVE  KmallocExits(block_count) /\ block_count \in Requests
<1>1. /\ pc = "scan" /\ ~exited /\ current_block_id = Entries /\ exited' = TRUE
      /\ UNCHANGED <<k_memory_map, memory, held, boot>>
  BY DEF ScanFails, call
<1>2. /\ block_count \in Requests /\ MayRequest(block_count)
      /\ k_memory_map = map_now
  BY <1>1 DEF LoopIInv, CallsAgree
<1>3. Passed = Free
  <2>1. \A b \in Blocks : b < Entries
    BY KmallocAssumption DEF Blocks
  <2> QED
    BY <1>1, <1>2, <2>1 DEF Passed, Free
<1>4. Cardinality(Free) < block_count
  BY <1>1, <1>3 DEF LoopIInv, ScanCounts
<1> QED
  BY <1>1, <1>2, <1>4 DEF KmallocExits

\* When a loop has written every entry of its run, the map is the one an atomic
\* call leaves.
LEMMA AllWritten ==
  ASSUME LoopIInv, NEW value \in {0, 1}, Written(value), Return,
         c = starting_block_id + block_count
  PROVE  k_memory_map' = [b \in Blocks |->
                        IF b \in starting_block_id .. starting_block_id + block_count - 1
                        THEN value ELSE k_memory_map[b]]
<1>1. map_now = [b \in Blocks |-> IF b \in starting_block_id .. c - 1
                                       THEN value ELSE k_memory_map[b]]
  BY DEF Written
<1>2. k_memory_map' = map_now /\ Blocks = Blocks
  BY DEF Return
<1>3. c - 1 = starting_block_id + block_count - 1
  BY DEF LoopIInv, LoopTypeOK
<1> QED
  BY <1>1, <1>2, <1>3, Zenon

\* The return of kmalloc is the atomic call: the run begins at the first free
\* block and its first block is cleared.
LEMMA KmallocIsAtomic ==
  ASSUME LoopIInv, ClearAndReturn
  PROVE  /\ Kmalloc(caller, block_count)
         /\ caller \in Owners /\ block_count \in Requests
<1>1. /\ pc = "lock" /\ Return /\ UNCHANGED exited
      /\ c = starting_block_id + block_count
      /\ memory' = [memory EXCEPT ![starting_block_id] = Zero]
      /\ held' = [held EXCEPT ![caller] = [address |-> starting_block_id * BlockSize,
                                           block_count |-> block_count]]
      /\ boot' = IF boot = <<>> THEN <<>> ELSE Tail(boot)
  BY DEF ClearAndReturn
<1>2. /\ caller \in Owners /\ block_count \in Requests /\ ~exited
      /\ held[caller] = Nothing /\ MayRequest(block_count)
      /\ Cardinality(Free) >= block_count
      /\ starting_block_id = Min(Free) /\ Written(1)
  BY <1>1 DEF LoopIInv, CallsAgree
<1>3. starting_block_id \in Nat
  BY DEF LoopIInv, LoopTypeOK
<1>4. k_memory_map' = [b \in Blocks |->
                     IF b \in Run(starting_block_id * BlockSize, block_count)
                     THEN 1 ELSE k_memory_map[b]]
  BY <1>1, <1>2, <1>3, AllWritten, RunAtBlock
<1>5. /\ Min(Free) = starting_block_id
      /\ Cardinality(Free) = Cardinality(Free)
  BY <1>2
<1> QED
  BY <1>1, <1>2, <1>4, <1>5 DEF Kmalloc

\* The return of kfree is the atomic call, with a pointer to the first byte.
LEMMA KfreeIsAtomic ==
  ASSUME LoopIInv, ReturnFromKfree
  PROVE  Kfree(caller, 0) /\ caller \in Owners /\ 0 \in 0 .. BlockSize - 1
<1>1. /\ pc = "unlock" /\ Return /\ UNCHANGED <<memory, boot, exited>>
      /\ c = starting_block_id + block_count
      /\ held' = [held EXCEPT ![caller] = Nothing]
  BY DEF ReturnFromKfree
<1>2. /\ caller \in Owners /\ ~exited /\ boot = <<>> /\ held[caller] # Nothing
      /\ block_count = held[caller].block_count
      /\ starting_block_id * BlockSize = held[caller].address /\ Written(0)
  BY <1>1 DEF LoopIInv, CallsAgree
<1>3. starting_block_id \in Nat /\ held[caller].address \in Nat
  BY <1>2 DEF LoopIInv, LoopTypeOK, TypeOK
<1>4. held[caller].address + 0 = starting_block_id * BlockSize
  BY <1>2, <1>3
<1>5. k_memory_map' = [b \in Blocks |->
                     IF b \in Run(held[caller].address + 0, held[caller].block_count)
                     THEN 0 ELSE k_memory_map[b]]
  BY <1>1, <1>2, <1>3, <1>4, AllWritten, RunAtBlock
<1>6. 0 \in 0 .. BlockSize - 1
  BY KmallocAssumption
<1> QED
  BY <1>1, <1>2, <1>5, <1>6 DEF Kfree

\* Every step of the loops is a call of Kmalloc.tla or leaves what its clients
\* see unchanged.
LEMMA LoopStepIsAtomic == LoopIInv /\ [LoopNext]_loop_vars => [Next]_vars
<1> SUFFICES ASSUME LoopIInv, [LoopNext]_loop_vars PROVE [Next]_vars
  OBVIOUS
<1>1. CASE \/ \E o \in Owners, n \in Requests : CallKmalloc(o, n)
           \/ \E o \in Owners, offset \in 0 .. BlockSize - 1 : CallKfree(o, offset)
  BY <1>1 DEF CallKmalloc, CallKfree
<1>2. CASE \E o \in Owners : UseBetween(o)
  BY <1>2 DEF UseBetween, Next
<1>3. CASE ScanBlock \/ LockBlock \/ UnlockBlock
  BY <1>3 DEF ScanBlock, LockBlock, UnlockBlock
<1>4. CASE ScanFails
  BY <1>4, ExitIsAtomic DEF Next
<1>5. CASE ClearAndReturn
  BY <1>5, KmallocIsAtomic DEF Next
<1>6. CASE ReturnFromKfree
  BY <1>6, KfreeIsAtomic DEF Next
<1>7. CASE UNCHANGED loop_vars
  BY <1>7 DEF loop_vars
<1> QED
  BY <1>1, <1>2, <1>3, <1>4, <1>5, <1>6, <1>7 DEF LoopNext, Step, LoopHalted

\* The loops compute what the atomic calls of Kmalloc.tla say, for maps and
\* requests of every size: the abstraction the other modules rest on.
THEOREM LoopsComputeTheCalls == LoopSpec => ImplementsAtomic
<1>1. LoopInit => Init
  BY DEF LoopInit
<1>2. LoopIInv /\ [LoopNext]_loop_vars => [Next]_vars
  BY LoopStepIsAtomic
<1> QED
  BY <1>1, <1>2, LoopsStayInside, PTL DEF LoopSpec, ImplementsAtomic, Spec

\* So the code itself, loop by loop, is a pool of blocks for its clients: the two
\* refinements compose.
THEOREM LoopsAreAPool ==
  ASSUME Sizes = {1}, NEW CONSTANT Total, IsTotal(Total), Total[BootSizes] <= Entries
  PROVE  LoopSpec => ImplementsPool
<1>1. Spec => ImplementsPool
  BY AllocatorIsAPool
<1>2. LoopSpec => Spec
  BY LoopsComputeTheCalls DEF ImplementsAtomic
<1> QED
  BY <1>1, <1>2, PTL
=============================================================================
