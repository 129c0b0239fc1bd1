------------------------------- MODULE Paging -------------------------------
(***************************************************************************)
(* The page tables: those enable_VM builds in boot/kernel_entry.asm, and   *)
(* setup_paging and map_page of kernel/vm.c.  A component: Boot.tla makes  *)
(* its operations the steps of the kernel.                                 *)
(*                                                                         *)
(* A linear address is a pair of the index into the directory and the      *)
(* index into the table, which stand for its upper 10 and its middle 10    *)
(* bits.  Directory and tables live in the pages they translate: memory[p] *)
(* is what page p is when taken for one of them.  A translation looks at   *)
(* memory; that a TLB remembers an entry longer is left out, nobody uses   *)
(* an address again after it was taken away.                               *)
(***************************************************************************)
EXTENDS Integers, FiniteSetsExt

CONSTANTS
  Entries,    \* 1024: entries of a table, and pages a table maps
  High,       \* 0x300: the entry of the directory for 0xC0000000
  Entry, Kernel, Video,     \* pages of _start, of the linked kernel, 0xB8
  BootDir, BootTable,       \* 0x80, 0x81
  KernelDir,                \* kernel_page_directory
  Top,        \* the page kernel_main's stack begins in
  Depth,      \* pages of the stack that calls after setup_paging reach into
  HeapPages   \* blocks of kmalloc_memory that are free after boot

Low == 0
Page == 0 .. Entries - 1

\* The stack grows down; setup_paging's frame has space for a table and its
\* alignment, so the table is pages below the frames around it.
FramePages == 3

ASSUME PagingAssumption ==
  /\ Entries \in Nat /\ {High, Top} \subseteq Page \ {0} /\ Top >= FramePages
  /\ {Entry, Kernel, Video, BootDir, BootTable, KernelDir} \subseteq Page
  /\ HeapPages \subseteq Page
  /\ Depth \in 0 .. FramePages

\* first_page_table.
Frame == Top - FramePages

\* Where things are, by the addresses in kernel_entry.asm and linker.ld.
ASSUME LayoutAssumption ==
  /\ Entry # Kernel /\ BootDir # BootTable /\ KernelDir \notin Frame .. Top
  /\ {Frame, KernelDir} \cap ({BootDir, BootTable} \cup HeapPages) = {}

VARIABLES
  paging, cr3,  \* the registers: the bit of cr0, the page of the directory
  memory,
  heap,         \* free blocks
  map, calls    \* history: the last call of map_page, and their number

memories == <<paging, cr3, memory, heap, map, calls>>

-----------------------------------------------------------------------------
\* The entry 2, not present, and what may be in memory nobody has written.
Absent == [frame |-> -1, user |-> FALSE]
Garbage == [frame |-> -2, user |-> FALSE]
Unwritten == [e \in Page |-> Garbage]

Supervisor(frame) == [frame |-> frame, user |-> FALSE]

clear_entries == [e \in Page |-> Absent]
identity_map_page_table == [e \in Page |-> Supervisor(e)]

\* What the CPU makes of a linear address.
EntryFor(region) == memory[cr3][region]
Translate(region, page) ==
  IF ~paging THEN IF region = Low THEN page ELSE -1
  ELSE IF EntryFor(region).frame \notin Page THEN -1
  ELSE memory[EntryFor(region).frame][page].frame
UserMay(region, page) ==
  /\ Translate(region, page) \in Page
  /\ EntryFor(region).user /\ memory[EntryFor(region).frame][page].user

\* The kernel writes a page through its address above 0xC0000000.
At(page) == Translate(High, page)

-----------------------------------------------------------------------------
\* identity_map_first_mb and register_1mb_page_table: two entries of the
\* directory are written, the others stay as they are.
BuildBootTables ==
  /\ memory' = [memory EXCEPT ![BootTable] = identity_map_page_table,
                              ![BootDir][Low] = Supervisor(BootTable),
                              ![BootDir][High] = Supervisor(BootTable)]
  /\ UNCHANGED <<paging, cr3, heap, map, calls>>

EnableVM == paging' = TRUE /\ cr3' = BootDir /\ UNCHANGED <<memory, heap, map, calls>>

\* setup_paging up to load_page_directory.
BuildKernelTables ==
  /\ memory' = [memory EXCEPT ![At(Frame)] = identity_map_page_table,
                              ![At(KernelDir)] = [clear_entries EXCEPT
                                 ![Low] = Supervisor(Frame), ![High] = Supervisor(Frame)]]
  /\ UNCHANGED <<paging, cr3, heap, map, calls>>

LoadPageDirectory == cr3' = KernelDir /\ UNCHANGED <<paging, memory, heap, map, calls>>

\* The first entry is taken out again, and setup_paging returns: from here on
\* other calls have the stack its table is in.
RemoveLow ==
  /\ memory' = [p \in Page |->
       IF p \in Top - Depth + 1 .. Top THEN Unwritten
       ELSE IF p = At(KernelDir) THEN [memory[p] EXCEPT ![Low] = Absent]
       ELSE memory[p]]
  /\ UNCHANGED <<paging, cr3, heap, map, calls>>

-----------------------------------------------------------------------------
NoCall == [at |-> <<Low, 0>>, frame |-> 0, user |-> FALSE, result |-> 0]

\* map_page(kernel_page_directory, frame, <<region, page>>, flags).
NeedsTable(region) == memory[At(KernelDir)][region] = Absent

\* Variant: the new table is left as kmalloc gives it.
PrepareUncleared(region, user) ==
  IF NeedsTable(region)
  THEN [memory EXCEPT ![At(Min(heap))] = Unwritten,
                      ![At(KernelDir)][region] = [frame |-> Min(heap), user |-> user]]
  ELSE memory

\* memory with a table for region.
Prepare(region, user) ==
  IF NeedsTable(region)
  THEN [memory EXCEPT ![At(Min(heap))] = clear_entries,
                      ![At(KernelDir)][region] = [frame |-> Min(heap), user |-> user]]
  ELSE memory

MapPage(region, page, frame, user) ==
  LET prepared == Prepare(region, user)
      table == At(prepared[At(KernelDir)][region].frame)
      present == prepared[table][page] # Absent
  IN /\ NeedsTable(region) => heap # {}
     /\ heap' = IF NeedsTable(region) THEN heap \ {Min(heap)} ELSE heap
     /\ memory' = IF present THEN prepared
                  ELSE [prepared EXCEPT ![table][page] = [frame |-> frame, user |-> user]]
     /\ map' = [at |-> <<region, page>>, frame |-> frame, user |-> user,
                result |-> IF present THEN 1 ELSE 0]
     /\ calls' = calls + 1
     /\ UNCHANGED <<paging, cr3>>
=============================================================================
