-------------------------------- MODULE Boot --------------------------------
(***************************************************************************)
(* From _start (boot/kernel_entry.asm) through kernel_main                 *)
(* (kernel/kernel.c): what has to be in place before what.  The module     *)
(* composes the page tables (Paging), the descriptor tables (Segments) and *)
(* the search for drives (IdeInit) in the order of the code.               *)
(*                                                                         *)
(* From calls that have modules of their own only what matters here is     *)
(* taken over: interrupts go on with setup_interrupt_handlers              *)
(* (Interrupts.tla), init_filesystem ends in one of the ways of Ext2.tla.  *)
(* map_page has no caller yet; it gets one where kernel_main is done.      *)
(***************************************************************************)
EXTENDS Segments, IdeInit, SequencesExt

CONSTANTS
  Buses,       \* where there may be what drives: functions of IdeInit's Places
  Regions,     \* entries of the directory a caller of map_page names
  MappedPages, \* entries of a table it names
  Frames,      \* page frames it hands out
  MaxMaps,     \* bound: calls of map_page
  MapBuses     \* bound: the drives with which they are made (they use none)

ASSUME BootAssumption ==
  /\ Buses \subseteq [Places -> Kinds]
  /\ Regions \subseteq Page /\ MappedPages \subseteq Page /\ Frames \subseteq Page
  /\ MaxMaps \in Nat /\ MapBuses \subseteq Buses

VARIABLES
  pc,      \* the next call or instruction
  esp,     \* the linear address of the stack's page
  IFlag, idtr

cpu == <<pc, esp, IFlag, idtr>>
vars == <<cpu, memories, segments, ide_vars>>

-----------------------------------------------------------------------------
_start == <<"tables", "enable_VM", "lgdt", "reload_segments", "mov_esp">>

\* Variant: the drives are looked for before interrupts are on.
KernelMainStorageFirst ==
  <<"setup_gdt", "set_kernel_stack", "setup_paging", "load_page_directory", "remove",
    "storage_driver_init", "setup_interrupt_handlers", "init_filesystem", "finished">>

kernel_main ==
  <<"setup_gdt", "set_kernel_stack", "setup_paging", "load_page_directory", "remove",
    "setup_interrupt_handlers", "storage_driver_init", "init_filesystem", "finished">>

Steps == _start \o kernel_main
Final == {"exit_0", "exit_2", "exit_3", "halt"}

\* The step at label, followed by the next one of the code.
Does(label) ==
  \E k \in DOMAIN Steps : pc = label /\ Steps[k] = label /\ pc' = Steps[k + 1]
Rest == UNCHANGED <<esp, IFlag, idtr, ide_vars>>

Tables == Does("tables") /\ BuildBootTables /\ Rest /\ UNCHANGED segments
Enable == Does("enable_VM") /\ EnableVM /\ Rest /\ UNCHANGED segments
Lgdt == Does("lgdt") /\ LoadBootGdt /\ Rest /\ UNCHANGED memories
Reload == Does("reload_segments") /\ ReloadSegments /\ Rest /\ UNCHANGED memories

\* The stack, and the jump to kernel_main, into the other half.
MovEsp ==
  /\ Does("mov_esp") /\ esp' = <<High, Top>>
  /\ UNCHANGED <<IFlag, idtr, memories, segments, ide_vars>>

Gdt == Does("setup_gdt") /\ SetupGdt /\ Rest /\ UNCHANGED memories
KernelStack ==
  Does("set_kernel_stack") /\ SetKernelStack(<<High, Kernel>>) /\ Rest /\ UNCHANGED memories
SetupPaging == Does("setup_paging") /\ BuildKernelTables /\ Rest /\ UNCHANGED segments
Load == Does("load_page_directory") /\ LoadPageDirectory /\ Rest /\ UNCHANGED segments
Unmap == Does("remove") /\ RemoveLow /\ Rest /\ UNCHANGED segments

\* set_idt, sti and the timer's handler.
Handlers ==
  /\ Does("setup_interrupt_handlers")
  /\ IFlag' = TRUE /\ idtr' = <<High, Kernel>>
  /\ UNCHANGED <<esp, memories, segments, ide_vars>>

Ide ==
  /\ pc = "storage_driver_init"
  /\ \/ IdeStep /\ UNCHANGED pc
     \/ Register /\ Does("storage_driver_init")
  /\ UNCHANGED <<esp, IFlag, idtr, memories, segments>>

\* Without a drive vdevices[0] is all zeros, and read_sector divides by its
\* sector_size: isr_handler halts, as after the division in fill_priv_data.
Filesystem ==
  /\ \/ vdevices = <<>> /\ pc = "init_filesystem" /\ pc' = "halt"
     \/ /\ vdevices # <<>>
        /\ \/ Does("init_filesystem")
           \/ pc = "init_filesystem" /\ pc' \in {"exit_2", "exit_3", "halt"}
  /\ Rest /\ UNCHANGED <<memories, segments>>

\* A call of map_page, which may find no block for a table.
Map ==
  /\ pc = "finished" /\ calls < MaxMaps /\ drives \in MapBuses
  /\ \E r \in Regions, p \in MappedPages, f \in Frames, user \in BOOLEAN :
       \/ MapPage(r, p, f, user) /\ UNCHANGED pc
       \/ NeedsTable(r) /\ heap = {} /\ pc' = "exit_2" /\ UNCHANGED memories
  /\ Rest /\ UNCHANGED segments

\* kmalloc_test, and kernel_exit(0).
Exit == pc = "finished" /\ pc' = "exit_0" /\ Rest /\ UNCHANGED <<memories, segments>>

Drive == Answers /\ UNCHANGED <<cpu, memories, segments>>
Timer == ~ticked /\ pc \notin Final /\ Tick(IFlag) /\ UNCHANGED <<cpu, memories, segments>>
Halted == pc \in Final /\ UNCHANGED vars

-----------------------------------------------------------------------------
\* What the boot loader leaves: paging off, a table of its own in gdtr, and
\* selectors of that.
Init ==
  /\ pc = "tables" /\ esp = <<Low, Top>> /\ IFlag = FALSE /\ idtr = <<Low, 0>>
  /\ paging = FALSE /\ cr3 = 0 /\ memory = [p \in Page |-> Unwritten]
  /\ heap = HeapPages /\ map = NoCall /\ calls = 0
  /\ gdtr = [base |-> <<Low, 0>>, limit |-> 0] /\ gdt = <<>>
  /\ cs = 0 /\ ds = 0 /\ tr = 0 /\ esp0 = <<Low, 0>>
  /\ drives \in Buses /\ IdeInitial

Step == \/ Tables \/ Enable \/ Lgdt \/ Reload \/ MovEsp \/ Gdt \/ KernelStack
        \/ SetupPaging \/ Load \/ Unmap \/ Handlers \/ Ide \/ Filesystem \/ Map \/ Exit

Next == Step \/ Drive \/ Timer \/ Halted

\* The thread runs on, drives answer, the timer ticks.
Fairness == WF_vars(Step) /\ WF_vars(Drive) /\ WF_vars(Timer)

Spec == Init /\ [][Next]_vars /\ Fairness

-----------------------------------------------------------------------------
\* Types and ranges.
TypeOK ==
  /\ pc \in ToSet(Steps) \cup Final
  /\ IFlag \in BOOLEAN /\ cr3 \in Page /\ heap \subseteq HeapPages /\ calls \in Nat
  /\ memory \in [Page -> [Page -> [frame : Page \cup {-2, -1}, user : BOOLEAN]]]
  /\ drives \in Buses /\ answered \in BOOLEAN
  /\ ide \in {"select", "identify", "status", "poll", "signature", "packet", "read", "done"}
  /\ place \in 0 .. 4 /\ count \in 0 .. place /\ type \in {ATA, ATAPI}
  /\ ide_devices \in [Places -> [Reserved : {0, 1}, Type : {ATA, ATAPI}, Channel : {0, 1},
                                 Drive : {0, 1}, ident : Places \cup {Unread}]]

\* What the CPU or the kernel uses is behind the address by which it uses it:
\* code and stack, and above 0xC0000000 every page of the kernel.
Finds(address) == Translate(address[1], address[2]) = address[2]
InEntry == pc \in ToSet(_start)
CodeAndStack ==
  /\ Finds(<<IF InEntry THEN Low ELSE High, IF InEntry THEN Entry ELSE Kernel>>)
  /\ Finds(esp)
  /\ ~InEntry => \A p \in Page : Finds(<<High, p>>)

\* The segments in use can be loaded again, as each interrupt does.
SegmentsValid ==
  pc \notin {"tables", "enable_VM", "lgdt", "reload_segments"} =>
    /\ Selected(cs) = Descriptor("code", 0) /\ Selected(ds) = Descriptor("data", 0)
    /\ tr # 0 => Selected(8 * (tr \div 8)).kind = "TSS"
    /\ IFlag => Finds(idtr) /\ Finds(esp0)

\* The tables of kernel_entry.asm, from when they are there until cr3 names those
\* of setup_paging, which are there before and remain.
OnBootTables == InEntry \/ pc \in {"setup_gdt", "set_kernel_stack", "setup_paging",
                                   "load_page_directory"}
TablesHold ==
  /\ paging = (pc \notin {"tables", "enable_VM"})
  /\ OnBootTables /\ pc # "tables" =>
       /\ memory[BootTable] = identity_map_page_table
       /\ memory[BootDir][Low] = Supervisor(BootTable)
       /\ memory[BootDir][High] = Supervisor(BootTable)
  /\ OnBootTables /\ paging => cr3 = BootDir
  /\ ~OnBootTables => cr3 = KernelDir
  /\ ~OnBootTables \/ pc = "load_page_directory" =>
       /\ memory[Frame] = identity_map_page_table
       /\ memory[KernelDir][High] = Supervisor(Frame)

\* Once the kernel runs on its own tables alone, each other entry of its
\* directory is absent or leads to a block of the heap that is a table for that
\* entry only, and has no entries but absent and complete ones.
Leads(r) == memory[KernelDir][r] # Absent
TableOf(r) == memory[KernelDir][r].frame
TablesApart ==
  /\ pc \in {"load_page_directory", "remove"} => \A r \in Page \ {Low, High} : ~Leads(r)
  /\ ~OnBootTables /\ pc # "remove" =>
       \A r \in Page \ {High} : Leads(r) =>
         /\ TableOf(r) \in HeapPages \ heap
         /\ \A p \in Page : LET e == memory[TableOf(r)][p] IN e = Absent \/ e.frame \in Page
         /\ \A q \in Page \ {High} : Leads(q) /\ TableOf(q) = TableOf(r) => q = r

\* What the registers of the segments, of the tables and of the stack hold.
RegistersHold ==
  /\ esp = <<IF InEntry THEN Low ELSE High, Top>>
  /\ InEntry \/ pc = "setup_gdt" =>
       /\ tr = 0
       /\ pc \notin {"tables", "enable_VM", "lgdt"} =>
            gdtr = [base |-> <<Low, Entry>>, limit |-> 8 * Len(gdt_start) - 1]
  /\ pc \notin {"tables", "enable_VM", "lgdt", "reload_segments"} => cs = 8 /\ ds = 16
  /\ ~InEntry /\ pc # "setup_gdt" =>
       /\ gdt = SixEntries /\ tr = 43
       /\ gdtr = [base |-> <<High, Kernel>>, limit |-> 8 * Len(SixEntries) - 1]
       /\ pc # "set_kernel_stack" => esp0 = <<High, Kernel>>
  /\ IFlag => idtr = <<High, Kernel>> /\ ~OnBootTables

\* A drive, and how many there are before a place: the entry it gets.
Present(p) == drives[p] \in {"ATA", "ATAPI"}
Before(p) == Cardinality({q \in Places : q < p /\ Present(q)})

\* The device is the drive at p: its place and type, and for a disk its own
\* identification, from which its addressing mode is taken.
IsDrive(d, p) ==
  /\ 2 * d.Channel + d.Drive = p
  /\ d.Type = IF drives[p] = "ATA" THEN ATA ELSE ATAPI
  /\ drives[p] = "ATA" => d.ident = p

\* How far the probe is, and what it knows of the drive it is at.
Probed ==
  /\ count = Before(place)
  /\ \A d \in Places : ide_devices[d].Reserved = IF d < count THEN 1 ELSE 0
  /\ \A p \in Places : p < place /\ Present(p) => IsDrive(ide_devices[Before(p)], p)
  /\ ide \in {"identify", "status", "poll", "signature", "packet", "read"} =>
       /\ place \in Places
       /\ ide = "poll" => drives[place] # "none"
       /\ ide = "signature" => drives[place] \in {"ATAPI", "other"}
       /\ ide = "packet" => drives[place] = "ATAPI"
       /\ ide = "read" => Present(place) /\ (drives[place] = "ATA" => answered)
       /\ type = IF ide \in {"packet", "read"} /\ drives[place] = "ATAPI" THEN ATAPI ELSE ATA
  /\ ide = "done" => place = 4 /\ vdevices = [k \in 1 .. count |-> device_info(k - 1)]

\* At every step of the boot, and under every interrupt, what the CPU needs is
\* where it looks for it, although both tables are replaced while in use, the
\* low half is taken away and the last table lies in a frame that has returned.
IInv == /\ TypeOK /\ CodeAndStack /\ SegmentsValid
        /\ TablesHold /\ TablesApart /\ RegistersHold /\ Probed

Translation ==
  [a \in Page \X Page |-> [page |-> Translate(a[1], a[2]), user |-> UserMay(a[1], a[2])]]

\* map_page either maps the page asked for, gives no right nobody asked for
\* and touches no other translation, or says that the page is present and
\* changes nothing.
MapPageContract ==
  [][calls' > calls =>
       LET call == map'
       IN IF call.result = 1
          THEN Translation' = Translation /\ Translation[call.at].page \in Page
          ELSE /\ Translation'[call.at].page = call.frame
               /\ Translation'[call.at].user => call.user
               /\ \A a \in Page \X Page \ {call.at} : Translation'[a] = Translation[a]]_vars

\* When the drivers are loaded, vdevices has the disks and ATAPI drives there
\* are, in order, each with the right place, type and sector size, and each
\* disk with its own identification, from which its addressing mode is taken.
RegistersTheDrives ==
  LET Right(v, p) ==
        /\ IsDrive(ide_devices[v.ata_id], p) /\ v.type = ide_devices[v.ata_id].Type
        /\ v.sector_size = IF drives[p] = "ATA" THEN 512 ELSE 2048
  IN ide = "done" => /\ Len(vdevices) = Before(4)
                     /\ \A p \in Places : Present(p) => Right(vdevices[Before(p) + 1], p)

\* The boot comes to one of its ends: nothing sleeps before ticks are counted,
\* and no place that is empty or unknown is waited for.
BootEnds == <>(pc \in Final)
=============================================================================
