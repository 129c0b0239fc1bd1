----------------------------- MODULE BootProofs -----------------------------
(***************************************************************************)
(* Theorems about Boot.tla, for every layout of memory the assumptions of  *)
(* Paging.tla allow, whatever drives there are, and every page, frame and  *)
(* right that map_page is called with.                                     *)
(***************************************************************************)
EXTENDS Boot, FiniteSetTheorems, SequenceTheorems, WellFoundedInduction, TLAPS

-----------------------------------------------------------------------------
\* The order of the steps, written out.
LEMMA StepsInOrder ==
  /\ DOMAIN Steps = 1 .. 14
  /\ Steps[1] = "tables" /\ Steps[2] = "enable_VM" /\ Steps[3] = "lgdt"
  /\ Steps[4] = "reload_segments" /\ Steps[5] = "mov_esp" /\ Steps[6] = "setup_gdt"
  /\ Steps[7] = "set_kernel_stack" /\ Steps[8] = "setup_paging"
  /\ Steps[9] = "load_page_directory" /\ Steps[10] = "remove"
  /\ Steps[11] = "setup_interrupt_handlers" /\ Steps[12] = "storage_driver_init"
  /\ Steps[13] = "init_filesystem" /\ Steps[14] = "finished"
<1> DEFINE S == {"tables", "enable_VM", "lgdt", "reload_segments", "mov_esp",
       "setup_gdt", "set_kernel_stack", "setup_paging", "load_page_directory", "remove",
       "setup_interrupt_handlers", "storage_driver_init", "init_filesystem", "finished"}
<1>1. _start \in Seq(S) /\ Len(_start) = 5
  BY DEF _start
<1>2. kernel_main \in Seq(S) /\ Len(kernel_main) = 9
  BY DEF kernel_main
<1>3. /\ Steps \in Seq(S) /\ Len(Steps) = 14
      /\ \A k \in 1 .. 14 : Steps[k] = IF k <= 5 THEN _start[k] ELSE kernel_main[k - 5]
  <2> HIDE DEF S
  <2>1. /\ Steps \in Seq(S) /\ Len(Steps) = Len(_start) + Len(kernel_main)
        /\ \A k \in 1 .. Len(_start) + Len(kernel_main) : Steps[k] =
             IF k <= Len(_start) THEN _start[k] ELSE kernel_main[k - Len(_start)]
    BY <1>1, <1>2, ConcatProperties, Zenon DEF Steps
  <2> QED
    BY <1>1, <1>2, <2>1
<1>4. DOMAIN Steps = 1 .. 14
  BY <1>3, LenProperties
<1>5. /\ Steps[1] = _start[1] /\ Steps[2] = _start[2] /\ Steps[3] = _start[3]
      /\ Steps[4] = _start[4] /\ Steps[5] = _start[5]
  BY <1>3
<1>6. /\ Steps[6] = kernel_main[1] /\ Steps[7] = kernel_main[2] /\ Steps[8] = kernel_main[3]
      /\ Steps[9] = kernel_main[4] /\ Steps[10] = kernel_main[5]
      /\ Steps[11] = kernel_main[6] /\ Steps[12] = kernel_main[7]
      /\ Steps[13] = kernel_main[8] /\ Steps[14] = kernel_main[9]
  BY <1>3
<1> QED
  BY <1>4, <1>5, <1>6 DEF _start, kernel_main

\* The labels of the two parts, as sets.
LEMMA Labels ==
  /\ ToSet(_start) = {"tables", "enable_VM", "lgdt", "reload_segments", "mov_esp"}
  /\ ToSet(Steps) = {"tables", "enable_VM", "lgdt", "reload_segments", "mov_esp",
       "setup_gdt", "set_kernel_stack", "setup_paging", "load_page_directory", "remove",
       "setup_interrupt_handlers", "storage_driver_init", "init_filesystem", "finished"}
<1>1. ToSet(_start) = {_start[k] : k \in 1 .. 5}
  BY DEF ToSet, _start
<1>2. ToSet(Steps) = {Steps[k] : k \in 1 .. 14}
  BY StepsInOrder DEF ToSet
<1>3. 1 .. 5 = {1, 2, 3, 4, 5}
  OBVIOUS
<1>4. 1 .. 14 = {1, 2, 3, 4, 5, 6, 7, 8, 9, 10, 11, 12, 13, 14}
  OBVIOUS
<1>5. ToSet(_start) = {_start[1], _start[2], _start[3], _start[4], _start[5]}
  BY <1>1, <1>3
<1>6. ToSet(Steps) = {Steps[1], Steps[2], Steps[3], Steps[4], Steps[5], Steps[6], Steps[7],
        Steps[8], Steps[9], Steps[10], Steps[11], Steps[12], Steps[13], Steps[14]}
  BY <1>2, <1>4
<1>7. ToSet(_start) = {"tables", "enable_VM", "lgdt", "reload_segments", "mov_esp"}
  BY <1>5 DEF _start
<1> QED
  BY <1>6, <1>7, StepsInOrder

\* What follows a step.
LEMMA DoesNext ==
  /\ Does("tables") => pc = "tables" /\ pc' = "enable_VM"
  /\ Does("enable_VM") => pc = "enable_VM" /\ pc' = "lgdt"
  /\ Does("lgdt") => pc = "lgdt" /\ pc' = "reload_segments"
  /\ Does("reload_segments") => pc = "reload_segments" /\ pc' = "mov_esp"
  /\ Does("mov_esp") => pc = "mov_esp" /\ pc' = "setup_gdt"
  /\ Does("setup_gdt") => pc = "setup_gdt" /\ pc' = "set_kernel_stack"
  /\ Does("set_kernel_stack") => pc = "set_kernel_stack" /\ pc' = "setup_paging"
  /\ Does("setup_paging") => pc = "setup_paging" /\ pc' = "load_page_directory"
  /\ Does("load_page_directory") => pc = "load_page_directory" /\ pc' = "remove"
  /\ Does("remove") => pc = "remove" /\ pc' = "setup_interrupt_handlers"
  /\ Does("setup_interrupt_handlers") =>
       pc = "setup_interrupt_handlers" /\ pc' = "storage_driver_init"
  /\ Does("storage_driver_init") =>
       pc = "storage_driver_init" /\ pc' = "init_filesystem"
  /\ Does("init_filesystem") => pc = "init_filesystem" /\ pc' = "finished"
BY StepsInOrder DEF Does

-----------------------------------------------------------------------------
\* The pages of the layout, and which of them are different ones.
LEMMA Layout ==
  /\ Entries \in Nat /\ Page = 0 .. Entries - 1
  /\ Page \subseteq Nat /\ -1 \notin Page /\ -2 \notin Page
  /\ {Low, High, Entry, Kernel, BootDir, BootTable, KernelDir, Frame, Top} \subseteq Page
  /\ Low # High /\ Entry # Kernel /\ BootDir # BootTable
  /\ Frame \notin {BootDir, BootTable, KernelDir} /\ KernelDir \notin {BootDir, BootTable}
  /\ HeapPages \subseteq Page /\ Frame \notin HeapPages /\ KernelDir \notin HeapPages
  /\ Frame \notin Top - Depth + 1 .. Top /\ KernelDir \notin Top - Depth + 1 .. Top
<1>1. Frame \in 0 .. Top /\ Top \in Page
  BY PagingAssumption DEF Frame, FramePages, Page
<1>2. Frame \notin Top - Depth + 1 .. Top
  BY PagingAssumption DEF Frame, FramePages, Page
<1>3. \A k \in Top - Depth + 1 .. Top : k \in Frame .. Top
  BY PagingAssumption DEF Frame, FramePages, Page
<1>4. Frame \in Frame .. Top
  BY <1>1 DEF Page
<1> QED
  BY <1>1, <1>2, <1>3, <1>4, PagingAssumption, LayoutAssumption DEF Page, Low

\* Both table pages translate every page to itself.
LEMMA Identity ==
  ASSUME NEW p \in Page
  PROVE  identity_map_page_table[p] = Supervisor(p) /\ Supervisor(p).frame = p
                                    /\ Supervisor(p) # Absent
BY Layout DEF identity_map_page_table, Supervisor, Absent

\* While the tables of kernel_entry.asm are used, both halves show all pages.
LEMMA BootTranslates ==
  ASSUME TablesHold, OnBootTables, paging, NEW p \in Page
  PROVE  Translate(Low, p) = p /\ Translate(High, p) = p
<1>1. pc # "tables" /\ cr3 = BootDir
  BY DEF TablesHold
<1>2. EntryFor(Low) = Supervisor(BootTable) /\ EntryFor(High) = Supervisor(BootTable)
  BY <1>1 DEF TablesHold, EntryFor
<1>3. Supervisor(BootTable).frame = BootTable /\ BootTable \in Page
  BY Layout DEF Supervisor
<1>4. memory[BootTable][p].frame = p
  BY <1>1, Identity DEF TablesHold
<1> QED
  BY <1>2, <1>3, <1>4 DEF Translate

\* Once those of setup_paging are, the upper half does.
LEMMA KernelTranslates ==
  ASSUME TablesHold, ~OnBootTables, NEW p \in Page
  PROVE  paging /\ cr3 = KernelDir /\ Translate(High, p) = p
<1>1. paging /\ cr3 = KernelDir
  BY Labels DEF TablesHold, OnBootTables, InEntry
<1>2. EntryFor(High) = Supervisor(Frame)
  BY <1>1 DEF TablesHold, EntryFor
<1>3. Supervisor(Frame).frame = Frame /\ Frame \in Page
  BY Layout DEF Supervisor
<1>4. memory[Frame][p].frame = p
  BY Identity DEF TablesHold
<1> QED
  BY <1>1, <1>2, <1>3, <1>4 DEF Translate

-----------------------------------------------------------------------------
\* What is where it has to be follows from what tables and registers hold: for
\* code, stack, and the pages of the kernel.
LEMMA CodeAndStackFollow ==
  ASSUME TypeOK, TablesHold, RegistersHold
  PROVE  CodeAndStack
<1>1. {Entry, Kernel, Top} \subseteq Page
  BY Layout
<1>2. CASE pc \in {"tables", "enable_VM"}
  <2>1. InEntry /\ ~paging
    BY <1>2, Labels DEF InEntry, TablesHold
  <2>2. esp = <<Low, Top>>
    BY <2>1 DEF RegistersHold
  <2> QED
    BY <2>1, <2>2 DEF CodeAndStack, Finds, Translate
<1>3. CASE pc \notin {"tables", "enable_VM"} /\ OnBootTables
  <2>1. \A p \in Page : Translate(Low, p) = p /\ Translate(High, p) = p
    BY <1>3, BootTranslates DEF TablesHold
  <2>2. esp = <<IF InEntry THEN Low ELSE High, Top>>
    BY DEF RegistersHold
  <2> QED
    BY <1>1, <2>1, <2>2 DEF CodeAndStack, Finds
<1>4. CASE ~OnBootTables
  <2>1. \A p \in Page : Translate(High, p) = p
    BY <1>4, KernelTranslates
  <2>2. ~InEntry /\ esp = <<High, Top>>
    BY <1>4 DEF RegistersHold, OnBootTables
  <2> QED
    BY <1>1, <2>1, <2>2 DEF CodeAndStack, Finds
<1> QED
  BY <1>2, <1>3, <1>4

\* The six descriptors of setup_gdt, and the three of gdt.asm.
LEMMA Descriptors ==
  /\ Len(gdt_start) = 3 /\ Len(SixEntries) = 6
  /\ gdt_start[2] = Descriptor("code", 0) /\ gdt_start[3] = Descriptor("data", 0)
  /\ SixEntries[2] = Descriptor("code", 0) /\ SixEntries[3] = Descriptor("data", 0)
  /\ SixEntries[6].kind = "TSS"
<1>1. data = Descriptor("data", 0)
  BY DEF data, code, Descriptor
<1>2. tss_entry.kind = "TSS"
  BY DEF tss_entry, Descriptor
<1>3. /\ Len(SixEntries) = 6 /\ SixEntries[2] = code /\ SixEntries[3] = data
      /\ SixEntries[6] = tss_entry
  BY DEF SixEntries
<1>4. /\ Len(gdt_start) = 3 /\ gdt_start[2] = Descriptor("code", 0)
      /\ gdt_start[3] = Descriptor("data", 0)
  BY DEF gdt_start
<1>5. code = Descriptor("code", 0)
  BY DEF code
<1> QED
  BY <1>1, <1>2, <1>3, <1>4, <1>5

\* The selectors in use name descriptors of the table in gdtr, which the CPU
\* finds, and so are the IDT and the stack for interrupts.
LEMMA SegmentsFollow ==
  ASSUME TypeOK, TablesHold, RegistersHold
  PROVE  SegmentsValid
<1> SUFFICES ASSUME pc \notin {"tables", "enable_VM", "lgdt", "reload_segments"}
             PROVE  /\ Selected(cs) = Descriptor("code", 0)
                    /\ Selected(ds) = Descriptor("data", 0)
                    /\ tr # 0 => Selected(8 * (tr \div 8)).kind = "TSS"
                    /\ IFlag => Finds(idtr) /\ Finds(esp0)
  BY DEF SegmentsValid
<1>1. cs = 8 /\ ds = 16 /\ paging
  BY DEF RegistersHold, TablesHold
<1>2. \A p \in Page : Translate(High, p) = p /\ (OnBootTables => Translate(Low, p) = p)
  BY <1>1, BootTranslates, KernelTranslates
<1>3. /\ 8 \div 8 + 1 = 2 /\ 16 \div 8 + 1 = 3 /\ 8 * (43 \div 8) = 40 /\ 40 \div 8 + 1 = 6
  BY SMT
<1>4. Entry \in Page /\ Kernel \in Page /\ Entry # Kernel
  BY Layout
<1>5. CASE InEntry \/ pc = "setup_gdt"
  <2>1. tr = 0 /\ gdtr.base = <<Low, Entry>> /\ gdtr.limit = 8 * 3 - 1
    BY <1>5, Descriptors DEF RegistersHold
  <2>2. OnBootTables
    BY <1>5 DEF OnBootTables
  <2>3. Translate(gdtr.base[1], gdtr.base[2]) = Entry
    BY <1>2, <1>4, <2>1, <2>2
  <2>4. TableAt(gdtr.base) = gdt_start
    BY <1>4, <2>3 DEF TableAt
  <2>5. Selected(cs) = gdt_start[2] /\ Selected(ds) = gdt_start[3]
    BY <1>1, <1>3, <2>1, <2>4, Descriptors DEF Selected
  <2>6. ~IFlag
    BY <2>2 DEF RegistersHold
  <2> QED
    BY <2>1, <2>5, <2>6, Descriptors
<1>6. CASE ~InEntry /\ pc # "setup_gdt"
  <2>1. /\ gdt = SixEntries /\ tr = 43
        /\ gdtr.base = <<High, Kernel>> /\ gdtr.limit = 8 * 6 - 1
    BY <1>6, Descriptors DEF RegistersHold
  <2>2. Translate(gdtr.base[1], gdtr.base[2]) = Kernel
    BY <1>2, <1>4, <2>1
  <2>3. TableAt(gdtr.base) = SixEntries
    BY <1>4, <2>1, <2>2 DEF TableAt
  <2> DEFINE table == TableAt(gdtr.base)
  <2>4. table = SixEntries /\ Len(table) = 6 /\ gdtr.limit = 47
    BY <2>1, <2>3, Descriptors
  <2> HIDE DEF table
  <2>5. Selected(8) = table[2] /\ Selected(16) = table[3]
    BY <1>3, <2>4 DEF Selected, table
  <2>6. Selected(40) = table[6]
    BY <1>3, <2>4 DEF Selected, table
  <2>7. IFlag => idtr = <<High, Kernel>> /\ esp0 = <<High, Kernel>>
    BY <1>6 DEF RegistersHold, OnBootTables
  <2>8. IFlag => Finds(idtr) /\ Finds(esp0)
    BY <1>2, <1>4, <2>7 DEF Finds
  <2> QED
    BY <1>1, <1>3, <2>1, <2>4, <2>5, <2>6, <2>8, Descriptors
<1> QED
  BY <1>5, <1>6

-----------------------------------------------------------------------------
\* The number of drives before a place, and how it grows with the place.
LEMMA BeforeFacts ==
  /\ \A p \in 0 .. 4 : Before(p) \in 0 .. p
  /\ \A p \in Places : Before(p + 1) = IF Present(p) THEN Before(p) + 1 ELSE Before(p)
  /\ \A p \in Places, q \in 0 .. 4 : p < q /\ Present(p) => Before(p) < Before(q)
<1> DEFINE Ahead(p) == {q \in Places : q < p /\ Present(q)}
<1>1. ASSUME NEW p \in 0 .. 4
      PROVE  IsFiniteSet(Ahead(p)) /\ Cardinality(Ahead(p)) \in 0 .. p
  <2>1. IsFiniteSet(0 .. p - 1) /\ Cardinality(0 .. p - 1) = p
    BY FS_Interval
  <2>2. Ahead(p) \subseteq 0 .. p - 1
    BY DEF Places
  <2>3. /\ IsFiniteSet(Ahead(p)) /\ Cardinality(Ahead(p)) <= p
    BY <2>1, <2>2, FS_Subset
  <2> QED
    BY <2>3, FS_CardinalityType
<1>2. ASSUME NEW p \in Places
      PROVE  Cardinality(Ahead(p + 1)) = IF Present(p) THEN Cardinality(Ahead(p)) + 1
                                         ELSE Cardinality(Ahead(p))
  <2>1. p \in 0 .. 4
    BY DEF Places
  <2>2. Ahead(p + 1) = IF Present(p) THEN Ahead(p) \cup {p} ELSE Ahead(p)
    BY DEF Places
  <2>3. p \notin Ahead(p)
    BY <2>1
  <2>4. Cardinality(Ahead(p) \cup {p}) = Cardinality(Ahead(p)) + 1
    <3> HIDE DEF Ahead
    <3> QED
      BY <1>1, <2>1, <2>3, FS_AddElement
  <2> QED
    BY <2>2, <2>4
<1>3. ASSUME NEW p \in Places, NEW q \in 0 .. 4, p < q, Present(p)
      PROVE  Cardinality(Ahead(p)) < Cardinality(Ahead(q))
  <2>1. p + 1 \in 0 .. 4 /\ p \in 0 .. 4
    BY DEF Places
  <2>2. Ahead(p + 1) \subseteq Ahead(q)
    BY <1>3 DEF Places
  <2>3. Cardinality(Ahead(p + 1)) <= Cardinality(Ahead(q))
    <3> HIDE DEF Ahead
    <3> QED
      BY <1>1, <2>2, FS_Subset
  <2>4. Cardinality(Ahead(p + 1)) = Cardinality(Ahead(p)) + 1
    BY <1>2, <1>3
  <2>5. Cardinality(Ahead(p)) \in Nat /\ Cardinality(Ahead(q)) \in Nat
    <3> HIDE DEF Ahead
    <3> QED
      BY <1>1, <2>1
  <2> QED
    BY <2>3, <2>4, <2>5
<1>4. \A p : Before(p) = Cardinality(Ahead(p))
  BY DEF Before
<1> HIDE DEF Ahead
<1> QED
  BY <1>1, <1>2, <1>3, <1>4

\* As long as the drives stay, so do the numbers of drives.
LEMMA BeforeKept ==
  ASSUME drives' = drives
  PROVE  /\ Before(place)' = Before(place')
         /\ \A p : Before(p)' = Before(p) /\ Present(p)' = Present(p)
         /\ \A d, p : IsDrive(d, p)' = IsDrive(d, p)
BY DEF Before, Present, IsDrive

\* What the probe and the drives change: the part of TypeOK about it.
IdeTypes ==
  /\ drives \in Buses /\ answered \in BOOLEAN
  /\ ide \in {"select", "identify", "status", "poll", "signature", "packet", "read", "done"}
  /\ place \in 0 .. 4 /\ count \in 0 .. place /\ type \in {ATA, ATAPI}
  /\ ide_devices \in [Places -> [Reserved : {0, 1}, Type : {ATA, ATAPI}, Channel : {0, 1},
                                 Drive : {0, 1}, ident : Places \cup {Unread}]]
IdeInv == IdeTypes /\ Probed

\* Nothing is registered yet.
LEMMA IdeInitially == IdeInitial /\ drives \in Buses => IdeInv
<1> SUFFICES ASSUME IdeInitial, drives \in Buses PROVE IdeInv
  OBVIOUS
<1>1. /\ place = 0 /\ count = 0 /\ ide = "select" /\ type = ATA /\ answered = TRUE
      /\ ide_devices = [d \in Places |-> NoDevice]
  BY DEF IdeInitial
<1>2. NoDevice \in [Reserved : {0, 1}, Type : {ATA, ATAPI}, Channel : {0, 1},
                    Drive : {0, 1}, ident : Places \cup {Unread}]
  BY DEF NoDevice
<1>3. IdeTypes
  BY <1>1, <1>2 DEF IdeTypes
<1>4. Before(0) = 0
  BY BeforeFacts
<1>5. \A d \in Places : ide_devices[d].Reserved = 0 /\ ~(d < 0)
  BY <1>1 DEF NoDevice, Places
<1> QED
  BY <1>1, <1>3, <1>4, <1>5 DEF IdeInv, Probed

\* Selecting a drive does not disturb the entries made: the next one is free.
LEMMA SelectIde ==
  ASSUME IdeInv, Select
  PROVE  IdeInv'
<1>1. /\ place \in Places /\ ide = "select" /\ ide' = "identify" /\ type' = ATA
      /\ UNCHANGED <<drives, place, count, answered, vdevices>>
  BY DEF Select, Probing, GoOn
<1>2. count \in Places /\ ide_devices[count].Reserved = 0
  BY <1>1 DEF IdeInv, IdeTypes, Probed, Places
<1>3. ide_devices' = ide_devices
  BY <1>2 DEF Select, IdeInv, IdeTypes
<1>4. IdeTypes'
  BY <1>1, <1>3 DEF IdeInv, IdeTypes
<1>5. Probed'
  BY <1>1, <1>3, BeforeKept DEF IdeInv, Probed
<1> QED
  BY <1>4, <1>5 DEF IdeInv

\* The steps between leave count and the entries alone: what is known of the
\* drive is what the status and the signature have told.
LEMMA ProbeIde ==
  ASSUME IdeInv,
         \/ Identify \/ Poll \/ PacketSleep
         \/ Status /\ ide' = "poll"
         \/ Signature /\ ide' = "packet"
  PROVE  IdeInv'
<1>1. /\ place \in Places /\ UNCHANGED <<drives, place, count, ide_devices, vdevices>>
      /\ \/ ide = "identify" /\ ide' = "status" /\ type' = type /\ answered' = FALSE
         \/ /\ ide = "status" /\ ide' = "poll" /\ drives[place] # "none"
            /\ UNCHANGED <<type, answered>>
         \/ /\ ide = "poll" /\ answered /\ UNCHANGED <<type, answered>>
            /\ ide' = IF drives[place] = "ATA" THEN "read" ELSE "signature"
         \/ /\ ide = "signature" /\ ide' = "packet" /\ drives[place] = "ATAPI"
            /\ type' = ATAPI /\ answered' = FALSE
         \/ ide = "packet" /\ ide' = "read" /\ UNCHANGED <<type, answered>>
  BY DEF Identify, Poll, PacketSleep, Status, Signature, Probing, GoOn, NextPlace
<1>2. drives[place] \in Kinds
  BY <1>1, BootAssumption DEF IdeInv, IdeTypes
<1>3. IdeTypes'
  BY <1>1 DEF IdeInv, IdeTypes
<1>4. Probed'
  BY <1>1, <1>2, BeforeKept DEF IdeInv, Probed, Present, Kinds
<1> QED
  BY <1>3, <1>4 DEF IdeInv

\* An empty place and one that something unknown answers from are passed.
LEMMA PassIde ==
  ASSUME IdeInv,
         \/ Status /\ ide' # "poll"
         \/ Signature /\ ide' # "packet"
  PROVE  IdeInv'
<1>1. /\ place \in Places /\ UNCHANGED <<drives, count, ide_devices, vdevices, type, answered>>
      /\ ide' = "select" /\ place' = place + 1 /\ drives[place] \in {"none", "other"}
  BY DEF Status, Signature, Probing, GoOn, NextPlace
<1>2. ~Present(place)
  BY <1>1 DEF Present
<1>3. Before(place + 1) = Before(place)
  BY <1>1, <1>2, BeforeFacts
<1>4. IdeTypes'
  BY <1>1 DEF IdeInv, IdeTypes, Places
<1>5. \A p \in Places : p < place' => p < place \/ p = place
  BY <1>1 DEF Places
<1>6. count' = Before(place')
  BY <1>1, <1>3 DEF IdeInv, Probed
<1>7. Probed'
  BY <1>1, <1>2, <1>5, <1>6, BeforeKept DEF IdeInv, Probed
<1> QED
  BY <1>4, <1>7 DEF IdeInv

\* A drive found gets the next entry, and no other is touched.
LEMMA ReadDeviceIde ==
  ASSUME IdeInv, ReadDevice
  PROVE  IdeInv'
<1> DEFINE new == [Reserved |-> 1, Type |-> type, Channel |-> place \div 2,
                   Drive |-> place % 2, ident |-> IF answered THEN place ELSE Unread]
<1>1. /\ place \in Places /\ ide = "read" /\ ide' = "select" /\ place' = place + 1
      /\ count' = count + 1 /\ UNCHANGED <<drives, type, answered, vdevices>>
      /\ ide_devices' = [ide_devices EXCEPT ![count] = new]
  BY DEF ReadDevice, Probing, NextPlace
<1>2. /\ Present(place) /\ count = Before(place) /\ count \in Places
      /\ drives[place] = "ATA" => answered
      /\ type = IF drives[place] = "ATAPI" THEN ATAPI ELSE ATA
  BY <1>1 DEF IdeInv, IdeTypes, Probed, Places
<1>3. place \div 2 \in {0, 1} /\ place % 2 \in {0, 1} /\ 2 * (place \div 2) + (place % 2) = place
  BY <1>1, SMT DEF Places
<1>4. IsDrive(new, place)
  BY <1>2, <1>3 DEF IsDrive, Present
<1>5. new \in [Reserved : {0, 1}, Type : {ATA, ATAPI}, Channel : {0, 1},
               Drive : {0, 1}, ident : Places \cup {Unread}]
  BY <1>1, <1>3 DEF IdeInv, IdeTypes
<1>6. new.Reserved = 1
  OBVIOUS
<1> HIDE DEF new
<1>7. IdeTypes'
  BY <1>1, <1>2, <1>5 DEF IdeInv, IdeTypes, Places
<1>8. \A d \in Places : ide_devices'[d] = IF d = count THEN new ELSE ide_devices[d]
  BY <1>1, <1>2 DEF IdeInv, IdeTypes
<1>9. Before(place + 1) = Before(place) + 1
  BY <1>1, <1>2, BeforeFacts
<1>10. \A d \in Places : ide_devices'[d].Reserved = IF d < count' THEN 1 ELSE 0
  BY <1>1, <1>2, <1>6, <1>8 DEF IdeInv, Probed, Places
<1>11. \A p \in Places : p < place' /\ Present(p) => IsDrive(ide_devices'[Before(p)], p)
  <2> SUFFICES ASSUME NEW p \in Places, p < place', Present(p)
               PROVE  IsDrive(ide_devices'[Before(p)], p)
    OBVIOUS
  <2>1. CASE p = place
    BY <1>2, <1>4, <1>8, <2>1
  <2>2. CASE p < place
    <3>1. Before(p) < count /\ Before(p) \in Places
      BY <1>1, <1>2, <2>2, BeforeFacts DEF Places
    <3>2. ide_devices'[Before(p)] = ide_devices[Before(p)]
      BY <1>2, <1>8, <3>1 DEF Places
    <3> QED
      BY <2>2, <3>2 DEF IdeInv, Probed
  <2> QED
    BY <1>1, <2>1, <2>2 DEF Places
<1>12. Probed'
  BY <1>1, <1>2, <1>9, <1>10, <1>11, BeforeKept DEF Probed
<1> QED
  BY <1>7, <1>12 DEF IdeInv

\* The entries that are taken are the first count ones, so that vdevices gets
\* them in their order.
LEMMA RegisterIde ==
  ASSUME IdeInv, Register
  PROVE  IdeInv'
<1>1. /\ ide' = "done" /\ place = 4
      /\ UNCHANGED <<drives, place, count, type, answered, ide_devices>>
      /\ vdevices' = [k \in 1 .. Cardinality(Reserved) |->
                        device_info(CHOOSE d \in Reserved : vdID(d) = k - 1)]
  BY DEF Register, GoOn, IdeInv, IdeTypes, Places
<1>2. count \in 0 .. 4
  BY <1>1 DEF IdeInv, IdeTypes
<1>3. Reserved = 0 .. count - 1
  BY <1>2 DEF Reserved, IdeInv, Probed, Places
<1>4. Cardinality(Reserved) = count
  <2>1. Cardinality(0 .. count - 1) = count
    BY <1>2, FS_Interval
  <2> QED
    BY <1>3, <2>1
<1>5. ASSUME NEW d \in Reserved PROVE vdID(d) = d
  <2>1. {e \in Reserved : e < d} = 0 .. d - 1
    BY <1>2, <1>3
  <2>2. Cardinality(0 .. d - 1) = d
    BY <1>2, <1>3, FS_Interval
  <2> QED
    BY <2>1, <2>2 DEF vdID
<1>6. ASSUME NEW k \in 1 .. count
      PROVE  (CHOOSE d \in Reserved : vdID(d) = k - 1) = k - 1
  <2>1. k - 1 \in Reserved
    BY <1>2, <1>3
  <2> QED
    BY <1>5, <2>1
<1>7. vdevices' = [k \in 1 .. count |-> device_info(k - 1)]
  BY <1>1, <1>4, <1>6
<1>8. \A d : device_info(d)' = device_info(d)
  BY <1>1 DEF device_info
<1>9. IdeTypes'
  BY <1>1 DEF IdeInv, IdeTypes
<1>10. vdevices' = [k \in 1 .. count |-> device_info(k - 1)']
  BY <1>7, <1>8
<1>11. Probed'
  BY <1>1, <1>10, BeforeKept DEF IdeInv, Probed
<1> QED
  BY <1>9, <1>11 DEF IdeInv

\* What the drive and the timer do, and steps that have nothing to do with the
\* drives.
LEMMA OutsideIde ==
  ASSUME IdeInv, Answers \/ (\E on \in BOOLEAN : Tick(on)) \/ UNCHANGED ide_vars
  PROVE  IdeInv'
<1>1. /\ UNCHANGED <<drives, ide, place, count, type, ide_devices, vdevices>>
      /\ answered' = TRUE \/ answered' = answered
  BY DEF Answers, Tick, ide_vars, probe
<1>2. IdeTypes'
  BY <1>1 DEF IdeInv, IdeTypes
<1>3. \A d : device_info(d)' = device_info(d)
  BY <1>1 DEF device_info
<1>4. Probed'
  BY <1>1, <1>3, BeforeKept DEF IdeInv, Probed
<1> QED
  BY <1>2, <1>4 DEF IdeInv

\* All the steps of ide_initialize.
LEMMA StepIde ==
  ASSUME IdeInv, IdeStep
  PROVE  IdeInv'
<1>1. CASE Select
  BY <1>1, SelectIde
<1>2. CASE Identify \/ Poll \/ PacketSleep
  BY <1>2, ProbeIde
<1>3. CASE Status
  <2>1. CASE ide' = "poll"
    BY <1>3, <2>1, ProbeIde, Zenon
  <2>2. CASE ide' # "poll"
    BY <1>3, <2>2, PassIde, Zenon
  <2> QED
    BY <2>1, <2>2
<1>4. CASE Signature
  <2>1. CASE ide' = "packet"
    BY <1>4, <2>1, ProbeIde, Zenon
  <2>2. CASE ide' # "packet"
    BY <1>4, <2>2, PassIde, Zenon
  <2> QED
    BY <2>1, <2>2
<1>5. CASE ReadDevice
  BY <1>5, ReadDeviceIde
<1> QED
  BY <1>1, <1>2, <1>3, <1>4, <1>5 DEF IdeStep

-----------------------------------------------------------------------------
\* What the boot changes: the part of TypeOK about it.
PageTables == [Page -> [frame : Page \cup {-2, -1}, user : BOOLEAN]]
BootTypes ==
  /\ pc \in ToSet(Steps) \cup Final
  /\ IFlag \in BOOLEAN /\ cr3 \in Page /\ heap \subseteq HeapPages /\ calls \in Nat
  /\ memory \in [Page -> PageTables]
BootInv == BootTypes /\ TablesHold /\ TablesApart /\ RegistersHold

\* The entries that are written are of the right kind.
LEMMA EntryTypes ==
  /\ \A p \in Page : Supervisor(p) \in [frame : Page \cup {-2, -1}, user : BOOLEAN]
  /\ Absent \in [frame : Page \cup {-2, -1}, user : BOOLEAN]
  /\ Garbage \in [frame : Page \cup {-2, -1}, user : BOOLEAN]
  /\ identity_map_page_table \in PageTables
  /\ clear_entries \in PageTables /\ Unwritten \in PageTables
<1>1. \A p \in Page : Supervisor(p) \in [frame : Page \cup {-2, -1}, user : BOOLEAN]
  BY DEF Supervisor
<1>2. /\ Absent \in [frame : Page \cup {-2, -1}, user : BOOLEAN]
      /\ Garbage \in [frame : Page \cup {-2, -1}, user : BOOLEAN]
  BY DEF Absent, Garbage
<1> QED
  BY <1>1, <1>2 DEF identity_map_page_table, clear_entries, Unwritten, PageTables

\* The boot loader leaves nothing but what the first step does not need.
LEMMA BootInitially == Init => BootInv
<1> SUFFICES ASSUME Init PROVE BootInv
  OBVIOUS
<1>1. pc = "tables" /\ InEntry /\ OnBootTables
  BY Labels DEF Init, InEntry, OnBootTables
<1>2. BootTypes
  <2>1. memory \in [Page -> PageTables]
    BY EntryTypes DEF Init
  <2>2. cr3 \in Page /\ 0 \in Nat
    BY Layout DEF Init, Low
  <2> QED
    BY <1>1, <2>1, <2>2, Labels DEF Init, BootTypes
<1>3. TablesHold
  BY <1>1 DEF Init, TablesHold
<1>4. TablesApart
  BY <1>1 DEF TablesApart
<1>5. RegistersHold
  BY <1>1 DEF Init, RegistersHold
<1> QED
  BY <1>2, <1>3, <1>4, <1>5 DEF BootInv

\* A step that does not touch the tables, while one set of them is in use.
LEMMA TablesKept ==
  ASSUME BootTypes, TablesHold, TablesApart, UNCHANGED memories,
         \/ {pc, pc'} \subseteq {"lgdt", "reload_segments", "mov_esp", "setup_gdt",
                                 "set_kernel_stack", "setup_paging"}
         \/ {pc, pc'} \subseteq {"setup_interrupt_handlers", "storage_driver_init",
                                 "init_filesystem", "finished"} \cup Final
  PROVE  (IFlag' \in BOOLEAN => BootTypes') /\ TablesHold' /\ TablesApart'
<1>1. UNCHANGED <<paging, cr3, memory, heap, calls>>
  BY DEF memories
<1>2. /\ OnBootTables' = OnBootTables /\ pc # "tables" /\ pc' # "tables"
      /\ pc \notin {"tables", "enable_VM", "load_page_directory", "remove"}
      /\ pc' \notin {"tables", "enable_VM", "load_page_directory", "remove"}
  BY Labels DEF OnBootTables, InEntry, Final
<1>3. pc' \in ToSet(Steps) \cup Final
  BY Labels DEF Final
<1>4. TablesHold'
  BY <1>1, <1>2 DEF TablesHold
<1>5. TablesApart'
  BY <1>1, <1>2 DEF TablesApart, Leads, TableOf
<1> QED
  BY <1>1, <1>3, <1>4, <1>5 DEF BootTypes

\* A step after the tables are done that does not touch the registers.
LEMMA LateStep ==
  ASSUME BootInv, UNCHANGED <<esp, IFlag, idtr, memories, segments>>,
         {pc, pc'} \subseteq {"setup_interrupt_handlers", "storage_driver_init",
                              "init_filesystem", "finished"} \cup Final
  PROVE  BootInv'
<1>1. BootTypes' /\ TablesHold' /\ TablesApart'
  BY TablesKept DEF BootInv, BootTypes
<1>2. UNCHANGED <<esp, IFlag, idtr, gdtr, gdt, cs, ds, tr, esp0>>
  BY DEF segments
<1>3. /\ ~InEntry /\ ~InEntry' /\ ~OnBootTables /\ ~OnBootTables'
      /\ pc \notin {"tables", "enable_VM", "lgdt", "reload_segments", "setup_gdt",
                    "set_kernel_stack"}
      /\ pc' \notin {"tables", "enable_VM", "lgdt", "reload_segments", "setup_gdt",
                     "set_kernel_stack"}
  BY Labels DEF OnBootTables, InEntry, Final
<1>4. RegistersHold'
  BY <1>2, <1>3 DEF BootInv, RegistersHold
<1> QED
  BY <1>1, <1>4 DEF BootInv

\* enable_VM fills its directory and its table, and turns paging on with them.
LEMMA EnterPaging ==
  ASSUME BootInv, Tables \/ Enable
  PROVE  BootInv'
<1>1. CASE Tables
  <2>1. /\ pc = "tables" /\ pc' = "enable_VM"
        /\ UNCHANGED <<paging, cr3, heap, calls, esp, IFlag, idtr, gdtr, gdt, cs, ds, tr, esp0>>
    BY <1>1, DoesNext DEF Tables, BuildBootTables, Rest, segments
  <2>2. memory' = [memory EXCEPT ![BootTable] = identity_map_page_table,
                                 ![BootDir][Low] = Supervisor(BootTable),
                                 ![BootDir][High] = Supervisor(BootTable)]
    BY <1>1 DEF Tables, BuildBootTables
  <2>3. /\ memory' \in [Page -> PageTables] /\ memory'[BootTable] = identity_map_page_table
        /\ memory'[BootDir][Low] = Supervisor(BootTable)
        /\ memory'[BootDir][High] = Supervisor(BootTable)
    BY <2>2, Layout, EntryTypes DEF BootInv, BootTypes, PageTables
  <2>4. InEntry /\ InEntry' /\ OnBootTables' /\ OnBootTables
    BY <2>1, Labels DEF InEntry, OnBootTables
  <2>5. BootTypes'
    BY <2>1, <2>3, Labels DEF BootInv, BootTypes
  <2>6. TablesHold'
    BY <2>1, <2>3, <2>4 DEF BootInv, TablesHold
  <2>7. TablesApart' /\ RegistersHold'
    BY <2>1, <2>4 DEF BootInv, TablesApart, RegistersHold
  <2> QED
    BY <2>5, <2>6, <2>7 DEF BootInv
<1>2. CASE Enable
  <2>1. /\ pc = "enable_VM" /\ pc' = "lgdt" /\ paging' = TRUE /\ cr3' = BootDir
        /\ UNCHANGED <<memory, heap, calls, esp, IFlag, idtr, gdtr, gdt, cs, ds, tr, esp0>>
    BY <1>2, DoesNext DEF Enable, EnableVM, Rest, segments
  <2>2. InEntry /\ InEntry' /\ OnBootTables' /\ OnBootTables
    BY <2>1, Labels DEF InEntry, OnBootTables
  <2>3. BootTypes'
    BY <2>1, Layout, Labels DEF BootInv, BootTypes
  <2>4. TablesHold'
    BY <2>1, <2>2 DEF BootInv, TablesHold
  <2>5. TablesApart' /\ RegistersHold'
    BY <2>1, <2>2 DEF BootInv, TablesApart, RegistersHold
  <2> QED
    BY <2>3, <2>4, <2>5 DEF BootInv
<1> QED
  BY <1>1, <1>2

\* The registers, in the order of the code: the table of gdt.asm, selectors of
\* it, the stack above, the table of gdt.c, the stack for interrupts.
LEMMA LoadRegisters ==
  ASSUME BootInv, Lgdt \/ Reload \/ MovEsp \/ Gdt \/ KernelStack
  PROVE  BootInv'
<1>1. /\ UNCHANGED <<memories, IFlag, idtr>>
      /\ \/ /\ pc = "lgdt" /\ pc' = "reload_segments"
            /\ gdtr' = [base |-> <<Low, Entry>>, limit |-> 8 * Len(gdt_start) - 1]
            /\ UNCHANGED <<gdt, cs, ds, tr, esp0, esp>>
         \/ /\ pc = "reload_segments" /\ pc' = "mov_esp" /\ cs' = 8 /\ ds' = 16
            /\ UNCHANGED <<gdtr, gdt, tr, esp0, esp>>
         \/ /\ pc = "mov_esp" /\ pc' = "setup_gdt" /\ esp' = <<High, Top>>
            /\ UNCHANGED <<gdtr, gdt, cs, ds, tr, esp0>>
         \/ /\ pc = "setup_gdt" /\ pc' = "set_kernel_stack" /\ gdt' = SixEntries
            /\ gdtr' = [base |-> <<High, Kernel>>, limit |-> 8 * Len(SixEntries) - 1]
            /\ tr' = 43 /\ UNCHANGED <<cs, ds, esp>>
         \/ /\ pc = "set_kernel_stack" /\ pc' = "setup_paging" /\ esp0' = <<High, Kernel>>
            /\ UNCHANGED <<gdtr, gdt, cs, ds, tr, esp>>
  <2>1. CASE Lgdt
    BY <2>1, DoesNext DEF Lgdt, LoadBootGdt, Rest
  <2>2. CASE Reload
    BY <2>2, DoesNext DEF Reload, ReloadSegments, Rest
  <2>3. CASE MovEsp
    BY <2>3, DoesNext DEF MovEsp, segments
  <2>4. CASE Gdt
    BY <2>4, DoesNext DEF Gdt, SetupGdt, Rest
  <2>5. CASE KernelStack
    BY <2>5, DoesNext DEF KernelStack, SetKernelStack, Rest
  <2> QED
    BY <2>1, <2>2, <2>3, <2>4, <2>5
<1>2. BootTypes' /\ TablesHold' /\ TablesApart'
  BY <1>1, TablesKept DEF BootInv, BootTypes
<1>3. /\ InEntry <=> pc \in {"tables", "enable_VM", "lgdt", "reload_segments", "mov_esp"}
      /\ InEntry' <=> pc' \in {"tables", "enable_VM", "lgdt", "reload_segments", "mov_esp"}
      /\ OnBootTables /\ OnBootTables'
  BY <1>1, Labels DEF InEntry, OnBootTables
<1>4. RegistersHold'
  BY <1>1, <1>3 DEF BootInv, RegistersHold
<1> QED
  BY <1>2, <1>4 DEF BootInv

\* setup_paging fills the kernel's directory and its one table through the
\* translations of the others, and goes over to them.
LEMMA EnterKernelTables ==
  ASSUME BootInv, SetupPaging \/ Load
  PROVE  BootInv'
<1>1. CASE SetupPaging
  <2>1. /\ pc = "setup_paging" /\ pc' = "load_page_directory"
        /\ UNCHANGED <<paging, cr3, heap, calls, esp, IFlag, idtr, gdtr, gdt, cs, ds, tr, esp0>>
    BY <1>1, DoesNext DEF SetupPaging, BuildKernelTables, Rest, segments
  <2>2. OnBootTables /\ OnBootTables' /\ ~InEntry /\ ~InEntry' /\ paging
    BY <2>1, Labels DEF InEntry, OnBootTables, BootInv, TablesHold
  <2>3. At(Frame) = Frame /\ At(KernelDir) = KernelDir
    BY <2>2, Layout, BootTranslates DEF At, BootInv
  <2> DEFINE directory == [clear_entries EXCEPT ![Low] = Supervisor(Frame),
                                                ![High] = Supervisor(Frame)]
  <2>4. memory' = [memory EXCEPT ![Frame] = identity_map_page_table, ![KernelDir] = directory]
    BY <1>1, <2>3 DEF SetupPaging, BuildKernelTables
  <2>5. /\ directory \in PageTables /\ directory[High] = Supervisor(Frame)
        /\ \A r \in Page \ {Low, High} : directory[r] = Absent
    BY Layout, EntryTypes DEF PageTables, clear_entries
  <2> HIDE DEF directory
  <2>6. /\ memory' \in [Page -> PageTables] /\ memory'[KernelDir] = directory
        /\ memory'[Frame] = identity_map_page_table
        /\ memory'[BootTable] = memory[BootTable] /\ memory'[BootDir] = memory[BootDir]
    BY <2>4, <2>5, Layout, EntryTypes DEF BootInv, BootTypes
  <2>7. BootTypes'
    BY <2>1, <2>6, Labels DEF BootInv, BootTypes
  <2>8. TablesHold'
    BY <2>1, <2>2, <2>5, <2>6 DEF BootInv, TablesHold
  <2>9. TablesApart'
    BY <2>1, <2>2, <2>5, <2>6 DEF TablesApart, Leads
  <2>10. RegistersHold'
    BY <2>1, <2>2 DEF BootInv, RegistersHold
  <2> QED
    BY <2>7, <2>8, <2>9, <2>10 DEF BootInv
<1>2. CASE Load
  <2>1. /\ pc = "load_page_directory" /\ pc' = "remove" /\ cr3' = KernelDir
        /\ UNCHANGED <<paging, memory, heap, calls, esp, IFlag, idtr, gdtr, gdt, cs, ds, tr,
                       esp0>>
    BY <1>2, DoesNext DEF Load, LoadPageDirectory, Rest, segments
  <2>2. OnBootTables /\ ~OnBootTables' /\ ~InEntry /\ ~InEntry' /\ paging
    BY <2>1, Labels DEF InEntry, OnBootTables, BootInv, TablesHold
  <2>3. BootTypes'
    BY <2>1, Labels, Layout DEF BootInv, BootTypes
  <2>4. TablesHold'
    BY <2>1, <2>2 DEF BootInv, TablesHold
  <2>5. TablesApart'
    BY <2>1, <2>2 DEF BootInv, TablesApart, Leads
  <2>6. RegistersHold'
    BY <2>1, <2>2 DEF BootInv, RegistersHold
  <2> QED
    BY <2>3, <2>4, <2>5, <2>6 DEF BootInv
<1> QED
  BY <1>1, <1>2

\* The lower half goes, and the stack's pages with the frame of setup_paging:
\* neither the directory nor the table is among those.
LEMMA LeaveLow ==
  ASSUME BootInv, Unmap
  PROVE  BootInv'
<1>1. /\ pc = "remove" /\ pc' = "setup_interrupt_handlers"
      /\ UNCHANGED <<paging, cr3, heap, calls, esp, IFlag, idtr, gdtr, gdt, cs, ds, tr, esp0>>
  BY DoesNext DEF Unmap, RemoveLow, Rest, segments
<1>2. ~OnBootTables /\ ~OnBootTables' /\ ~InEntry /\ ~InEntry'
  BY <1>1, Labels DEF InEntry, OnBootTables
<1>3. At(KernelDir) = KernelDir
  BY <1>2, Layout, KernelTranslates DEF At, BootInv
<1> DEFINE directory == [memory[KernelDir] EXCEPT ![Low] = Absent]
<1>4. memory' = [p \in Page |-> IF p \in Top - Depth + 1 .. Top THEN Unwritten
                                ELSE IF p = KernelDir THEN directory ELSE memory[p]]
  BY <1>3 DEF Unmap, RemoveLow
<1>5. directory \in PageTables
  BY Layout, EntryTypes DEF BootInv, BootTypes, PageTables
<1>6. \A r \in Page : directory[r] = IF r = Low THEN Absent ELSE memory[KernelDir][r]
  BY Layout DEF BootInv, BootTypes, PageTables
<1> HIDE DEF directory
<1>7. memory' \in [Page -> PageTables]
  BY <1>4, <1>5, EntryTypes DEF BootInv, BootTypes
<1>8. memory'[KernelDir] = directory /\ memory'[Frame] = memory[Frame]
  BY <1>4, Layout
<1>9. BootTypes'
  BY <1>1, <1>7, Labels DEF BootInv, BootTypes
<1>10. TablesHold'
  BY <1>1, <1>2, <1>6, <1>8, Layout DEF BootInv, TablesHold
<1>11. \A r \in Page \ {High} : ~Leads(r)'
  BY <1>1, <1>6, <1>8 DEF BootInv, TablesApart, Leads
<1>12. TablesApart'
  BY <1>1, <1>11 DEF TablesApart
<1>13. RegistersHold'
  BY <1>1, <1>2 DEF BootInv, RegistersHold
<1> QED
  BY <1>9, <1>10, <1>12, <1>13 DEF BootInv

-----------------------------------------------------------------------------
\* < on the naturals as a set of pairs, which well-foundedness is about.
LEMMA LessThanPairs == \A a, b \in Nat : a < b => <<a, b>> \in OpToRel(<, Nat)
  BY Zenon DEF OpToRel

\* The block kmalloc gives is one of the heap.
LEMMA MinInHeap ==
  ASSUME NEW S \in SUBSET Nat, S # {}
  PROVE  Min(S) \in S
<1>1. PICK x \in S : \A y \in S : ~ (<<y, x>> \in OpToRel(<, Nat))
  BY NatLessThanWellFounded, WFMin
<1>2. \A y \in S : ~ (y < x)
  BY <1>1, LessThanPairs, Zenon
<1>3. \A y \in S : x <= y
  BY <1>2
<1> QED
  BY <1>3, Zenon DEF Min

\* The entry map_page writes.
Mapping(f, user) == [frame |-> f, user |-> user]

\* What a call of map_page does: it finds the page present, uses a table that is
\* there, or takes a block of the heap for one.
FindsPresent(r, p) ==
  /\ IF r = High THEN TRUE ELSE Leads(r) /\ memory[TableOf(r)][p] # Absent
  /\ memory' = memory /\ heap' = heap /\ map'.result = 1
UsesTable(r, p, f, user) ==
  /\ r # High /\ Leads(r) /\ memory[TableOf(r)][p] = Absent
  /\ memory' = [memory EXCEPT ![TableOf(r)][p] = Mapping(f, user)]
  /\ heap' = heap /\ map'.result = 0
TakesBlock(r, p, f, user, t) ==
  /\ r # High /\ ~Leads(r) /\ t \in heap
  /\ memory' = [memory EXCEPT ![t] = [clear_entries EXCEPT ![p] = Mapping(f, user)],
                              ![KernelDir][r] = Mapping(t, user)]
  /\ heap' = heap \ {t} /\ map'.result = 0

\* These are all there is, although every write goes through a translation.
LEMMA MapPageDoes ==
  ASSUME BootInv, pc = "finished", NEW r \in Page, NEW p \in Page, NEW f \in Page,
         NEW user \in BOOLEAN, MapPage(r, p, f, user)
  PROVE  /\ UNCHANGED <<paging, cr3>> /\ calls' = calls + 1
         /\ map'.at = <<r, p>> /\ map'.frame = f /\ map'.user = user
         /\ \/ FindsPresent(r, p) \/ UsesTable(r, p, f, user)
            \/ \E t \in heap : TakesBlock(r, p, f, user, t)
<1>1. ~OnBootTables
  BY Labels DEF InEntry, OnBootTables
<1>2. \A q \in Page : At(q) = q
  BY <1>1, KernelTranslates DEF At, BootInv
<1>3. /\ memory \in [Page -> PageTables] /\ heap \subseteq HeapPages
      /\ memory[KernelDir][High] = Supervisor(Frame)
      /\ memory[Frame] = identity_map_page_table
  BY <1>1 DEF BootInv, BootTypes, TablesHold
<1>4. /\ \A s \in Page \ {High} : Leads(s) => TableOf(s) \in HeapPages \ heap
  BY <1>1 DEF BootInv, TablesApart
<1>5. KernelDir \in Page /\ Frame \in Page /\ HeapPages \subseteq Page /\ High \in Page
      /\ Frame # KernelDir /\ KernelDir \notin HeapPages /\ Page \subseteq Nat
  BY Layout
<1>6. NeedsTable(r) <=> ~Leads(r)
  BY <1>2, <1>5 DEF NeedsTable, Leads
<1>7. Leads(High)
  BY <1>3, <1>5, Identity DEF Leads
<1>8. /\ map' = [at |-> <<r, p>>, frame |-> f, user |-> user, result |-> map'.result]
      /\ UNCHANGED <<paging, cr3>> /\ calls' = calls + 1
  BY DEF MapPage
<1>9. map'.at = <<r, p>> /\ map'.frame = f /\ map'.user = user
  BY <1>8
<1> DEFINE prepared == Prepare(r, user)
           table == At(prepared[At(KernelDir)][r].frame)
<1>10. /\ heap' = IF NeedsTable(r) THEN heap \ {Min(heap)} ELSE heap
       /\ NeedsTable(r) => heap # {}
       /\ memory' = IF prepared[table][p] # Absent THEN prepared
                    ELSE [prepared EXCEPT ![table][p] = [frame |-> f, user |-> user]]
       /\ map'.result = IF prepared[table][p] # Absent THEN 1 ELSE 0
  BY DEF MapPage
<1>11. CASE Leads(r)
  <2>1. prepared = memory /\ table = At(TableOf(r)) /\ heap' = heap
    BY <1>2, <1>5, <1>6, <1>10, <1>11 DEF Prepare, TableOf
  <2>2. CASE r = High
    <3>1. table = Frame
      BY <1>2, <1>3, <1>5, <2>1, <2>2 DEF TableOf, Supervisor
    <3>2. prepared[table][p] # Absent
      BY <1>3, <2>1, <3>1, Identity
    <3> HIDE DEF prepared, table
    <3>3. FindsPresent(r, p)
      BY <1>10, <2>1, <2>2, <3>2 DEF FindsPresent
    <3> QED
      BY <1>8, <1>9, <3>3
  <2>3. CASE r # High
    <3>1. table = TableOf(r)
      BY <1>2, <1>4, <1>5, <1>11, <2>1, <2>3
    <3> HIDE DEF prepared, table
    <3>2. FindsPresent(r, p) \/ UsesTable(r, p, f, user)
      BY <1>10, <1>11, <2>1, <2>3, <3>1 DEF FindsPresent, UsesTable, Mapping
    <3> QED
      BY <1>8, <1>9, <3>2
  <2> QED
    BY <2>2, <2>3
<1>12. CASE ~Leads(r)
  <2> DEFINE t == Min(heap)
  <2>1. t \in heap /\ r # High /\ heap' = heap \ {t}
    BY <1>3, <1>5, <1>6, <1>7, <1>10, <1>12, MinInHeap
  <2>2. t \in Page /\ t # KernelDir
    BY <1>3, <1>5, <2>1
  <2>3. prepared = [memory EXCEPT ![t] = clear_entries, ![KernelDir][r] = Mapping(t, user)]
    BY <1>2, <1>5, <1>6, <1>12, <2>2 DEF Prepare, Mapping
  <2> HIDE DEF t
  <2>4. prepared[KernelDir][r] = Mapping(t, user) /\ prepared[t] = clear_entries
    BY <1>3, <1>5, <2>2, <2>3 DEF PageTables
  <2>5. table = t
    BY <1>2, <1>5, <2>2, <2>4 DEF Mapping
  <2>6. prepared[t][p] = Absent
    BY <2>4 DEF clear_entries
  <2>7. memory' = [prepared EXCEPT ![t][p] = Mapping(f, user)] /\ map'.result = 0
    <3> HIDE DEF prepared, table
    <3> QED
      BY <1>10, <2>5, <2>6 DEF Mapping
  <2>8. memory' = [memory EXCEPT ![t] = [clear_entries EXCEPT ![p] = Mapping(f, user)],
                                 ![KernelDir][r] = Mapping(t, user)]
    BY <1>3, <1>5, <2>2, <2>3, <2>4, <2>7 DEF PageTables
  <2>9. TakesBlock(r, p, f, user, t)
    BY <1>12, <2>1, <2>7, <2>8 DEF TakesBlock
  <2> QED
    BY <1>8, <1>9, <2>1, <2>9
<1> QED
  BY <1>11, <1>12

\* What a call of map_page leaves in the directory and in the tables.
LEMMA MapPageLeaves ==
  ASSUME BootInv, pc = "finished", NEW r \in Page, NEW p \in Page, NEW f \in Page,
         NEW user \in BOOLEAN, NEW t \in HeapPages,
         \/ UsesTable(r, p, f, user) /\ t = TableOf(r)
         \/ TakesBlock(r, p, f, user, t)
  PROVE  /\ memory' \in [Page -> PageTables] /\ memory'[Frame] = memory[Frame]
         /\ \A s \in Page \ {r} : memory'[KernelDir][s] = memory[KernelDir][s]
         /\ memory'[KernelDir][r] # Absent /\ memory'[KernelDir][r].frame = t
         /\ Leads(r) => memory'[KernelDir][r] = memory[KernelDir][r]
         /\ memory'[t][p] = Mapping(f, user)
         /\ \A x \in Page \ {p} : memory'[t][x] = IF Leads(r) THEN memory[t][x] ELSE Absent
         /\ \A s \in Page \ {r, High} :
              Leads(s) => TableOf(s) # t /\ memory'[TableOf(s)] = memory[TableOf(s)]
<1>1. /\ KernelDir \in Page /\ Frame \in Page /\ HeapPages \subseteq Page /\ t \in Page
      /\ Frame # KernelDir /\ KernelDir \notin HeapPages /\ Frame \notin HeapPages
      /\ -1 \notin Page
  BY Layout
<1>2. /\ memory \in [Page -> PageTables]
      /\ \A s \in Page \ {High} : Leads(s) =>
           /\ TableOf(s) \in HeapPages \ heap
           /\ \A q \in Page \ {High} : Leads(q) /\ TableOf(q) = TableOf(s) => q = s
  BY Labels DEF InEntry, OnBootTables, BootInv, BootTypes, TablesApart
<1>3. /\ Mapping(f, user) \in [frame : Page \cup {-2, -1}, user : BOOLEAN]
      /\ Mapping(t, user) \in [frame : Page \cup {-2, -1}, user : BOOLEAN]
      /\ Mapping(t, user) # Absent /\ Mapping(t, user).frame = t
  BY <1>1 DEF Mapping, Absent
<1>4. CASE UsesTable(r, p, f, user) /\ t = TableOf(r)
  <2>1. /\ memory' = [memory EXCEPT ![t][p] = Mapping(f, user)] /\ Leads(r) /\ r # High
    BY <1>4 DEF UsesTable
  <2>2. memory' \in [Page -> PageTables]
    BY <1>1, <1>2, <1>3, <2>1 DEF PageTables
  <2>3. \A q \in Page \ {t} : memory'[q] = memory[q]
    BY <1>2, <2>1
  <2>4. \A x \in Page : memory'[t][x] = IF x = p THEN Mapping(f, user) ELSE memory[t][x]
    BY <1>1, <1>2, <2>1 DEF PageTables
  <2>5. memory'[KernelDir] = memory[KernelDir] /\ memory'[Frame] = memory[Frame]
    BY <1>1, <2>3
  <2>6. \A s \in Page \ {r, High} :
          Leads(s) => TableOf(s) # t /\ memory'[TableOf(s)] = memory[TableOf(s)]
    BY <1>1, <1>2, <1>4, <2>1, <2>3
  <2>7. memory[KernelDir][r] # Absent /\ memory[KernelDir][r].frame = t
    BY <1>4, <2>1 DEF Leads, TableOf
  <2> QED
    BY <2>1, <2>2, <2>4, <2>5, <2>6, <2>7
<1>5. CASE TakesBlock(r, p, f, user, t)
  <2> DEFINE new == [clear_entries EXCEPT ![p] = Mapping(f, user)]
  <2>1. /\ memory' = [memory EXCEPT ![t] = new, ![KernelDir][r] = Mapping(t, user)]
        /\ ~Leads(r) /\ t \in heap
    BY <1>5 DEF TakesBlock
  <2>2. new \in PageTables /\ \A x \in Page : new[x] = IF x = p THEN Mapping(f, user) ELSE Absent
    BY <1>3, EntryTypes DEF PageTables, clear_entries
  <2> HIDE DEF new
  <2>3. memory' \in [Page -> PageTables]
    BY <1>1, <1>2, <1>3, <2>1, <2>2 DEF PageTables
  <2>4. memory'[t] = new /\ \A q \in Page \ {t, KernelDir} : memory'[q] = memory[q]
    BY <1>1, <1>2, <2>1
  <2>5. \A s \in Page : memory'[KernelDir][s] =
          IF s = r THEN Mapping(t, user) ELSE memory[KernelDir][s]
    BY <1>1, <1>2, <2>1 DEF PageTables
  <2>6. \A s \in Page \ {r, High} :
          Leads(s) => TableOf(s) # t /\ memory'[TableOf(s)] = memory[TableOf(s)]
    BY <1>1, <1>2, <2>1, <2>4
  <2> QED
    BY <1>1, <1>3, <2>1, <2>2, <2>3, <2>4, <2>5, <2>6
<1> QED
  BY <1>4, <1>5

\* After a call of map_page each entry of the directory has its table still.
LEMMA MapIInv ==
  ASSUME BootInv, Map
  PROVE  BootInv'
<1>1. /\ pc = "finished" /\ UNCHANGED <<esp, IFlag, idtr, gdtr, gdt, cs, ds, tr, esp0>>
      /\ Regions \subseteq Page /\ MappedPages \subseteq Page /\ Frames \subseteq Page
  BY BootAssumption DEF Map, Rest, segments
<1>2. /\ ~OnBootTables /\ ~InEntry
  BY <1>1, Labels DEF InEntry, OnBootTables
<1>3. CASE pc' = "exit_2" /\ UNCHANGED memories
  BY <1>1, <1>3, LateStep DEF Final, segments
<1>4. CASE pc' = pc /\ \E r \in Page, p \in Page, f \in Page, user \in BOOLEAN :
                         MapPage(r, p, f, user)
  <2>1. PICK r \in Page, p \in Page, f \in Page, user \in BOOLEAN : MapPage(r, p, f, user)
    BY <1>4
  <2>2. /\ UNCHANGED <<paging, cr3>> /\ calls' = calls + 1
        /\ \/ FindsPresent(r, p) \/ UsesTable(r, p, f, user)
           \/ \E t \in heap : TakesBlock(r, p, f, user, t)
    BY <1>1, <2>1, MapPageDoes
  <2>3. /\ OnBootTables' = OnBootTables /\ InEntry' = InEntry
    BY <1>4 DEF InEntry, OnBootTables
  <2>4. RegistersHold'
    BY <1>1, <1>2, <1>4, <2>3 DEF BootInv, RegistersHold
  <2>5. CASE FindsPresent(r, p)
    <3>1. UNCHANGED <<memory, heap>>
      BY <2>5 DEF FindsPresent
    <3>2. BootTypes'
      BY <1>1, <1>4, <2>2, <3>1 DEF BootInv, BootTypes
    <3>3. TablesHold' /\ TablesApart'
      BY <1>4, <2>2, <2>3, <3>1 DEF BootInv, TablesHold, TablesApart, Leads, TableOf
    <3> QED
      BY <2>4, <3>2, <3>3 DEF BootInv
  <2>6. ASSUME NEW t \in HeapPages, heap' \subseteq heap, t \notin heap', r # High,
               \/ UsesTable(r, p, f, user) /\ t = TableOf(r)
               \/ TakesBlock(r, p, f, user, t)
        PROVE  BootInv'
    <3>1. /\ memory' \in [Page -> PageTables] /\ memory'[Frame] = memory[Frame]
          /\ \A s \in Page \ {r} : memory'[KernelDir][s] = memory[KernelDir][s]
          /\ memory'[KernelDir][r] # Absent /\ memory'[KernelDir][r].frame = t
          /\ memory'[t][p] = Mapping(f, user)
          /\ \A x \in Page \ {p} : memory'[t][x] = IF Leads(r) THEN memory[t][x] ELSE Absent
          /\ \A s \in Page \ {r, High} :
               Leads(s) => TableOf(s) # t /\ memory'[TableOf(s)] = memory[TableOf(s)]
      BY <1>1, <2>6, MapPageLeaves
    <3>2. BootTypes'
      BY <1>1, <1>4, <2>2, <2>6, <3>1 DEF BootInv, BootTypes
    <3>3. TablesHold'
      BY <1>1, <1>2, <1>4, <2>2, <2>3, <2>6, <3>1, Layout DEF BootInv, TablesHold
    <3>4. /\ \A s \in Page \ {r, High} : Leads(s)' = Leads(s) /\ TableOf(s)' = TableOf(s)
          /\ Leads(r)' /\ TableOf(r)' = t
      BY <3>1 DEF Leads, TableOf
    <3>5. \A s \in Page \ {High} : Leads(s) =>
            /\ TableOf(s) \in HeapPages \ heap
            /\ \A x \in Page : memory[TableOf(s)][x] = Absent
                               \/ memory[TableOf(s)][x].frame \in Page
            /\ \A q \in Page \ {High} : Leads(q) /\ TableOf(q) = TableOf(s) => q = s
      BY <1>1, <1>2 DEF BootInv, TablesApart
    <3>6. \A x \in Page : memory'[t][x] = Absent \/ memory'[t][x].frame \in Page
      <4>1. CASE UsesTable(r, p, f, user) /\ t = TableOf(r)
        BY <2>6, <3>1, <3>5, <4>1 DEF UsesTable, Mapping
      <4>2. CASE TakesBlock(r, p, f, user, t)
        <5>1. ~Leads(r)
          BY <4>2 DEF TakesBlock
        <5> QED
          BY <3>1, <5>1 DEF Mapping
      <4> QED
        BY <2>6, <4>1, <4>2
    <3>7. ASSUME NEW s \in Page \ {High}, Leads(s)'
          PROVE  /\ TableOf(s)' \in HeapPages \ heap'
                 /\ \A x \in Page : LET e == memory'[TableOf(s)'][x]
                                    IN e = Absent \/ e.frame \in Page
                 /\ \A q \in Page \ {High} : Leads(q)' /\ TableOf(q)' = TableOf(s)' => q = s
      <4>1. CASE s = r
        BY <2>6, <3>1, <3>4, <3>6, <4>1
      <4>2. CASE s # r
        BY <2>6, <3>1, <3>4, <3>5, <3>7, <4>2
      <4> QED
        BY <4>1, <4>2
    <3>8. TablesApart'
      BY <1>1, <1>4, <3>7 DEF TablesApart
    <3> QED
      BY <2>4, <3>2, <3>3, <3>8 DEF BootInv
  <2>7. CASE UsesTable(r, p, f, user)
    <3>1. r # High /\ Leads(r) /\ heap' = heap
      BY <2>7 DEF UsesTable
    <3>2. TableOf(r) \in HeapPages \ heap
      BY <1>1, <1>2, <3>1 DEF BootInv, TablesApart
    <3> QED
      BY <2>6, <2>7, <3>1, <3>2
  <2>8. ASSUME NEW t \in heap, TakesBlock(r, p, f, user, t) PROVE BootInv'
    <3>1. r # High /\ heap' = heap \ {t} /\ t \in HeapPages
      BY <2>8 DEF TakesBlock, BootInv, BootTypes
    <3> QED
      BY <2>6, <2>8, <3>1
  <2> QED
    BY <2>2, <2>5, <2>7, <2>8
<1> QED
  BY <1>1, <1>3, <1>4 DEF Map

-----------------------------------------------------------------------------
\* TypeOK is what is said of the boot and of the probe.
LEMMA Types == TypeOK <=> BootTypes /\ IdeTypes
BY DEF TypeOK, BootTypes, IdeTypes, PageTables

\* Everything the proofs need of a state, and what follows from it.
Core == BootInv /\ IdeInv

\* What IInv says beyond that is a consequence.
LEMMA CoreIsIInv == Core <=> IInv
<1>1. Core => IInv
  BY Types, CodeAndStackFollow, SegmentsFollow DEF Core, IInv, BootInv, IdeInv
<1>2. IInv => Core
  BY Types DEF Core, IInv, BootInv, IdeInv
<1> QED
  BY <1>1, <1>2

\* Interrupts come on after the tables of the kernel are in use.
LEMMA HandlersIInv ==
  ASSUME BootInv, Handlers
  PROVE  BootInv'
<1>1. /\ pc = "setup_interrupt_handlers" /\ pc' = "storage_driver_init"
      /\ IFlag' = TRUE /\ idtr' = <<High, Kernel>>
      /\ UNCHANGED <<esp, memories, gdtr, gdt, cs, ds, tr, esp0>>
  BY DoesNext DEF Handlers, segments
<1>2. BootTypes' /\ TablesHold' /\ TablesApart'
  BY <1>1, TablesKept DEF BootInv
<1>3. ~InEntry /\ ~InEntry' /\ ~OnBootTables'
  BY <1>1, Labels DEF InEntry, OnBootTables
<1>4. RegistersHold'
  BY <1>1, <1>3 DEF BootInv, RegistersHold
<1> QED
  BY <1>2, <1>4 DEF BootInv

\* Steps that change nothing of what BootInv is about.
LEMMA BootKept == BootInv /\ UNCHANGED <<cpu, memories, segments>> => BootInv'
<1> SUFFICES ASSUME BootInv, UNCHANGED <<cpu, memories, segments>> PROVE BootInv'
  OBVIOUS
<1>1. UNCHANGED <<pc, esp, IFlag, idtr, paging, cr3, memory, heap, calls,
                  gdtr, gdt, cs, ds, tr, esp0>>
  BY DEF cpu, memories, segments
<1>2. InEntry' = InEntry /\ OnBootTables' = OnBootTables
  BY <1>1 DEF InEntry, OnBootTables
<1>3. BootTypes'
  BY <1>1 DEF BootInv, BootTypes
<1>4. TablesHold' /\ TablesApart'
  BY <1>1, <1>2 DEF BootInv, TablesHold, TablesApart, Leads, TableOf
<1>5. RegistersHold'
  BY <1>1, <1>2 DEF BootInv, RegistersHold
<1> QED
  BY <1>3, <1>4, <1>5 DEF BootInv

\* What a step of the thread does to the drives: nothing, except for the probe.
LEMMA StepsOutsideIde ==
  ASSUME \/ Tables \/ Enable \/ Lgdt \/ Reload \/ MovEsp \/ Gdt \/ KernelStack
         \/ SetupPaging \/ Load \/ Unmap \/ Handlers \/ Filesystem \/ Map \/ Exit
  PROVE  UNCHANGED ide_vars
BY DEF Tables, Enable, Lgdt, Reload, MovEsp, Gdt, KernelStack, SetupPaging, Load, Unmap,
       Handlers, Filesystem, Map, Exit, Rest

\* Every step keeps what the proofs need.
LEMMA NextCore == Core /\ [Next]_vars => Core'
<1> SUFFICES ASSUME BootInv, IdeInv, [Next]_vars PROVE BootInv' /\ IdeInv'
  BY DEF Core
<1>1. CASE Tables \/ Enable
  BY <1>1, EnterPaging, StepsOutsideIde, OutsideIde
<1>2. CASE Lgdt \/ Reload \/ MovEsp \/ Gdt \/ KernelStack
  BY <1>2, LoadRegisters, StepsOutsideIde, OutsideIde
<1>3. CASE SetupPaging \/ Load
  BY <1>3, EnterKernelTables, StepsOutsideIde, OutsideIde
<1>4. CASE Unmap
  BY <1>4, LeaveLow, StepsOutsideIde, OutsideIde
<1>5. CASE Handlers
  BY <1>5, HandlersIInv, StepsOutsideIde, OutsideIde
<1>6. CASE Ide
  <2>1. UNCHANGED <<esp, IFlag, idtr, memories, segments>> /\ pc = "storage_driver_init"
        /\ pc' \in {"storage_driver_init", "init_filesystem"}
    BY <1>6, DoesNext DEF Ide
  <2>2. BootInv'
    BY <2>1, LateStep
  <2>3. IdeInv'
    BY <1>6, StepIde, RegisterIde DEF Ide
  <2> QED
    BY <2>2, <2>3
<1>7. CASE Filesystem \/ Exit
  <2>1. /\ UNCHANGED <<esp, IFlag, idtr, memories, segments>>
        /\ {pc, pc'} \subseteq {"init_filesystem", "finished"} \cup Final
    BY <1>7, DoesNext DEF Filesystem, Exit, Rest, Final
  <2>2. BootInv'
    BY <2>1, LateStep
  <2> QED
    BY <1>7, <2>2, StepsOutsideIde, OutsideIde
<1>8. CASE Map
  BY <1>8, MapIInv, StepsOutsideIde, OutsideIde
<1>9. CASE Drive
  BY <1>9, BootKept, OutsideIde DEF Drive
<1>10. CASE Timer
  <2>1. IFlag \in BOOLEAN /\ Tick(IFlag) /\ UNCHANGED <<cpu, memories, segments>>
    BY <1>10 DEF Timer, BootInv, BootTypes
  <2> QED
    BY <2>1, BootKept, OutsideIde
<1>11. CASE Halted \/ UNCHANGED vars
  BY <1>11, BootKept, OutsideIde DEF Halted, vars
<1> QED
  BY <1>1, <1>2, <1>3, <1>4, <1>5, <1>6, <1>7, <1>8, <1>9, <1>10, <1>11 DEF Next, Step

\* At every step of the boot the CPU finds what it needs where it looks for it,
\* on any layout of memory and with any drives.
THEOREM EachStepFindsWhatItNeeds == Spec => []IInv
<1>1. Init => Core
  BY BootInitially, IdeInitially DEF Init, Core
<1>2. Spec => []Core
  BY <1>1, NextCore, PTL DEF Spec
<1> QED
  BY <1>2, CoreIsIInv, PTL

-----------------------------------------------------------------------------
\* What the kernel's tables make of an address, before a call of map_page and
\* after it.
LEMMA Looks ==
  ASSUME BootInv, pc = "finished", UNCHANGED <<paging, cr3>>, NEW s \in Page, NEW x \in Page
  PROVE  LET e == memory[KernelDir][s]
             l == memory'[KernelDir][s]
         IN /\ Translate(s, x) = IF e.frame \in Page THEN memory[e.frame][x].frame ELSE -1
            /\ UserMay(s, x) <=> Translate(s, x) \in Page /\ e.user /\ memory[e.frame][x].user
            /\ Translate(s, x)' = IF l.frame \in Page THEN memory'[l.frame][x].frame ELSE -1
            /\ UserMay(s, x)' <=> Translate(s, x)' \in Page /\ l.user /\ memory'[l.frame][x].user
<1>1. ~OnBootTables
  BY Labels DEF InEntry, OnBootTables
<1>2. paging /\ cr3 = KernelDir
  BY <1>1, KernelTranslates, Layout DEF BootInv
<1>3. EntryFor(s) = memory[KernelDir][s] /\ EntryFor(s)' = memory'[KernelDir][s]
  BY <1>2 DEF EntryFor
<1>4. paging' /\ cr3' = KernelDir
  BY <1>2
<1>5. /\ Translate(s, x) = IF EntryFor(s).frame \in Page
                           THEN memory[EntryFor(s).frame][x].frame ELSE -1
      /\ Translate(s, x)' = IF EntryFor(s)'.frame \in Page
                            THEN memory'[EntryFor(s)'.frame][x].frame ELSE -1
  BY <1>2, <1>4 DEF Translate
<1>6. /\ UserMay(s, x) <=> Translate(s, x) \in Page /\ EntryFor(s).user
                             /\ memory[EntryFor(s).frame][x].user
      /\ UserMay(s, x)' <=> Translate(s, x)' \in Page /\ EntryFor(s)'.user
                              /\ memory'[EntryFor(s)'.frame][x].user
  BY DEF UserMay
<1> QED
  BY <1>3, <1>5, <1>6

\* An address no call named is translated as before.
LEMMA OthersStay ==
  ASSUME BootInv, pc = "finished", UNCHANGED <<paging, cr3>>,
         NEW r \in Page, NEW p \in Page, NEW f \in Page, NEW user \in BOOLEAN,
         NEW t \in HeapPages, r # High,
         \/ UsesTable(r, p, f, user) /\ t = TableOf(r)
         \/ TakesBlock(r, p, f, user, t),
         NEW s \in Page, NEW x \in Page, s # r \/ x # p
  PROVE  Translate(s, x)' = Translate(s, x) /\ UserMay(s, x)' = UserMay(s, x)
<1>1. /\ memory'[Frame] = memory[Frame]
      /\ \A q \in Page \ {r} : memory'[KernelDir][q] = memory[KernelDir][q]
      /\ memory'[KernelDir][r].frame = t
      /\ Leads(r) => memory'[KernelDir][r] = memory[KernelDir][r]
      /\ \A y \in Page \ {p} : memory'[t][y] = IF Leads(r) THEN memory[t][y] ELSE Absent
      /\ \A q \in Page \ {r, High} : Leads(q) => memory'[TableOf(q)] = memory[TableOf(q)]
  BY MapPageLeaves
<1>2. Absent.frame = -1 /\ -1 \notin Page /\ HeapPages \subseteq Page
  BY Layout DEF Absent
<1> DEFINE e == memory[KernelDir][s]
           l == memory'[KernelDir][s]
<1>3. /\ Translate(s, x) = IF e.frame \in Page THEN memory[e.frame][x].frame ELSE -1
      /\ UserMay(s, x) <=> Translate(s, x) \in Page /\ e.user /\ memory[e.frame][x].user
      /\ Translate(s, x)' = IF l.frame \in Page THEN memory'[l.frame][x].frame ELSE -1
      /\ UserMay(s, x)' <=> Translate(s, x)' \in Page /\ l.user /\ memory'[l.frame][x].user
  BY Looks
<1>4. UserMay(s, x) \in BOOLEAN /\ UserMay(s, x)' \in BOOLEAN
  BY DEF UserMay
<1>5. CASE e = Absent
  <2>1. Translate(s, x) = -1 /\ ~UserMay(s, x)
    BY <1>2, <1>3, <1>5
  <2>2. Translate(s, x)' = -1
    <3>1. CASE s = r
      <4>1. l.frame = t /\ x # p /\ ~Leads(r)
        BY <1>1, <1>5, <3>1 DEF Leads
      <4>2. memory'[t][x] = Absent /\ t \in Page
        BY <1>1, <1>2, <4>1
      <4> QED
        BY <1>2, <1>3, <4>1, <4>2
    <3>2. CASE s # r
      BY <1>1, <1>2, <1>3, <1>5, <3>2
    <3> QED
      BY <3>1, <3>2
  <2>3. ~UserMay(s, x)'
    BY <1>2, <1>3, <2>2
  <2> QED
    BY <1>4, <2>1, <2>2, <2>3
<1>6. CASE e # Absent
  <2>1. l = e
    BY <1>1, <1>6 DEF Leads
  <2>2. memory'[e.frame][x] = memory[e.frame][x]
    <3>1. CASE s = High
      <4>1. e.frame = Frame
        BY <3>1, Labels DEF BootInv, TablesHold, InEntry, OnBootTables, Supervisor
      <4> QED
        BY <1>1, <4>1
    <3>2. CASE s # High /\ s = r
      BY <1>1, <1>6, <2>1, <3>2 DEF Leads
    <3>3. CASE s # High /\ s # r
      BY <1>1, <1>6, <3>3 DEF Leads, TableOf
    <3> QED
      BY <3>1, <3>2, <3>3
  <2> HIDE DEF e, l
  <2>3. Translate(s, x)' = Translate(s, x)
    BY <1>3, <2>1, <2>2
  <2> QED
    BY <1>3, <1>4, <2>1, <2>2, <2>3
<1> QED
  BY <1>5, <1>6

\* map_page maps what it is asked for and nothing else, or finds the page present
\* and changes nothing; on any layout, whatever the earlier calls were.
THEOREM MapPageMapsOnlyThat == Spec => MapPageContract
<1> DEFINE Contract ==
      LET call == map'
      IN IF call.result = 1
         THEN Translation' = Translation /\ Translation[call.at].page \in Page
         ELSE /\ Translation'[call.at].page = call.frame
              /\ Translation'[call.at].user => call.user
              /\ \A a \in Page \X Page \ {call.at} : Translation'[a] = Translation[a]
<1>1. ASSUME BootInv, pc = "finished", NEW r \in Page, NEW p \in Page, NEW f \in Page,
             NEW user \in BOOLEAN, MapPage(r, p, f, user)
      PROVE  Contract
  <2>1. /\ UNCHANGED <<paging, cr3>>
        /\ map'.at = <<r, p>> /\ map'.frame = f /\ map'.user = user
        /\ \/ FindsPresent(r, p) \/ UsesTable(r, p, f, user)
           \/ \E t \in heap : TakesBlock(r, p, f, user, t)
    BY <1>1, MapPageDoes
  <2>2. /\ \A a \in Page \X Page :
             Translation[a] = [page |-> Translate(a[1], a[2]), user |-> UserMay(a[1], a[2])]
        /\ \A a \in Page \X Page :
             Translation'[a] = [page |-> Translate(a[1], a[2])', user |-> UserMay(a[1], a[2])']
    BY DEF Translation
  <2>3. /\ ~OnBootTables /\ memory[KernelDir][High] = Supervisor(Frame)
        /\ memory[Frame] = identity_map_page_table
        /\ \A s \in Page \ {High} : Leads(s) =>
             /\ TableOf(s) \in HeapPages \ heap
             /\ \A x \in Page : memory[TableOf(s)][x] = Absent
                                \/ memory[TableOf(s)][x].frame \in Page
    BY <1>1, Labels DEF BootInv, TablesHold, TablesApart, InEntry, OnBootTables
  <2>4. CASE FindsPresent(r, p)
    <3>1. Translation' = Translation
      BY <2>1, <2>4
      DEF FindsPresent, Translation, Translate, UserMay, EntryFor
    <3>2. Translate(r, p) \in Page
      <4>1. Translate(r, p) = IF memory[KernelDir][r].frame \in Page
                              THEN memory[memory[KernelDir][r].frame][p].frame ELSE -1
        BY <1>1, <2>1, Looks
      <4>2. CASE r = High
        BY <1>1, <2>3, <4>2, KernelTranslates DEF BootInv
      <4>3. CASE r # High
        <5>1. TableOf(r) \in Page /\ memory[TableOf(r)][p].frame \in Page
          BY <2>3, <2>4, <4>3, Layout DEF FindsPresent
        <5> QED
          BY <4>1, <5>1 DEF TableOf
      <4> QED
        BY <4>2, <4>3
    <3>3. Translation[<<r, p>>].page = Translate(r, p)
      <4>1. Translation[<<r, p>>] = [page |-> Translate(r, p), user |-> UserMay(r, p)]
        BY <2>2
      <4> QED
        BY <4>1
    <3> QED
      BY <2>1, <2>4, <3>1, <3>2, <3>3 DEF FindsPresent
  <2>5. ASSUME NEW t \in HeapPages, r # High, map'.result = 0,
               \/ UsesTable(r, p, f, user) /\ t = TableOf(r)
               \/ TakesBlock(r, p, f, user, t)
        PROVE  Contract
    <3>1. /\ memory'[KernelDir][r].frame = t /\ memory'[t][p] = Mapping(f, user)
      BY <1>1, <2>5, MapPageLeaves
    <3>2. Translate(r, p)' = f /\ (UserMay(r, p)' => user)
      <4>1. /\ Translate(r, p)' = IF memory'[KernelDir][r].frame \in Page
                                  THEN memory'[memory'[KernelDir][r].frame][p].frame ELSE -1
            /\ UserMay(r, p)' => memory'[memory'[KernelDir][r].frame][p].user
        BY <1>1, <2>1, Looks
      <4>2. t \in Page
        BY Layout
      <4> QED
        BY <3>1, <4>1, <4>2 DEF Mapping
    <3>3. Translation'[<<r, p>>].page = f /\ (Translation'[<<r, p>>].user => user)
      <4>1. Translation'[<<r, p>>] = [page |-> Translate(r, p)', user |-> UserMay(r, p)']
        BY <2>2
      <4> QED
        BY <3>2, <4>1
    <3>4. ASSUME NEW a \in Page \X Page, a # <<r, p>>
          PROVE  Translation'[a] = Translation[a]
      <4>1. a[1] \in Page /\ a[2] \in Page /\ (a[1] # r \/ a[2] # p)
        BY <3>4
      <4>2. /\ Translate(a[1], a[2])' = Translate(a[1], a[2])
            /\ UserMay(a[1], a[2])' = UserMay(a[1], a[2])
        BY <1>1, <2>1, <2>5, <4>1, OthersStay
      <4> QED
        BY <2>2, <4>2
    <3> QED
      BY <2>1, <2>5, <3>3, <3>4
  <2>6. CASE UsesTable(r, p, f, user)
    <3>1. r # High /\ TableOf(r) \in HeapPages /\ map'.result = 0
      BY <2>3, <2>6 DEF UsesTable
    <3> QED
      BY <2>5, <2>6, <3>1
  <2>7. ASSUME NEW t \in heap, TakesBlock(r, p, f, user, t) PROVE Contract
    <3>1. r # High /\ t \in HeapPages /\ map'.result = 0
      BY <1>1, <2>7 DEF TakesBlock, BootInv, BootTypes
    <3> QED
      BY <2>5, <2>7, <3>1
  <2> QED
    BY <2>1, <2>4, <2>6, <2>7
<1>2. ASSUME Core, [Next]_vars, calls' > calls PROVE Contract
  <2>1. calls \in Nat /\ ~(calls > calls)
    BY <1>2 DEF Core, BootInv, BootTypes
  <2>2. UNCHANGED calls \/ Map
    BY <1>2
    DEF Next, Step, Tables, Enable, Lgdt, Reload, MovEsp, Gdt, KernelStack, SetupPaging, Load,
        Unmap, Handlers, Ide, Filesystem, Exit, Drive, Timer, Halted, BuildBootTables, EnableVM,
        BuildKernelTables, LoadPageDirectory, RemoveLow, memories, vars
  <2>3. Map
    BY <1>2, <2>1, <2>2
  <2>4. /\ pc = "finished"
        /\ \E r \in Page, p \in Page, f \in Page, user \in BOOLEAN : MapPage(r, p, f, user)
    <3>1. ~UNCHANGED memories
      BY <1>2, <2>1 DEF memories
    <3> QED
      BY <2>3, <3>1, BootAssumption DEF Map
  <2> QED
    BY <1>1, <1>2, <2>4 DEF Core
<1>3. ASSUME Core, [Next]_vars
      PROVE  [calls' > calls => Contract]_vars
  BY <1>2, <1>3
<1>4. Init => Core
  BY BootInitially, IdeInitially DEF Init, Core
<1>5. Spec => []Core
  BY <1>4, NextCore, PTL DEF Spec
<1>6. Spec => [][calls' > calls => Contract]_vars
  BY <1>3, <1>5, PTL DEF Spec
<1> QED
  BY <1>6, PTL DEF MapPageContract

\* When the probe is over, exactly the drives that are there are registered, in
\* order, each with its own place, kind and sector size.
THEOREM DrivesAreRegistered == Spec => []RegistersTheDrives
<1>1. Core => RegistersTheDrives
  <2> SUFFICES ASSUME Core, ide = "done" PROVE RegistersTheDrives
    BY DEF RegistersTheDrives
  <2>1. /\ place = 4 /\ count = Before(4)
        /\ vdevices = [k \in 1 .. count |-> device_info(k - 1)]
        /\ \A p \in Places : Present(p) => IsDrive(ide_devices[Before(p)], p)
    BY DEF Core, IdeInv, Probed, Places
  <2>2. /\ count \in 0 .. 4 /\ Len(vdevices) = count
    BY <2>1 DEF Core, IdeInv, IdeTypes
  <2>3. ASSUME NEW p \in Places, Present(p)
        PROVE  LET v == vdevices[Before(p) + 1]
               IN /\ IsDrive(ide_devices[v.ata_id], p)
                  /\ v.type = ide_devices[v.ata_id].Type
                  /\ v.sector_size = IF drives[p] = "ATA" THEN 512 ELSE 2048
    <3>1. Before(p) \in Nat /\ Before(p) < count
      BY <2>1, <2>3, BeforeFacts DEF Places
    <3>2. vdevices[Before(p) + 1] = device_info(Before(p))
      BY <2>1, <2>2, <3>1
    <3>3. IsDrive(ide_devices[Before(p)], p)
      BY <2>1, <2>3
    <3>4. ide_devices[Before(p)].Type = ATA <=> drives[p] = "ATA"
      BY <3>3 DEF IsDrive, ATA, ATAPI
    <3> QED
      BY <3>2, <3>3, <3>4 DEF device_info
  <2> QED
    BY <2>1, <2>2, <2>3 DEF RegistersTheDrives
<1>2. Init => Core
  BY BootInitially, IdeInitially DEF Init, Core
<1>3. Spec => []Core
  BY <1>2, NextCore, PTL DEF Spec
<1> QED
  BY <1>1, <1>3, PTL

=============================================================================
