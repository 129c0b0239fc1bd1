# bedrock-os in TLA+

A verification project for the kernel in `src/bedrock-os_grub`: TLA+ modules
that model its components, TLC runs that check them on small instances, and
theorems that TLAPS checks for every value of the constants. Everything is
translated from the source; `PROJECT.json` gives, for each definition, the lines
it stands for. File names below are relative to `src/bedrock-os_grub`.

To repeat a run: `tlc -config MCKmalloc.cfg MCKmalloc`; a proof:
`tlapm KmallocProofs.tla`.

## The system

A 32-bit kernel for one processor. There is one thread, which boots, looks for
drives, opens an ext2 file system, runs a test of the allocator and stops in
`kernel_exit`. The only concurrency is that of interrupts: the handlers of the
timer and the keyboard, and `ide_irq`, which `irq_handler` calls for every
interrupt. Handlers run with interrupts disabled (the gates are interrupt
gates), so they do not nest and are atomic with respect to the thread; the
thread can be interrupted between any two instructions once `irq_install` has
executed `sti`. Nothing survives a restart except what is on a drive. The
Makefile compiles without optimisation, so the variables shared with handlers
are read from memory each time although they are not `volatile`.

| component | state | operations | used by | what is hard | what makes it correct |
|---|---|---|---|---|---|
| block allocator `kernel/kmalloc.c` | `k_memory_map`, `kmalloc_memory` | `kmalloc`, `kfree` | boot, storage, ext2 | the search counts free blocks that need not be adjacent; no failure return, memory short means `kernel_exit(2)` | no block has two owners; the map says what is held; only free blocks are locked; data of others survives |
| sector access `drivers/storage.c` | `vdevices` | `read_sector(s)`, `write_sector(s)` | ext2 | error paths, 512-byte units on 2048-byte sectors, `int` arithmetic | sectors move in order, all or an error; the right unit; memory comes back |
| IDE driver `drivers/ATA.c` | `ide_devices`, `channels`, `ide_irq_invoked`, `package`, `atapi_packet` | `ide_initialize`, `ide_read_sectors`, `ide_write_sectors`, `ide_ata_access`, `ide_atapi_read`, `ide_irq` | storage, interrupt dispatch | two ways of waiting for a drive, a flag any interrupt sets, errors that are dropped, loops without a timeout | the data arrives whole and in order; the drive gets commands when it expects them; reads end |
| console `drivers/screen.c` | video memory, the cursor registers of the CRT controller | `kprint`, `kprint_at_col`, `kprint_backspace`, `clear_screen` | everything | thread and keyboard handler share an index port and a data port | no write outside video memory; the cursor is where the last character went |
| keyboard `drivers/keyboard.c` | `key_buffer` | `keyboard_callback` | interrupt dispatch | a buffer without a bound | the line is what was typed |
| timer `cpu/timer.c` | `tick` | `sleep`, `timer_callback` | IDE probing | needs interrupts to be on, counts wrap, the first tick comes early | `sleep` ends |
| interrupt dispatch `cpu/isr.c`, `cpu/interrupt.asm`, `cpu/idt.c` | IDT, `interrupt_handlers`, PIC | stubs, `irq_handler`, `isr_handler`, `register_interrupt_handler` | hardware | interrupts are on before handlers are registered; frames with and without an error code | every interrupt is acknowledged once and returns to where it came from |
| paging `kernel/vm.c`, `boot/kernel_entry.asm` | page directory and tables, `cr3` | `enable_VM`, `setup_paging`, `map_page` | boot | tables are replaced while in use; the kernel's page table is on the stack of `setup_paging` | the kernel stays mapped; a mapping made is the one asked for, and no other changes |
| ext2 `drivers/ext2.c` | superblock, inode and directory buffers | `ext2_init`, `ext2_read_inode`, `ext2_read_directory`, `ext2_find_file_inode` | boot | walks over data from a disk, reads whose failure is not noticed, blocks it never frees | a file that exists is found, one that does not is not; what a lookup costs; it ends |
| boot `kernel/kernel.c`, `boot/` | the instruction pointer, the stack | `_start`, `kernel_main`, `kernel_exit` | - | the order of the steps is all that makes them safe | each step finds what it needs |
| helpers `libc/` | - | conversions, `strsplit`, `append`, `backspace`, memory functions | everything | boundaries | they compute what they say |
| segments `cpu/gdt.c`, `boot/gdt.asm` | two GDTs, `gdtr`, selectors, TSS | `setup_gdt`, `set_kernel_stack` | boot | the table must be reachable through the page tables whenever a selector is loaded | every selector in use names the right descriptor |
| user mode `kernel/ring3.c`, ports `cpu/ports.c` | - | - | - | - | not modelled, see below |

The interactions that matter most: storage takes one allocator block per
sector, so a block lost there ends in `kernel_exit` here; `irq_handler` wakes
`ide_wait_irq` for interrupts that are none of the drive's business; the
keyboard handler prints while the thread prints.

## The modules

| module | models | role |
|---|---|---|
| `BlockPool` | - | abstract specification of an allocator: grant a run of available blocks, take it back, refuse only when too few are left |
| `Kmalloc` | `kmalloc`, `kfree`, the requests of `kernel_main` | each call is one action; implements `BlockPool` |
| `KmallocLoop` | the same two functions, loop iteration by loop iteration | adds the loops to `Kmalloc` and implements its actions |
| `SectorStore` | - | abstract specification of sector access: a request moves sectors in order, success means all of them |
| `Storage` | `read_sectors`, `write_sectors` with the entry points of the IDE layer | one action per call these functions make; implements `SectorStore` |
| `Atapi` | `ide_atapi_read`, `ide_polling`, `ide_wait_irq`, `ide_irq`, with a drive and interrupts | one action per command, poll, wait and transfer |
| `AtaPio` | `ide_ata_access`, with a disk and its cache | one action per part of the function: address, command, polls, sectors, flush |
| `Interrupts` | stubs, `isr_handler`, `irq_handler`, `isr_install`, `irq_install`, `register_interrupt_handler`, `sleep`, with two PICs and a keyboard controller | one action per part of a handler and per step of the setup |
| `Console` | `kprint`, `kprint_at_col`, `print_char`, the cursor functions, and the echo of keys | one action per port access of the thread, one per key |
| `Ext2` | `ext2_init` and everything in `drivers/ext2.c` below it | one action per read, per directory entry and per way out |
| `Paging` | `enable_VM`, `setup_paging`, `map_page` | component: operations on the tables, and what the CPU translates with them |
| `Segments` | `boot/gdt.asm`, `cpu/gdt.c` | component: operations on the GDT and the registers loaded from it |
| `IdeInit` | `ide_initialize`, `IDE_init`, with drives and the timer | component: one action per part of the probe |
| `Boot` | `_start`, `kernel_main` | composes `Paging`, `Segments` and `IdeInit`: their operations are its steps |
| `MC...` | | values of constants for TLC |
| `KmallocProofs` | | the theorems about `Kmalloc` and `KmallocLoop` |
| `StorageProofs`, `AtaPioProofs`, `AtapiProofs`, `ConsoleProofs`, `InterruptsProofs`, `Ext2Proofs`, `BootProofs` | | the theorems about the module of that name, `BootProofs` also about the components of `Boot` |

The definitions named as variants in the modules (`FreeButLast`, `SkipClear`,
...) are mutations: each is a plausible bug in the definition that follows it,
and the property `PROJECT.json` pairs with it fails when it takes the place of
the definition. No specification uses them.

### Kmalloc and KmallocLoop

`k_memory_map` is the code's array. `memory[b]` abstracts a block's 4096 bytes
to who filled it last, or `Zero`; `held` records, for each pointer variable of
the kernel, the address and the count it was given. `Kmalloc(o, n)` takes the
first free block as the start of the run whenever at least `n` blocks are free
anywhere, because that is what the loop computes: `found_block_count` is never
reset at a locked block (`kernel/kmalloc.c:18-29`). It clears `BLOCK_SIZE` bytes whatever `n` is.
`Kfree` accepts a pointer anywhere inside the first block: `ext2_find_file_inode`
frees `filename` after moving it.

That `Kmalloc` summarises the loop correctly is not left to reading: in
`KmallocLoop` every iteration is a step and the counters are those of the code.
The module extends `Kmalloc`: the variables of that module are what the clients of
a call see, for whom it takes effect when it returns, and `map_now` is the byte map
as the loops are changing it. `ImplementsAtomic` says that what the clients see
obeys the specification of `Kmalloc`. TLC checks it and
`KmallocProofs!LoopsComputeTheCalls` proves it for every map and every mix of
sizes, those for which the run that is locked is wrong included.

`kernel_main` asks for two runs of two blocks and nothing is freed before both
are there; every later caller asks for one block (`BootSizes`, `Sizes`). Under
that discipline the search is right, and the run `kmalloc` and the theorems in
`KmallocProofs` show it. Without it, it is not: with blocks 0 and 4 free and 2
held, a request for two blocks gets a run over the held one. TLC finds this with
`Sizes = {1, 2}`; `FoundSequence`'s mutant `RequestAny` is such a caller.

### Storage

Sectors of a `device_info` are units of 512 bytes. A drive's content is a
function from units to values, with one unit per ATA sector and four per ATAPI
sector. The arithmetic of `read_sector` keeps its widths: `Signed` and
`Unsigned` wrap at `IntModulus`, `Quotient` is C's division. `package0` is the
global `package[0]`; `IdeRead` leaves it alone on an ATA read, as the code does.
The heap is the number of free blocks: `kmalloc` and `kfree` of a single block
are what `Kmalloc` says they are. `access` and `failures` are history variables.
`BlockHolds` says what is in the block between the calls of a unit.

### Atapi

The thread's program counter runs through the numbered parts of
`ide_atapi_read`. Delays of four reads of the alternate status are what makes
BSY visible after a command, so a drive is busy as soon as it gets one. The drive is
the environment: it gets busy, then asks for the packet, has data, ends or
fails, and raises its interrupt line each time it ceases to be busy.
`ide_wait_irq` is two steps, leaving the loop and clearing the flag, with any
interrupt in between.

### AtaPio

The disk answers sector numbers with its registers: `Encode` is what
`ide_ata_access` computes, `Decode` what a disk of 16 heads and 63 sectors makes
of it. A disk with interrupts off (`nIEN`) does its phases when it likes, which
the thread sees in the status register only: `BSY` and `DRQ`. `edi` holds the
sector each transfer brought. What is sent goes to the disk's cache and from
there to the medium at any time, and at the latest with the flush. `Flush` has a
second disjunct because the code gives the command while the disk is still busy
with the last sector, where a disk may ignore it.

Left out: the delay of four reads in `ide_polling` (a disk is busy as soon as it
has a command, as in `Atapi`), DMA (`dma` is 0), and `numsects = 0`, which no
caller passes.

### Interrupts

`stack` holds symbolic entries, so that a frame can be compared with
what `registers_t` says it is, and what `iret` restores with what was
interrupted. Each of the two PICs has its requests and its interrupts in
service; lines of the slave arrive through line 2, and a spurious interrupt is
delivered without being in service. The handler is several actions: entry
through the stub, the two acknowledgements, the registered handler, the return.
Because other interrupts may be taken in between if the gate and the flag let
them, that they do not is a result (`NoNesting`, a part of `IInv`) and not a premise. The setup
(`IsrInstall`, `Sti`, then timer and keyboard) runs with interrupts arriving from
`Sti` on, and `sleep` follows it. `tick` is kept modulo a small number.

### Console

The cursor lives in two byte registers behind an index and a data port. Each of
the four port accesses in `get_cursor_offset` and `set_cursor_offset` is a step
of the thread; what the keyboard handler prints for a key is one step. Offsets
count cells. What a character looks like is left out; `written` says which cells
of video memory the last step wrote.

### Ext2

A disk is a value: which blocks hold directory entries and at which offsets, which
hold the inodes of a group, what each inode is. Names are values too, already split
at `/`; `Rest` gives a name without its first character, which `filename++` takes
off. `inode`, `root_buf`, `block_buf` and `dir` are those of the code; `free`
counts heap blocks.

A block has 1024 bytes and is read by `read_sectors` in two units of 512. Each call
of it is one step, and its result is dropped everywhere in `ext2.c`, so a failure
only shows in the buffer and in the heap. A buffer is therefore a pair: for each half
the block its unit is from, or `Zeros`. `ReadSectors` is what a call does to it, as
`ATA.c:545` to `572` and `storage.c` have it:

- behind the end of the disk an ATA access sets `package[0]` to 2; an ATAPI drive
  refuses it. Either way `read_sector` returns 1, nothing more is copied, and its
  heap block is gone (`lost`);
- otherwise an ATA access returns what an earlier call left in `package[0]`: with 0
  the half is copied, and is zeros where the drive had failed; with another code
  nothing is copied, whether the drive read or not;
- an ATAPI drive that fails gives its own code, with the same loss.

What is taken out of a buffer depends on what is there: `Table` for a descriptor,
`InodeAt` for an inode, `Arrive` for an entry. Bytes that are something else give any
of the `Junk` constants. The walk of a directory goes by offsets, counted in slots of
four bytes, and `entry.size` says where the next entry is, as in `ext2.c:82`. An
entry may lie across the middle of its block; if the halves then are not of one block
it is cut in two, and what is read there is junk (`misread`). So it is when a file is
walked as a directory, since the lookup does not test types. A junk entry may end the
walk, lead anywhere, or have size 0: the walk then stays where it is for ever. What
lies outside of the page of a buffer is junk as long as it is mapped, or is not
mapped, and the kernel halts in the handler of the exception (`PageFault`). That can
happen on a sound disk too: only the first block of descriptors is read, and for
a group that is not among its 32 the code goes on into the zeros behind it and, from
the 129th on, out of the page.

For a name with a slash the lookup follows the components from the root. For a
name without one it takes another way, which never reads the inode of the file
(`AsInode`). An inode has its direct blocks; there is no code for indirect ones.

### Paging, Segments, IdeInit and Boot

`memory[p]` is page `p` taken for a directory or a table, and `Translate` walks
it as the CPU does, from `cr3`. The kernel writes a table through its address
above 0xC0000000, so each such write goes through `Translate` too (`At`). That a
translation succeeds is therefore nowhere assumed. `Frame` is the page of
`first_page_table` inside the stack frame of `setup_paging` (three pages below
the one `kernel_main` begins in, in the committed `os-image.bin`); when that returns,
the pages of the stack above it are overwritten (`RemoveLow`). `Garbage` is an
entry nobody has written: neither absent nor a page.

Pages are told apart by `LayoutAssumption`, which is what the source fixes: the code
at `_start`, the kernel it jumps to and the two tables of `kernel_entry.asm`
(`0x80000`, `0x81000`) are different pages, and neither those tables nor a block of
the heap is the page of `kernel_page_directory` or of `Frame`; the directory is not
in the stack (`linker.ld` puts the kernel's data above 1 MB, the stack ends at `0x55000`).

A selector names a descriptor in the table the CPU finds at `gdtr`'s address.
`IInv` says of every state of the boot that code, stack, segments, IDT and the
stack for interrupts can be reached (`CodeAndStack`, `SegmentsValid`), which is what
the CPU needs for its next instruction or interrupt, and why: what the tables hold
(`TablesHold`, `TablesApart`), what the registers hold (`RegistersHold`) and how far
the probe for drives is (`Probed`).

`IdeInit` is the probe of four places, with what is there chosen at the start.
`answered` is the drive's progress with a command, `ticked` that the timer's
handler has run since a sleep began; a sleep of 1 ms needs one tick. The probe
polls after IDENTIFY and only sleeps after IDENTIFY PACKET.

`Boot` puts these in the order of `_start` and `kernel_main`. Interrupts come on
in `setup_interrupt_handlers`, which `Interrupts` has in detail; `init_filesystem`
ends in one of the ways `Ext2` has; of these, a walk that never ends is left out in
`Boot`, and `page_fault` is its halt. `map_page` has no caller in the kernel. It is
called at the end of the boot for entries of the directory that are absent, that an
earlier call filled, and for the kernel's own.

## The runs

| run | question | bounds |
|---|---|---|
| `kmalloc` | With the requests the kernel makes: is the map exact, is nothing shared or lost (`IInv`), is `kernel_exit(2)` justified (`ExitsOnlyWhenFull`), does data survive (`KeepsData`), are locked runs free (`FoundSequence`), is the contract of `BlockPool` met (`ImplementsPool`)? | 6 blocks of 2 bytes, 5 pointers: two runs at boot leave two blocks, so the map fills, has gaps at either end and between, and a refused request occurs; pointers are symmetric |
| `kmalloc_loop` | Do the loops compute the atomic actions, for mixed sizes and with the map full (`ImplementsAtomic`), is the count of the scan right and are writes inside the map (`IInv`), do they end (`CallsEnd`)? | 3 blocks, 3 pointers: all maps of three blocks occur |
| `storage` | Do reads and writes move the right units in order or report (`RightUnit`, `ImplementsStore`), what is in the block at each step (`IInv`), do they lose exactly one block per failed call (`LeakIsExact`) and return (`CallsReturn`)? | an ATA drive of 3 and an ATAPI drive of 2 sectors, both may fail any access; sectors of 2 bytes and integers modulo 64, so that no address wraps (`RequestsFit`); requests for 1 and 2 sectors that lie inside, cross a drive's sector, touch the end and pass it; 3 blocks of heap, so three failures exhaust it |
| `storage_error` | Does `package[0]` tell the outcome of the access? No: see the findings. | as above |
| `atapi` | With interrupts of drive, timer and keyboard at every point: do the sectors arrive in order (`ReceivesTheSectors`), does the drive get commands when it expects them (`IInv`), are errors those of the drive (`ErrorsAreTheDrives`), does a read end (`ReadsReturn`)? | one or two sectors, two addresses: the second sector and the last interrupt exercise every wait; reads repeat without limit, so leftovers of one reach the next |
| `ata_pio` | Does each addressing mode name the sector asked for, and is the disk ready for each transfer command (`IInv`), are reads that return 0 right (`ReadsAreRight`), does every sector of a write arrive and, if the flush was taken, stay (`WritesKept`), does a call return (`CallsReturn`)? | registers of 4 values, 3 sectors to a track, 2 heads: sector 5 ends a cylinder, 127 is the last of LBA28, 128 the first of LBA48; one or two sectors, so the second one crosses each edge; disks with and without LBA |
| `interrupts` | From `sti` on, with every mix of lines, spurious interrupts and exceptions: is each interrupt acknowledged where it has to be, do handlers not nest and find the frame they expect (`IInv`), does the thread get back what it had (`Transparent`), does `sleep` end (`SleepReturns`), is a key seen (`KeyboardAnswers`)? | lines 0 and 1 (with handlers), 8 and 14 (on the slave, without); vectors 6 (no code), 8 and 14 (with a code); `tick` modulo 3 |
| `console` | With keys at every point: are writes on the screen (`WritesOnScreen`), does the echo keep the cursor (`EchoKeepsCursor`), does `kprint` return (`KprintReturns`), and is a call no key interrupts exact, access by access (`IInv`, `ExactBetweenKeys`, `StaysOnScreen`)? | 3 by 3 cells, registers of 4 values: the last cell and the first ones off the screen share the high register, as in the real geometry; messages of one and two characters reach the scroll |
| `console_set` | Does `print_char` set the cursor while somebody types? No: see the findings. | as above |
| `ext2` | Is a file found that is there, and none that is not (`FindsTheFile`), and is what is in hand on the way there that of the names passed (`OnTheWay`); can a stale buffer give a name no directory has (`OnlyListedFound`); what has the call cost the heap at each step, and can memory be short for any other reason (`IInv`); does it end, but in a walk stuck at bytes that are no entry (`InitEnds`)? | three groups of four inodes, one inode and one descriptor to a unit, so that each step of the arithmetic has more than one value, either half of a block matters and the third group is out of reach; blocks of six slots with an entry across the middle, pages of three units, four of them mapped; junk that ends a walk, stays, leads on, leads off the page, names a block behind the end of the disk; fourteen names: in the root, one and two directories down, missing, in the group out of reach, through a file, through an empty inode, with a slash at the end or none at the beginning; a root of one block, of two, and one that is a file; sound and failing drives of both kinds, with 0 or an error left in `package[0]`; heaps of 4, 7 and 15 blocks, so that every request can be the one that fails |
| `ext2_root` | Is a file missing when the kernel says so? No: see the findings. | as above |
| `boot` | Is what the CPU needs reachable at each step of the boot (`IInv`), are the drives registered as they are (`RegistersTheDrives`), does `map_page` map what it is asked for and nothing else (`MapPageContract`), does the boot end (`BootEnds`)? | tables of 13 entries: six named pages, four of stack, two of heap; four places with up to two of them in use by anything, or all four by drives; three calls of `map_page`, so that two exhaust the heap and two can meet in a table |

`ImplementsPool` uses the largest of `Sizes` as `MaxRun`: boot requests never
fail on a map that has room for them.

### Findings

- `ATA.c:564`: the error of an ATA read is dropped; the read succeeds with zeros,
  or with the code of an earlier call. `SectorStore` states what is left of the
  contract: on such a drive a sector may be lost without a word, and what is
  read then is zeros, never data of another sector.
- `screen.c:90`: keys echoed during the `set_cursor_offset` of `print_char` mix two
  positions: the high byte is that of the echo, or was sent to the low register,
  and the low byte is the thread's. If the result is off the screen, `print_char`
  only draws an `E` from then on. A key before that call does no harm to it, and
  the property is about cells of the screen, which the registers can hold.
- `ext2.c:182`: for a name without a slash, as `sys.cfg` is, the lookup hands on
  the block of the root directory as if it were the inode of the file. The type
  test then fails, and the kernel stops with "missing file" although the file is
  there. The branch also looks for the name without its first character
  (`ext2.c:128`).

Met while modelling and not given a run: the comments of `kmalloc.c:28` and `:32`
("found a long enough sequence", "lock all blocks in sequence") are not what the
loop does, which no caller brings to light today. `sector * 512` (`storage.c:34`) leaves
`int` at sector 2^22, so `RightUnit` and the theorem about it stop there. The
command to flush at `ATA.c:444` does not wait for the last sector, so whether a
write survives the loss of power is left to the disk; `WritesKept` covers
the writes whose flush was taken. `isr17` (`interrupt.asm:211`) pushes a dummy
code for an exception that brings its own; alignment checks are of ring 3, which
the kernel never enters, so `Faults` has no 17.
A key pressed between `sti` and `init_keyboard` is acknowledged and its byte is
never read: the controller then signals no other, and `KeyboardAnswers` is about
keyboards that were quiet in that window.

In `ext2.c`: `fill_priv_data` divides by a field of the superblock before its
signature is tested, so a device whose superblock is zeros, as the ISO image the
Makefile boots from, ends in a divide error and not in "invalid ext2 signature".
`first_bgd` is right for blocks of 1024 bytes only, and one block of descriptors is
read, so the inodes of groups from the 33rd on are looked for elsewhere. An entry of
size 0, in a block torn at byte 512 or in data of a file, is gone round for ever
(`ext2.c:82`). A name is looked for in the
first block of a directory only, although the loop goes over twelve. Types of the
inodes in the middle of a name are not tested, and an empty one leaves its
component unlooked for.

In the boot: without a drive, `read_sector` divides by the zero `sector_size` of
`vdevices[0]`. An ATAPI drive that takes longer than a tick for IDENTIFY PACKET
is registered with an arbitrary size and model. `register_1mb_page_table` leaves
1022 entries of its directory as they were. The comments about the first
`kmalloc(2)` being the stack (`kernel_entry.asm:15`, `kernel.c:40`) are older
than `kmalloc_memory`. A page `map_page` maps for user mode in a table an
earlier call made for the supervisor stays out of reach; `MapPageContract` states
it that way. `hex_to_ascii` prints a digit 10 as `:` unless it is the last
(`string.c:32`).

### Fairness

Safety properties need none. `CallsReturn`, `CallsEnd` and `KprintReturns`
assume weak fairness of the thread's steps: it is never blocked, and each
interrupt handler returns. `ReadsReturn` assumes in addition that a busy drive
goes on to its next phase and that the CPU takes a pending interrupt of the
drive; both are needed, because the code has no timeout. Nothing is assumed of
timer and keyboard: they may help or stay silent. `AtaPio`'s `CallsReturn`
assumes that a busy disk ceases to be busy, with or without success.
`InitEnds` assumes only that the thread goes on, since calls of `read_sectors` return,
and excepts the walk that is stuck at an entry of size 0; `BootEnds` in addition that a
drive answers a command and, once interrupts are on, that the timer ticks. That they are
on in time is the code's doing.
In `Interrupts` the liveness properties assume, besides a thread and handlers
that go on, a timer that keeps ticking, a CPU that takes a pending interrupt of
a line that keeps asking, and that interrupts do not come so fast that the thread
never runs: without the last one no kernel makes progress.

`CHECK_DEADLOCK` is on everywhere; the endless loop at the end of
`kernel_exit` is the action `Halted`.

## The proofs

Safety is proved for every value of the constants, not only for the instances
above: any size of map, screen or heap, any disk, any requests and any bytes.

| theorem | says | argument |
|---|---|---|
| `KmallocProofs!TypeCorrect` | `TypeOK` always, for every map and all sizes | one case per action; `LockedRun` bounds the run by the number of free blocks |
| `AllocatorInvariant` | `IInv` always, if `Sizes` is at most `{1}` | see below |
| `MemoryIsShortAtExit` | `ExitsOnlyWhenFull`, same kernel | by `MapExact` the free entries are the unheld blocks |
| `LocksOnlyFreeBlocks` | `FoundSequence`, same kernel | `LockedRunWasFree` |
| `DataSurvives` | `KeepsData`, same kernel | the cleared block was free, and runs are disjoint |
| `AllocatorIsAPool` | `ImplementsPool`, if `Sizes = {1}` and the boot requests fit the map together | each call is a step of `BlockPool`; `BootFits`: what is free covers the requests of the boot still to come |
| `LoopsStayInside` | `LoopIInv` always, all sizes | see below |
| `LoopsComputeTheCalls` | `ImplementsAtomic`, all sizes | every iteration is a stutter, every return or exit the atomic call (`KmallocIsAtomic`, `KfreeIsAtomic`, `ExitIsAtomic`) |
| `LoopsAreAPool` | `ImplementsPool` for the loops, as in `AllocatorIsAPool` | the two refinements compose |
| `StorageProofs!AddressesSector` | the sector arithmetic is exact for sectors whose byte address fits an `int` | nothing wraps, and multiplying by 512 cancels |
| `CopiesRightUnit` | `RightUnit` always | `AddressesSector` and the range of the loop counter |
| `LeakIsOnePerFailure` | `LeakIsExact` always | invariant `LeakInv`: exit happens in `kmalloc`, with an empty heap |
| `BlockHoldsTheUnit` | `IInv` always, if `RequestsFit` | `BlockHolds`, with `AddressesSector` for the unit at `place` |
| `StorageIsAStore` | `ImplementsStore`, if `RequestsFit` | the copies and the writes are moves of `SectorStore`, everything else of a unit is a stutter |
| `AtaPioProofs!ThreadAndDiskAgree` | `IInv` always | see below |
| `ReadsReceiveTheSectors` | `ReadsAreRight` always | part `Reads` of `IInv` |
| `WritesReachTheDisk` | `WritesKept` always | parts `Writes` and `Keeps` of `IInv` |
| `AtapiProofs!KernelAndDriveAgree` | `IInv` always | one case per action; `PhasesAgree` pairs each label with the phases a drive may be in |
| `ReceivesTheSectorsInOrder` | `ReceivesTheSectors` always | the packet the drive serves is the one just sent |
| `OnlyTheDriveFails` | `ErrorsAreTheDrives` | `PhasesAgree` where `ide_polling` returns |
| `ConsoleProofs!VideoMemoryIsSafe` | `WritesOnScreen` always, for any screen and any keys | invariant `CellsInv`: offsets are never negative; `print_char` tests for too large ones |
| `PositionIsKnown` | `IInv` always | `CursorKnown`: each access leaves the index register where the next one needs it |
| `CursorStaysOnScreen` | `StaysOnScreen` always | from `CursorKnown`; a scroll leaves the last row |
| `EchoIsSafe` | `EchoKeepsCursor` | `KeyOnScreen`: a scroll at the end, a test at the beginning |
| `PortAccessIsExact` | `ExactBetweenKeys` | `CursorKnown` at the fourth access |
| `InterruptsProofs!HandlersLeaveNothingBehind` | `IInv` always | `OneFrame` and `InService`, see below |
| `InterruptsAreTransparent` | `Transparent` | the frame popped is the one pushed |
| `Ext2Proofs!CallsCostWhatTheyRead` | `IInv` always | see below |
| `OnlyListedIsFound` | `OnlyListedFound` always | `OnlyFromTheDisk`, a part of `IInv` |
| `LookupStaysOnTheWay` | `OnTheWay` always, if `ImagesSound` | see below |
| `LookupFindsTheFile` | `FindsTheFile` always, if `ImagesSound` | `OnTheWay` where the lookup returns |
| `BootProofs!EachStepFindsWhatItNeeds` | `IInv` always, any layout and any drives | see below |
| `MapPageMapsOnlyThat` | `MapPageContract`, for any calls in any order | `TablesApart`: the table that is written belongs to one entry of the directory |
| `DrivesAreRegistered` | `RegistersTheDrives` always | `Probed`, and that counting drives is monotonic (`BeforeFacts`) |

*Kmalloc.* `NoOverlap` and `MapExact` are not inductive alone. A request for several blocks
is safe only while the free blocks are the upper end of the map, so `IInv` adds
`BootContiguous`: until the last request of `kernel_main` nothing has been freed.
After it, requests are for single blocks, and the first free block is by
definition a run of length one. `kfree` divides an address, so `IInv` also says
that what is held starts at a block address. The premise `Sizes \subseteq {1}`
is what the callers do, and the counterexample above shows that it is needed.
`AllocatorIsAPool` takes it as `{1}` because `BlockPool` is told the largest run
asked for. A sum over a sequence is recursive, so that theorem has the sum of the boot
requests as a constant `Total` with the equations of a sum (`IsTotal`); the
function that has them exists.

*KmallocLoop.* Between two iterations the map is that of the last return with a
part of one run rewritten (`Written`), and the count of the scan is the
cardinality of a set (`ScanCounts`). That the locking loop stays inside the map
although the blocks counted need not be adjacent follows from their number: `n`
free blocks from the first one on leave room for `n` entries (`RunFits`). What a
call found at its start is kept to its end by `CallsAgree`, which is what makes
the return the atomic action.

*AtaPio.* That the registers name the sector is arithmetic for every geometry
(`RegistersName`): quotients and remainders by registers, sectors per track
and heads, put together again. The rest of `IInv` ties the loop counter to what
the disk has taken or given: `Prepared` before the command, `Reads` and `Writes`
at each poll, `Taken` and `Keeps` for what the cache and the medium have.

*Interrupts.* That handlers do not nest needs to know where the interrupt flag is
off; that the end of interrupt reaches the right PIC needs to know what is in service
at each point of `irq_handler`. `OneFrame` and `InService` say both for every
label, together with what `iret` restores.

*Ext2.* The heap's balance is inductive with one number per label
(`Outstanding`), because a call of `read_sectors` that returns 1 does so in one
unit, whatever the drive and the reason (`ReadTakes`). For the result, `OnlyFromTheDisk`
follows where bytes come from: whatever halves a buffer has, the walk arrives at zeros, at
an entry that is whole or at something else, and only then is `misread` set (`ArriveGives`);
and what is still to be looked up is a part of the name. That the right
file is found is about sound disks and reads that do not fail (`Straight`). `OnTheWay`
ties what is in hand to a number of names passed: `Way` is where the first of them,
the first two and so on lead to, and a step of the lookup either stays at a place of
it or takes the next one. `InodeIsThere` is the arithmetic of `ext2_read_inode`: of
all the blocks of all groups only one holds the inode, because the tables do
not overlap and blocks divide a group; `WalkFindsChild` is the walk of a directory, which
keeps to the offsets of entries because these fill their block (`OffsetsAreSound`), ends
at the zeros behind it and so never misreads or leaves the page. A
name that is not there makes the rest of the way 0 (`NoWayBack`). That `Way`, a recursive
function, is what its definition says has to be shown too (`WayExists`): there is no least
number of names for which no such function exists (`Least`).

*Boot.* That code and stack can be reached says nothing of the next step: it replaces
the tables they are reached through. So `TablesHold` says, for each step, which page is
the directory and which entries of it and of the first table are in place, and the
two halves of the linear addresses are shown to be the same pages as long as the
tables of `kernel_entry.asm` are in use (`BootTranslates`), and the upper one
afterwards (`KernelTranslates`); what has a valid address follows
(`CodeAndStackFollow`, `SegmentsFollow`). The table of the kernel survives the return of
`setup_paging` because `Depth` is at most the pages above it: `LeaveLow` is the step
that would fail. `map_page` writes through a translation it is changing.
`MapPageDoes` reduces that to three cases, and `TablesApart` is what they need and
keep: a table that `map_page` made is a heap block, taken, and no other entry's. It
does not hold while the first entry of the directory, which is the kernel's table, is
still there, so the theorem depends on `setup_paging` taking it out. For the probe,
`Probed` relates the number of devices found to the number of drives passed, and each
label to what the drive at `place` can be; `type` is part of it, since an entry would be of
the wrong kind if it kept its value from the place before.

Assumed are only the named assumptions on constants (`KmallocAssumption`,
`LoopAssumption`, `StorageAssumption`, `AtaPioAssumption`, `AtapiAssumption`,
`ConsoleAssumption`, `InterruptsAssumption`, `Ext2Assumption`, `PagingAssumption`,
`LayoutAssumption`, `BootAssumption`), which the runs evaluate, and the
hypotheses in the theorems: what `kernel_main` asks the allocator for, and
`RequestsFit`, that requests stay below the sector where `sector * 512` leaves
`int` (`MCStorage` has it as `AskedFit`), and `ImagesSound`, what a lookup takes for
granted of a file system (`MCExt2` has it as `DisksAreSound`): the inode tables
are apart, the entries of a block fill it one after the other and name inodes that are
there, names are unique, and the first block of a directory has no deleted entry.
`Passable` in the properties themselves says which names they are about: the code treats
a component that is no directory of one block, or whose group is past the first
block of descriptors, differently.

Only model-checked: the liveness properties (`CallsEnd`, `CallsReturn`,
`ReadsReturn`, `KprintReturns`, `SleepReturns`, `KeyboardAnswers`, `InitEnds`,
`BootEnds`), which are out of the prover's reach. Every other property of a passing
run is a theorem.

## Not modelled

- `key_buffer` (`drivers/keyboard.c`): written, never read, because `user_input` is
  empty. `append` does not look at the size of the buffer, and what lies beside
  it is the linker's choice. The echo of keys is in `Console`.
- The conversions of numbers, `kprint_hex` and `kprint_int`: for messages only.
- `enter_ring3` and `kprint_at` with explicit coordinates: no caller.
- Ports: one instruction per function.
- `test_read_access` and `kmalloc_test`: callers of what is modelled.
- The size and the model of a drive, `ide_print_error`: messages, except for the test of
  the size in `ide_read_sectors`, which `Storage` has.
- The TLB: no address is used again after its translation was taken away.
- Bases and limits of segments: all start at 0 and have 4 GB.
- File systems with blocks of other sizes than 1024 bytes, and block numbers whose sector wraps
  (`storage.c:34`), which only junk could name.

## Plan

1. Done: allocator, sector access and console, with their proofs; ATAPI read,
   ATA access, interrupt dispatch and timer; ext2; paging, segments, the probe
   for drives and the order of the boot.
2. Done: the invariants, the action properties and the refinements of allocator, sector
   access, ATA, ATAPI, console, interrupts, ext2 and the boot, proved.
3. To come: a block size of its own in `Ext2`, for `first_bgd`.
