------------------------------ MODULE Storage ------------------------------
(***************************************************************************)
(* Sector access: read_sectors and write_sectors of drivers/storage.c on   *)
(* top of ide_read_sectors and ide_write_sectors of drivers/ATA.c.         *)
(*                                                                         *)
(* Sectors of a device_info are units of 512 bytes; a drive has sectors of *)
(* its own, of 512 (ATA) or 2048 bytes (ATAPI).  Each unit goes through a  *)
(* block from kmalloc, which the code returns only when no step failed.    *)
(* The error code of the IDE layer lives in the global package[0]; an ATA  *)
(* read drops the code of ide_ata_access and returns what an earlier call  *)
(* left there.                                                             *)
(*                                                                         *)
(* Everything runs on the kernel's one thread and no interrupt handler     *)
(* touches this state; a step here is a call one of the four functions     *)
(* makes (kmalloc, ide_read_sectors, memory_copy and kfree,                *)
(* ide_write_sectors).  Atapi.tla opens the ATAPI read.  The drives, the   *)
(* environment of this module, may fail an access when they are in Faulty. *)
(***************************************************************************)
EXTENDS Integers, FiniteSets

CONSTANTS
  Devices,      \* the entries of vdevices: drives with Reserved = 1
  Type,         \* Type[d] is "ATA" or "ATAPI"
  Size,         \* Size[d], in sectors of the drive
  Faulty,       \* drives whose accesses may go wrong
  SectorBytes,  \* 512
  IntModulus,   \* 2^32: arithmetic on int and uint32_t wraps here
  BlockUnits,   \* units in a block of kmalloc (4096 / 512)
  HeapBlocks,   \* free blocks of the heap before the first call
  Data,         \* what a unit can contain
  Media,        \* Media[d][u]: what the drives contain at first
  Zeros,        \* the unit of 512 zero bytes
  Untouched,    \* a place of the client's buffer nothing was copied to
  Requests      \* [kind, device, sector, data], the calls clients make

ATAPIUnits == 4  \* 2048 / 512

ASSUME StorageAssumption ==
  /\ Type \in [Devices -> {"ATA", "ATAPI"}]
  /\ Size \in [Devices -> Nat \ {0}]
  /\ Faulty \subseteq Devices
  /\ SectorBytes \in Nat \ {0} /\ IntModulus \in Nat \ {0}
  /\ IntModulus % (2 * SectorBytes) = 0
  /\ BlockUnits \in Nat /\ BlockUnits >= ATAPIUnits
  /\ HeapBlocks \in Nat \ {0}
  /\ Media = [d \in Devices |-> Media[d]]
  /\ \A d \in Devices :
       Media[d] \in [0 .. (IF Type[d] = "ATA" THEN 1 ELSE ATAPIUnits) * Size[d] - 1 -> Data]
  /\ Zeros \in Data /\ Untouched \notin Data
  /\ \A r \in Requests :
       /\ r.kind \in {"read", "write"} /\ r.device \in Devices
       /\ r.sector \in Nat
       /\ IsFiniteSet(DOMAIN r.data) /\ DOMAIN r.data # {}
       /\ r.data \in [0 .. Cardinality(DOMAIN r.data) - 1 -> Data]

VARIABLES
  content,   \* content[d][u]: unit u of the medium in drive d
  package0,  \* package[0], the error code of the IDE layer
  free,      \* free blocks of the heap
  exited,    \* kmalloc found none: kernel_exit(2)
  pc,        \* the next call the storage function makes
  request, moved, buffer, status,  \* as in SectorStore.tla; moved is c
  block,     \* contents of read_write_buffer
  access,    \* history: how the last access of ide_*_sectors really ended
  failures   \* history: calls that returned 1

client == <<request, moved, buffer, status>>
vars == <<content, package0, free, exited, pc, client, block, access, failures>>

\* An ATA drive's error is dropped, so a failed read gives the zeros that
\* kmalloc put into the block.
Store == INSTANCE SectorStore WITH
  Contents <- {Media},
  Silent <- {d \in Faulty : Type[d] = "ATA"},
  Lost <- Zeros

-----------------------------------------------------------------------------
\* C arithmetic: int wraps into -IntModulus/2 .. IntModulus/2 - 1, uint32_t
\* into 0 .. IntModulus - 1, division of ints drops the fraction.
Unsigned(x) == x % IntModulus
Signed(x) == ((x + IntModulus \div 2) % IntModulus) - IntModulus \div 2
Quotient(a, b) == IF a >= 0 THEN a \div b ELSE -((-a) \div b)

UnitsPerSector(d) == IF Type[d] = "ATA" THEN 1 ELSE ATAPIUnits
sector_size(d) == UnitsPerSector(d) * SectorBytes

RealSector(d, sector) == Unsigned(Quotient(Signed(sector * SectorBytes), sector_size(d)))

\* Variant: the drive's sector is not scaled back to units.
OffsetUnscaled(d, sector) ==
  Unsigned((sector - RealSector(d, sector)) * SectorBytes)

\* In bytes; read_write_buffer is indexed with it.
Offset(d, sector) ==
  Unsigned((sector - RealSector(d, sector) * UnitsPerSector(d)) * SectorBytes)

\* The unit that the current iteration of the loop names, and its place in
\* read_write_buffer.
sector == request.sector + moved
real_sector == RealSector(request.device, sector)
place == Offset(request.device, sector) \div SectorBytes

Units(d, lba) == [u \in 0 .. UnitsPerSector(d) - 1 |-> lba * UnitsPerSector(d) + u]

-----------------------------------------------------------------------------
\* Variant: the first sector past the end is let through.
SeekErrorLate(d, lba) == Type[d] = "ATA" /\ lba > Size[d]

\* The two checks ide_read_sectors and ide_write_sectors begin with.  The
\* first, for an absent drive, cannot fail: only present ones are registered
\* as devices (storage.c:17).
SeekError(d, lba) == Type[d] = "ATA" /\ Unsigned(lba + 1) > Size[d]

\* A drive serves an access to a sector it has, unless it is faulty.
Served(d, lba) == lba < Size[d]
Refused(d, lba) == d \in Faulty \/ lba >= Size[d]

\* ide_read_sectors(d, 1, lba): package0', block' and access'.  19 stands for
\* the several codes ide_print_error gives a failed access, none of them 0.
IdeRead(d, lba) ==
  \/ /\ SeekError(d, lba)
     /\ package0' = 2 /\ access' = "error" /\ UNCHANGED block
  \/ /\ ~SeekError(d, lba) /\ Served(d, lba)
     /\ block' = [u \in DOMAIN block |-> IF u \in DOMAIN Units(d, lba)
                                         THEN content[d][Units(d, lba)[u]] ELSE block[u]]
     /\ access' = "done"
     /\ package0' = IF Type[d] = "ATA" THEN package0 ELSE 0
  \/ /\ ~SeekError(d, lba) /\ Refused(d, lba)
     /\ UNCHANGED block
     /\ access' = "error"
     /\ package0' = IF Type[d] = "ATA" THEN package0 ELSE 19

\* ide_write_sectors(d, 1, lba): package0', content' and access'.  The PIO
\* write does not look at the error bits, so it always returns 0.
IdeWrite(d, lba) ==
  \/ /\ SeekError(d, lba)
     /\ package0' = 2 /\ access' = "error" /\ UNCHANGED content
  \/ /\ Type[d] = "ATAPI"
     /\ package0' = 8 /\ access' = "error" /\ UNCHANGED content
  \/ /\ Type[d] = "ATA" /\ ~SeekError(d, lba)
     /\ package0' = 0
     /\ \/ /\ Served(d, lba) /\ access' = "done"
           /\ content' = [content EXCEPT ![d][lba] = block[0]]
        \/ /\ Refused(d, lba) /\ access' = "error"
           /\ UNCHANGED content

-----------------------------------------------------------------------------
\* Variant: the loop counter is not reset.
CallGoesOn(r) ==
  /\ pc = "idle" /\ ~exited
  /\ request' = r /\ status' = "running" /\ UNCHANGED moved
  /\ buffer' = [c \in DOMAIN r.data |-> Untouched]
  /\ pc' = "kmalloc"
  /\ UNCHANGED <<content, package0, free, exited, block, access, failures>>

\* A call of the client; a failed call leaves its block allocated.
Call(r) ==
  /\ pc = "idle" /\ ~exited
  /\ request' = r /\ moved' = 0 /\ status' = "running"
  /\ buffer' = [c \in DOMAIN r.data |-> Untouched]
  /\ pc' = "kmalloc"
  /\ UNCHANGED <<content, package0, free, exited, block, access, failures>>

FailCall ==
  /\ pc' = "idle" /\ status' = "failure" /\ failures' = failures + 1
  /\ UNCHANGED <<free, request, moved, buffer>>

\* Variant: the block is not given back.
FinishUnitLeaks ==
  /\ moved' = moved + 1
  /\ IF moved + 1 = Cardinality(DOMAIN request.data)
     THEN pc' = "idle" /\ status' = "success"
     ELSE pc' = "kmalloc" /\ UNCHANGED status
  /\ UNCHANGED <<free, request, failures>>

\* Variant: the loop counter is not incremented.
FinishUnitStays ==
  /\ free' = free + 1
  /\ UNCHANGED moved
  /\ IF moved + 1 = Cardinality(DOMAIN request.data)
     THEN pc' = "idle" /\ status' = "success"
     ELSE pc' = "kmalloc" /\ UNCHANGED status
  /\ UNCHANGED <<request, failures>>

\* kfree, then the next iteration of the loop or the return of 0.
FinishUnit ==
  /\ free' = free + 1
  /\ moved' = moved + 1
  /\ IF moved + 1 = Cardinality(DOMAIN request.data)
     THEN pc' = "idle" /\ status' = "success"
     ELSE pc' = "kmalloc" /\ UNCHANGED status
  /\ UNCHANGED <<request, failures>>

\* Variant: the block keeps what it held.
SkipClear == UNCHANGED block

\* memory_set in kmalloc.
ClearBlock == block' = [u \in 0 .. BlockUnits - 1 |-> Zeros]

\* kmalloc(1) returns a block of zeros, or ends in kernel_exit(2).
Allocate ==
  /\ pc = "kmalloc" /\ ~exited
  /\ IF free = 0
     THEN exited' = TRUE /\ UNCHANGED <<free, pc, block>>
     ELSE /\ free' = free - 1 /\ pc' = "ide_read_sectors"
          /\ ClearBlock
          /\ UNCHANGED exited
  /\ UNCHANGED <<content, package0, client, access, failures>>

\* Both read_sector and write_sector read the drive's sector first.
ReadDrive ==
  /\ pc = "ide_read_sectors"
  /\ IdeRead(request.device, real_sector)
  /\ IF package0' # 0
     THEN FailCall
     ELSE pc' = "memory_copy" /\ UNCHANGED <<free, client, failures>>
  /\ UNCHANGED <<content, exited>>

CopyOut ==
  /\ pc = "memory_copy" /\ request.kind = "read"
  /\ buffer' = [buffer EXCEPT ![moved] = block[place]]
  /\ FinishUnit
  /\ UNCHANGED <<content, package0, exited, block, access>>

CopyIn ==
  /\ pc = "memory_copy" /\ request.kind = "write"
  /\ block' = [block EXCEPT ![place] = request.data[moved]]
  /\ pc' = "ide_write_sectors"
  /\ UNCHANGED <<content, package0, free, exited, client, access, failures>>

WriteDrive ==
  /\ pc = "ide_write_sectors"
  /\ IdeWrite(request.device, real_sector)
  /\ IF package0' # 0 THEN FailCall ELSE FinishUnit /\ UNCHANGED buffer
  /\ UNCHANGED <<exited, block>>

Halted == exited /\ UNCHANGED vars

Init ==
  /\ Store!Init
  /\ package0 = 0
  /\ free = HeapBlocks /\ exited = FALSE
  /\ pc = "idle"
  /\ block = [u \in 0 .. BlockUnits - 1 |-> Zeros]
  /\ access = "done" /\ failures = 0

Step == Allocate \/ ReadDrive \/ CopyOut \/ CopyIn \/ WriteDrive

Next == (\E r \in Requests : Call(r)) \/ Step \/ Halted

\* The kernel's thread keeps running; clients may stop calling.
Spec == Init /\ [][Next]_vars /\ WF_vars(Step)

-----------------------------------------------------------------------------
Places(r) == DOMAIN r.data

TypeOK ==
  /\ content = [d \in Devices |-> content[d]]
  /\ \A d \in Devices : content[d] \in [DOMAIN Media[d] -> Data]
  /\ package0 \in {0, 2, 8, 19}
  /\ free \in 0 .. HeapBlocks
  /\ exited \in BOOLEAN
  /\ pc \in {"idle", "kmalloc", "ide_read_sectors", "memory_copy", "ide_write_sectors"}
  /\ request \in Requests
  /\ moved \in 0 .. Cardinality(Places(request))
  /\ buffer \in [Places(request) -> Data \cup {Untouched}]
  /\ status \in {"none", "running", "success", "failure"}
  /\ block \in [0 .. BlockUnits - 1 -> Data]
  /\ access \in {"done", "error"}
  /\ failures \in Nat

\* The heap loses exactly one block per failed call (storage.c:38, 57 and 61
\* return before kfree), so the kernel dies of it after HeapBlocks failed
\* calls and never earlier, however many calls succeed.
LeakIsExact ==
  LET borrowed == IF pc \in {"idle", "kmalloc"} THEN 0 ELSE 1 IN
  /\ free + failures + borrowed = HeapBlocks
  /\ exited => failures = HeapBlocks

\* Sectors whose byte address fits an int.
Limit == IntModulus \div (2 * SectorBytes)

\* Those are the only ones clients name.
RequestsFit == \A r \in Requests : r.sector + Cardinality(DOMAIN r.data) <= Limit

\* For those, the unit copied out of or into the drive's sector is the one
\* the client named.
RightUnit ==
  pc \in {"memory_copy", "ide_write_sectors"} /\ sector < Limit =>
    /\ place \in DOMAIN Units(request.device, real_sector)
    /\ Units(request.device, real_sector)[place] = sector

\* What the block from kmalloc holds between two calls of a unit: zeros, then
\* the unit the client named, or still zeros if an ATA drive failed to read it,
\* and for a write in the end the client's data.
BlockHolds ==
  /\ pc = "ide_read_sectors" => block = [u \in 0 .. BlockUnits - 1 |-> Zeros]
  /\ pc \in {"memory_copy", "ide_write_sectors"} => real_sector < Size[request.device]
  /\ pc = "memory_copy" =>
       \/ block[place] = content[request.device][sector]
       \/ /\ request.device \in Faulty /\ Type[request.device] = "ATA"
          /\ block[place] = Zeros
  /\ pc = "ide_write_sectors" => request.kind = "write" /\ block[place] = request.data[moved]

\* A call is running, with units left to move, exactly while pc is in it.
IInv ==
  /\ TypeOK /\ BlockHolds
  /\ pc = "idle" <=> status # "running"
  /\ pc # "idle" => moved < Cardinality(Places(request))

\* The storage layer is a store of sectors: all moved or an error, nothing
\* else changed.  What it gives for a sector an ATA drive failed to read is
\* zeros, never what another sector or an earlier call left in memory, and a
\* write an ATA drive failed leaves the old sector.
ImplementsStore == Store!Spec

\* Every call returns unless it ends the kernel.
CallsReturn == pc # "idle" ~> (pc = "idle" \/ exited)

-----------------------------------------------------------------------------
\* "package[0] is an entry of an array. It contains the Error Code."
\* (ATA.c:573): it is set exactly when the access it is returned for failed.
CodeTellsOutcome == access = "error" <=> package0 # 0
=============================================================================
