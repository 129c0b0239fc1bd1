------------------------------- MODULE AtaPio -------------------------------
(***************************************************************************)
(* ide_ata_access of drivers/ATA.c: how a sector number becomes register   *)
(* values in one of three addressing modes, and the programmed transfer of *)
(* sectors, polled, with the disk's interrupts off.                        *)
(*                                                                         *)
(* The disk is the environment.  It works on its own, may fail an access,  *)
(* and keeps what it is sent in a cache that it empties when it likes, and *)
(* at the latest when it is told to flush.  A command it gets while it is  *)
(* busy it may ignore.                                                     *)
(***************************************************************************)
EXTENDS Integers, Sequences

CONSTANTS
  Byte, Nibble,        \* 256, 16: what a register and half of one can hold
  SectorsPerTrack,     \* 63
  Heads,               \* 16
  Lbas,                \* sectors clients name
  Counts               \* numsects

ASSUME AtaPioAssumption ==
  /\ {Byte, Nibble, SectorsPerTrack, Heads} \subseteq Nat \ {0}
  /\ SectorsPerTrack < Byte /\ Heads <= Nibble /\ Nibble < Byte
  /\ Lbas \subseteq 0 .. Byte * Byte * Byte * Byte - 1 /\ Counts \subseteq Nat \ {0}

VARIABLES
  pc,                        \* the next thing ide_ata_access does
  direction, lba, numsects,  \* its arguments
  i,                         \* sectors transferred
  edi,                       \* the sectors received
  result,                    \* the value returned last
  lba28,                     \* Capabilities & 0x200: it takes sector numbers
  registers,                 \* the disk's registers
  drive,                     \* what the disk is doing
  served,                    \* sectors of this command it has transferred
  cache, medium,             \* sectors whose last contents are in the cache,
                             \* and those whose contents are there for good
  faulted, flushed           \* history: in this call the disk failed, and it
                             \* took the command to flush

call == <<direction, lba, numsects, lba28>>
thread == <<pc, call, i, edi, result>>
disk == <<drive, served, cache, medium>>
history == <<faulted, flushed>>
vars == <<thread, registers, disk, history>>

-----------------------------------------------------------------------------
\* (I): 0x10000000, the first sector that needs LBA48.
Lba48From == Byte * Byte * Byte * Nibble

ByteOf(n, k) ==
  CASE k = 0 -> n % Byte
    [] k = 1 -> (n \div Byte) % Byte
    [] k = 2 -> (n \div (Byte * Byte)) % Byte
    [] k = 3 -> (n \div (Byte * Byte * Byte)) % Byte

lba_mode(n) == IF n >= Lba48From THEN "LBA48" ELSE IF lba28 THEN "LBA28" ELSE "CHS"

\* What is written to LBA0 and up and to the lower half of HDDEVSEL, when
\* cylinder and head are computed from track.
Address(n, sect, track) ==
  LET cyl == track \div (Heads * SectorsPerTrack)
  IN CASE lba_mode(n) = "LBA48" ->
            [io |-> [k \in 0 .. 3 |-> ByteOf(n, k)], head |-> 0]
       [] lba_mode(n) = "LBA28" ->
            [io |-> [k \in 0 .. 2 |-> ByteOf(n, k)],
             head |-> (n \div (Byte * Byte * Byte)) % Nibble]
       [] lba_mode(n) = "CHS" ->
            [io |-> [k \in 0 .. 2 |-> IF k = 0 THEN sect ELSE ByteOf(cyl, k - 1)],
             head |-> (track % (Heads * SectorsPerTrack)) \div SectorsPerTrack]

\* Variant: as if sectors were counted from zero in the register too.
EncodeForgetsSect(n) == Address(n, (n % SectorsPerTrack) + 1, n + 1)

Encode(n) ==
  LET sect == (n % SectorsPerTrack) + 1
  IN Address(n, sect, n + 1 - sect)

\* The sector that a disk of the assumed geometry finds there.
Decode(r) ==
  CASE r.mode = "LBA48" ->
         ((r.io[3] * Byte + r.io[2]) * Byte + r.io[1]) * Byte + r.io[0]
    [] r.mode = "LBA28" ->
         ((r.head * Byte + r.io[2]) * Byte + r.io[1]) * Byte + r.io[0]
    [] r.mode = "CHS" ->
         ((r.io[2] * Byte + r.io[1]) * Heads + r.head) * SectorsPerTrack + r.io[0] - 1

\* The status register.
BSY == drive \in {"seeking", "storing", "flushing"}
DRQ == drive \in {"has_data", "wants_data"}

-----------------------------------------------------------------------------
\* A call.  ide_read_sectors and ide_write_sectors let sectors of the disk
\* pass: one that is addressed by cylinders has no more of them than the
\* cylinder registers can tell apart.
Begin(d, n, count) ==
  /\ pc = "idle"
  /\ lba_mode(n) = "CHS" => n < Byte * Byte * Heads * SectorsPerTrack
  /\ direction' = d /\ lba' = n /\ numsects' = count
  /\ i' = 0 /\ edi' = <<>>
  /\ faulted' = FALSE /\ flushed' = FALSE
  /\ pc' = "select"
  /\ UNCHANGED <<result, lba28, registers, disk>>

Registers(mode, address, count) ==
  [mode |-> mode, io |-> address.io, head |-> address.head, count |-> count]

\* (III) to (V): waits for the disk, then the device, the address, the number
\* of sectors.
Select ==
  /\ pc = "select" /\ ~BSY /\ pc' = "command"
  /\ registers' = Registers(lba_mode(lba), Encode(lba), numsects)
  /\ UNCHANGED <<call, i, edi, result, disk, history>>

\* A disk asks for the first sector of a write at once or after a while.
Command ==
  /\ pc = "command" /\ pc' = "poll"
  /\ drive' \in IF direction = "read" THEN {"seeking"} ELSE {"storing", "wants_data"}
  /\ served' = 0
  /\ UNCHANGED <<call, i, edi, result, registers, cache, medium, history>>

Leave(value) == pc' = "idle" /\ result' = value

\* Variant: DRQ is not looked at.
PollReadIgnoresDRQ ==
  /\ pc = "poll" /\ direction = "read" /\ ~BSY
  /\ CASE drive = "error" -> Leave(2)
       [] drive = "fault" -> Leave(1)
       [] OTHER -> pc' = "transfer" /\ UNCHANGED result
  /\ UNCHANGED <<call, i, edi, registers, disk, history>>

\* Variant: polls until there is data.
PollReadUntilDRQ ==
  /\ pc = "poll" /\ direction = "read" /\ ~BSY
  /\ CASE drive = "error" -> Leave(2)
       [] drive = "fault" -> Leave(1)
       [] drive = "has_data" -> pc' = "transfer" /\ UNCHANGED result
       [] OTHER -> UNCHANGED <<pc, result>>
  /\ UNCHANGED <<call, i, edi, registers, disk, history>>

\* ide_polling(channel, 1) and the return of what it found.
PollRead ==
  /\ pc = "poll" /\ direction = "read" /\ ~BSY
  /\ CASE drive = "error" -> Leave(2)
       [] drive = "fault" -> Leave(1)
       [] DRQ -> pc' = "transfer" /\ UNCHANGED result
       [] OTHER -> Leave(3)
  /\ UNCHANGED <<call, i, edi, registers, disk, history>>

\* Variant: does not poll between the sectors.
PollWriteAtOnce ==
  /\ pc = "poll" /\ direction = "write"
  /\ pc' = "transfer"
  /\ UNCHANGED <<call, i, edi, result, registers, disk, history>>

\* ide_polling(channel, 0) looks at nothing but BSY.
PollWrite ==
  /\ pc = "poll" /\ direction = "write" /\ ~BSY
  /\ pc' = "transfer"
  /\ UNCHANGED <<call, i, edi, result, registers, disk, history>>

\* The sector the disk is at, and what a disk without data gives.
Here == Decode(registers) + served
Garbage == -1

\* rep insw
Receive ==
  /\ pc = "transfer" /\ direction = "read"
  /\ edi' = Append(edi, IF DRQ THEN Here ELSE Garbage)
  /\ i' = i + 1
  /\ IF DRQ THEN /\ served' = served + 1
                 /\ drive' = IF served' = registers.count THEN "ready" ELSE "seeking"
            ELSE UNCHANGED <<served, drive>>
  /\ IF i + 1 = numsects THEN Leave(0) ELSE pc' = "poll" /\ UNCHANGED result
  /\ UNCHANGED <<call, registers, cache, medium, history>>

\* rep outsw; a disk that does not want data ignores it.
Send ==
  /\ pc = "transfer" /\ direction = "write"
  /\ IF DRQ THEN /\ drive' = "storing" /\ served' = served + 1
                 /\ cache' = cache \cup {Here} /\ medium' = medium \ {Here}
            ELSE UNCHANGED disk
  /\ i' = i + 1
  /\ pc' = IF i + 1 = numsects THEN "flush" ELSE "poll"
  /\ UNCHANGED <<call, edi, result, registers, history>>

\* The command to flush follows the last sector without a look at BSY.
Flush ==
  /\ pc = "flush" /\ pc' = "poll_flush"
  /\ \/ drive' = "flushing" /\ flushed' = TRUE
     \/ (BSY \/ DRQ) /\ UNCHANGED <<drive, flushed>>
  /\ UNCHANGED <<call, i, edi, result, registers, served, cache, medium, faulted>>

PollFlush ==
  /\ pc = "poll_flush" /\ ~BSY
  /\ Leave(0)
  /\ UNCHANGED <<call, i, edi, registers, disk, history>>

-----------------------------------------------------------------------------
\* The disk.  A read may end without data, as on a disk that is not there.
Finds ==
  /\ drive = "seeking" /\ drive' \in {"has_data", "ready"}
  /\ UNCHANGED <<thread, registers, served, cache, medium, history>>

Stores ==
  /\ drive = "storing"
  /\ drive' = IF served = registers.count THEN "ready" ELSE "wants_data"
  /\ UNCHANGED <<thread, registers, served, cache, medium, history>>

Flushes ==
  /\ drive = "flushing" /\ drive' = "ready"
  /\ medium' = medium \cup cache /\ cache' = {}
  /\ UNCHANGED <<thread, registers, served, history>>

Fails ==
  /\ BSY /\ drive' \in {"error", "fault"} /\ faulted' = TRUE
  /\ UNCHANGED <<thread, registers, served, cache, medium, flushed>>

Destages ==
  \E s \in cache : /\ cache' = cache \ {s} /\ medium' = medium \cup {s}
                   /\ UNCHANGED <<thread, registers, drive, served, history>>

-----------------------------------------------------------------------------
Init ==
  /\ pc = "idle" /\ direction = "read" /\ lba = 0 /\ numsects = 0
  /\ i = 0 /\ edi = <<>> /\ result = 3
  /\ lba28 \in BOOLEAN
  /\ registers = [mode |-> "LBA28", io |-> [k \in 0 .. 2 |-> 0], head |-> 0, count |-> 0]
  /\ drive = "ready" /\ served = 0
  /\ cache = {} /\ medium = {}
  /\ faulted = FALSE /\ flushed = FALSE

Running == \/ Select \/ Command \/ PollRead \/ PollWrite \/ Receive \/ Send
           \/ Flush \/ PollFlush
Working == Finds \/ Stores \/ Flushes \/ Fails

Next == \/ \E d \in {"read", "write"}, n \in Lbas, count \in Counts : Begin(d, n, count)
        \/ Running \/ Working \/ Destages

\* The thread is not blocked, and a busy disk ceases to be.
Fairness == WF_vars(Running) /\ WF_vars(Working)

Spec == Init /\ [][Next]_vars /\ Fairness

-----------------------------------------------------------------------------
Sectors == {lba + k : k \in 0 .. numsects - 1}

\* Types and ranges: no more sectors are transferred than were asked for, and
\* results are those of ide_polling.
TypeOK ==
  /\ pc \in {"idle", "select", "command", "poll", "transfer", "flush", "poll_flush"}
  /\ direction \in {"read", "write"} /\ lba \in Lbas \cup {0} /\ numsects \in Counts \cup {0}
  /\ i \in 0 .. numsects /\ served \in Nat
  /\ pc \in {"poll", "transfer"} => served <= registers.count
  /\ edi \in Seq(Nat \cup {Garbage}) /\ result \in 0 .. 3
  /\ lba28 \in BOOLEAN /\ faulted \in BOOLEAN /\ flushed \in BOOLEAN
  /\ registers.head \in 0 .. Nibble - 1
  /\ \A k \in DOMAIN registers.io : registers.io[k] \in 0 .. Byte - 1
  /\ drive \in {"ready", "seeking", "storing", "flushing", "has_data", "wants_data",
                "error", "fault"}
  /\ cache \cap medium = {}

\* From the command to the end of the transfer the registers name the sector
\* asked for: the three encodings of ide_ata_access lose nothing, at the edges
\* of a track, of a cylinder and of what 28 bits can address.
AddressesTheSector ==
  pc \in {"command", "poll", "transfer"} => Decode(registers) = lba

\* A read that returns 0 has received the sectors asked for, in order,
\* whatever the disk did.
ReadsAreRight ==
  pc = "idle" /\ direction = "read" /\ result = 0
    => edi = [k \in 1 .. numsects |-> lba + k - 1]

\* If the disk did not fail in a write that returned, it has all the sectors:
\* none was sent while it was not ready to take it.  If, besides, it took the
\* command to flush, they are there for good: the call does not return before
\* the disk is done.
WritesKept ==
  pc = "idle" /\ direction = "write" /\ ~faulted
    => Sectors \subseteq IF flushed THEN medium ELSE cache \cup medium

\* A transfer is never begun while the disk is busy or has data left of the
\* one before, the calls that ended in an error included.
CommandsWhenExpected == pc = "command" => ~BSY /\ ~DRQ

\* What a call has set up before its command, and what it keeps of that.
Prepared ==
  /\ pc \in {"select", "command"} => i = 0 /\ edi = <<>> /\ ~faulted
  /\ pc = "select" /\ lba_mode(lba) = "CHS" => lba < Byte * Byte * Heads * SectorsPerTrack
  /\ pc \in {"select", "command", "poll", "transfer", "flush"} => ~flushed
  /\ pc \in {"command", "poll", "transfer", "flush", "poll_flush"} => registers.count = numsects
  /\ pc \in {"select", "command", "poll", "transfer"} => i < numsects
  /\ pc \in {"flush", "poll_flush"} => direction = "write" /\ i = numsects
  /\ pc \in {"idle", "select", "command"} => drive \in {"ready", "error", "fault"}

\* A read has received what the disk has served, and transfers only data.
Reads ==
  direction = "read" /\ pc \in {"poll", "transfer"} =>
    /\ served = i /\ edi = [k \in 1 .. i |-> lba + k - 1]
    /\ drive \in {"seeking", "has_data", "ready", "error", "fault"}
    /\ pc = "transfer" => drive = "has_data"

\* A write is in step with the disk until that fails, and after that the disk
\* takes nothing of it any more; what the disk has taken it has.
Writes ==
  direction = "write" /\ pc \in {"poll", "transfer", "flush", "poll_flush"} =>
    /\ drive \in {"storing", "wants_data", "ready", "flushing", "error", "fault"}
    /\ faulted => \/ drive \in {"error", "fault"}
                  \/ pc = "poll_flush" /\ drive \in {"flushing", "ready"}
    /\ ~faulted => served = i /\ drive \notin {"error", "fault"}
    /\ drive = "wants_data" => served < numsects
    /\ ~faulted /\ drive = "ready" => served = numsects
    /\ pc = "transfer" => drive \notin {"storing", "flushing"}
    /\ drive = "flushing" => pc = "poll_flush" /\ flushed

\* The sectors a write has sent are somewhere in the disk; after the command
\* to flush they are on the medium.
Taken == {lba + k : k \in 0 .. i - 1}

Keeps ==
  direction = "write" /\ ~faulted =>
    /\ pc \in {"poll", "transfer", "flush", "poll_flush"} => Taken \subseteq cache \cup medium
    /\ pc = "poll_flush" /\ flushed /\ drive # "flushing" => Taken \subseteq medium

\* Registers, disk and arguments agree throughout a call.
IInv == /\ TypeOK /\ AddressesTheSector /\ CommandsWhenExpected
        /\ Prepared /\ Reads /\ Writes /\ Keeps

\* Every call returns, although nothing in ide_ata_access limits the polling.
CallsReturn == pc # "idle" ~> pc = "idle"
=============================================================================
