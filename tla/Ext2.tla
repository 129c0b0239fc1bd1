-------------------------------- MODULE Ext2 --------------------------------
(***************************************************************************)
(* ext2_init of drivers/ext2.c: the kernel reads the superblock of a       *)
(* device, looks up the file SYSCFG and stops when it is not there.  The   *)
(* lookup, ext2_find_file_inode, takes the two ways the code has: names    *)
(* with a slash are followed from the root, one component at a time, names *)
(* without one are looked for in the root directory.                       *)
(*                                                                         *)
(* Every block, of 1024 bytes, is read with read_sectors, unit by unit of  *)
(* 512 bytes, and nobody looks at its result.  So a buffer is the pair of  *)
(* the blocks whose units its halves hold, or Zeros; what is taken out of  *)
(* it, a descriptor, an inode, an entry of a directory, depends on what is *)
(* there.  Bytes that are not what they are taken for give any of the Junk *)
(* constants.  A directory is walked by offsets, counted in slots of four  *)
(* bytes, each entry saying where the next one is.                         *)
(*                                                                         *)
(* An inode is its type and its direct blocks up to the first 0.  Names    *)
(* are values; Rest says what is left of one without its first character.  *)
(* The heap is the number of its free blocks, each request being for one   *)
(* (see Kmalloc.tla), the drive what Storage.tla says of one.              *)
(***************************************************************************)
EXTENDS Integers, SequencesExt

CONSTANTS
  Images,         \* disks: [superblock, sectors, table, files, entries]
  Devices,        \* drives: [type, faulty]; a faulty one may fail a read
  Codes,          \* what earlier calls may have left in package[0]
  Paths,          \* values of SYSCFG, split at '/'
  Rest,           \* Rest[name]: the name without its first character
  Length,         \* Length[name]: slots of an entry up to the end of its name
  Heaps,          \* free blocks of the heap at the call
  InodesInGroup,  \* sb.inodes_in_blockgroup
  InodesInUnit, GroupsInUnit, UnitSlots,
                  \* inodes, descriptors of groups and slots in 512 bytes
  PageUnits,      \* units in a block of kmalloc
  MappedUnits,    \* units from the beginning of a buffer to where no page is
  JunkInodes, JunkBlocks, JunkEntries
                  \* what other bytes look like when taken for an inode, for the
                  \* table in a descriptor, for an entry

Root == 2
Superblock == {"ext2", "other", "blank"}
FirstBlock == 1  \* of the superblock, at sector 2
FirstBgd == 2    \* first_bgd, for blocks of 1024 bytes
InodesPerBlock == 2 * InodesInUnit

Inode == [type : {"directory", "regular", "none"}, dbp : Seq(Nat \ {0})]
DirEntry == [inode : Nat, size : Nat, name : DOMAIN Rest]

\* What zeros are as an inode, and as an entry.
Blank == [type |-> "none", dbp |-> <<>>]
Nobody == [inode |-> 0, size |-> 0, name |-> ""]

\* A buffer: the blocks its halves hold a unit of.
Zeros == -1
Halves == {0, 1}
Buffer == [Halves -> Nat \cup {Zeros}]
Both(b) == [h \in Halves |-> b]
Cleared == Both(Zeros)

ASSUME Ext2Assumption ==
  /\ {InodesInGroup, InodesInUnit, GroupsInUnit, UnitSlots} \subseteq Nat \ {0}
  /\ InodesInGroup % InodesPerBlock = 0
  /\ {PageUnits, MappedUnits} \subseteq Nat /\ 2 < PageUnits /\ PageUnits <= MappedUnits
  /\ Devices \subseteq [type : {"ATA", "ATAPI"}, faulty : BOOLEAN]
  /\ Codes \subseteq Nat /\ Heaps \subseteq Nat
  /\ \A d \in Images :
       /\ d.superblock \in Superblock /\ d.sectors \in Nat
       /\ \A g \in DOMAIN d.table : d.table[g] \in Nat
       /\ \A n \in DOMAIN d.files : d.files[n] \in Inode
       /\ DOMAIN d.entries \subseteq Nat
       /\ \A b \in DOMAIN d.entries : \A o \in DOMAIN d.entries[b] :
            /\ o \in Nat /\ d.entries[b][o] \in DirEntry
            /\ o + Length[d.entries[b][o].name] <= 2 * UnitSlots
  /\ Rest \in [DOMAIN Rest -> DOMAIN Rest] /\ "" \in DOMAIN Rest
  /\ Length \in [DOMAIN Rest -> Nat \ {0}]
  /\ Paths \subseteq Seq(DOMAIN Rest) \ {<<>>, <<"">>}
  /\ JunkInodes \subseteq Inode /\ JunkBlocks \subseteq Nat /\ JunkEntries \subseteq DirEntry

VARIABLES
  disk, device, path,  \* chosen at the start
  pc,
  sb,                  \* the superblock in memory
  package0,            \* package[0], the error code of the IDE layer
  free,                \* free blocks of the heap
  filename,            \* names still to be looked up, the current one first
  target,              \* the inode ext2_read_inode is asked for
  block_buf,           \* its buffer
  inode, i,            \* the inode in use, and how many of its blocks were read
  root_buf,            \* the buffer for blocks of directories
  dir, entry,          \* the offset of the walk in it, and what is read there
  retnode, inode_buf,  \* result and output of the lookup
  heap, inodes_read, lost, failed, misread
                       \* history: free at the call, calls of ext2_read_inode,
                       \* calls of read_sectors that returned 1, some read did
                       \* not give its block, some bytes were walked as an entry
                       \* that are none

world == <<disk, device, path, heap>>
drive == <<package0, lost, failed>>
reading == <<target, block_buf>>
walking == <<filename, inode, i, root_buf, dir, entry, misread>>
output == <<retnode, inode_buf>>
vars == <<world, pc, sb, free, drive, reading, walking, output, inodes_read>>

-----------------------------------------------------------------------------
\* The format: group g's inodes fill the blocks from table[g] on.
OnDisk(block, slot) ==
  {disk.files[n] : n \in {m \in DOMAIN disk.files :
     \E g \in DOMAIN disk.table, k \in 0 .. InodesInGroup \div InodesPerBlock - 1 :
       /\ block = disk.table[g] + k
       /\ m = g * InodesInGroup + k * InodesPerBlock + slot + 1}}

Contents(block) ==
  IF block \in DOMAIN disk.entries
    THEN {disk.entries[block][o] : o \in DOMAIN disk.entries[block]} ELSE {}

\* read_sector for half h of block b.  Behind the end of the disk an ATA read
\* sets the code 2; any other one leaves the code as it was and returns it,
\* whether the drive read or not, and what a drive did not read is zeros.  An
\* ATAPI read returns the drive's own error.  Junk may name blocks whose number
\* wraps (storage.c:34): then it is the block that is really read.
Beyond(b, h) == 2 * b + h >= disk.sectors
Returns0(b, h) == ~Beyond(b, h) /\ (device.type = "ATA" => package0 = 0)
Returns1(b, h) == Beyond(b, h) \/ IF device.type = "ATA" THEN package0 # 0 ELSE device.faulty
Copied(b) == IF device.type = "ATA" /\ device.faulty THEN {b, Zeros} ELSE {b}
Code(b, h) ==
  IF device.type = "ATAPI" THEN 19 ELSE IF Beyond(b, h) THEN 2 ELSE package0

\* read_sectors: old is in the buffer before, new after it.  At the first half
\* that fails it returns, and the block of kmalloc for that half is lost.
Mixed(b, old) == [Halves -> {b, Zeros, old[0], old[1]}]
ReadSectors(b, old, new) ==
  /\ failed' = IF new = Both(b) THEN failed ELSE TRUE
  /\ \/ /\ \A h \in Halves : Returns0(b, h) /\ new[h] \in Copied(b)
        /\ package0' = 0 /\ UNCHANGED lost
     \/ \E h \in Halves :
          /\ \A k \in 0 .. h - 1 : Returns0(b, k) /\ new[k] \in Copied(b)
          /\ Returns1(b, h) /\ \A k \in h .. 1 : new[k] = old[k]
          /\ package0' = Code(b, h) /\ lost' = lost + 1

\* What a step that reads takes from the heap besides.
Takes(n) == free' = free - n - (lost' - lost)

\* The block that item n of a buffer is from, with so many of them to a unit:
\* behind the two units the page has the zeros of kmalloc, and behind the page
\* there is something else, or nothing.
From(buf, n, inUnit) ==
  IF n < inUnit THEN buf[0] ELSE IF n < 2 * inUnit THEN buf[1] ELSE Zeros
InPage(n, inUnit) == n < PageUnits * inUnit
Mapped(n, inUnit) == n < MappedUnits * inUnit

\* What is read as the table of group g, and as the inode in a slot.
Table(buf, g) ==
  IF InPage(g, GroupsInUnit) /\ From(buf, g, GroupsInUnit) = Zeros THEN {0}
  ELSE IF From(buf, g, GroupsInUnit) = FirstBgd /\ g \in DOMAIN disk.table
    THEN {disk.table[g]} ELSE JunkBlocks
InodeAt(buf, slot) ==
  LET b == From(buf, slot, InodesInUnit)
  IN IF b = Zeros THEN {Blank}
     ELSE IF OnDisk(b, slot) # {} THEN OnDisk(b, slot) ELSE JunkInodes

\* An offset where there are zeros, and one where an entry is, all of it: it
\* may reach from one half into the other.
Void(buf, o) == InPage(o, UnitSlots) /\ From(buf, o, UnitSlots) = Zeros
Whole(buf, o) ==
  LET b == From(buf, o, UnitSlots)
  IN /\ b \in DOMAIN disk.entries /\ o \in DOMAIN disk.entries[b]
     /\ o < UnitSlots /\ o + Length[disk.entries[b][o].name] > UnitSlots => buf[1] = b

\* The walk comes to an offset.  After other bytes were walked it need not be
\* one of a slot.
Arrive(buf, o) ==
  /\ dir' = o
  /\ \/ Void(buf, o) /\ entry' = Nobody /\ UNCHANGED misread
     \/ /\ Whole(buf, o) /\ UNCHANGED misread
        /\ entry' = disk.entries[From(buf, o, UnitSlots)][o]
     \/ /\ ~Void(buf, o) /\ (Whole(buf, o) => misread)
        /\ entry' \in JunkEntries /\ misread' = TRUE

-----------------------------------------------------------------------------
\* strsplit(filename, '/') and filename++.
slash == Len(path) > 1
Names == IF Head(path) = "" THEN Tail(path) ELSE <<Rest[Head(path)]>> \o Tail(path)

\* n - 1 of them are looked up, or one when there is no slash.
Looked == IF slash THEN SubSeq(Names, 1, Len(path) - 1) ELSE SubSeq(Names, 1, 1)

bg == (target - 1) \div InodesInGroup

\* Variant: inodes are counted from zero.
IndexFromZero == target % InodesInGroup

Index == (target - 1) % InodesInGroup

\* Blocks of the lookup: inode, root_buf, filename, and the inode of
\* ext2_read_root_directory.
Held == IF slash THEN 3 ELSE 4

\* Blocks the step at pc has to find free; the last one is the buffer of
\* read_sector.
Needed ==
  CASE pc = "superblock" -> 2
    [] pc = "priv" -> 1
    [] pc = "find" -> 1 + Held
    [] pc = "descriptor" -> 2
    [] pc = "inode" -> IF Mapped(bg, GroupsInUnit) THEN 1 ELSE 0
    [] pc = "block" -> 1
    [] pc = "walk" -> IF entry.inode = 0 THEN 0 ELSE 1
    [] OTHER -> 0

At(label, next) == pc = label /\ free >= Needed /\ pc' = next

KmallocExits ==
  /\ free < Needed
  /\ pc' = "exit_2" /\ free' = 0
  /\ UNCHANGED <<world, sb, drive, reading, walking, output, inodes_read>>

-----------------------------------------------------------------------------
\* All that is used of the superblock lies in its first half.
ReadSuperblock ==
  /\ At("superblock", "priv")
  /\ \E new \in Mixed(FirstBlock, Cleared) :
       /\ ReadSectors(FirstBlock, Cleared, new)
       /\ sb' = IF new[0] = FirstBlock THEN disk.superblock ELSE "blank"
  /\ Takes(1)
  /\ UNCHANGED <<world, reading, walking, output, inodes_read>>

\* fill_priv_data divides by blocks_in_blockgroup before anybody has looked at
\* the signature.
FillPrivData ==
  /\ At("priv", CASE sb = "ext2" -> "find" [] sb = "other" -> "no_ext2"
                  [] sb = "blank" -> "divide_error")
  /\ free' = free - 1
  /\ UNCHANGED <<world, sb, drive, reading, walking, output, inodes_read>>

FindFileInode ==
  /\ At("find", "descriptor")
  /\ free' = free - 1 - Held
  /\ filename' = Looked /\ target' = Root
  /\ UNCHANGED <<world, sb, drive, block_buf, inode, i, root_buf, dir, entry, misread,
                 output, inodes_read>>

\* The first half of ext2_read_inode: block_buf, which stays, and the first
\* block of descriptors.
ReadDescriptor ==
  /\ At("descriptor", "inode")
  /\ \E new \in Mixed(FirstBgd, Cleared) :
       ReadSectors(FirstBgd, Cleared, new) /\ block_buf' = new
  /\ Takes(1)
  /\ inodes_read' = inodes_read + 1
  /\ UNCHANGED <<world, sb, target, walking, output>>

\* The second half.  Where nothing is copied the buffer still has descriptors.
ReadInode ==
  /\ At("inode", IF slash THEN "lookup" ELSE "root") /\ Mapped(bg, GroupsInUnit)
  /\ \E table \in Table(block_buf, bg) :
       LET b == table + Index \div InodesPerBlock
       IN \E new \in Mixed(b, block_buf) :
            /\ ReadSectors(b, block_buf, new) /\ block_buf' = new
            /\ inode' \in InodeAt(new, Index % InodesPerBlock)
  /\ Takes(0)
  /\ i' = 0
  /\ UNCHANGED <<world, sb, target, filename, root_buf, dir, entry, misread, output,
                 inodes_read>>

\* The lookup returns, having freed what it took.
LeaveFind(value, buf) ==
  /\ pc' = "check" /\ free' = free + Held
  /\ retnode' = value /\ inode_buf' = buf

\* while(n--), and the loop over the blocks, which is left in its first round:
\* an inode without blocks leaves a component unlooked for.
Lookup ==
  /\ pc = "lookup"
  /\ \/ /\ filename = <<>>
        /\ LeaveFind(retnode, inode) /\ UNCHANGED filename
     \/ /\ filename # <<>> /\ inode.dbp = <<>>
        /\ filename' = Tail(filename) /\ UNCHANGED <<pc, free, output>>
     \/ /\ filename # <<>> /\ inode.dbp # <<>>
        /\ pc' = "block" /\ UNCHANGED <<filename, free, output>>
  /\ UNCHANGED <<world, sb, drive, reading, inode, i, root_buf, dir, entry, misread,
                 inodes_read>>

\* A block of a directory taken for an inode: the lower half of the number of
\* the inode its first entry names is where the type should be, whose bits begin
\* with the thirteenth.
AsInode ==
  LET b == root_buf[0]
  IN IF b \in DOMAIN disk.entries /\ 0 \in DOMAIN disk.entries[b]
       THEN IF disk.entries[b][0].inode < 4096 THEN {Blank} ELSE JunkInodes
     ELSE IF b = Zeros THEN {Blank} ELSE JunkInodes

\* ext2_read_root_directory is done, and its buffer is what is handed on.
LeaveRoot == \E buf \in AsInode : LeaveFind(retnode, buf)

\* The loop over the blocks of the root.
NextRootBlock ==
  /\ pc = "root"
  /\ IF inode.type = "directory" /\ i < Len(inode.dbp)
       THEN pc' = "block" /\ UNCHANGED <<free, output>>
       ELSE LeaveRoot
  /\ UNCHANGED <<world, sb, drive, reading, walking, inodes_read>>

ReadBlock ==
  /\ At("block", "walk")
  /\ LET b == inode.dbp[i + 1]
     IN \E new \in Mixed(b, root_buf) :
          ReadSectors(b, root_buf, new) /\ root_buf' = new /\ Arrive(new, 0)
  /\ Takes(0) /\ i' = i + 1
  /\ UNCHANGED <<world, sb, reading, filename, inode, output, inodes_read>>

WalkEnds == entry.inode = 0

\* Variant: the name is taken from one byte too far on.
MatchesRest == Rest[entry.name] = Head(filename)

Matches == entry.name = Head(filename)

\* Variant: an entry that is not the one is not stepped over.
StayAtEntry ==
  /\ At("walk", "walk") /\ ~WalkEnds /\ ~Matches
  /\ UNCHANGED <<world, sb, free, drive, reading, walking, output, inodes_read>>

\* An iteration of ext2_read_directory, name being taken and freed in it.  An
\* entry of size 0 leads to itself.
NextEntry ==
  /\ At("walk", "walk") /\ ~WalkEnds /\ ~Matches
  /\ IF entry.size = 0 THEN UNCHANGED <<dir, entry, misread>>
     ELSE Mapped(dir + entry.size, UnitSlots) /\ Arrive(root_buf, dir + entry.size)
  /\ UNCHANGED <<world, sb, free, drive, filename, inode, i, root_buf, reading, output,
                 inodes_read>>

\* Outside of the page of a buffer, where there may be no memory: the descriptor
\* of a group, the next entry, the name of an entry.  The handler of the
\* exception halts.
PageFault ==
  /\ pc' = "page_fault"
  /\ \/ pc = "inode" /\ ~InPage(bg, GroupsInUnit) /\ UNCHANGED free
     \/ /\ pc = "walk" /\ free >= Needed /\ ~WalkEnds
        /\ \/ ~Matches /\ ~InPage(dir + entry.size, UnitSlots) /\ UNCHANGED free
           \/ ~InPage(dir, UnitSlots) /\ free' = free - 1
  /\ UNCHANGED <<world, sb, drive, reading, walking, output, inodes_read>>

FoundEntry ==
  /\ pc = "walk" /\ free >= Needed /\ ~WalkEnds /\ Matches
  /\ \/ /\ slash
        /\ pc' = "descriptor" /\ UNCHANGED free
        /\ target' = entry.inode /\ retnode' = target'
        /\ filename' = Tail(filename) /\ UNCHANGED inode_buf
     \/ /\ ~slash /\ LeaveRoot /\ UNCHANGED <<target, filename>>
  /\ UNCHANGED <<world, sb, drive, block_buf, inode, i, root_buf, dir, entry, misread,
                 inodes_read>>

\* Variant: a name that is not found returns without kfree.
NoEntryLeaks ==
  /\ pc = "walk" /\ WalkEnds
  /\ \/ /\ slash /\ UNCHANGED <<inode_buf, free>> /\ pc' = "check"
        /\ retnode' = IF Head(filename) # "" THEN 0
                      ELSE IF path = <<"", "">> THEN 1 ELSE retnode
     \/ ~slash /\ pc' = "root" /\ UNCHANGED <<free, output>>
  /\ UNCHANGED <<world, sb, drive, reading, walking, inodes_read>>

\* The walk ends without a match.  After a slash at the end of the name there
\* is an empty component.
NoEntry ==
  /\ pc = "walk" /\ WalkEnds
  /\ \/ /\ slash
        /\ LeaveFind(IF Head(filename) # "" THEN 0
                     ELSE IF path = <<"", "">> THEN 1 ELSE retnode, inode_buf)
     \/ ~slash /\ pc' = "root" /\ UNCHANGED <<free, output>>
  /\ UNCHANGED <<world, sb, drive, reading, walking, inodes_read>>

\* The rest of ext2_init.
Check ==
  /\ pc = "check"
  /\ IF inode_buf.type = "regular"
       THEN pc' = "loaded" /\ free' = free + 3
       ELSE pc' = "exit_3" /\ UNCHANGED free
  /\ UNCHANGED <<world, sb, drive, reading, walking, output, inodes_read>>

Final == {"loaded", "no_ext2", "divide_error", "page_fault", "exit_2", "exit_3"}
Done == pc \in Final /\ UNCHANGED vars

-----------------------------------------------------------------------------
Init ==
  /\ disk \in Images /\ device \in Devices /\ path \in Paths /\ heap \in Heaps
  /\ pc = "superblock" /\ sb = "blank" /\ package0 \in Codes /\ free = heap
  /\ filename = <<>> /\ target = 0 /\ block_buf = Cleared
  /\ inode = Blank /\ i = 0 /\ root_buf = Cleared /\ dir = 0 /\ entry = Nobody
  /\ retnode = 0 /\ inode_buf = Blank
  /\ inodes_read = 0 /\ lost = 0 /\ failed = FALSE /\ misread = FALSE

Step ==
  \/ ReadSuperblock \/ FillPrivData \/ FindFileInode \/ ReadDescriptor \/ ReadInode
  \/ Lookup \/ NextRootBlock \/ ReadBlock \/ NextEntry \/ FoundEntry \/ NoEntry
  \/ PageFault \/ Check \/ KmallocExits

Next == Step \/ Done

\* The thread is not blocked: a call of read_sectors returns (Storage.tla).
Spec == Init /\ [][Next]_vars /\ WF_vars(Step)

-----------------------------------------------------------------------------
\* Types and ranges.
TypeOK ==
  /\ pc \in Final \cup {"superblock", "priv", "find", "descriptor", "inode", "lookup",
                        "root", "block", "walk", "check"}
  /\ sb \in Superblock /\ {free, package0, inodes_read, lost} \subseteq Nat
  /\ filename \in Seq(DOMAIN Rest) /\ {inode, inode_buf} \subseteq Inode
  /\ {root_buf, block_buf} \subseteq Buffer /\ entry \in DirEntry
  /\ {i, dir, retnode, target} \subseteq Nat
  /\ disk \in Images /\ device \in Devices /\ path \in Paths /\ heap \in Heaps

\* What ext2_init and the lookup hold at pc; what they still hold at the end
\* they never return.
Outstanding ==
  CASE pc \in {"superblock", "loaded"} -> 0
    [] pc = "priv" -> 1
    [] pc \in {"find", "no_ext2", "divide_error"} -> 2
    [] pc \in {"check", "exit_3"} -> 3
    [] OTHER -> 3 + Held

\* What a call costs the heap: each inode it read, each read that failed, and
\* what ext2_init itself leaves when it stops (and the name that is being copied
\* at a page fault); on none of the ways more, and memory is said to be short
\* only when what was lost on the way leaves too little for what is held at once.
BlocksAccounted ==
  LET left == heap - inodes_read - lost - Outstanding
  IN CASE pc = "exit_2" -> heap - inodes_read - lost < 3 + Held + 2
       [] pc = "page_fault" -> free \in {left, left - 1}
       [] OTHER -> free = left

\* Where what is in memory is from, while no other bytes were walked as an
\* entry: the entry, and the number it gave, is one of a directory.  The names
\* still to be looked up: what the next entry is compared with.
Listed == UNION {Contents(b) : b \in DOMAIN disk.entries}
OnlyFromTheDisk ==
  /\ ~misread => entry.inode = 0 \/ entry \in Listed
  /\ ToSet(filename) \subseteq ToSet(Looked)
  /\ IF slash THEN /\ pc # "root"
                   /\ pc \in {"block", "walk"} => filename # <<>>
     ELSE retnode = 0
  /\ ~misread /\ retnode # 0 /\ path # <<"", "">> =>
       \E e \in Listed : e.inode = retnode /\ e.name \in ToSet(Looked)

\* The block that is read is one the inode has.
BlockThere ==
  /\ pc = "lookup" => i = 0
  /\ pc = "block" => i < Len(inode.dbp)

\* The invariant of the call: at each point of it the heap is short of exactly
\* what is held and what was lost, and no buffer, however stale, gives an entry
\* that no directory has, unless it cuts one in two or is no directory's.
IInv == TypeOK /\ BlocksAccounted /\ OnlyFromTheDisk /\ BlockThere

\* What the names name: the reference.
Entries(d) == UNION {Contents(b) : b \in ToSet(disk.files[d].dbp)}
Child(d, name) ==
  IF d = 0 \/ disk.files[d].type # "directory" THEN 0
  ELSE LET hits == {e \in Entries(d) : e.name = name /\ e.inode # 0}
       IN IF hits = {} THEN 0 ELSE (CHOOSE e \in hits : TRUE).inode

\* The file each number of names leads to, or 0 for none.
Way(names) ==
  LET at[k \in 0 .. Len(names)] == IF k = 0 THEN Root ELSE Child(at[k - 1], names[k])
  IN at
Resolve(names) == Way(names)[Len(names)]

\* An absolute name on a way the code can go: through directories of a single
\* block, and over inodes whose group has its descriptor in the first block of
\* descriptors, the only one that is read.  The others it treats differently.
Absolute == slash /\ Head(path) = "" /\ "" \notin ToSet(Tail(path))
InReach(d) == (d - 1) \div InodesInGroup < 2 * GroupsInUnit
SingleBlock(d) == disk.files[d].type = "directory" /\ Len(disk.files[d].dbp) = 1
Passable ==
  \A k \in 0 .. Len(Tail(path)) :
    LET d == Way(Tail(path))[k]
    IN d # 0 => InReach(d) /\ (k < Len(Tail(path)) => SingleBlock(d))

\* The lookups that the reference speaks of: those, while every read went well.
Straight == Absolute /\ Passable /\ ~failed

Returned == pc \in {"check", "loaded", "exit_3"}

\* Such a lookup gives the number and the inode of the file it
\* names, or 0 when there is none, through any number of directories, block
\* groups and blocks of the inode table.
FindsTheFile ==
  Returned /\ Straight =>
    /\ retnode = Resolve(Tail(path))
    /\ retnode # 0 => inode_buf = disk.files[retnode]

\* Whatever reads fail, the number returned is one that some directory has
\* under one of the names looked for: a buffer that was not read anew can hide
\* a file and show the one of another directory, but not another name's.  This
\* ends where a read that failed cuts an entry in two, or a file in the middle
\* of a name is walked as a directory: then any number may come out.
OnlyListedFound ==
  Returned /\ retnode # 0 /\ path # <<"", "">> /\ ~misread =>
    \E e \in Listed : e.inode = retnode /\ e.name \in ToSet(Looked)

\* "This means the file is in the root directory" (ext2.c:179): the kernel
\* stops with "missing file" (ext2.c:233) only when the root directory has no
\* regular file of that name.
MissingMeansMissing ==
  pc = "exit_3" /\ ~slash /\ ~failed =>
    LET d == Resolve(path) IN d # 0 => disk.files[d].type # "regular"

\* A disk as mke2fs and the drivers of other systems leave it: the tables of the
\* groups are apart; the entries of a block fill it, each beginning where the one
\* before ends; what they name is there; names are unique in a directory and none
\* is deleted in its first block, which begins with ".".
SoundBlock(entries) ==
  /\ 0 \in DOMAIN entries
  /\ \A o \in DOMAIN entries :
       /\ entries[o].size > 0 /\ o + entries[o].size \in DOMAIN entries \cup {2 * UnitSlots}
       /\ \A p \in DOMAIN entries : p <= o \/ o + entries[o].size <= p
SoundImage(d) ==
  /\ Root \in DOMAIN d.files /\ DOMAIN d.files \subseteq Nat \ {0}
  /\ DOMAIN d.table \subseteq Nat
  /\ \A n \in DOMAIN d.files : (n - 1) \div InodesInGroup \in DOMAIN d.table
  /\ \A g, h \in DOMAIN d.table :
       g # h => \/ d.table[g] + InodesInGroup \div InodesPerBlock <= d.table[h]
                \/ d.table[h] + InodesInGroup \div InodesPerBlock <= d.table[g]
  /\ \A b \in DOMAIN d.entries :
       /\ SoundBlock(d.entries[b])
       /\ \A o \in DOMAIN d.entries[b] : d.entries[b][o].inode \in DOMAIN d.files \cup {0}
  /\ \A n \in DOMAIN d.files : d.files[n].type = "directory" =>
       /\ ToSet(d.files[n].dbp) \subseteq DOMAIN d.entries
       /\ \A b, c \in ToSet(d.files[n].dbp) :
            \A o \in DOMAIN d.entries[b], p \in DOMAIN d.entries[c] :
              LET e == d.entries[b][o]
                  f == d.entries[c][p]
              IN e.name = f.name => e.inode = f.inode \/ 0 \in {e.inode, f.inode}
       /\ d.files[n].dbp # <<>> =>
            LET first == d.entries[d.files[n].dbp[1]]
            IN \A o \in DOMAIN first : first[o].inode # 0
ImagesSound == \A d \in Images : d.superblock = "ext2" => SoundImage(d)

\* The lookup on its way: the names still there are the rest of the path, what
\* is in hand is what the others lead to, and the walk of a directory is at one
\* of its entries, or at their end, and has not passed the name it looks for.
InLookup == {"descriptor", "inode", "lookup", "block", "walk"}
Passed == Len(Tail(path)) - Len(filename)
Here == Way(Tail(path))[Passed]
InWalk ==
  LET entries == disk.entries[inode.dbp[1]]
  IN /\ root_buf = Both(inode.dbp[1])
     /\ \/ dir \in DOMAIN entries /\ entry = entries[dir]
        \/ dir = 2 * UnitSlots /\ WalkEnds
     /\ \A o \in DOMAIN entries : o < dir => entries[o].name # Head(filename)
InHand ==
  /\ disk.superblock = "ext2"
  /\ Passed >= 0 /\ filename = SubSeq(Tail(path), Passed + 1, Len(Tail(path)))
  /\ target = Here /\ Here \in DOMAIN disk.files
  /\ retnode = IF Passed = 0 THEN 0 ELSE Here
  /\ pc = "inode" => block_buf = Both(FirstBgd)
  /\ pc \in {"lookup", "block", "walk"} => inode = disk.files[Here]
  /\ pc \in {"lookup", "block"} => i = 0
  /\ pc = "walk" => InWalk
OnTheWay ==
  /\ pc \in {"superblock", "priv", "find"} => retnode = 0
  /\ pc = "find" => sb = "ext2"
  /\ pc \in {"priv", "find"} /\ ~failed => sb = disk.superblock
  /\ pc \in InLookup /\ Straight => InHand
  /\ Straight => ~misread /\ pc # "page_fault"

\* The call ends: the walks do, and no way goes back to an earlier name.  The
\* exception is an entry of size 0, around which the code goes for ever; it is
\* one that was cut in two, or data of a file, never one of a directory.
Stuck == pc = "walk" /\ entry.inode # 0 /\ ~Matches /\ entry.size = 0
InitEnds == <>(pc \in Final \/ (Stuck /\ misread))
=============================================================================
