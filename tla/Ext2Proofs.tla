----------------------------- MODULE Ext2Proofs -----------------------------
(***************************************************************************)
(* Theorems about Ext2.tla, for disks of any contents, names of any depth, *)
(* heaps of any size and drives that fail at any read: what a call costs   *)
(* the heap, and where the number that the lookup returns is from.  And,   *)
(* for sound disks and reads that do not fail, that it is the number of    *)
(* the file which the name names.                                          *)
(***************************************************************************)
EXTENDS Ext2, SequenceTheorems, WellFoundedInduction, TLAPS

\* The rest of a sequence has none but its elements.
LEMMA HeadAndTail ==
  ASSUME NEW S, NEW s \in Seq(S), s # <<>>
  PROVE  /\ Tail(s) \in Seq(S) /\ ToSet(Tail(s)) \subseteq ToSet(s)
         /\ Head(s) \in S /\ Head(s) \in ToSet(s) /\ Head(s) = s[1]
<1>1. /\ Head(s) \in S /\ Tail(s) \in Seq(S) /\ Len(Tail(s)) = Len(s) - 1
      /\ \A k \in 1 .. Len(Tail(s)) : Tail(s)[k] = s[k + 1]
  BY HeadTailProperties
<1>2. Len(s) \in Nat \ {0} /\ DOMAIN s = 1 .. Len(s) /\ DOMAIN Tail(s) = 1 .. Len(Tail(s))
  BY <1>1, EmptySeq, LenProperties
<1>3. Head(s) = s[1]
  OBVIOUS
<1>4. Head(s) \in ToSet(s)
  <2>1. 1 \in DOMAIN s
    BY <1>2
  <2> QED
    BY <1>3, <2>1, Zenon DEF ToSet
<1>5. ASSUME NEW e \in ToSet(Tail(s)) PROVE e \in ToSet(s)
  <2>1. PICK k \in DOMAIN Tail(s) : e = Tail(s)[k]
    BY <1>5, Zenon DEF ToSet
  <2>2. k + 1 \in DOMAIN s /\ e = s[k + 1]
    BY <1>1, <1>2, <2>1
  <2> QED
    BY <2>2, Zenon DEF ToSet
<1> QED
  BY <1>1, <1>3, <1>4, <1>5

\* A part of a sequence has none but its elements.
LEMMA PartOf ==
  ASSUME NEW S, NEW s \in Seq(S), NEW m \in 1 .. Len(s) + 1, NEW n \in 0 .. Len(s)
  PROVE  SubSeq(s, m, n) \in Seq(S) /\ ToSet(SubSeq(s, m, n)) \subseteq ToSet(s)
<1> DEFINE part == SubSeq(s, m, n)
<1>1. Len(s) \in Nat /\ DOMAIN s = 1 .. Len(s) /\ m \in Int /\ n \in Int
  BY LenProperties
<1>2. \A k \in m .. n : k \in DOMAIN s /\ s[k] \in S
  BY <1>1, ElementOfSeq
<1>3. /\ part \in Seq(S) /\ Len(part) = IF m <= n THEN n - m + 1 ELSE 0
      /\ \A k \in 1 .. n - m + 1 : part[k] = s[m + k - 1]
  BY <1>1, <1>2, SubSeqProperties
<1>4. DOMAIN part = 1 .. Len(part)
  BY <1>3, LenProperties
<1> HIDE DEF part
<1>5. ASSUME NEW e \in ToSet(part) PROVE e \in ToSet(s)
  <2>1. PICK k \in DOMAIN part : e = part[k]
    BY <1>5, Zenon DEF ToSet
  <2>2. k \in 1 .. n - m + 1
    BY <1>1, <1>3, <1>4, <2>1
  <2>3. m + k - 1 \in DOMAIN s /\ e = s[m + k - 1]
    BY <1>1, <1>3, <2>1, <2>2
  <2> QED
    BY <2>3, Zenon DEF ToSet
<1> QED
  BY <1>3, <1>5 DEF part

\* The empty sequence has no elements.
LEMMA NoElements == ToSet(<<>>) = {} /\ \A S : <<>> \in Seq(S)
<1>1. DOMAIN <<>> = {}
  BY EmptySeq, LenProperties
<1> QED
  BY <1>1, EmptySeq DEF ToSet

-----------------------------------------------------------------------------
\* What zeros are, as an inode and as an entry.
LEMMA ZerosAre == Blank \in Inode /\ Nobody \in DirEntry /\ Cleared \in Buffer
<1>1. Blank \in Inode
  BY EmptySeq DEF Blank, Inode
<1>2. Nobody \in DirEntry
  BY Ext2Assumption DEF Nobody, DirEntry
<1>3. Cleared \in Buffer
  BY DEF Cleared, Both, Buffer, Zeros
<1> QED
  BY <1>1, <1>2, <1>3

\* A read leaves in each half of the buffer what was there, the block or zeros;
\* it costs at most one block of the heap; and the buffer has the whole block
\* unless this read is remembered as failed, as any earlier one is.
LEMMA ReadGives ==
  ASSUME TypeOK, NEW b \in Nat, NEW old \in Buffer, NEW new \in Mixed(b, old),
         ReadSectors(b, old, new)
  PROVE  /\ new \in Buffer /\ package0' \in Nat
         /\ lost' = lost \/ lost' = lost + 1
         /\ ~failed' => new = Both(b) /\ ~failed
<1>1. new \in Buffer
  BY DEF Mixed, Buffer, Halves
<1>2. package0' \in Nat
  <2>1. package0 \in Nat
    BY DEF TypeOK
  <2>2. \A h \in Halves : Code(b, h) \in Nat
    BY <2>1 DEF Code
  <2> QED
    BY <2>2 DEF ReadSectors
<1>3. lost' = lost \/ lost' = lost + 1
  BY DEF ReadSectors
<1>4. ~failed' => new = Both(b) /\ ~failed
  <2>1. failed' = IF new = Both(b) THEN failed ELSE TRUE
    BY DEF ReadSectors
  <2> QED
    BY <2>1, Zenon
<1> QED
  BY <1>1, <1>2, <1>3, <1>4

\* At each offset an entry is read; it is one of a directory, or none, unless
\* it is remembered that other bytes were walked as an entry.
LEMMA ArriveGives ==
  ASSUME disk \in Images, NEW buf, NEW o, Arrive(buf, o)
  PROVE  /\ dir' = o /\ entry' \in DirEntry
         /\ ~misread' => ~misread /\ (entry'.inode = 0 \/ entry' \in Listed)
<1>1. dir' = o
  BY DEF Arrive
<1>2. CASE Void(buf, o) /\ entry' = Nobody /\ UNCHANGED misread
  <2>1. entry' \in DirEntry /\ entry'.inode = 0
    BY <1>2, ZerosAre DEF Nobody
  <2> QED
    BY <1>1, <1>2, <2>1, Zenon
<1>3. CASE /\ Whole(buf, o) /\ UNCHANGED misread
           /\ entry' = disk.entries[From(buf, o, UnitSlots)][o]
  <2> DEFINE b == From(buf, o, UnitSlots)
  <2>1. b \in DOMAIN disk.entries /\ o \in DOMAIN disk.entries[b]
    BY <1>3 DEF Whole
  <2> HIDE DEF b
  <2>2. disk.entries[b][o] \in DirEntry
    BY <2>1, Ext2Assumption
  <2>3. disk.entries[b][o] \in Contents(b)
    BY <2>1 DEF Contents
  <2>4. disk.entries[b][o] \in Listed
    BY <2>1, <2>3 DEF Listed
  <2>5. entry' = disk.entries[b][o] /\ UNCHANGED misread
    BY <1>3 DEF b
  <2> QED
    BY <1>1, <2>2, <2>4, <2>5, Zenon
<1>4. CASE entry' \in JunkEntries /\ misread' = TRUE
  <2>1. JunkEntries \subseteq DirEntry
    BY Ext2Assumption
  <2> QED
    BY <1>1, <1>4, <2>1, Zenon
<1> QED
  BY <1>2, <1>3, <1>4, Zenon DEF Arrive

\* A name alone is a sequence of names.
LEMMA Single ==
  ASSUME NEW S, NEW e \in S
  PROVE  <<e>> \in Seq(S) /\ Len(<<e>>) = 1 /\ <<e>>[1] = e
OBVIOUS

\* What is taken for an inode is one, and what is taken for a table is a block.
LEMMA InodesOnDisk ==
  ASSUME disk \in Images, NEW buf, NEW slot
  PROVE  InodeAt(buf, slot) \subseteq Inode /\ Table(buf, slot) \subseteq Nat
<1>1. \A b : OnDisk(b, slot) \subseteq Inode
  BY Ext2Assumption DEF OnDisk
<1>2. InodeAt(buf, slot) \subseteq Inode
  BY <1>1, ZerosAre, Ext2Assumption DEF InodeAt
<1>3. Table(buf, slot) \subseteq Nat
  <2>1. JunkBlocks \subseteq Nat /\ \A g \in DOMAIN disk.table : disk.table[g] \in Nat
    BY Ext2Assumption
  <2>2. \/ Table(buf, slot) = {0} \/ Table(buf, slot) = JunkBlocks
        \/ slot \in DOMAIN disk.table /\ Table(buf, slot) = {disk.table[slot]}
    BY Zenon DEF Table
  <2>3. CASE slot \in DOMAIN disk.table /\ Table(buf, slot) = {disk.table[slot]}
    <3>1. disk.table[slot] \in Nat
      BY <2>1, <2>3
    <3> QED
      BY <2>3, <3>1
  <2>4. CASE Table(buf, slot) = {0}
    BY <2>4
  <2>5. CASE Table(buf, slot) = JunkBlocks
    BY <2>1, <2>5
  <2> QED
    BY <2>2, <2>3, <2>4, <2>5, Zenon
<1> QED
  BY <1>2, <1>3

\* What an entry is taken for when it is handed on as an inode is one.
LEMMA AsInodes == disk \in Images => AsInode \subseteq Inode
BY ZerosAre, Ext2Assumption DEF AsInode

\* Quotient and remainder, and that they are the only ones.
LEMMA Division ==
  ASSUME NEW n \in Nat, NEW b \in Nat \ {0}
  PROVE  n \div b \in Nat /\ n % b \in 0 .. b - 1 /\ n = (n \div b) * b + (n % b)
BY Z3

\* The sizes are naturals, and a block holds inodes.
LEMMA Sizes ==
  /\ InodesInGroup \in Nat \ {0} /\ InodesPerBlock \in Nat \ {0}
  /\ GroupsInUnit \in Nat \ {0} /\ UnitSlots \in Nat \ {0}
  /\ PageUnits \in Nat /\ PageUnits > 2
<1>1. InodesInUnit \in Nat \ {0}
  BY Ext2Assumption
<1>2. InodesPerBlock \in Nat \ {0}
  BY <1>1 DEF InodesPerBlock
<1> QED
  BY <1>2, Ext2Assumption

\* The block that is read for an inode has a number.
LEMMA BlockToRead ==
  ASSUME disk \in Images, target \in Nat, NEW table \in Table(block_buf, bg)
  PROVE  table + Index \div InodesPerBlock \in Nat
<1>1. InodesInGroup \in Nat \ {0} /\ InodesPerBlock \in Nat \ {0}
  BY Sizes
<1>2. table \in Nat
  BY InodesOnDisk
<1>3. Index \in Nat
  <2>1. \A n \in Int, b \in Nat \ {0} : n % b \in Nat
    BY Z3
  <2> QED
    BY <1>1, <2>1 DEF Index
<1>4. Index \div InodesPerBlock \in Nat
  BY <1>1, <1>3, Division
<1> QED
  BY <1>2, <1>4

\* The name is split into names, one of them at least to be looked up.
LEMMA LookedAreNames ==
  ASSUME path \in Paths
  PROVE  Looked \in Seq(DOMAIN Rest)
<1>1. /\ path \in Seq(DOMAIN Rest) /\ path # <<>> /\ path # <<"">>
      /\ Rest \in [DOMAIN Rest -> DOMAIN Rest]
  BY Ext2Assumption
<1>2. /\ Head(path) \in DOMAIN Rest /\ Tail(path) \in Seq(DOMAIN Rest)
      /\ Len(Tail(path)) = Len(path) - 1 /\ Len(path) \in Nat \ {0}
  BY <1>1, HeadTailProperties, EmptySeq
<1> DEFINE second == <<Rest[Head(path)]>>
<1>6. second \in Seq(DOMAIN Rest) /\ Len(second) = 1
  <2>1. Rest[Head(path)] \in DOMAIN Rest
    BY <1>1, <1>2, Zenon
  <2> QED
    BY <2>1, Single
<1>7. second \o Tail(path) \in Seq(DOMAIN Rest) /\ Len(second \o Tail(path)) = Len(path)
  <2>1. /\ second \o Tail(path) \in Seq(DOMAIN Rest)
        /\ Len(second \o Tail(path)) = Len(second) + Len(Tail(path))
    BY <1>2, <1>6, ConcatProperties, Zenon
  <2> QED
    BY <1>2, <1>6, <2>1
<1>8. Names = IF Head(path) = "" THEN Tail(path) ELSE second \o Tail(path)
  BY DEF Names
<1> HIDE DEF second
<1>3. Names \in Seq(DOMAIN Rest) /\ Len(Names) >= Len(path) - 1
  <2>1. CASE Head(path) = ""
    <3>1. Names = Tail(path)
      BY <1>8, <2>1, Zenon
    <3> QED
      BY <1>2, <3>1
  <2>2. CASE Head(path) # ""
    <3>1. Names = second \o Tail(path) /\ Len(Names) = Len(path)
      BY <1>7, <1>8, <2>2, Zenon
    <3>2. Names \in Seq(DOMAIN Rest)
      BY <1>7, <3>1, Zenon
    <3> QED
      BY <1>2, <3>1, <3>2
  <2> QED
    BY <2>1, <2>2
<1>4. CASE slash
  <2>1. Len(path) - 1 \in 0 .. Len(Names) /\ 1 \in 1 .. Len(Names) + 1
    BY <1>2, <1>3, LenProperties
  <2> QED
    BY <1>3, <1>4, <2>1, PartOf DEF Looked
<1>5. CASE ~slash
  <2>1. Len(path) = 1
    BY <1>2, <1>5 DEF slash
  <2>2. path = <<Head(path)>>
    <3>1. Head(path) = path[1]
      BY <1>1, HeadAndTail, Zenon
    <3>2. /\ <<Head(path)>> \in Seq(DOMAIN Rest) /\ Len(<<Head(path)>>) = 1
          /\ <<Head(path)>>[1] = Head(path)
      BY <1>2, Single
    <3>3. \A k \in 1 .. Len(path) : path[k] = <<Head(path)>>[k]
      <4>1. \A k \in 1 .. Len(path) : k = 1
        BY <2>1
      <4> QED
        BY <3>1, <3>2, <4>1, Zenon
    <3> QED
      BY <1>1, <2>1, <3>2, <3>3, SeqEqual, Zenon
  <2>3. Len(Names) = 1
    <3>1. Head(path) # ""
      BY <1>1, <2>2
    <3> QED
      BY <1>7, <1>8, <2>1, <3>1
  <2>4. 1 \in 0 .. Len(Names) /\ 1 \in 1 .. Len(Names) + 1
    BY <2>3
  <2> QED
    BY <1>3, <1>5, <2>4, PartOf DEF Looked
<1> QED
  BY <1>4, <1>5

-----------------------------------------------------------------------------
\* The counters are naturals, and the lookup holds three blocks or four.
LEMMA Numbers ==
  ASSUME TypeOK
  PROVE  /\ heap \in Nat /\ free \in Nat /\ inodes_read \in Nat /\ lost \in Nat
         /\ Held \in {3, 4}
BY Ext2Assumption DEF TypeOK, Held

\* A step that reads takes from the heap what it takes and what is lost.
LEMMA ReadTakes ==
  ASSUME TypeOK
  PROVE  /\ ReadSuperblock => /\ free' = free - 1 - (lost' - lost)
                              /\ lost' = lost \/ lost' = lost + 1
         /\ ReadDescriptor => /\ free' = free - 1 - (lost' - lost)
                              /\ lost' = lost \/ lost' = lost + 1
         /\ ReadInode \/ ReadBlock => /\ free' = free - (lost' - lost)
                                      /\ lost' = lost \/ lost' = lost + 1
<1>1. CASE ReadSuperblock
  BY <1>1, Numbers DEF ReadSuperblock, ReadSectors, Takes, ReadDescriptor, ReadInode, ReadBlock,
     At
<1>2. CASE ReadDescriptor
  BY <1>2, Numbers DEF ReadSuperblock, ReadSectors, Takes, ReadDescriptor, ReadInode, ReadBlock,
     At
<1>3. CASE ReadInode \/ ReadBlock
  <2>1. lost' = lost \/ lost' = lost + 1
    BY <1>3 DEF ReadInode, ReadBlock, ReadSectors
  <2>2. Takes(0) /\ pc \in {"inode", "block"}
    BY <1>3 DEF ReadInode, ReadBlock, At
  <2>3. free' = free - (lost' - lost)
    BY <2>1, <2>2, Numbers DEF Takes
  <2> QED
    BY <2>1, <2>2, <2>3 DEF ReadSuperblock, ReadDescriptor, At
<1> QED
  BY <1>1, <1>2, <1>3

\* Every step leaves the heap short of what is held then and what was lost.
LEMMA AccountsNext ==
  ASSUME TypeOK, BlocksAccounted, Step
  PROVE  BlocksAccounted'
<1> USE Numbers
<1>1. ASSUME UNCHANGED path PROVE Held' = Held
  BY <1>1 DEF Held, slash
<1>2. CASE ReadSuperblock
  <2>1. /\ pc = "superblock" /\ pc' = "priv" /\ UNCHANGED <<path, heap, inodes_read>>
        /\ free' = free - 1 - (lost' - lost) /\ lost' \in Nat
    BY <1>2, ReadTakes DEF ReadSuperblock, At, world
  <2> QED
    BY <2>1 DEF BlocksAccounted, Outstanding
<1>3. CASE FillPrivData
  <2>1. /\ pc = "priv" /\ free' = free - 1
        /\ UNCHANGED <<path, heap, inodes_read, lost>>
    BY <1>3 DEF FillPrivData, At, world, drive
  <2>2. pc' \in {"find", "no_ext2", "divide_error"}
    BY <1>3 DEF FillPrivData, At, TypeOK, Superblock
  <2>3. Outstanding = 1 /\ Outstanding' = 2
    BY <2>1, <2>2 DEF Outstanding
  <2> QED
    BY <2>1, <2>2, <2>3 DEF BlocksAccounted
<1>4. CASE FindFileInode
  BY <1>1, <1>4 DEF FindFileInode, At, world, drive, BlocksAccounted, Outstanding
<1>5. CASE ReadDescriptor
  <2>1. /\ pc = "descriptor" /\ pc' = "inode" /\ UNCHANGED <<path, heap>>
        /\ inodes_read' = inodes_read + 1
        /\ free' = free - 1 - (lost' - lost) /\ lost' \in Nat
    BY <1>5, ReadTakes DEF ReadDescriptor, At, world
  <2> QED
    BY <1>1, <2>1 DEF BlocksAccounted, Outstanding
<1>6. CASE ReadInode
  <2>1. /\ pc = "inode" /\ pc' \in {"lookup", "root"}
        /\ UNCHANGED <<path, heap, inodes_read>>
        /\ free' = free - (lost' - lost) /\ lost' \in Nat
    BY <1>6, ReadTakes DEF ReadInode, At, world
  <2> QED
    BY <1>1, <2>1 DEF BlocksAccounted, Outstanding
<1>7. CASE Lookup
  BY <1>1, <1>7 DEF Lookup, LeaveFind, world, drive, BlocksAccounted, Outstanding
<1>8. CASE NextRootBlock
  BY <1>1, <1>8 DEF NextRootBlock, LeaveRoot, LeaveFind, world, drive, BlocksAccounted,
     Outstanding
<1>9. CASE ReadBlock
  <2>1. /\ pc = "block" /\ pc' = "walk" /\ UNCHANGED <<path, heap, inodes_read>>
        /\ free' = free - (lost' - lost) /\ lost' \in Nat
    BY <1>9, ReadTakes DEF ReadBlock, At, world
  <2> QED
    BY <1>1, <2>1 DEF BlocksAccounted, Outstanding
<1>10. CASE NextEntry
  BY <1>1, <1>10 DEF NextEntry, At, world, drive, BlocksAccounted, Outstanding
<1>11. CASE FoundEntry
  BY <1>1, <1>11 DEF FoundEntry, LeaveRoot, LeaveFind, world, drive, BlocksAccounted,
     Outstanding
<1>12. CASE NoEntry
  <2>1. /\ pc = "walk" /\ UNCHANGED <<path, heap, inodes_read, lost>>
        /\ \/ pc' = "check" /\ free' = free + Held
           \/ pc' = "root" /\ UNCHANGED free
    BY <1>12, Zenon DEF NoEntry, LeaveFind, world, drive
  <2> QED
    BY <1>1, <2>1 DEF BlocksAccounted, Outstanding
<1>13. CASE PageFault
  <2>1. /\ pc \in {"inode", "walk"} /\ pc' = "page_fault" /\ free' \in {free, free - 1}
        /\ UNCHANGED <<path, heap, inodes_read, lost>>
    BY <1>13 DEF PageFault, world, drive
  <2> QED
    BY <1>1, <2>1 DEF BlocksAccounted, Outstanding
<1>14. CASE Check
  BY <1>1, <1>14 DEF Check, world, drive, BlocksAccounted, Outstanding
<1>15. CASE KmallocExits
  <2>1. /\ pc' = "exit_2" /\ free < Needed
        /\ UNCHANGED <<path, heap, inodes_read, lost>>
    BY <1>15 DEF KmallocExits, world, drive
  <2>2. Needed \in Nat /\ Outstanding \in Nat
    BY DEF Needed, Outstanding
  <2>3. Needed > 0
    BY <2>1, <2>2
  <2>4. pc \notin {"exit_2", "page_fault"} /\ Outstanding + Needed <= 3 + Held + 2
    BY <2>3 DEF Needed, Outstanding
  <2> QED
    BY <1>1, <2>1, <2>2, <2>4 DEF BlocksAccounted
<1> QED
  BY <1>2, <1>3, <1>4, <1>5, <1>6, <1>7, <1>8, <1>9, <1>10, <1>11, <1>12, <1>13, <1>14, <1>15
     DEF Step

\* The block asked for at a step is there: no count falls below zero.
LEMMA FreeStaysNatural ==
  ASSUME TypeOK, Step
  PROVE  free' \in Nat /\ inodes_read' \in Nat /\ lost' \in Nat
<1> USE Numbers
<1>1. CASE ReadSuperblock
  BY <1>1, ReadTakes DEF ReadSuperblock, At, Needed
<1>2. CASE FillPrivData
  BY <1>2 DEF FillPrivData, At, Needed, drive
<1>3. CASE FindFileInode
  BY <1>3 DEF FindFileInode, At, Needed, drive
<1>4. CASE ReadDescriptor
  BY <1>4, ReadTakes DEF ReadDescriptor, At, Needed
<1>5. CASE ReadInode
  <2>1. pc = "inode" /\ Mapped(bg, GroupsInUnit) /\ free >= Needed /\ UNCHANGED inodes_read
    BY <1>5 DEF ReadInode, At
  <2>2. Needed = 1
    BY <2>1 DEF Needed
  <2> QED
    BY <1>5, <2>1, <2>2, ReadTakes
<1>6. CASE Lookup
  BY <1>6 DEF Lookup, LeaveFind, drive
<1>7. CASE NextRootBlock
  BY <1>7 DEF NextRootBlock, LeaveRoot, LeaveFind, drive
<1>8. CASE ReadBlock
  BY <1>8, ReadTakes DEF ReadBlock, At, Needed
<1>9. CASE NextEntry
  BY <1>9 DEF NextEntry, drive
<1>10. CASE FoundEntry
  BY <1>10 DEF FoundEntry, LeaveRoot, LeaveFind, drive
<1>11. CASE NoEntry
  <2>1. free' \in {free, free + Held} /\ UNCHANGED <<inodes_read, lost>>
    BY <1>11, Zenon DEF NoEntry, LeaveFind, drive
  <2> QED
    BY <2>1
<1>12. CASE PageFault
  <2>1. /\ free' = free \/ (free' = free - 1 /\ pc = "walk" /\ ~WalkEnds /\ free >= Needed)
        /\ UNCHANGED <<inodes_read, lost>>
    BY <1>12 DEF PageFault, drive
  <2>2. pc = "walk" /\ ~WalkEnds => Needed = 1
    BY DEF Needed, WalkEnds
  <2> QED
    BY <2>1, <2>2
<1>13. CASE Check
  BY <1>13 DEF Check, drive
<1>14. CASE KmallocExits
  BY <1>14 DEF KmallocExits, drive
<1> QED
  BY <1>1, <1>2, <1>3, <1>4, <1>5, <1>6, <1>7, <1>8, <1>9, <1>10, <1>11, <1>12, <1>13, <1>14
     DEF Step

\* The parts of TypeOK about the control and about the data.
Control == /\ pc \in Final \cup {"superblock", "priv", "find", "descriptor", "inode", "lookup",
                                 "root", "block", "walk", "check"}
           /\ sb \in Superblock
Data == /\ filename \in Seq(DOMAIN Rest) /\ inode \in Inode /\ inode_buf \in Inode
        /\ root_buf \in Buffer /\ block_buf \in Buffer /\ dir \in Nat /\ entry \in DirEntry
        /\ i \in Nat /\ retnode \in Nat /\ target \in Nat /\ package0 \in Nat

\* Every step leaves the control where the code is.
LEMMA ControlNext ==
  ASSUME TypeOK, Step
  PROVE  Control' /\ UNCHANGED world
<1>1. CASE ReadSuperblock
  BY <1>1, Ext2Assumption DEF ReadSuperblock, At, TypeOK, Control, Superblock
<1>2. CASE FillPrivData
  BY <1>2 DEF FillPrivData, At, TypeOK, Control, Superblock, Final
<1>3. CASE FindFileInode \/ ReadDescriptor \/ ReadInode
  BY <1>3 DEF FindFileInode, ReadDescriptor, ReadInode, At, TypeOK, Control
<1>4. CASE Lookup
  BY <1>4 DEF Lookup, LeaveFind, TypeOK, Control
<1>5. CASE NextRootBlock
  BY <1>5 DEF NextRootBlock, LeaveRoot, LeaveFind, TypeOK, Control
<1>6. CASE ReadBlock \/ NextEntry
  BY <1>6 DEF ReadBlock, NextEntry, At, TypeOK, Control
<1>7. CASE FoundEntry
  BY <1>7 DEF FoundEntry, LeaveRoot, LeaveFind, TypeOK, Control
<1>8. CASE NoEntry
  BY <1>8, Zenon DEF NoEntry, LeaveFind, TypeOK, Control
<1>9. CASE PageFault \/ Check \/ KmallocExits
  BY <1>9 DEF PageFault, Check, KmallocExits, TypeOK, Control, Final
<1> QED
  BY <1>1, <1>2, <1>3, <1>4, <1>5, <1>6, <1>7, <1>8, <1>9 DEF Step

\* The block that is read next has a number.
LEMMA BlockInHand ==
  ASSUME TypeOK, BlockThere, pc = "block"
  PROVE  inode.dbp[i + 1] \in Nat \ {0}
<1>1. inode.dbp \in Seq(Nat \ {0}) /\ i \in Nat /\ i < Len(inode.dbp)
  BY DEF TypeOK, Inode, BlockThere
<1>2. i + 1 \in 1 .. Len(inode.dbp)
  BY <1>1, LenProperties
<1> QED
  BY <1>1, <1>2, ElementOfSeq

\* Every step leaves names, buffers, an entry and inodes.
LEMMA DataNext ==
  ASSUME TypeOK, OnlyFromTheDisk, BlockThere, Step
  PROVE  Data'
<1> USE DEF Data
<1>1. Data /\ disk \in Images /\ path \in Paths
  BY DEF TypeOK
<1>2. AsInode \subseteq Inode
  BY <1>1, AsInodes
<1>3. CASE ReadSuperblock
  <2>1. FirstBlock \in Nat
    BY DEF FirstBlock
  <2>2. package0' \in Nat
    BY <1>3, <2>1, ReadGives, ZerosAre DEF ReadSuperblock
  <2> QED
    BY <1>1, <1>3, <2>2 DEF ReadSuperblock, reading, walking, output
<1>4. CASE FindFileInode
  BY <1>1, <1>4, LookedAreNames DEF FindFileInode, drive, output, Root
<1>5. CASE ReadDescriptor
  <2>1. FirstBgd \in Nat
    BY DEF FirstBgd
  <2>2. package0' \in Nat /\ block_buf' \in Buffer
    BY <1>5, <2>1, ReadGives, ZerosAre DEF ReadDescriptor
  <2> QED
    BY <1>1, <1>5, <2>2 DEF ReadDescriptor, walking, output
<1>6. CASE ReadInode
  <2>1. /\ i' = 0
        /\ UNCHANGED <<filename, root_buf, dir, entry, retnode, inode_buf, target>>
    BY <1>6 DEF ReadInode, output
  <2>2. PICK table \in Table(block_buf, bg) :
          LET b == table + Index \div InodesPerBlock
          IN \E new \in Mixed(b, block_buf) :
               /\ ReadSectors(b, block_buf, new) /\ block_buf' = new
               /\ inode' \in InodeAt(new, Index % InodesPerBlock)
    BY <1>6 DEF ReadInode
  <2>3. PICK b \in Nat : \E new \in Mixed(b, block_buf) :
          /\ ReadSectors(b, block_buf, new) /\ block_buf' = new
          /\ inode' \in InodeAt(new, Index % InodesPerBlock)
    BY <1>1, <2>2, BlockToRead
  <2>4. block_buf' \in Buffer /\ package0' \in Nat
    BY <1>1, <2>3, ReadGives
  <2>5. inode' \in Inode
    BY <1>1, <2>3, InodesOnDisk
  <2> QED
    BY <1>1, <2>1, <2>4, <2>5
<1>7. CASE Lookup
  <2>1. UNCHANGED <<inode, i, root_buf, dir, entry, target, block_buf, package0>>
    BY <1>7 DEF Lookup, reading, drive
  <2>2. filename' = filename \/ (filename # <<>> /\ filename' = Tail(filename))
    BY <1>7 DEF Lookup
  <2>3. filename' \in Seq(DOMAIN Rest)
    BY <1>1, <2>2, HeadAndTail, Zenon
  <2>4. UNCHANGED retnode /\ inode_buf' \in {inode, inode_buf}
    BY <1>7 DEF Lookup, LeaveFind, output
  <2> QED
    BY <1>1, <2>1, <2>3, <2>4
<1>8. CASE NextRootBlock
  BY <1>1, <1>2, <1>8 DEF NextRootBlock, LeaveRoot, LeaveFind, drive, reading, walking, output
<1>9. CASE ReadBlock
  <2>1. /\ i' = i + 1
        /\ UNCHANGED <<filename, inode, retnode, inode_buf, target, block_buf>>
    BY <1>9 DEF ReadBlock, reading, output
  <2>2. inode.dbp[i + 1] \in Nat
    BY <1>9, BlockInHand DEF ReadBlock, At
  <2>3. PICK new \in Mixed(inode.dbp[i + 1], root_buf) :
          /\ ReadSectors(inode.dbp[i + 1], root_buf, new) /\ root_buf' = new
          /\ Arrive(new, 0)
    BY <1>9 DEF ReadBlock
  <2>4. root_buf' \in Buffer /\ package0' \in Nat
    BY <1>1, <2>2, <2>3, ReadGives
  <2>5. dir' = 0 /\ entry' \in DirEntry
    BY <1>1, <2>3, ArriveGives
  <2> QED
    BY <1>1, <2>1, <2>4, <2>5
<1>10. CASE NextEntry
  <2>1. UNCHANGED <<filename, inode, i, root_buf, target, block_buf, retnode, inode_buf,
                    package0>>
    BY <1>10 DEF NextEntry, drive, reading, output
  <2>2. dir' \in Nat /\ entry' \in DirEntry
    <3>1. dir + entry.size \in Nat
      BY <1>1 DEF DirEntry
    <3>2. UNCHANGED <<dir, entry>> \/ Arrive(root_buf, dir + entry.size)
      BY <1>10 DEF NextEntry
    <3> QED
      BY <1>1, <3>1, <3>2, ArriveGives
  <2> QED
    BY <1>1, <2>1, <2>2
<1>11. CASE FoundEntry
  <2>1. entry.inode \in Nat
    BY <1>1 DEF DirEntry
  <2>2. CASE slash
    <3>1. filename # <<>>
      BY <1>11, <2>2 DEF FoundEntry, OnlyFromTheDisk
    <3>2. Tail(filename) \in Seq(DOMAIN Rest)
      BY <1>1, <3>1, HeadAndTail
    <3> QED
      BY <1>1, <1>11, <2>1, <2>2, <3>2 DEF FoundEntry, drive
  <2>3. CASE ~slash
    BY <1>1, <1>2, <1>11, <2>3 DEF FoundEntry, LeaveRoot, LeaveFind, drive
  <2> QED
    BY <2>2, <2>3
<1>12. CASE NoEntry
  <2>1. /\ retnode' \in {0, 1, retnode} /\ UNCHANGED inode_buf
        /\ UNCHANGED <<drive, reading, walking>>
    BY <1>12 DEF NoEntry, LeaveFind, output
  <2> QED
    BY <1>1, <2>1 DEF drive, reading, walking
<1>13. CASE FillPrivData \/ PageFault \/ Check \/ KmallocExits
  BY <1>1, <1>13 DEF FillPrivData, PageFault, Check, KmallocExits, drive, reading, walking,
     output
<1> QED
  BY <1>3, <1>4, <1>5, <1>6, <1>7, <1>8, <1>9, <1>10, <1>11, <1>12, <1>13 DEF Step

\* Nothing is read where the inode has no block.
LEMMA BlockThereNext ==
  ASSUME TypeOK, OnlyFromTheDisk, BlockThere, Step
  PROVE  BlockThere'
<1>1. CASE ReadSuperblock \/ FillPrivData \/ FindFileInode \/ ReadDescriptor \/ ReadBlock
  <2>1. pc' \notin {"lookup", "block"}
    BY <1>1 DEF ReadSuperblock, FillPrivData, FindFileInode, ReadDescriptor, ReadBlock, At,
       TypeOK, Superblock
  <2> QED
    BY <2>1 DEF BlockThere
<1>2. CASE ReadInode
  BY <1>2 DEF ReadInode, At, BlockThere
<1>3. CASE Lookup
  <2>1. /\ pc = "lookup" /\ UNCHANGED <<inode, i>>
        /\ pc' \in {"check", "lookup"} \/ (pc' = "block" /\ inode.dbp # <<>>)
    BY <1>3 DEF Lookup, LeaveFind
  <2>2. inode.dbp # <<>> => Len(inode.dbp) > 0
    BY EmptySeq, LenProperties DEF TypeOK, Inode
  <2> QED
    BY <2>1, <2>2 DEF BlockThere
<1>4. CASE NextRootBlock
  BY <1>4 DEF NextRootBlock, LeaveRoot, LeaveFind, walking, BlockThere
<1>5. CASE NextEntry \/ NoEntry \/ PageFault \/ Check \/ KmallocExits
  <2>1. pc' \notin {"lookup", "block"}
    BY <1>5 DEF NextEntry, NoEntry, LeaveFind, PageFault, Check, KmallocExits, At
  <2> QED
    BY <2>1 DEF BlockThere
<1>6. CASE FoundEntry
  <2>1. pc' \notin {"lookup", "block"}
    BY <1>6 DEF FoundEntry, LeaveRoot, LeaveFind
  <2> QED
    BY <2>1 DEF BlockThere
<1> QED
  BY <1>1, <1>2, <1>3, <1>4, <1>5, <1>6 DEF Step

\* No step puts an entry into memory that is not on the disk, but where that is
\* remembered, a name among those to be looked up, or a number into retnode that
\* has not been listed.
LEMMA ListedNext ==
  ASSUME TypeOK, OnlyFromTheDisk, Step, UNCHANGED world
  PROVE  OnlyFromTheDisk'
<1> DEFINE Named(n) == \E e \in Listed : e.inode = n /\ e.name \in ToSet(Looked)
<1>1. filename \in Seq(DOMAIN Rest) /\ disk \in Images /\ entry \in DirEntry /\ dir \in Nat
  BY DEF TypeOK
<1>2. Listed' = Listed /\ Looked' = Looked /\ slash' = slash /\ path' = path
  <2>1. \A b : Contents(b)' = Contents(b)
    BY DEF world, Contents
  <2>2. Listed' = Listed
    BY <2>1 DEF world, Listed
  <2> QED
    BY <2>2 DEF world, Looked, Names, slash
<1>3. ASSUME UNCHANGED <<filename, entry, misread>>, retnode' \in {0, retnode},
             slash => pc' # "root" /\ (pc' \in {"block", "walk"} => filename # <<>>)
      PROVE  OnlyFromTheDisk'
  <2>1. ~misread' => entry'.inode = 0 \/ entry' \in Listed'
    BY <1>2, <1>3, Zenon DEF OnlyFromTheDisk
  <2>2. UNCHANGED filename /\ (~misread' => ~misread)
    BY <1>3, Zenon
  <2> QED
    BY <1>2, <1>3, <2>1, <2>2 DEF OnlyFromTheDisk
<1>4. CASE ReadSuperblock \/ FillPrivData \/ ReadDescriptor \/ ReadInode
  <2>1. UNCHANGED <<filename, entry, misread, retnode>>
    BY <1>4 DEF ReadSuperblock, FillPrivData, ReadDescriptor, ReadInode, walking, output
  <2>2. slash => pc' \notin {"root", "block", "walk"}
    BY <1>4 DEF ReadSuperblock, FillPrivData, ReadDescriptor, ReadInode, At, TypeOK, Superblock
  <2> QED
    BY <1>3, <2>1, <2>2
<1>5. CASE FindFileInode
  <2>1. pc' = "descriptor" /\ filename' = Looked /\ UNCHANGED <<entry, misread, retnode>>
    BY <1>5 DEF FindFileInode, At, output
  <2>2. ~misread' => entry'.inode = 0 \/ entry' \in Listed'
    BY <1>2, <2>1, Zenon DEF OnlyFromTheDisk
  <2> QED
    BY <1>2, <2>1, <2>2 DEF OnlyFromTheDisk
<1>6. CASE Lookup
  <2>1. /\ UNCHANGED <<entry, misread, retnode>> /\ pc = "lookup"
        /\ filename' = filename \/ (filename # <<>> /\ filename' = Tail(filename))
        /\ pc' \in {"check", "lookup"} \/ (pc' = "block" /\ filename' # <<>>)
    BY <1>6 DEF Lookup, LeaveFind, output
  <2>2. ToSet(filename') \subseteq ToSet(filename)
    BY <1>1, <2>1, HeadAndTail
  <2>3. ~misread' => entry'.inode = 0 \/ entry' \in Listed'
    BY <1>2, <2>1, Zenon DEF OnlyFromTheDisk
  <2> QED
    BY <1>2, <2>1, <2>2, <2>3 DEF OnlyFromTheDisk
<1>7. CASE NextRootBlock
  <2>1. ~slash
    BY <1>7 DEF NextRootBlock, OnlyFromTheDisk
  <2> QED
    BY <1>3, <1>7, <2>1 DEF NextRootBlock, LeaveRoot, LeaveFind, walking, output
<1>8. ASSUME UNCHANGED <<filename, retnode>>, pc \in {"block", "walk"}, pc' = "walk",
             ~misread' => ~misread /\ (entry'.inode = 0 \/ entry' \in Listed)
      PROVE  OnlyFromTheDisk'
  BY <1>2, <1>8 DEF OnlyFromTheDisk
<1>9. CASE ReadBlock
  <2>1. UNCHANGED <<filename, retnode>> /\ pc = "block" /\ pc' = "walk"
    BY <1>9 DEF ReadBlock, At, output
  <2>2. PICK new : Arrive(new, 0)
    BY <1>9 DEF ReadBlock
  <2> QED
    BY <1>1, <1>8, <2>1, <2>2, ArriveGives
<1>10. CASE NextEntry
  <2>1. UNCHANGED <<filename, retnode>> /\ pc = "walk" /\ pc' = "walk"
    BY <1>10 DEF NextEntry, At, output
  <2>2. UNCHANGED <<dir, entry, misread>> \/ Arrive(root_buf, dir + entry.size)
    BY <1>10 DEF NextEntry
  <2>3. ~misread' => ~misread /\ (entry'.inode = 0 \/ entry' \in Listed)
    <3>1. CASE UNCHANGED <<dir, entry, misread>>
      BY <3>1, Zenon DEF OnlyFromTheDisk
    <3>2. CASE Arrive(root_buf, dir + entry.size)
      BY <1>1, <3>2, ArriveGives
    <3> QED
      BY <2>2, <3>1, <3>2
  <2> QED
    BY <1>8, <2>1, <2>3
<1>11. CASE FoundEntry /\ slash
  <2>1. /\ entry.inode # 0 /\ entry.name = Head(filename) /\ filename # <<>>
        /\ retnode' = entry.inode /\ filename' = Tail(filename)
        /\ UNCHANGED <<entry, misread>> /\ pc' = "descriptor"
    BY <1>11 DEF FoundEntry, WalkEnds, Matches, OnlyFromTheDisk
  <2>2. Head(filename) \in ToSet(filename) /\ ToSet(Tail(filename)) \subseteq ToSet(filename)
    BY <1>1, <2>1, HeadAndTail
  <2>3. ~misread' => ~misread /\ entry \in Listed
    BY <2>1, Zenon DEF OnlyFromTheDisk
  <2>4. ~misread' => Named(retnode')
    BY <2>1, <2>2, <2>3 DEF OnlyFromTheDisk
  <2>5. ToSet(filename') \subseteq ToSet(Looked)
    BY <2>1, <2>2 DEF OnlyFromTheDisk
  <2> QED
    BY <1>2, <1>11, <2>1, <2>3, <2>4, <2>5 DEF OnlyFromTheDisk
<1>12. CASE FoundEntry /\ ~slash
  BY <1>3, <1>12 DEF FoundEntry, LeaveRoot, LeaveFind
<1>13. CASE NoEntry
  <2>1. UNCHANGED <<filename, entry, misread>>
    BY <1>13 DEF NoEntry, walking
  <2>2. CASE slash
    <3>1. pc' = "check" /\ retnode' \in {0, 1, retnode}
      BY <1>13, <2>2 DEF NoEntry, LeaveFind
    <3>2. retnode' \in {0, retnode} \/ path = <<"", "">>
      BY <1>13, <2>2, Zenon DEF NoEntry, LeaveFind
    <3>3. ~misread' => ~misread /\ (entry'.inode = 0 \/ entry' \in Listed')
      BY <1>2, <2>1, Zenon DEF OnlyFromTheDisk
    <3> QED
      BY <1>2, <2>1, <2>2, <3>1, <3>2, <3>3 DEF OnlyFromTheDisk
  <2>3. CASE ~slash
    BY <1>3, <1>13, <2>1, <2>3 DEF NoEntry, output
  <2> QED
    BY <2>2, <2>3
<1>14. CASE PageFault \/ Check \/ KmallocExits
  BY <1>3, <1>14 DEF PageFault, Check, KmallocExits, walking, output
<1> QED
  BY <1>4, <1>5, <1>6, <1>7, <1>9, <1>10, <1>11, <1>12, <1>13, <1>14 DEF Step

-----------------------------------------------------------------------------
\* The call begins with a heap it has taken nothing from.
LEMMA InitIInv == Init => IInv
<1> SUFFICES ASSUME Init PROVE IInv
  OBVIOUS
<1>1. TypeOK
  <2>1. <<>> \in Seq(DOMAIN Rest)
    BY EmptySeq
  <2>2. heap \in Nat /\ package0 \in Nat
    BY Ext2Assumption DEF Init
  <2> QED
    BY <2>1, <2>2, ZerosAre DEF Init, TypeOK, Superblock
<1>2. BlocksAccounted
  BY <1>1, Numbers DEF Init, BlocksAccounted, Outstanding
<1>3. OnlyFromTheDisk /\ BlockThere
  BY NoElements DEF Init, OnlyFromTheDisk, BlockThere, Nobody
<1> QED
  BY <1>1, <1>2, <1>3 DEF IInv

\* Every step keeps the invariant.
LEMMA NextIInv == IInv /\ [Next]_vars => IInv'
<1> SUFFICES ASSUME IInv, [Next]_vars PROVE IInv'
  OBVIOUS
<1>1. TypeOK /\ BlocksAccounted /\ OnlyFromTheDisk /\ BlockThere
  BY DEF IInv
<1>2. CASE Step
  <2>1. BlocksAccounted'
    BY <1>1, <1>2, AccountsNext
  <2>2. free' \in Nat /\ inodes_read' \in Nat /\ lost' \in Nat
    BY <1>1, <1>2, FreeStaysNatural
  <2>3. Control' /\ UNCHANGED world
    BY <1>1, <1>2, ControlNext
  <2>4. Data'
    BY <1>1, <1>2, DataNext
  <2>5. TypeOK'
    BY <1>1, <2>2, <2>3, <2>4 DEF Control, Data, TypeOK, world
  <2>6. OnlyFromTheDisk' /\ BlockThere'
    BY <1>1, <1>2, <2>3, ListedNext, BlockThereNext
  <2> QED
    BY <2>1, <2>5, <2>6 DEF IInv
<1>3. CASE UNCHANGED vars
  <2>1. TypeOK'
    BY <1>1, <1>3 DEF vars, world, drive, reading, walking, output, TypeOK
  <2>2. BlocksAccounted'
    BY <1>1, <1>3 DEF vars, world, drive, BlocksAccounted, Outstanding, Held, slash
  <2>3. OnlyFromTheDisk'
    <3>1. UNCHANGED <<world, pc, filename, entry, misread, retnode>>
      BY <1>3 DEF vars, walking, output
    <3>2. Listed' = Listed /\ Looked' = Looked /\ slash' = slash /\ path' = path
      <4>1. \A b : Contents(b)' = Contents(b)
        BY <3>1 DEF world, Contents
      <4>2. Listed' = Listed
        BY <3>1, <4>1 DEF world, Listed
      <4> QED
        BY <3>1, <4>2 DEF world, Looked, Names, slash
    <3> QED
      BY <1>1, <3>1, <3>2, Zenon DEF OnlyFromTheDisk
  <2>4. BlockThere'
    BY <1>1, <1>3 DEF vars, walking, BlockThere
  <2> QED
    BY <2>1, <2>2, <2>3, <2>4 DEF IInv
<1> QED
  BY <1>2, <1>3 DEF Next, Done

\* A call of ext2_init costs the heap one block for each inode it reads, one
\* for each of its calls of read_sectors that fails, and nothing else but what
\* it holds when it stops, whatever the disk has, whatever kind of drive reads
\* it and whichever reads fail, in either half of a block; the kernel runs out
\* of memory only when those leave too little.
THEOREM CallsCostWhatTheyRead == Spec => []IInv
BY InitIInv, NextIInv, PTL DEF Spec

\* The number a lookup returns is that of an entry some directory has under
\* one of the names looked for, on any disk and after any failed reads, as long
\* as no entry that a failed read cut in two, and no block of a file that is no
\* directory, was walked.
THEOREM OnlyListedIsFound == Spec => []OnlyListedFound
<1>1. IInv => OnlyListedFound
  BY DEF IInv, OnlyFromTheDisk, OnlyListedFound
<1> QED
  BY <1>1, CallsCostWhatTheyRead, PTL

-----------------------------------------------------------------------------
\* The order of the naturals as the relation the library has it.
LEMMA LessThanPairs == \A a, b \in Nat : a < b => <<a, b>> \in OpToRel(<, Nat)
  BY Zenon DEF OpToRel

\* A set of naturals that is not empty has a least element.
LEMMA Least ==
  ASSUME NEW S \in SUBSET Nat, S # {}
  PROVE  \E x \in S : \A y \in S : x <= y
<1>1. PICK x \in S : \A y \in S : ~ (<<y, x>> \in OpToRel(<, Nat))
  BY NatLessThanWellFounded, WFMin
<1>2. \A y \in S : ~ (y < x)
  BY <1>1, LessThanPairs, Zenon
<1> QED
  BY <1>2

\* at leads along the first m names.
Follows(at, names, m) ==
  at = [k \in 0 .. m |-> IF k = 0 THEN Root ELSE Child(at[k - 1], names[k])]

\* There is a way of each length: the one that is shorter by a name and what
\* the name leads to.
LEMMA WayExists ==
  ASSUME NEW names, NEW n \in Nat
  PROVE  \E at : Follows(at, names, n)
<1> DEFINE Bad == {m \in Nat : ~ \E at : Follows(at, names, m)}
<1>1. SUFFICES ASSUME n \in Bad PROVE FALSE
  OBVIOUS
<1>2. PICK m \in Bad : \A y \in Bad : m <= y
  BY <1>1, Least
<1>3. m # 0
  <2> DEFINE at == [k \in 0 .. 0 |-> Root]
  <2>1. \A k \in 0 .. 0 : k = 0
    OBVIOUS
  <2>2. Follows(at, names, 0)
    BY <2>1, Zenon DEF Follows
  <2> QED
    BY <2>2
<1>4. m - 1 \in Nat /\ m - 1 \notin Bad
  BY <1>2, <1>3
<1>5. PICK at : Follows(at, names, m - 1)
  BY <1>4
<1> DEFINE next == [k \in 0 .. m |-> IF k = m THEN Child(at[m - 1], names[m]) ELSE at[k]]
           Val(f, k) == IF k = 0 THEN Root ELSE Child(f[k - 1], names[k])
<1>6. at = [k \in 0 .. m - 1 |-> Val(at, k)]
  BY <1>5 DEF Follows
<1>7. ASSUME NEW k \in 0 .. m PROVE next[k] = Val(next, k)
  <2>1. CASE k = 0
    BY <1>3, <1>6, <2>1
  <2>2. CASE k \in 1 .. m - 1
    <3>1. next[k] = at[k] /\ next[k - 1] = at[k - 1] /\ k # 0
      BY <1>4, <2>2
    <3>2. at[k] = Val(at, k)
      BY <1>6, <2>2
    <3> QED
      BY <3>1, <3>2
  <2>3. CASE k = m
    <3>1. next[k] = Child(at[m - 1], names[m]) /\ next[k - 1] = at[k - 1] /\ k # 0
      BY <1>3, <1>4, <2>3
    <3> QED
      BY <2>3, <3>1
  <2> QED
    BY <1>4, <2>1, <2>2, <2>3
<1>8. Follows(next, names, m)
  <2>1. next = [k \in 0 .. m |-> next[k]]
    OBVIOUS
  <2> HIDE DEF next
  <2>2. next = [k \in 0 .. m |-> Val(next, k)]
    BY <1>7, <2>1, Zenon
  <2> QED
    BY <2>2, Zenon DEF Follows
<1> QED
  BY <1>2, <1>8

\* The way is what its definition says.
LEMMA WayIs ==
  ASSUME NEW S, NEW names \in Seq(S)
  PROVE  Follows(Way(names), names, Len(names))
<1>1. \E at : Follows(at, names, Len(names))
  BY WayExists, LenProperties
<1>2. Way(names) = CHOOSE at : Follows(at, names, Len(names))
  BY Zenon DEF Way, Follows
<1> QED
  BY <1>1, <1>2, Zenon

\* While the disk stays, so does what names name.
LEMMA ReferenceStays ==
  ASSUME UNCHANGED disk
  PROVE  /\ \A b : Contents(b)' = Contents(b)
         /\ \A d : Entries(d)' = Entries(d)
         /\ \A d, n : Child(d, n)' = Child(d, n)
         /\ \A a, n, m : Follows(a, n, m)' = Follows(a, n, m)
<1>1. ASSUME NEW b PROVE Contents(b)' = Contents(b)
  BY DEF Contents
<1>2. ASSUME NEW b PROVE Entries(b)' = Entries(b)
  BY <1>1 DEF Entries, Contents
<1>3. ASSUME NEW b, NEW n PROVE Child(b, n)' = Child(b, n)
  <2> DEFINE Hits(all) == {e \in all : e.name = n /\ e.inode # 0}
             First(hits) == IF hits = {} THEN 0 ELSE (CHOOSE e \in hits : TRUE).inode
  <2>1. /\ Child(b, n) = IF b = 0 \/ disk.files[b].type # "directory" THEN 0
                         ELSE First(Hits(Entries(b)))
        /\ Child(b, n)' = IF b = 0 \/ disk'.files[b].type # "directory" THEN 0
                          ELSE First(Hits(Entries(b)'))
    BY Zenon DEF Child
  <2> HIDE DEF First, Hits
  <2> QED
    BY <1>2, <2>1
<1>4. ASSUME NEW a, NEW n, NEW m PROVE Follows(a, n, m)' = Follows(a, n, m)
  BY <1>3 DEF Follows
<1> QED
  BY <1>1, <1>2, <1>3, <1>4

\* And so do ways.
LEMMA WayStays ==
  ASSUME UNCHANGED disk
  PROVE  \A names : Way(names)' = Way(names)
<1> SUFFICES ASSUME NEW names PROVE Way(names)' = Way(names)
  OBVIOUS
<1>2. Way(names) = CHOOSE at : Follows(at, names, Len(names))
  BY Zenon DEF Way, Follows
<1>3. Way(names)' = CHOOSE at : Follows(at, names, Len(names))'
  BY Zenon DEF Way, Follows
<1>4. \A at : Follows(at, names, Len(names))' = Follows(at, names, Len(names))
  BY ReferenceStays
<1> QED
  BY <1>2, <1>3, <1>4

\* Its first file is the root, each other one the one of its name in the last.
LEMMA WaySteps ==
  ASSUME NEW S, NEW names \in Seq(S)
  PROVE  /\ Way(names)[0] = Root
         /\ \A k \in 1 .. Len(names) : Way(names)[k] = Child(Way(names)[k - 1], names[k])
<1> DEFINE w == Way(names)
<1>1. w = [k \in 0 .. Len(names) |-> IF k = 0 THEN Root ELSE Child(w[k - 1], names[k])]
  BY WayIs DEF Follows
<1>2. Len(names) \in Nat
  BY LenProperties
<1> HIDE DEF w
<1>3. w[0] = Root
  BY <1>1, <1>2
<1>4. ASSUME NEW k \in 1 .. Len(names) PROVE w[k] = Child(w[k - 1], names[k])
  BY <1>1, <1>2
<1> QED
  BY <1>3, <1>4 DEF w

\* A way that leads to no file does not lead to one later.
LEMMA NoWayBack ==
  ASSUME NEW S, NEW names \in Seq(S), NEW k \in 0 .. Len(names), Way(names)[k] = 0
  PROVE  Resolve(names) = 0
<1> DEFINE w == Way(names)
           Bad == {m \in Nat : m \in k .. Len(names) /\ w[m] # 0}
<1>1. SUFFICES ASSUME w[Len(names)] # 0 PROVE FALSE
  BY DEF Resolve
<1>2. Len(names) \in Bad
  BY <1>1, LenProperties
<1>3. PICK m \in Bad : \A y \in Bad : m <= y
  BY <1>2, Least
<1>4. m # k /\ m - 1 \in Nat /\ m - 1 \in k .. Len(names) /\ m - 1 \notin Bad
  BY <1>3
<1>5. w[m - 1] = 0
  BY <1>4
<1>6. w[m] = Child(w[m - 1], names[m])
  BY <1>3, <1>4, WaySteps
<1> QED
  BY <1>3, <1>5, <1>6 DEF Child

\* The whole of a sequence.
LEMMA WholeSeq ==
  ASSUME NEW S, NEW s \in Seq(S)
  PROVE  SubSeq(s, 1, Len(s)) = s
<1> DEFINE p == SubSeq(s, 1, Len(s))
<1>1. Len(s) \in Nat /\ \A k \in 1 .. Len(s) : s[k] \in S
  BY LenProperties, ElementOfSeq
<1>2. p \in Seq(S) /\ Len(p) = Len(s) /\ \A k \in 1 .. Len(s) : p[k] = s[k]
  BY <1>1, SubSeqProperties
<1> HIDE DEF p
<1>3. p = s
  BY <1>2, SeqEqual, Zenon
<1> QED
  BY <1>3 DEF p

\* The rest of a part.
LEMMA TailOfRest ==
  ASSUME NEW S, NEW s \in Seq(S), NEW m \in 1 .. Len(s)
  PROVE  LET rest == SubSeq(s, m, Len(s))
         IN /\ Len(rest) = Len(s) - m + 1 /\ Head(rest) = s[m] /\ rest # <<>>
            /\ Tail(rest) = SubSeq(s, m + 1, Len(s))
<1> DEFINE rest == SubSeq(s, m, Len(s))
           next == SubSeq(s, m + 1, Len(s))
<1>1. Len(s) \in Nat /\ m \in Int /\ \A k \in 1 .. Len(s) : s[k] \in S
  BY LenProperties, ElementOfSeq
<1>2. /\ rest \in Seq(S) /\ Len(rest) = Len(s) - m + 1
      /\ \A k \in 1 .. Len(s) - m + 1 : rest[k] = s[m + k - 1]
  BY <1>1, SubSeqProperties
<1>3. /\ next \in Seq(S) /\ Len(next) = Len(s) - m
      /\ \A k \in 1 .. Len(s) - m : next[k] = s[m + k]
  <2>1. m + 1 \in Int /\ Len(s) \in Int /\ \A k \in m + 1 .. Len(s) : s[k] \in S
    BY <1>1
  <2>2. /\ next \in Seq(S)
        /\ Len(next) = IF m + 1 <= Len(s) THEN Len(s) - (m + 1) + 1 ELSE 0
        /\ \A k \in 1 .. Len(s) - (m + 1) + 1 : next[k] = s[(m + 1) + k - 1]
    BY <2>1, SubSeqProperties
  <2> QED
    BY <1>1, <2>2
<1> HIDE DEF rest, next
<1>4. rest # <<>> /\ Head(rest) = s[m]
  <2>1. rest # <<>>
    BY <1>1, <1>2, EmptySeq
  <2>2. rest[1] = s[m]
    BY <1>1, <1>2
  <2> QED
    BY <1>2, <2>1, <2>2, HeadAndTail
<1>5. /\ Tail(rest) \in Seq(S) /\ Len(Tail(rest)) = Len(s) - m
      /\ \A k \in 1 .. Len(s) - m : Tail(rest)[k] = rest[k + 1]
  BY <1>1, <1>2, <1>4, HeadTailProperties
<1>6. \A k \in 1 .. Len(s) - m : Tail(rest)[k] = next[k]
  <2>1. SUFFICES ASSUME NEW k \in 1 .. Len(s) - m PROVE rest[k + 1] = s[m + k]
    BY <1>3, <1>5
  <2>2. k + 1 \in 1 .. Len(s) - m + 1 /\ m + (k + 1) - 1 = m + k
    BY <1>1
  <2> QED
    BY <1>2, <2>2
<1>7. Tail(rest) = next
  BY <1>3, <1>5, <1>6, SeqEqual
<1> QED
  BY <1>2, <1>4, <1>7 DEF rest, next

\* Of an absolute name without empty components all components are looked up.
LEMMA AbsoluteNames ==
  ASSUME path \in Paths, Absolute
  PROVE  /\ Tail(path) \in Seq(DOMAIN Rest) /\ Len(Tail(path)) \in Nat \ {0}
         /\ Looked = Tail(path) /\ "" \notin ToSet(Tail(path))
<1>1. path \in Seq(DOMAIN Rest) /\ path # <<>>
  BY Ext2Assumption
<1>2. /\ Tail(path) \in Seq(DOMAIN Rest) /\ Len(Tail(path)) = Len(path) - 1
      /\ Len(path) \in Nat
  BY <1>1, HeadTailProperties, LenProperties
<1>3. Names = Tail(path) /\ slash
  BY DEF Names, Absolute
<1>4. Looked = SubSeq(Tail(path), 1, Len(Tail(path)))
  BY <1>2, <1>3 DEF Looked
<1>5. Looked = Tail(path)
  BY <1>2, <1>4, WholeSeq
<1>6. Len(path) > 1 /\ "" \notin ToSet(Tail(path))
  BY DEF Absolute, slash
<1>7. Len(Tail(path)) \in Nat \ {0}
  <2>1. PICK n \in Nat : n = Len(path) /\ n > 1
    BY <1>2, <1>6
  <2> QED
    BY <1>2, <2>1
<1> QED
  BY <1>2, <1>5, <1>6, <1>7

\* An index of a group is in one of the group's blocks.
LEMMA BlockOfIndex ==
  ASSUME NEW n \in Nat, n < InodesInGroup
  PROVE  n \div InodesPerBlock \in 0 .. InodesInGroup \div InodesPerBlock - 1
<1> DEFINE b == InodesPerBlock
           q == n \div b
           p == InodesInGroup \div b
<1>1. b \in Nat \ {0} /\ InodesInGroup \in Nat \ {0} /\ InodesInGroup % b = 0
  BY Sizes, Ext2Assumption
<1>2. /\ q \in Nat /\ n % b \in 0 .. b - 1 /\ n = q * b + (n % b)
      /\ p \in Nat /\ InodesInGroup = p * b
  <2>1. q \in Nat /\ n % b \in 0 .. b - 1 /\ n = q * b + (n % b)
    BY <1>1, Division
  <2>2. p \in Nat /\ InodesInGroup = p * b + (InodesInGroup % b)
    BY <1>1, Division
  <2> HIDE DEF q, p
  <2>3. InodesInGroup = p * b
    BY <1>1, <2>2, Z3
  <2> QED
    BY <2>1, <2>2, <2>3
<1> HIDE DEF q, p
<1>3. q * b < p * b
  BY <1>1, <1>2
<1>4. q < p
  <2>1. \A x, y \in Nat : x <= y => x * b <= y * b
    BY <1>1, Z3
  <2>2. q * b \in Int /\ p * b \in Int
    BY <1>1, <1>2, Z3
  <2> QED
    BY <1>2, <1>3, <2>1, <2>2
<1> QED
  BY <1>2, <1>4 DEF q, p

\* In a sound image, what the descriptor and the index lead to is the inode.
LEMMA InodeIsThere ==
  ASSUME disk \in Images, SoundImage(disk), target \in DOMAIN disk.files
  PROVE  /\ bg \in DOMAIN disk.table
         /\ OnDisk(disk.table[bg] + Index \div InodesPerBlock, Index % InodesPerBlock)
              = {disk.files[target]}
<1> DEFINE G == InodesInGroup
           B == InodesPerBlock
           block == disk.table[bg] + Index \div B
           slot == Index % B
           In(m, g, k) == block = disk.table[g] + k /\ m = g * G + k * B + slot + 1
<1>1. B \in Nat \ {0} /\ G \in Nat \ {0}
  BY Sizes
<1>2. target \in Nat \ {0} /\ target - 1 \in Nat /\ bg \in DOMAIN disk.table
  BY DEF SoundImage, bg
<1>3. bg \in Nat /\ Index \in 0 .. G - 1 /\ target - 1 = bg * G + Index
  BY <1>1, <1>2, Division DEF bg, Index
<1>4. Index \in Nat /\ Index < G
  BY <1>1, <1>3
<1>5. /\ Index \div B \in 0 .. G \div B - 1 /\ slot \in Nat
      /\ Index = (Index \div B) * B + slot
  <2>1. Index \div B \in 0 .. G \div B - 1
    BY <1>4, BlockOfIndex
  <2>2. /\ Index \div B \in Nat /\ Index % B \in 0 .. B - 1
        /\ Index = (Index \div B) * B + (Index % B)
    BY <1>1, <1>4, Division
  <2>3. slot \in Nat
    BY <1>1, <2>2
  <2> QED
    BY <2>1, <2>2, <2>3
<1>6. G \div B \in Nat
  BY <1>1, Division
<1>7. /\ disk.table[bg] \in Nat /\ \A g \in DOMAIN disk.table : disk.table[g] \in Nat
      /\ \A g, h \in DOMAIN disk.table :
           g # h => \/ disk.table[g] + G \div B <= disk.table[h]
                    \/ disk.table[h] + G \div B <= disk.table[g]
  <2>1. \A g \in DOMAIN disk.table : disk.table[g] \in Nat
    BY Ext2Assumption
  <2> QED
    BY <1>2, <2>1 DEF SoundImage
<1>8. In(target, bg, Index \div B)
  <2> HIDE DEF slot
  <2> DEFINE q == Index \div B
  <2>1. q \in Nat /\ q * B \in Nat /\ bg * G \in Nat
    BY <1>1, <1>3, <1>5, Z3
  <2>2. target = bg * G + Index + 1 /\ Index = q * B + slot
    BY <1>2, <1>3, <1>5
  <2> HIDE DEF q
  <2>3. target = bg * G + q * B + slot + 1
    BY <1>5, <2>1, <2>2
  <2> QED
    BY <2>3 DEF q
<1>9. ASSUME NEW m, NEW g \in DOMAIN disk.table, NEW k \in 0 .. G \div B - 1, In(m, g, k)
      PROVE  m = target
  <2>1. disk.table[bg] + Index \div B = disk.table[g] + k
    BY <1>9
  <2>2. g = bg
    BY <1>2, <1>5, <1>6, <1>7, <2>1
  <2>3. k = Index \div B
    BY <1>5, <1>6, <1>7, <2>1, <2>2
  <2> QED
    BY <1>8, <1>9, <2>2, <2>3
<1> HIDE DEF In
<1>10. OnDisk(block, slot) =
         {disk.files[n] : n \in {m \in DOMAIN disk.files :
            \E g \in DOMAIN disk.table, k \in 0 .. G \div B - 1 : In(m, g, k)}}
  BY Zenon DEF OnDisk, In
<1>11. {m \in DOMAIN disk.files :
          \E g \in DOMAIN disk.table, k \in 0 .. G \div B - 1 : In(m, g, k)} = {target}
  BY <1>2, <1>5, <1>8, <1>9
<1>12. OnDisk(block, slot) = {disk.files[n] : n \in {target}}
  BY <1>10, <1>11, Zenon
<1> HIDE DEF block, slot
<1>13. OnDisk(block, slot) = {disk.files[target]}
  BY <1>12
<1> QED
  BY <1>2, <1>13 DEF block, slot

\* In a directory of one block the entries give what the name names.
LEMMA WalkFindsChild ==
  ASSUME disk \in Images, SoundImage(disk), NEW d \in DOMAIN disk.files, SingleBlock(d),
         NEW name
  PROVE  LET b == disk.files[d].dbp[1]
             entries == disk.entries[b]
         IN /\ b \in DOMAIN disk.entries
            /\ \A o \in DOMAIN entries : entries[o].inode \in DOMAIN disk.files \ {0}
            /\ \A o \in DOMAIN entries :
                 entries[o].name = name => Child(d, name) = entries[o].inode
            /\ (\A o \in DOMAIN entries : entries[o].name # name) => Child(d, name) = 0
<1> DEFINE dbp == disk.files[d].dbp
           entries == disk.entries[dbp[1]]
           hits == {e \in Entries(d) : e.name = name /\ e.inode # 0}
<1>1. /\ disk.files[d] \in Inode /\ d # 0 /\ 0 \notin DOMAIN disk.files
      /\ disk.files[d].type = "directory" /\ Len(dbp) = 1
  BY Ext2Assumption DEF SoundImage, SingleBlock
<1>2. ToSet(dbp) = {dbp[1]} /\ dbp # <<>>
  <2>1. dbp \in Seq(Nat \ {0}) /\ Len(dbp) = 1
    BY <1>1 DEF Inode
  <2>2. DOMAIN dbp = {1} /\ dbp # <<>>
    <3>1. DOMAIN dbp = 1 .. 1
      BY <2>1, LenProperties
    <3>2. dbp = <<>> => Len(dbp) = 0
      BY EmptySeq
    <3> QED
      BY <2>1, <3>1, <3>2
  <2> QED
    BY <2>2 DEF ToSet
<1>3. dbp[1] \in DOMAIN disk.entries
  BY <1>1, <1>2 DEF SoundImage
<1>4. Entries(d) = {entries[o] : o \in DOMAIN entries}
  BY <1>2, <1>3 DEF Entries, Contents
<1>5. \A o, p \in DOMAIN entries : entries[o].name = entries[p].name =>
        entries[o].inode = entries[p].inode \/ 0 \in {entries[o].inode, entries[p].inode}
  BY <1>1, <1>2 DEF SoundImage
<1>6. \A o \in DOMAIN entries : entries[o].inode \in DOMAIN disk.files \ {0}
  <2>1. \A o \in DOMAIN entries : entries[o].inode \in DOMAIN disk.files \cup {0}
    BY <1>3 DEF SoundImage
  <2>2. \A o \in DOMAIN entries : entries[o].inode # 0
    BY <1>1, <1>2 DEF SoundImage
  <2> QED
    BY <1>1, <2>1, <2>2
<1>7. Child(d, name) = IF hits = {} THEN 0 ELSE (CHOOSE e \in hits : TRUE).inode
  BY <1>1 DEF Child
<1> HIDE DEF entries
<1>8. hits = {e \in {entries[o] : o \in DOMAIN entries} : e.name = name}
  BY <1>4, <1>6
<1> HIDE DEF hits
<1>9. ASSUME NEW o \in DOMAIN entries, entries[o].name = name
      PROVE  Child(d, name) = entries[o].inode
  <2>1. entries[o] \in hits
    BY <1>8, <1>9
  <2>2. PICK f \in hits : f = CHOOSE x \in hits : TRUE
    BY <2>1
  <2>3. Child(d, name) = f.inode
    BY <1>7, <2>1, <2>2
  <2>4. PICK p \in DOMAIN entries : f = entries[p] /\ f.name = name
    <3>1. f \in {entries[p] : p \in DOMAIN entries} /\ f.name = name
      BY <1>8, <2>2
    <3> QED
      BY <3>1, Zenon
  <2> QED
    BY <1>5, <1>6, <1>9, <2>3, <2>4
<1>10. ASSUME \A o \in DOMAIN entries : entries[o].name # name PROVE Child(d, name) = 0
  <2>1. hits = {}
    BY <1>8, <1>10
  <2> QED
    BY <1>7, <2>1
<1> QED
  BY <1>3, <1>6, <1>9, <1>10 DEF entries

\* In a block of a sound image each entry leads on, to the next one or to the
\* end of the block.
LEMMA OffsetsAreSound ==
  ASSUME disk \in Images, SoundImage(disk), NEW b \in DOMAIN disk.entries
  PROVE  LET entries == disk.entries[b]
         IN /\ b \in Nat /\ 0 \in DOMAIN entries
            /\ \A o \in DOMAIN entries :
                 /\ o \in Nat /\ o < 2 * UnitSlots /\ entries[o].size \in Nat \ {0}
                 /\ o + entries[o].size \in DOMAIN entries \cup {2 * UnitSlots}
                 /\ \A p \in DOMAIN entries : p <= o \/ o + entries[o].size <= p
<1> DEFINE entries == disk.entries[b]
<1>1. b \in Nat /\ \A o \in DOMAIN entries : o \in Nat /\ entries[o] \in DirEntry
  BY Ext2Assumption
<1>2. SoundBlock(entries)
  BY DEF SoundImage
<1>3. ASSUME NEW o \in DOMAIN entries PROVE o < 2 * UnitSlots
  <2>1. o + Length[entries[o].name] <= 2 * UnitSlots
    BY Ext2Assumption
  <2>2. Length[entries[o].name] \in Nat \ {0}
    <3>1. entries[o].name \in DOMAIN Rest
      BY <1>1 DEF DirEntry
    <3> QED
      BY <3>1, Ext2Assumption
  <2>3. UnitSlots \in Nat
    BY Sizes
  <2> QED
    BY <1>1, <2>1, <2>2, <2>3
<1>4. ASSUME NEW o \in DOMAIN entries PROVE entries[o].size \in Nat \ {0}
  BY <1>1, <1>2 DEF SoundBlock, DirEntry
<1> QED
  BY <1>1, <1>2, <1>3, <1>4 DEF SoundBlock

\* Two units are within a page.
LEMMA TwoUnits == \A u \in Nat \ {0}, n \in Nat : n <= 2 * u => n < PageUnits * u
<1>1. \A u \in Nat \ {0}, k \in Nat : k > 2 => 2 * u < k * u
  BY Z3
<1>2. \A u \in Nat, k \in Nat : k * u \in Nat
  BY Z3
<1> QED
  BY <1>1, <1>2, Sizes

\* Where a whole block is walked from entry to entry, an entry of it or its end
\* is read.
LEMMA ArrivesAt ==
  ASSUME disk \in Images, SoundImage(disk), NEW b \in DOMAIN disk.entries,
         NEW o \in DOMAIN disk.entries[b] \cup {2 * UnitSlots}, Arrive(Both(b), o), ~misread
  PROVE  /\ dir' = o /\ UNCHANGED misread
         /\ o \in DOMAIN disk.entries[b] => entry' = disk.entries[b][o]
         /\ o = 2 * UnitSlots => entry'.inode = 0
<1> DEFINE there == From(Both(b), o, UnitSlots)
<1>1. b \in Nat /\ UnitSlots \in Nat \ {0} /\ b # Zeros /\ DOMAIN disk.entries \subseteq Nat
  <2>1. DOMAIN disk.entries \subseteq Nat
    BY Ext2Assumption
  <2> QED
    BY <2>1, Sizes DEF Zeros
<1>2. Both(b)[0] = b /\ Both(b)[1] = b
  BY DEF Both, Halves
<1>3. CASE o \in DOMAIN disk.entries[b]
  <2>1. o \in Nat /\ o < 2 * UnitSlots
    BY <1>3, OffsetsAreSound
  <2>2. there = b
    BY <1>1, <1>2, <2>1 DEF From
  <2>3. Whole(Both(b), o) /\ ~Void(Both(b), o)
    BY <1>1, <1>2, <1>3, <2>2 DEF Whole, Void
  <2>4. o # 2 * UnitSlots
    BY <1>1, <2>1
  <2> HIDE DEF there
  <2>5. entry' = disk.entries[b][o] /\ UNCHANGED misread /\ dir' = o
    BY <2>2, <2>3, Zenon DEF Arrive, there
  <2> QED
    BY <2>4, <2>5
<1>4. CASE o \notin DOMAIN disk.entries[b]
  <2>1. o = 2 * UnitSlots
    BY <1>4
  <2>2. there = Zeros
    BY <1>1, <2>1 DEF From
  <2>3. InPage(o, UnitSlots)
    BY <1>1, <2>1, TwoUnits DEF InPage
  <2>4. Void(Both(b), o) /\ ~Whole(Both(b), o)
    BY <1>1, <2>2, <2>3 DEF Void, Whole, Zeros
  <2>5. entry' = Nobody /\ UNCHANGED misread /\ dir' = o
    BY <2>4, Zenon DEF Arrive
  <2> QED
    BY <1>4, <2>5 DEF Nobody
<1> QED
  BY <1>3, <1>4

-----------------------------------------------------------------------------
\* What is straight stays so, and where it leads, as the disk stays.
LEMMA StraightStays ==
  ASSUME UNCHANGED world
  PROVE  /\ UNCHANGED <<disk, path>> /\ slash' = slash /\ Looked' = Looked
         /\ Absolute' = Absolute /\ Passable' = Passable
         /\ \A names : Way(names)' = Way(names)
         /\ Resolve(Tail(path))' = Resolve(Tail(path))
<1>1. UNCHANGED <<disk, path>>
  BY DEF world
<1>2. \A names : Way(names)' = Way(names)
  BY <1>1, WayStays
<1>3. slash' = slash /\ Looked' = Looked /\ Absolute' = Absolute
  BY <1>1 DEF slash, Looked, Names, Absolute
<1>4. Way(Tail(path))' = Way(Tail(path))
  BY <1>1, <1>2
<1>5. Passable' = Passable
  BY <1>1, <1>4 DEF Passable, InReach, SingleBlock
<1>6. Resolve(Tail(path))' = Resolve(Tail(path))
  BY <1>1, <1>4 DEF Resolve
<1> QED
  BY <1>1, <1>2, <1>3, <1>4, <1>5, <1>6

\* What is a straight lookup after a step was one before.
LEMMA StillStraight ==
  ASSUME UNCHANGED world, ~failed' => ~failed, Straight'
  PROVE  Straight /\ ~failed' /\ slash
<1>1. Absolute' /\ Passable' /\ ~failed'
  BY DEF Straight
<1>2. Absolute' = Absolute /\ Passable' = Passable
  BY StraightStays
<1>3. Absolute /\ Passable /\ ~failed
  BY <1>1, <1>2, Zenon
<1> QED
  BY <1>1, <1>3 DEF Straight, Absolute

\* A step that leaves the names and where it is leaves Here.
LEMMA HereStays ==
  ASSUME UNCHANGED world, UNCHANGED filename
  PROVE  Passed' = Passed /\ Here' = Here
<1>1. Way(Tail(path))' = Way(Tail(path)) /\ path' = path
  BY StraightStays
<1>2. Passed' = Passed
  BY <1>1 DEF Passed
<1> QED
  BY <1>1, <1>2 DEF Here

-----------------------------------------------------------------------------
\* The next name leads from here to where the way goes.
LEMMA NextName ==
  ASSUME path \in Paths, Absolute, InHand, filename # <<>>, filename \in Seq(DOMAIN Rest)
  PROVE  /\ Passed \in 0 .. Len(Tail(path)) - 1 /\ Passed + 1 \in 1 .. Len(Tail(path))
         /\ Head(filename) = Tail(path)[Passed + 1] /\ Head(filename) # ""
         /\ Tail(filename) = SubSeq(Tail(path), Passed + 2, Len(Tail(path)))
         /\ Way(Tail(path))[Passed + 1] = Child(Here, Head(filename))
         /\ Len(Tail(filename)) = Len(filename) - 1 /\ Len(filename) \in Nat
<1> DEFINE names == Tail(path)
<1>1. names \in Seq(DOMAIN Rest) /\ Len(names) \in Nat /\ "" \notin ToSet(names)
  BY AbsoluteNames
<1>2. /\ Len(filename) \in Nat \ {0} /\ Len(Tail(filename)) = Len(filename) - 1
  BY EmptySeq, LenProperties, HeadTailProperties
<1>3. /\ Passed = Len(names) - Len(filename) /\ Passed >= 0
      /\ filename = SubSeq(names, Passed + 1, Len(names))
  BY DEF Passed, InHand
<1> HIDE DEF names
<1>4. Passed \in 0 .. Len(names) - 1 /\ Passed + 1 \in 1 .. Len(names)
  <2>1. PICK l \in Nat, f \in Nat \ {0} : l = Len(names) /\ f = Len(filename)
    BY <1>1, <1>2
  <2>2. Passed = l - f /\ Passed >= 0
    BY <1>3, <2>1, Zenon
  <2> QED
    BY <2>1, <2>2
<1>5. /\ Head(filename) = names[Passed + 1]
      /\ Tail(filename) = SubSeq(names, (Passed + 1) + 1, Len(names))
  BY <1>1, <1>3, <1>4, TailOfRest, Zenon
<1>6. (Passed + 1) + 1 = Passed + 2 /\ (Passed + 1) - 1 = Passed
  BY <1>4
<1>7. Head(filename) # ""
  <2>1. Passed + 1 \in DOMAIN names
    BY <1>1, <1>4, LenProperties
  <2> QED
    BY <1>1, <1>5, <2>1 DEF ToSet
<1>8. Way(names)[Passed + 1] = Child(Way(names)[(Passed + 1) - 1], names[Passed + 1])
  BY <1>1, <1>4, WaySteps
<1>9. Way(names)[Passed + 1] = Child(Here, Head(filename))
  BY <1>5, <1>6, <1>8 DEF Here, names
<1> QED
  BY <1>2, <1>4, <1>5, <1>6, <1>7, <1>9 DEF names

\* The inode in hand is within reach and, while there are names, one of a
\* directory of a single block.
LEMMA OneBlockInHand ==
  ASSUME path \in Paths, Straight, InHand, disk \in Images, SoundImage(disk),
         filename \in Seq(DOMAIN Rest)
  PROVE  /\ Here # 0 /\ InReach(Here)
         /\ filename # <<>> => SingleBlock(Here) /\ disk.files[Here].dbp # <<>>
<1>1. Passed \in 0 .. Len(Tail(path))
  <2>1. PICK n \in Nat, f \in Nat : n = Len(Tail(path)) /\ f = Len(filename)
    BY AbsoluteNames, LenProperties DEF Straight
  <2>2. Passed = n - f /\ Passed >= 0
    BY <2>1, Zenon DEF Passed, InHand
  <2> QED
    BY <2>1, <2>2
<1>2. Here # 0 /\ Here \in DOMAIN disk.files
  BY DEF InHand, SoundImage
<1>3. InReach(Here) /\ (Passed < Len(Tail(path)) => SingleBlock(Here))
  BY <1>1, <1>2 DEF Straight, Passable, Here
<1>4. ASSUME filename # <<>> PROVE SingleBlock(Here)
  <2>1. Passed \in 0 .. Len(Tail(path)) - 1
    BY <1>4, NextName DEF Straight
  <2>2. Len(Tail(path)) \in Nat
    BY AbsoluteNames DEF Straight
  <2>3. Passed < Len(Tail(path))
    BY <2>1, <2>2
  <2> QED
    BY <1>3, <2>3
<1>5. ASSUME filename # <<>> PROVE disk.files[Here].dbp # <<>>
  <2>1. disk.files[Here].dbp = <<>> => Len(disk.files[Here].dbp) = 0
    BY EmptySeq
  <2>2. Len(disk.files[Here].dbp) = 1
    BY <1>4, <1>5 DEF SingleBlock
  <2> QED
    BY <2>1, <2>2
<1> QED
  BY <1>2, <1>3, <1>4, <1>5

\* The lookup begins at the root with all of the names.
LEMMA FindBegins ==
  ASSUME path \in Paths, Absolute, SoundImage(disk), disk.superblock = "ext2", UNCHANGED world,
         filename' = Looked, target' = Root, retnode' = 0, pc' = "descriptor"
  PROVE  InHand'
<1> DEFINE names == Tail(path)
<1>1. /\ names \in Seq(DOMAIN Rest) /\ Len(names) \in Nat /\ filename' = names
      /\ SubSeq(names, 1, Len(names)) = names
  BY AbsoluteNames, WholeSeq
<1>2. Way(names)' = Way(names) /\ path' = path /\ disk' = disk
  BY StraightStays
<1>3. Passed' = 0
  BY <1>1, <1>2 DEF Passed
<1>4. Here' = Root
  BY <1>1, <1>2, <1>3, WaySteps DEF Here
<1>5. filename' = SubSeq(names, Passed' + 1, Len(names)) /\ names' = names
  BY <1>1, <1>2, <1>3
<1> QED
  BY <1>2, <1>3, <1>4, <1>5 DEF InHand, SoundImage

\* The walk of the directory in hand is at one of its entries, and ends with
\* what the name names.
LEMMA WalkInHand ==
  ASSUME path \in Paths, Straight, InHand, filename # <<>>, filename \in Seq(DOMAIN Rest),
         disk \in Images, SoundImage(disk), pc = "walk"
  PROVE  LET b == inode.dbp[1]
         IN /\ b \in DOMAIN disk.entries /\ root_buf = Both(b)
            /\ ~WalkEnds => dir \in DOMAIN disk.entries[b] /\ entry = disk.entries[b][dir]
            /\ ~WalkEnds /\ Matches => /\ Child(Here, Head(filename)) = entry.inode
                                       /\ entry.inode \in DOMAIN disk.files
            /\ WalkEnds => Child(Here, Head(filename)) = 0
<1> DEFINE b == disk.files[Here].dbp[1]
           entries == disk.entries[b]
<1>1. Here \in DOMAIN disk.files /\ inode = disk.files[Here] /\ InWalk
  BY DEF InHand
<1>2. SingleBlock(Here)
  BY OneBlockInHand
<1>3. /\ b \in DOMAIN disk.entries
      /\ \A o \in DOMAIN entries : entries[o].inode \in DOMAIN disk.files \ {0}
      /\ \A o \in DOMAIN entries :
           entries[o].name = Head(filename) => Child(Here, Head(filename)) = entries[o].inode
      /\ (\A o \in DOMAIN entries : entries[o].name # Head(filename)) =>
           Child(Here, Head(filename)) = 0
  BY <1>1, <1>2, WalkFindsChild, Zenon
<1>4. \A o \in DOMAIN entries : o < 2 * UnitSlots
  BY <1>3, OffsetsAreSound
<1>5. /\ root_buf = Both(b)
      /\ \/ dir \in DOMAIN entries /\ entry = entries[dir]
         \/ dir = 2 * UnitSlots /\ WalkEnds
      /\ \A o \in DOMAIN entries : o < dir => entries[o].name # Head(filename)
  BY <1>1 DEF InWalk
<1> HIDE DEF b, entries
<1>6. ~WalkEnds => dir \in DOMAIN entries /\ entry = entries[dir]
  BY <1>5
<1>7. WalkEnds => dir = 2 * UnitSlots
  BY <1>3, <1>5 DEF WalkEnds
<1>8. WalkEnds => Child(Here, Head(filename)) = 0
  BY <1>3, <1>4, <1>5, <1>7
<1>9. ~WalkEnds /\ Matches => /\ Child(Here, Head(filename)) = entry.inode
                              /\ entry.inode \in DOMAIN disk.files
  BY <1>3, <1>6 DEF Matches
<1> QED
  BY <1>1, <1>3, <1>5, <1>6, <1>8, <1>9 DEF b, entries

-----------------------------------------------------------------------------
\* A step of the lookup that stays in it, seen from its straight ways.
LEMMA InLookupNext ==
  ASSUME pc' \in InLookup, Straight' => InHand' /\ ~misread'
  PROVE  OnTheWay' /\ FindsTheFile'
BY DEF OnTheWay, FindsTheFile, Returned, InLookup

\* Before the lookup, the superblock in memory is the disk's.
LEMMA BeforeNext ==
  ASSUME TypeOK, OnTheWay, ImagesSound, ReadSuperblock \/ FillPrivData \/ FindFileInode
  PROVE  OnTheWay' /\ FindsTheFile'
<1>1. UNCHANGED world /\ (~failed' => ~failed) /\ UNCHANGED misread
  <2>1. FirstBlock \in Nat
    BY DEF FirstBlock
  <2>2. ReadSuperblock => (~failed' => ~failed)
    BY <2>1, ReadGives, ZerosAre DEF ReadSuperblock
  <2>3. FillPrivData \/ FindFileInode => (~failed' => ~failed)
    BY Zenon DEF FillPrivData, FindFileInode, drive
  <2> QED
    BY <2>2, <2>3 DEF ReadSuperblock, FillPrivData, FindFileInode, walking
<1>2. Straight' => ~misread'
  BY <1>1, StillStraight, Zenon DEF OnTheWay
<1>3. CASE ReadSuperblock
  <2>1. PICK new \in Mixed(FirstBlock, Cleared) :
          /\ ReadSectors(FirstBlock, Cleared, new)
          /\ sb' = IF new[0] = FirstBlock THEN disk.superblock ELSE "blank"
    BY <1>3 DEF ReadSuperblock
  <2>2. ~failed' => new = Both(FirstBlock)
    BY <2>1, ReadGives, ZerosAre DEF FirstBlock
  <2>3. Both(FirstBlock)[0] = FirstBlock
    BY DEF Both, Halves
  <2>4. ~failed' => sb' = disk.superblock
    BY <2>1, <2>2, <2>3, Zenon
  <2>5. pc = "superblock" /\ pc' = "priv" /\ UNCHANGED <<disk, retnode>>
    BY <1>3 DEF ReadSuperblock, At, world, output
  <2> QED
    BY <1>2, <2>4, <2>5 DEF OnTheWay, FindsTheFile, Returned, InLookup
<1>4. CASE FillPrivData
  <2>1. /\ pc = "priv" /\ UNCHANGED <<disk, retnode, sb, failed>>
        /\ pc' \in {"find", "no_ext2", "divide_error"} /\ (pc' = "find" => sb = "ext2")
    BY <1>4 DEF FillPrivData, At, world, output, drive, TypeOK, Superblock
  <2> QED
    BY <1>2, <2>1 DEF OnTheWay, FindsTheFile, Returned, InLookup
<1>5. CASE FindFileInode
  <2>1. /\ pc = "find" /\ pc' = "descriptor" /\ UNCHANGED <<retnode, failed>>
        /\ filename' = Looked /\ target' = Root
    BY <1>5 DEF FindFileInode, At, output, drive
  <2>2. ASSUME Straight' PROVE InHand'
    <3>1. Absolute /\ ~failed
      BY <1>1, <2>2, StillStraight DEF Straight
    <3>2. disk.superblock = "ext2" /\ retnode = 0
      BY <2>1, <3>1 DEF OnTheWay
    <3>3. SoundImage(disk) /\ path \in Paths
      BY <3>2 DEF ImagesSound, TypeOK
    <3> QED
      BY <1>1, <2>1, <3>1, <3>2, <3>3, FindBegins
  <2> QED
    BY <1>2, <2>1, <2>2, InLookupNext DEF InLookup
<1> QED
  BY <1>3, <1>4, <1>5

\* What a step of the lookup may start from.
LEMMA StraightStep ==
  ASSUME TypeOK, OnTheWay, OnlyFromTheDisk, ImagesSound, pc \in InLookup, UNCHANGED world,
         ~failed' => ~failed, Straight'
  PROVE  /\ Straight /\ InHand /\ SoundImage(disk) /\ slash /\ ~failed' /\ ~misread
         /\ path \in Paths /\ disk \in Images /\ filename \in Seq(DOMAIN Rest) /\ Absolute
         /\ pc \in {"block", "walk"} => filename # <<>>
<1>1. Straight /\ ~failed' /\ slash
  BY StillStraight
<1>2. InHand /\ ~misread /\ Absolute
  BY <1>1 DEF OnTheWay, Straight
<1>3. SoundImage(disk)
  BY <1>2 DEF InHand, ImagesSound, TypeOK
<1> QED
  BY <1>1, <1>2, <1>3 DEF TypeOK, OnlyFromTheDisk

\* The first block of descriptors is read.
LEMMA DescriptorNext ==
  ASSUME TypeOK, OnlyFromTheDisk, OnTheWay, ImagesSound, ReadDescriptor
  PROVE  OnTheWay' /\ FindsTheFile'
<1>1. /\ UNCHANGED world /\ UNCHANGED <<target, filename, retnode, misread>>
      /\ pc = "descriptor" /\ pc' = "inode"
  BY DEF ReadDescriptor, At, walking, output
<1>2. (~failed' => ~failed) /\ (~failed' => block_buf' = Both(FirstBgd))
  <2>1. FirstBgd \in Nat
    BY DEF FirstBgd
  <2> QED
    BY <2>1, ReadGives, ZerosAre DEF ReadDescriptor
<1>3. ASSUME Straight' PROVE InHand' /\ ~misread'
  <2>1. InHand /\ ~failed' /\ ~misread
    BY <1>1, <1>2, <1>3, StraightStep DEF InLookup
  <2>2. Passed' = Passed /\ Here' = Here /\ disk' = disk /\ path' = path
    BY <1>1, HereStays, StraightStays
  <2>3. InHand'
    BY <1>1, <1>2, <2>1, <2>2 DEF InHand
  <2> QED
    BY <1>1, <2>1, <2>3, Zenon
<1> QED
  BY <1>1, <1>3, InLookupNext DEF InLookup

\* The inode that is read is the one of the file.
LEMMA InodeNext ==
  ASSUME TypeOK, OnlyFromTheDisk, OnTheWay, ImagesSound, ReadInode
  PROVE  OnTheWay' /\ FindsTheFile'
<1>1. /\ UNCHANGED world /\ UNCHANGED <<target, filename, retnode, misread>>
      /\ pc = "inode" /\ pc' \in {"lookup", "root"} /\ (slash => pc' = "lookup") /\ i' = 0
  BY DEF ReadInode, At, output
<1>2. PICK table \in Table(block_buf, bg) :
        LET b == table + Index \div InodesPerBlock
        IN \E new \in Mixed(b, block_buf) :
             /\ ReadSectors(b, block_buf, new) /\ block_buf' = new
             /\ inode' \in InodeAt(new, Index % InodesPerBlock)
  BY DEF ReadInode
<1> DEFINE b == table + Index \div InodesPerBlock
           slot == Index % InodesPerBlock
<1>3. b \in Nat /\ block_buf \in Buffer
  BY BlockToRead DEF TypeOK
<1>4. inode' \in InodeAt(block_buf', slot) /\ (~failed' => block_buf' = Both(b) /\ ~failed)
  BY <1>2, <1>3, ReadGives
<1> HIDE DEF b, slot
<1>5. ASSUME Straight' PROVE InHand' /\ ~misread' /\ slash
  <2>1. /\ Straight /\ InHand /\ ~failed' /\ ~misread /\ slash /\ SoundImage(disk)
        /\ path \in Paths /\ disk \in Images /\ filename \in Seq(DOMAIN Rest)
    BY <1>1, <1>4, <1>5, StraightStep DEF InLookup
  <2>2. /\ target = Here /\ target \in DOMAIN disk.files /\ block_buf = Both(FirstBgd)
        /\ target \in Nat
    BY <1>1, <2>1 DEF InHand, TypeOK
  <2>3. /\ bg \in DOMAIN disk.table
        /\ OnDisk(disk.table[bg] + Index \div InodesPerBlock, Index % InodesPerBlock)
             = {disk.files[target]}
    BY <2>1, <2>2, InodeIsThere
  <2>4. bg < 2 * GroupsInUnit
    <3>1. InReach(target)
      BY <2>1, <2>2, OneBlockInHand
    <3> QED
      BY <3>1 DEF InReach, bg
  <2>5. From(block_buf, bg, GroupsInUnit) = FirstBgd
    <3>1. Both(FirstBgd)[0] = FirstBgd /\ Both(FirstBgd)[1] = FirstBgd
      BY DEF Both, Halves
    <3> QED
      BY <2>2, <2>4, <3>1 DEF From
  <2>6. table = disk.table[bg]
    <3>1. FirstBgd # Zeros
      BY DEF FirstBgd, Zeros
    <3>2. Table(block_buf, bg) = {disk.table[bg]}
      BY <2>3, <2>5, <3>1, Zenon DEF Table
    <3> QED
      BY <3>2
  <2>7. OnDisk(b, slot) = {disk.files[target]}
    BY <2>3, <2>6 DEF b, slot
  <2>8. From(Both(b), slot, InodesInUnit) = b
    <3>1. slot \in 0 .. InodesPerBlock - 1
      <4>1. \A n \in Int, p \in Nat \ {0} : n % p \in 0 .. p - 1
        BY Z3
      <4>2. Index \in Int
        BY <2>2, <4>1, Sizes DEF Index
      <4> QED
        BY <4>1, <4>2, Sizes DEF slot
    <3>2. InodesPerBlock = 2 * InodesInUnit /\ InodesInUnit \in Nat
      BY Ext2Assumption DEF InodesPerBlock
    <3>3. slot < 2 * InodesInUnit
      BY <3>1, <3>2
    <3>4. Both(b)[0] = b /\ Both(b)[1] = b
      BY DEF Both, Halves
    <3> QED
      BY <3>3, <3>4 DEF From
  <2>9. inode' = disk.files[Here]
    <3>1. b # Zeros
      BY <1>3 DEF Zeros, b
    <3>2. inode' \in InodeAt(Both(b), slot)
      BY <1>4, <2>1
    <3>3. InodeAt(Both(b), slot) = {disk.files[target]}
      BY <2>7, <2>8, <3>1 DEF InodeAt
    <3> QED
      BY <2>2, <3>2, <3>3
  <2>10. Passed' = Passed /\ Here' = Here /\ disk' = disk /\ path' = path
    BY <1>1, HereStays, StraightStays
  <2>11. pc' = "lookup"
    BY <1>1, <2>1
  <2>12. InHand'
    BY <1>1, <2>1, <2>9, <2>10, <2>11 DEF InHand
  <2> QED
    BY <1>1, <2>1, <2>12, Zenon
<1>6. CASE pc' = "root"
  <2>1. ~Straight'
    BY <1>1, <1>5, <1>6
  <2> QED
    BY <1>6, <2>1 DEF OnTheWay, FindsTheFile, Returned, InLookup
<1>7. CASE pc' = "lookup"
  BY <1>5, <1>7, InLookupNext DEF InLookup
<1> QED
  BY <1>1, <1>6, <1>7

\* The block that is read is the one of the directory, and the walk is at its
\* first entry.
LEMMA BlockNext ==
  ASSUME TypeOK, OnlyFromTheDisk, BlockThere, OnTheWay, ImagesSound, ReadBlock
  PROVE  OnTheWay' /\ FindsTheFile'
<1> DEFINE b == inode.dbp[i + 1]
<1>1. /\ UNCHANGED world /\ UNCHANGED <<target, filename, retnode, inode>>
      /\ pc = "block" /\ pc' = "walk"
  BY DEF ReadBlock, At, output, reading
<1>2. PICK new \in Mixed(b, root_buf) :
        ReadSectors(b, root_buf, new) /\ root_buf' = new /\ Arrive(new, 0)
  BY DEF ReadBlock
<1>3. b \in Nat /\ root_buf \in Buffer
  BY <1>1, BlockInHand DEF TypeOK
<1> HIDE DEF b
<1>4. (~failed' => root_buf' = Both(b) /\ ~failed) /\ Arrive(root_buf', 0)
  BY <1>2, <1>3, ReadGives
<1>5. ASSUME Straight' PROVE InHand' /\ ~misread'
  <2>1. /\ Straight /\ InHand /\ ~failed' /\ ~misread /\ SoundImage(disk)
        /\ path \in Paths /\ disk \in Images /\ filename \in Seq(DOMAIN Rest)
        /\ filename # <<>>
    BY <1>1, <1>4, <1>5, StraightStep DEF InLookup
  <2>2. /\ b = inode.dbp[1] /\ inode = disk.files[Here] /\ Here \in DOMAIN disk.files
    BY <1>1, <2>1 DEF InHand, b
  <2>3. b \in DOMAIN disk.entries
    BY <2>1, <2>2, OneBlockInHand, WalkFindsChild
  <2>4. 0 \in DOMAIN disk.entries[b] /\ \A o \in DOMAIN disk.entries[b] : o \in Nat
    BY <2>1, <2>3, OffsetsAreSound
  <2>5. dir' = 0 /\ UNCHANGED misread /\ entry' = disk.entries[b][0]
    BY <1>4, <2>1, <2>3, <2>4, ArrivesAt
  <2>6. Passed' = Passed /\ Here' = Here /\ disk' = disk /\ path' = path
    BY <1>1, HereStays, StraightStays
  <2>7. root_buf' = Both(b) /\ inode'.dbp[1] = b
    BY <1>1, <1>4, <2>1, <2>2
  <2>8. \A o \in DOMAIN disk.entries[b] : ~(o < 0)
    BY <2>4
  <2>9. InWalk'
    BY <2>4, <2>5, <2>6, <2>7, <2>8 DEF InWalk
  <2>10. InHand'
    BY <1>1, <2>1, <2>6, <2>9 DEF InHand
  <2> QED
    BY <2>1, <2>5, <2>10, Zenon
<1> QED
  BY <1>1, <1>5, InLookupNext DEF InLookup

\* The walk passes the entries of other names.
LEMMA EntryNext ==
  ASSUME TypeOK, OnlyFromTheDisk, OnTheWay, ImagesSound, NextEntry
  PROVE  OnTheWay' /\ FindsTheFile'
<1> DEFINE b == inode.dbp[1]
           entries == disk.entries[b]
<1>1. /\ UNCHANGED world /\ UNCHANGED <<target, filename, retnode, inode, failed, root_buf>>
      /\ pc = "walk" /\ pc' = "walk" /\ ~WalkEnds /\ ~Matches
      /\ entry.size # 0 => Arrive(root_buf, dir + entry.size)
  BY DEF NextEntry, At, reading, output, drive
<1>2. ASSUME Straight' PROVE InHand' /\ ~misread'
  <2>1. /\ Straight /\ InHand /\ ~misread /\ SoundImage(disk)
        /\ path \in Paths /\ disk \in Images /\ filename \in Seq(DOMAIN Rest)
        /\ filename # <<>>
    BY <1>1, <1>2, StraightStep, Zenon DEF InLookup
  <2>2. /\ b \in DOMAIN disk.entries /\ root_buf = Both(b)
        /\ dir \in DOMAIN entries /\ entry = entries[dir]
    BY <1>1, <2>1, WalkInHand
  <2>3. /\ dir \in Nat /\ entry.size \in Nat \ {0}
        /\ dir + entry.size \in DOMAIN entries \cup {2 * UnitSlots}
        /\ \A p \in DOMAIN entries : p \in Nat /\ (p <= dir \/ dir + entry.size <= p)
    BY <2>1, <2>2, OffsetsAreSound
  <2>4. \A o \in DOMAIN entries : o < dir => entries[o].name # Head(filename)
    BY <1>1, <2>1 DEF InHand, InWalk
  <2>5. Passed' = Passed /\ Here' = Here /\ disk' = disk /\ path' = path
    BY <1>1, HereStays, StraightStays
  <2>6. /\ dir' = dir + entry.size /\ UNCHANGED misread
        /\ dir' \in DOMAIN entries => entry' = entries[dir']
        /\ dir' = 2 * UnitSlots => entry'.inode = 0
    BY <1>1, <2>1, <2>2, <2>3, ArrivesAt
  <2>7. b' = b /\ entries' = entries /\ root_buf' = Both(b)
    BY <1>1, <2>2, <2>5
  <2>8. entries[dir].name # Head(filename)
    BY <1>1, <2>2 DEF Matches
  <2> HIDE DEF b, entries
  <2>9. \A o \in DOMAIN entries : o < dir' => entries[o].name # Head(filename)
    BY <2>2, <2>3, <2>4, <2>6, <2>8
  <2>10. \/ dir' \in DOMAIN entries /\ entry' = entries[dir']
         \/ dir' = 2 * UnitSlots /\ entry'.inode = 0
    BY <2>3, <2>6
  <2>11. InWalk'
    BY <1>1, <2>7, <2>9, <2>10 DEF InWalk, WalkEnds, b, entries
  <2>12. InHand'
    BY <1>1, <2>1, <2>5, <2>11 DEF InHand
  <2> QED
    BY <2>1, <2>6, <2>12, Zenon
<1> QED
  BY <1>1, <1>2, InLookupNext DEF InLookup

\* Nothing outside of a page is read.
LEMMA PageFaultNext ==
  ASSUME TypeOK, OnlyFromTheDisk, OnTheWay, ImagesSound, PageFault
  PROVE  OnTheWay' /\ FindsTheFile'
<1>1. UNCHANGED world /\ UNCHANGED failed /\ pc \in {"inode", "walk"} /\ pc' = "page_fault"
  BY DEF PageFault, drive
<1>2. ASSUME Straight' PROVE FALSE
  <2>1. /\ Straight /\ InHand /\ ~misread /\ SoundImage(disk)
        /\ path \in Paths /\ disk \in Images /\ filename \in Seq(DOMAIN Rest)
        /\ pc = "walk" => filename # <<>>
    BY <1>1, <1>2, StraightStep, Zenon DEF InLookup
  <2>2. CASE pc = "inode"
    <3>1. ~InPage(bg, GroupsInUnit)
      BY <2>2 DEF PageFault
    <3>2. InReach(target) /\ target \in DOMAIN disk.files
      BY <2>1, OneBlockInHand DEF InHand
    <3>3. bg \in Nat
      <4>1. target \in Nat \ {0}
        BY <2>1, <3>2 DEF SoundImage
      <4> QED
        BY <4>1, Sizes, Division DEF bg
    <3>4. bg <= 2 * GroupsInUnit
      BY <3>2, <3>3, Sizes DEF InReach, bg
    <3> QED
      BY <3>1, <3>3, <3>4, TwoUnits, Sizes DEF InPage
  <2>3. CASE pc = "walk"
    <3>1. ~WalkEnds /\ \/ ~InPage(dir + entry.size, UnitSlots)
                       \/ ~InPage(dir, UnitSlots)
      BY <2>3 DEF PageFault
    <3> DEFINE entries == disk.entries[inode.dbp[1]]
    <3>2. /\ inode.dbp[1] \in DOMAIN disk.entries
          /\ dir \in DOMAIN entries /\ entry = entries[dir]
      BY <2>1, <2>3, <3>1, WalkInHand
    <3>3. /\ \A o \in DOMAIN entries : o \in Nat /\ o < 2 * UnitSlots
          /\ entry.size \in Nat /\ dir + entry.size \in DOMAIN entries \cup {2 * UnitSlots}
      BY <2>1, <3>2, OffsetsAreSound
    <3> HIDE DEF entries
    <3>4. /\ dir \in Nat /\ dir <= 2 * UnitSlots
          /\ dir + entry.size \in Nat /\ dir + entry.size <= 2 * UnitSlots
      BY <3>2, <3>3, Sizes
    <3> QED
      BY <3>1, <3>4, TwoUnits, Sizes DEF InPage
  <2> QED
    BY <1>1, <2>2, <2>3
<1> QED
  BY <1>1, <1>2 DEF OnTheWay, FindsTheFile, Returned, InLookup

\* The entry of the name leads on.
LEMMA FoundNext ==
  ASSUME TypeOK, OnlyFromTheDisk, OnTheWay, ImagesSound, FoundEntry
  PROVE  OnTheWay' /\ FindsTheFile'
<1>1. /\ UNCHANGED world /\ UNCHANGED <<failed, misread>>
      /\ pc = "walk" /\ ~WalkEnds /\ Matches
      /\ slash => /\ pc' = "descriptor" /\ filename' = Tail(filename)
                  /\ target' = entry.inode /\ retnode' = target'
      /\ ~slash => pc' = "check"
  BY DEF FoundEntry, LeaveRoot, LeaveFind, drive
<1>2. ASSUME Straight'
      PROVE  /\ Straight /\ InHand /\ SoundImage(disk) /\ slash /\ Absolute /\ ~misread
             /\ path \in Paths /\ filename # <<>> /\ filename \in Seq(DOMAIN Rest)
             /\ disk \in Images
  BY <1>1, <1>2, StraightStep, Zenon DEF InLookup
<1>3. ASSUME Straight' PROVE InHand' /\ slash
  <2>1. /\ Passed \in 0 .. Len(Tail(path)) - 1
        /\ Tail(filename) = SubSeq(Tail(path), Passed + 2, Len(Tail(path)))
        /\ Way(Tail(path))[Passed + 1] = Child(Here, Head(filename))
        /\ Len(Tail(filename)) = Len(filename) - 1 /\ Len(filename) \in Nat
    BY <1>2, <1>3, NextName
  <2>2. Child(Here, Head(filename)) = entry.inode /\ entry.inode \in DOMAIN disk.files
    BY <1>1, <1>2, <1>3, WalkInHand
  <2>3. disk' = disk /\ path' = path /\ Way(Tail(path))' = Way(Tail(path)) /\ slash
    BY <1>1, <1>2, <1>3, StraightStays
  <2>4. Passed' = Passed + 1
    <3>1. Len(Tail(path)) \in Nat
      BY <1>2, <1>3, AbsoluteNames
    <3>2. Passed' = Len(Tail(path)) - Len(Tail(filename))
      BY <1>1, <2>3 DEF Passed
    <3>3. PICK n \in Nat, f \in Nat : n = Len(Tail(path)) /\ f = Len(filename)
      BY <2>1, <3>1
    <3>4. Passed = n - f /\ Passed' = n - (f - 1)
      BY <2>1, <3>2, <3>3, Zenon DEF Passed
    <3> QED
      BY <3>3, <3>4
  <2>5. Here' = entry.inode
    BY <2>1, <2>2, <2>3, <2>4 DEF Here
  <2>6. Passed' >= 0 /\ Passed' # 0 /\ Passed' + 1 = Passed + 2
    BY <2>1, <2>4
  <2>7. filename' = SubSeq(Tail(path), Passed + 1, Len(Tail(path)))'
    <3>1. filename' = SubSeq(Tail(path), Passed + 2, Len(Tail(path)))
      BY <1>1, <2>1, <2>3
    <3> QED
      BY <2>3, <2>6, <3>1, Zenon
  <2>8. disk'.superblock = "ext2"
    BY <1>2, <1>3, <2>3 DEF InHand
  <2> QED
    BY <1>1, <2>2, <2>3, <2>5, <2>6, <2>7, <2>8 DEF InHand
<1>4. CASE slash
  <2>1. Straight' => ~misread'
    BY <1>1, <1>2, Zenon
  <2> QED
    BY <1>1, <1>3, <1>4, <2>1, InLookupNext DEF InLookup
<1>5. CASE ~slash
  BY <1>1, <1>3, <1>5 DEF OnTheWay, FindsTheFile, InLookup
<1> QED
  BY <1>4, <1>5

\* Where the walk ends without the name there is no file of it.
LEMMA NoEntryNext ==
  ASSUME TypeOK, OnlyFromTheDisk, OnTheWay, ImagesSound, NoEntry
  PROVE  OnTheWay' /\ FindsTheFile'
<1>1. /\ UNCHANGED world /\ UNCHANGED <<failed, misread>> /\ pc = "walk" /\ WalkEnds
      /\ slash => pc' = "check" /\ (Head(filename) # "" => retnode' = 0)
      /\ ~slash => pc' = "root"
  BY Zenon DEF NoEntry, LeaveFind, drive, walking
<1>2. ASSUME Straight'
      PROVE  slash /\ retnode' = 0 /\ Resolve(Tail(path))' = 0 /\ ~misread'
  <2>1. /\ Straight /\ InHand /\ SoundImage(disk) /\ slash /\ Absolute /\ ~misread
        /\ path \in Paths /\ filename # <<>> /\ filename \in Seq(DOMAIN Rest)
        /\ disk \in Images
    BY <1>1, <1>2, StraightStep, Zenon DEF InLookup
  <2>2. /\ Passed + 1 \in 1 .. Len(Tail(path)) /\ Head(filename) # ""
        /\ Way(Tail(path))[Passed + 1] = Child(Here, Head(filename))
    BY <2>1, NextName
  <2>3. Child(Here, Head(filename)) = 0
    BY <1>1, <2>1, WalkInHand
  <2>4. Tail(path) \in Seq(DOMAIN Rest) /\ Passed + 1 \in 0 .. Len(Tail(path))
    <3>1. Tail(path) \in Seq(DOMAIN Rest) /\ Len(Tail(path)) \in Nat
      BY <2>1, AbsoluteNames
    <3>2. \A n \in Nat : \A k \in 1 .. n : k \in 0 .. n
      OBVIOUS
    <3> QED
      BY <2>2, <3>1, <3>2, Zenon
  <2>5. Resolve(Tail(path)) = 0
    BY <2>2, <2>3, <2>4, NoWayBack
  <2>6. retnode' = 0 /\ Resolve(Tail(path))' = 0
    BY <1>1, <2>1, <2>2, <2>5, StraightStays
  <2> QED
    BY <1>1, <2>1, <2>6, Zenon
<1>3. pc' \in {"check", "root"} /\ (pc' = "check" => slash)
  BY <1>1
<1> QED
  BY <1>2, <1>3 DEF OnTheWay, FindsTheFile, InLookup, Returned

\* With no names left, the inode in hand is the one that is named.
LEMMA LookupNext ==
  ASSUME TypeOK, OnlyFromTheDisk, OnTheWay, ImagesSound, Lookup
  PROVE  OnTheWay' /\ FindsTheFile'
<1>1. /\ UNCHANGED world /\ UNCHANGED <<failed, misread, target, retnode, inode, i>>
      /\ pc = "lookup"
      /\ \/ filename = <<>> /\ pc' = "check" /\ inode_buf' = inode
         \/ filename # <<>> /\ inode.dbp = <<>> /\ pc' = "lookup"
         \/ filename # <<>> /\ inode.dbp # <<>> /\ pc' = "block" /\ UNCHANGED filename
  BY DEF Lookup, LeaveFind, reading, output, drive
<1>2. ASSUME Straight'
      PROVE  /\ Straight /\ InHand /\ SoundImage(disk) /\ Absolute /\ inode = disk.files[Here]
             /\ path \in Paths /\ filename \in Seq(DOMAIN Rest) /\ disk \in Images
             /\ ~misread'
  <2>1. /\ Straight /\ InHand /\ SoundImage(disk) /\ Absolute /\ ~misread
        /\ path \in Paths /\ filename \in Seq(DOMAIN Rest) /\ disk \in Images
    BY <1>1, <1>2, StraightStep, Zenon DEF InLookup
  <2>2. ~misread'
    BY <1>1, <2>1, Zenon
  <2> QED
    BY <1>1, <2>1, <2>2 DEF InHand
<1>3. CASE filename = <<>>
  <2>1. pc' = "check" /\ inode_buf' = inode
    BY <1>1, <1>3
  <2>2. ASSUME Straight'
        PROVE  retnode = Resolve(Tail(path)) /\ inode = disk.files[retnode]
    <3>1. Len(Tail(path)) \in Nat \ {0} /\ Len(filename) = 0
      BY <1>2, <1>3, <2>2, AbsoluteNames, EmptySeq
    <3>2. Passed = Len(Tail(path))
      BY <3>1 DEF Passed
    <3>3. retnode = Here
      BY <1>2, <2>2, <3>1, <3>2 DEF InHand
    <3> QED
      BY <1>2, <2>2, <3>2, <3>3 DEF Here, Resolve
  <2>3. Resolve(Tail(path))' = Resolve(Tail(path)) /\ disk' = disk
    BY <1>1, StraightStays
  <2> QED
    BY <1>1, <1>2, <2>1, <2>2, <2>3 DEF OnTheWay, FindsTheFile, InLookup
<1>4. CASE filename # <<>>
  <2>1. ASSUME Straight' PROVE pc' = "block" /\ UNCHANGED filename
    <3>1. inode.dbp # <<>>
      BY <1>2, <1>4, <2>1, OneBlockInHand
    <3> QED
      BY <1>1, <1>4, <3>1
  <2>2. ASSUME Straight' PROVE InHand' /\ ~misread'
    <3>1. Passed' = Passed /\ Here' = Here /\ disk' = disk /\ path' = path
      BY <1>1, <2>1, <2>2, HereStays, StraightStays
    <3> QED
      BY <1>1, <1>2, <2>1, <2>2, <3>1 DEF InHand
  <2> QED
    BY <1>1, <1>4, <2>2, InLookupNext DEF InLookup
<1> QED
  BY <1>3, <1>4

\* Every step keeps the lookup on its way.
LEMMA OnTheWayNext ==
  ASSUME IInv, OnTheWay, FindsTheFile, ImagesSound, [Next]_vars
  PROVE  OnTheWay' /\ FindsTheFile'
<1> USE DEF IInv
<1>1. CASE ReadSuperblock \/ FillPrivData \/ FindFileInode
  BY <1>1, BeforeNext
<1>2. CASE ReadDescriptor
  BY <1>2, DescriptorNext
<1>3. CASE ReadInode
  BY <1>3, InodeNext
<1>4. CASE ReadBlock
  BY <1>4, BlockNext
<1>5. CASE Lookup
  BY <1>5, LookupNext
<1>6. CASE NextRootBlock
  <2>1. ~slash /\ slash' = slash /\ pc' \in {"block", "check"}
    BY <1>6 DEF NextRootBlock, LeaveRoot, LeaveFind, OnlyFromTheDisk, world, slash
  <2>2. ~Straight'
    BY <2>1 DEF Straight, Absolute
  <2> QED
    BY <2>1, <2>2 DEF OnTheWay, FindsTheFile
<1>7. CASE NextEntry
  BY <1>7, EntryNext
<1>8. CASE PageFault
  BY <1>8, PageFaultNext
<1>9. CASE FoundEntry
  BY <1>9, FoundNext
<1>10. CASE NoEntry
  BY <1>10, NoEntryNext
<1>11. CASE Check
  <2>1. /\ pc = "check" /\ pc' \in {"loaded", "exit_3"} /\ UNCHANGED world
        /\ UNCHANGED <<retnode, inode_buf, failed, misread>>
    BY <1>11 DEF Check, output, drive, walking
  <2>2. Straight' => Straight /\ ~misread'
    BY <2>1, StillStraight, Zenon DEF OnTheWay
  <2>3. Resolve(Tail(path))' = Resolve(Tail(path)) /\ disk' = disk
    BY <2>1, StraightStays
  <2> QED
    BY <2>1, <2>2, <2>3 DEF OnTheWay, FindsTheFile, Returned, InLookup
<1>12. CASE KmallocExits
  <2>1. pc' = "exit_2" /\ UNCHANGED world /\ UNCHANGED <<failed, misread>>
    BY <1>12 DEF KmallocExits, drive, walking
  <2>2. Straight' => ~misread'
    BY <2>1, StillStraight, Zenon DEF OnTheWay
  <2> QED
    BY <2>1, <2>2 DEF OnTheWay, FindsTheFile, Returned, InLookup
<1>13. CASE UNCHANGED vars
  <2>1. /\ UNCHANGED world /\ UNCHANGED <<pc, sb, filename, inode, i, root_buf, dir, entry>>
        /\ UNCHANGED <<failed, misread, target, block_buf, retnode, inode_buf>>
    BY <1>13 DEF vars, walking, reading, output, drive
  <2>2. Straight' => Straight /\ ~misread'
    BY <2>1, StillStraight, Zenon DEF OnTheWay
  <2>3. Passed' = Passed /\ Here' = Here /\ path' = path /\ disk' = disk
        /\ Resolve(Tail(path))' = Resolve(Tail(path))
    BY <2>1, HereStays, StraightStays
  <2>4. InWalk => InWalk'
    BY <2>1, <2>3 DEF InWalk, WalkEnds
  <2>5. InHand => InHand'
    BY <2>1, <2>3, <2>4 DEF InHand
  <2> QED
    BY <2>1, <2>2, <2>3, <2>5 DEF OnTheWay, FindsTheFile, Returned
<1> QED
  BY <1>1, <1>2, <1>3, <1>4, <1>5, <1>6, <1>7, <1>8, <1>9, <1>10, <1>11, <1>12, <1>13
     DEF Next, Done, Step

\* When a call begins, the lookup has not.
LEMMA InitOnTheWay == Init => OnTheWay /\ FindsTheFile
BY DEF Init, OnTheWay, FindsTheFile, Returned, InLookup

\* At each step of the lookup of such a name the names still there are the rest
\* of the path, the inode number, the descriptor and the inode in hand are those
\* of the file that the names before lead to, and no entry of the name that is
\* looked for has been passed.
THEOREM LookupStaysOnTheWay == ASSUME ImagesSound PROVE Spec => []OnTheWay
<1>1. IInv /\ OnTheWay /\ FindsTheFile /\ [Next]_vars => OnTheWay' /\ FindsTheFile'
  BY OnTheWayNext DEF IInv
<1> QED
  BY <1>1, InitOnTheWay, CallsCostWhatTheyRead, PTL DEF Spec

\* On a disk that is as mke2fs and its drivers leave it, when no read fails, the
\* lookup of an absolute name whose components lie in files of a single block
\* returns the number and the inode of the file that the name names, or 0 when
\* there is none: through any number of directories, of block groups and of
\* blocks of the inode table, and for every size of these.
THEOREM LookupFindsTheFile == ASSUME ImagesSound PROVE Spec => []FindsTheFile
<1>1. Init => OnTheWay /\ FindsTheFile
  BY InitOnTheWay
<1>2. IInv /\ OnTheWay /\ FindsTheFile /\ [Next]_vars => OnTheWay' /\ FindsTheFile'
  BY OnTheWayNext DEF IInv
<1> QED
  BY <1>1, <1>2, CallsCostWhatTheyRead, PTL DEF Spec
=============================================================================
