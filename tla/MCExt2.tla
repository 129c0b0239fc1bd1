------------------------------- MODULE MCExt2 -------------------------------
(***************************************************************************)
(* Ext2 for TLC: block groups of four inodes, two to a block, blocks of    *)
(* six slots with an entry across the middle; a root of one block, a root  *)
(* of two whose second begins with an entry that was deleted, a root that  *)
(* is a file, and disks without the file system.                           *)
(***************************************************************************)
EXTENDS Ext2

D(blocks) == [type |-> "directory", dbp |-> blocks]
F(blocks) == [type |-> "regular", dbp |-> blocks]
E(n, size, name) == [inode |-> n, size |-> size, name |-> name]

\* sys.cfg is in the root; dir, in the second group, has another one and sub;
\* empty has no blocks; far is in the third group, whose descriptor is not in
\* the first block.  Some inodes are not in use.
Files == <<Blank, D(<<20>>), F(<<30>>), F(<<>>), D(<<21>>), F(<<31>>), D(<<22>>), F(<<32>>),
           F(<<33>>)>>
Listings ==
     20 :> (0 :> E(2, 1, ".") @@ 1 :> E(5, 1, "dir") @@ 2 :> E(3, 2, "sys.cfg")
            @@ 4 :> E(4, 2, "empty"))
  @@ 21 :> (0 :> E(5, 1, ".") @@ 1 :> E(7, 2, "sub") @@ 3 :> E(6, 3, "sys.cfg"))
  @@ 22 :> (0 :> E(7, 1, ".") @@ 1 :> E(8, 3, "ys.cfg") @@ 4 :> E(9, 2, "far"))
Tables == 0 :> 10 @@ 1 :> 14 @@ 2 :> 18

Disk(kind, root, listings) ==
  [superblock |-> kind, sectors |-> 80, table |-> Tables, entries |-> listings,
   files |-> [Files EXCEPT ![2] = root]]

ImagesValue ==
  { Disk("ext2", D(<<20>>), Listings),
    Disk("ext2", D(<<20, 23>>),
         Listings @@ 23 :> (0 :> E(0, 2, "gone") @@ 2 :> E(3, 4, "late"))),
    Disk("ext2", F(<<30>>), Listings),
    Disk("other", Blank, <<>>), Disk("blank", Blank, <<>>) }

DevicesValue == [type : {"ATA", "ATAPI"}, faulty : BOOLEAN]

RestValue ==
  [n \in {"", ".", "sys.cfg", "ys.cfg", "empty", "dir", "sub", "far", "gone", "late", "rest"} |->
     CASE n \in {"", "."} -> "" [] n = "sys.cfg" -> "ys.cfg" [] OTHER -> "rest"]
LengthValue == [n \in DOMAIN RestValue |-> IF n = "sys.cfg" THEN 2 ELSE 1]

PathsValue ==
  { <<"sys.cfg">>, <<"empty">>, <<"", "">>, <<"", "sys.cfg">>, <<"", "ys.cfg">>,
    <<"", "dir", "sys.cfg">>, <<"", "dir", "sub", "ys.cfg">>, <<"", "dir", "sub", "sys.cfg">>,
    <<"", "dir", "sub", "far">>, <<"", "late">>, <<"", "sys.cfg", "sub">>,
    <<"", "empty", "sub">>, <<"", "dir", "">>, <<"dir", "sys.cfg">> }

ASSUME DisksAreSound == ImagesSound

\* Bytes that are no inode: zeros, a file, a directory whose first block is
\* behind the end of the disk.  Bytes that are no descriptor: the last block of
\* inodes, a block behind the end.
JunkInodesValue == { Blank, F(<<31>>), D(<<60, 21>>) }
JunkBlocksValue == { 15, 60 }

\* Bytes that are no entry: an end, an entry that leads to itself, one that leads
\* to another file, to a group whose descriptor is not there, to nowhere.
JunkEntriesValue ==
  { E(0, 1, "."), E(6, 0, "rest"), E(6, 4, "sys.cfg"), E(13, 9, "sub"), E(40, 12, "dir") }
=============================================================================
