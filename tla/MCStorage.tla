----------------------------- MODULE MCStorage -----------------------------
(***************************************************************************)
(* Storage for TLC: an ATA drive and an ATAPI drive.  Bytes are scaled     *)
(* down (a sector is 2 bytes and integers wrap at 64), which keeps the     *)
(* shape of the arithmetic; all requests are for sectors whose byte        *)
(* address fits.  Every unit of a medium has a value of its own, so that   *)
(* a unit from a wrong place shows.                                        *)
(***************************************************************************)
EXTENDS Storage, TLC

CONSTANTS hdd, cdrom

TypeOf == hdd :> "ATA" @@ cdrom :> "ATAPI"
SizeOf == hdd :> 3 @@ cdrom :> 2

UnitsOf(d) == 0 .. UnitsPerSector(d) * Size[d] - 1

Blank512 == <<"zeros">>
Fresh == <<"new">>

MediaOf == [d \in Devices |-> [u \in UnitsOf(d) |-> <<d, u>>]]

Contained == UNION {{<<d, u>> : u \in UnitsOf(d)} : d \in Devices} \cup {Blank512, Fresh}

Ask(kinds, devices, sectors, counts) ==
  [kind : kinds, device : devices, sector : sectors,
   data : {[c \in 0 .. n - 1 |-> Fresh] : n \in counts}]

\* Inside both drives, across the end of a drive's sector, and past the end.
Asked ==
  Ask({"read", "write"}, {hdd}, {0, 2, 3}, {1, 2})
    \cup Ask({"read"}, {cdrom}, {0, 3, 7}, {1, 2})
    \cup Ask({"write"}, {cdrom}, {5}, {1})

\* The hypothesis of the theorems about calls.
ASSUME AskedFit == RequestsFit
=============================================================================
