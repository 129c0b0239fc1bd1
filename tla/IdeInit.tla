------------------------------- MODULE IdeInit -------------------------------
(***************************************************************************)
(* ide_initialize of drivers/ATA.c and IDE_init of drivers/storage.c: four *)
(* places on two channels are probed one after the other, and what answers *)
(* becomes an entry of ide_devices and of vdevices.  A component, like     *)
(* Paging.                                                                 *)
(*                                                                         *)
(* A drive is busy with a command until it answers.  The probe sleeps      *)
(* twice, or three times, and polls once: the identification of an ATAPI   *)
(* drive is read after a sleep, whether or not the drive has answered.     *)
(***************************************************************************)
EXTENDS Integers, Sequences, FiniteSets

ATA == 0
ATAPI == 1
Places == 0 .. 3  \* 2 * channel + drive

\* What may be at a place: nothing, a disk, an ATAPI drive, or something that
\* answers with an error and another signature, as an empty bus may do.
Kinds == {"none", "ATA", "ATAPI", "other"}

VARIABLES
  drives,          \* drives[p] \in Kinds
  ide,             \* the next thing ide_initialize does
  place,           \* i and j
  count, type,     \* locals
  answered,        \* the drive at place is done with its command
  ticked,          \* a tick since the last sleep began
  ide_devices,     \* ident is the place whose identification it has
  vdevices

probe == <<ide, place, count, type, answered>>
ide_vars == <<drives, probe, ticked, ide_devices, vdevices>>

Unread == -1
NoDevice == [Reserved |-> 0, Type |-> ATA, Channel |-> 0, Drive |-> 0, ident |-> Unread]

IdeInitial ==
  /\ ide = "select" /\ place = 0 /\ count = 0 /\ type = ATA
  /\ answered = TRUE /\ ticked = FALSE
  /\ ide_devices = [d \in Places |-> NoDevice] /\ vdevices = <<>>

-----------------------------------------------------------------------------
GoOn(next) == ide' = next /\ UNCHANGED <<place, count>>
NextPlace == ide' = "select" /\ place' = place + 1
Probing(label) == ide = label /\ place \in Places
Sleep == ticked' = FALSE

\* Variant: type is not set for every drive.
SelectKeepsType ==
  /\ Probing("select") /\ GoOn("identify") /\ Sleep
  /\ ide_devices' = [ide_devices EXCEPT ![count].Reserved = 0]
  /\ UNCHANGED <<drives, type, answered, vdevices>>

\* (I)
Select ==
  /\ Probing("select") /\ GoOn("identify") /\ Sleep
  /\ type' = ATA
  /\ ide_devices' = [ide_devices EXCEPT ![count].Reserved = 0]
  /\ UNCHANGED <<drives, answered, vdevices>>

\* (II), when the sleep is over.
Identify ==
  /\ Probing("identify") /\ ticked /\ GoOn("status") /\ Sleep
  /\ answered' = FALSE
  /\ UNCHANGED <<drives, type, ide_devices, vdevices>>

\* (III): a status of 0, or the loop.
Status ==
  /\ Probing("status") /\ ticked
  /\ IF drives[place] = "none" THEN NextPlace /\ UNCHANGED count ELSE GoOn("poll")
  /\ UNCHANGED <<drives, type, answered, ticked, ide_devices, vdevices>>

Poll ==
  /\ Probing("poll") /\ answered
  /\ GoOn(IF drives[place] = "ATA" THEN "read" ELSE "signature")
  /\ UNCHANGED <<drives, type, answered, ticked, ide_devices, vdevices>>

\* (IV)
Signature ==
  /\ Probing("signature")
  /\ \/ /\ drives[place] = "ATAPI" /\ GoOn("packet") /\ Sleep
        /\ type' = ATAPI /\ answered' = FALSE
     \/ /\ drives[place] = "other" /\ NextPlace
        /\ UNCHANGED <<count, type, answered, ticked>>
  /\ UNCHANGED <<drives, ide_devices, vdevices>>

PacketSleep ==
  /\ Probing("packet") /\ ticked /\ GoOn("read")
  /\ UNCHANGED <<drives, type, answered, ticked, ide_devices, vdevices>>

\* (V) to (VIII)
ReadDevice ==
  /\ Probing("read") /\ NextPlace
  /\ ide_devices' = [ide_devices EXCEPT ![count] =
       [Reserved |-> 1, Type |-> type, Channel |-> place \div 2, Drive |-> place % 2,
        ident |-> IF answered THEN place ELSE Unread]]
  /\ count' = count + 1
  /\ UNCHANGED <<drives, type, answered, ticked, vdevices>>

\* The rest of IDE_init.
device_info(d) == [type |-> ide_devices[d].Type, ata_id |-> d,
                   sector_size |-> IF ide_devices[d].Type = ATA THEN 512 ELSE 2048]

\* The entries that are taken; vdID counts those before d.
Reserved == {d \in Places : ide_devices[d].Reserved # 0}
vdID(d) == Cardinality({e \in Reserved : e < d})

Register ==
  /\ ide = "select" /\ place \notin Places /\ GoOn("done")
  /\ vdevices' = [k \in 1 .. Cardinality(Reserved) |->
                    device_info(CHOOSE d \in Reserved : vdID(d) = k - 1)]
  /\ UNCHANGED <<drives, type, answered, ticked, ide_devices>>

IdeStep == Select \/ Identify \/ Status \/ Poll \/ Signature \/ PacketSleep \/ ReadDevice

\* The drive.
Answers ==
  /\ ~answered /\ answered' = TRUE
  /\ UNCHANGED <<drives, ide, place, count, type, ticked, ide_devices, vdevices>>

\* The timer's handler, when interrupts are on.
Tick(on) ==
  /\ ticked' = (ticked \/ on)
  /\ UNCHANGED <<drives, probe, ide_devices, vdevices>>
=============================================================================
