------------------------------- MODULE Atapi -------------------------------
(***************************************************************************)
(* ide_atapi_read of drivers/ATA.c, step by step, with the interrupts that *)
(* arrive in between and the drive it talks to.                            *)
(*                                                                         *)
(* The kernel waits for the drive in two ways: ide_wait_irq() spins on the *)
(* flag ide_irq_invoked and clears it, ide_polling() spins on the status   *)
(* register.  irq_handler calls ide_irq() for every interrupt, so a timer  *)
(* tick or a key sets the flag as well, and between the last test of the   *)
(* flag and its clearing an interrupt can go unnoticed.                    *)
(*                                                                         *)
(* The drive is the environment.  It is busy from the moment it is given a *)
(* command or its data is taken (ide_polling reads the alternate status    *)
(* four times to be sure of that), and raises its interrupt line each time *)
(* it stops being busy; for the packet itself, it may or may not.          *)
(***************************************************************************)
EXTENDS Integers, Sequences

CONSTANTS
  Lbas,    \* sector numbers clients read from
  Counts   \* numsects

ASSUME AtapiAssumption == Lbas \subseteq Nat /\ Counts \subseteq Nat \ {0}

VARIABLES
  pc,               \* the next thing ide_atapi_read does; "idle" outside it
  lba, numsects,    \* its arguments
  i,                \* sectors received
  edi,              \* what was received, in order
  result,           \* the value returned last
  ide_irq_invoked,
  drive,            \* what the drive is doing
  packet,           \* the last atapi_packet the drive was sent
  served,           \* sectors of it whose data was taken
  irq               \* an interrupt of the drive the CPU has not taken yet

kernel == <<pc, lba, numsects, i, edi, result>>
device == <<drive, packet, served>>
vars == <<kernel, ide_irq_invoked, device, irq>>

Garbage == -1  \* what the data register yields when DRQ is clear: no sector

\* The status register, as far as the code looks at it.
BSY == drive \in {"accepting", "seeking", "ending"}
DRQ == drive \in {"awaits_packet", "has_data"}
ERR == drive = "failed"

Init ==
  /\ pc = "idle" /\ lba \in Lbas /\ numsects \in Counts
  /\ i = 0 /\ edi = <<>> /\ result = 0
  /\ ide_irq_invoked \in BOOLEAN  \* ticks before the first call set it
  /\ drive = "ready" /\ packet = <<>> /\ served = 0
  /\ irq = FALSE

-----------------------------------------------------------------------------
\* The kernel's thread.

\* (I): ide_irq_invoked = 0, set up the packet.
Begin(a, n) ==
  /\ pc = "idle"
  /\ lba' = a /\ numsects' = n /\ i' = 0 /\ edi' = <<>>
  /\ ide_irq_invoked' = FALSE
  /\ pc' = "command"
  /\ UNCHANGED <<result, device, irq>>

\* (II) to (VI): ATA_CMD_PACKET.
SendCommand ==
  /\ pc = "command"
  /\ drive' = "accepting"
  /\ pc' = "poll_for_packet"
  /\ UNCHANGED <<lba, numsects, i, edi, result, ide_irq_invoked, packet, served, irq>>

\* Variant: DRQ is not looked at.
PolledIgnoringDRQ == IF ERR THEN 2 ELSE 0

\* ide_polling(channel, 1): waits while BSY, then returns 2, 1, 3 or 0.  ERR
\* stands for a device fault, too.
Polled == IF ERR THEN 2 ELSE IF ~DRQ THEN 3 ELSE 0

\* Variant: does not wait while the drive is busy.
PollAtOnce(here, next) ==
  /\ pc = here
  /\ IF Polled # 0
     THEN result' = Polled /\ pc' = "idle"
     ELSE pc' = next /\ UNCHANGED result
  /\ UNCHANGED <<lba, numsects, i, edi, ide_irq_invoked, device, irq>>

Poll(here, next) ==
  /\ pc = here /\ ~BSY
  /\ IF Polled # 0
     THEN result' = Polled /\ pc' = "idle"
     ELSE pc' = next /\ UNCHANGED result
  /\ UNCHANGED <<lba, numsects, i, edi, ide_irq_invoked, device, irq>>

\* (VIII): the drive takes the packet and looks for the data.
SendPacket ==
  /\ pc = "send_packet"
  /\ packet' = <<lba, numsects>> /\ served' = 0 /\ drive' = "seeking"
  /\ pc' = "wait"
  /\ UNCHANGED <<lba, numsects, i, edi, result, ide_irq_invoked, irq>>

\* ide_wait_irq(), two steps: leave the loop, clear the flag.
SeeFlag ==
  /\ pc = "wait" /\ ide_irq_invoked
  /\ pc' = "clear"
  /\ UNCHANGED <<lba, numsects, i, edi, result, ide_irq_invoked, device, irq>>

ClearFlag ==
  /\ pc = "clear"
  /\ ide_irq_invoked' = FALSE
  /\ pc' = IF i < numsects THEN "poll_for_data" ELSE "drain"
  /\ UNCHANGED <<lba, numsects, i, edi, result, device, irq>>

\* rep insw: the drive goes on with the next sector or ends the command.
Receive ==
  /\ pc = "receive"
  /\ edi' = Append(edi, IF DRQ THEN packet[1] + served ELSE Garbage)
  /\ i' = i + 1
  /\ IF DRQ
     THEN /\ served' = served + 1
          /\ drive' = IF served + 1 = packet[2] THEN "ending" ELSE "seeking"
     ELSE UNCHANGED <<drive, served>>
  /\ pc' = "wait"
  /\ UNCHANGED <<lba, numsects, result, ide_irq_invoked, packet, irq>>

\* Variant: returns right after the last interrupt.
DrainNothing ==
  /\ pc = "drain"
  /\ result' = 0 /\ pc' = "idle"
  /\ UNCHANGED <<lba, numsects, i, edi, ide_irq_invoked, device, irq>>

\* (XI): while (status & (BSY | DRQ)).
Drain ==
  /\ pc = "drain" /\ ~BSY /\ ~DRQ
  /\ result' = 0 /\ pc' = "idle"
  /\ UNCHANGED <<lba, numsects, i, edi, ide_irq_invoked, device, irq>>

Kernel ==
  \/ SendCommand
  \/ Poll("poll_for_packet", "send_packet")
  \/ SendPacket
  \/ SeeFlag \/ ClearFlag
  \/ Poll("poll_for_data", "receive")
  \/ Receive
  \/ Drain

-----------------------------------------------------------------------------
\* The environment.

\* The drive finds an error, or has no data, instead of going on.
NextPhases ==
  CASE drive = "accepting" -> {"awaits_packet", "failed"}
    [] drive = "seeking"   -> {"has_data", "failed", "ready"}
    [] drive = "ending"    -> {"ready"}

Drive ==
  /\ BSY
  /\ \E phase \in NextPhases : drive' = phase
  /\ \/ irq' = TRUE
     \/ drive = "accepting" /\ UNCHANGED irq
  /\ UNCHANGED <<kernel, ide_irq_invoked, packet, served>>

\* Variant: irq_handler does not call ide_irq() for the drive's interrupt.
DriveInterruptUnseen ==
  /\ irq
  /\ irq' = FALSE
  /\ UNCHANGED <<kernel, ide_irq_invoked, device>>

\* Interrupts are enabled from irq_install on: irq_handler runs as soon as
\* the CPU takes the interrupt, and calls ide_irq() first.
DriveInterrupt ==
  /\ irq
  /\ irq' = FALSE /\ ide_irq_invoked' = TRUE
  /\ UNCHANGED <<kernel, device>>

\* A timer tick or a key.
OtherInterrupt ==
  /\ ide_irq_invoked' = TRUE
  /\ UNCHANGED <<kernel, device, irq>>

Next ==
  \/ \E a \in Lbas, n \in Counts : Begin(a, n)
  \/ Kernel \/ Drive \/ DriveInterrupt \/ OtherInterrupt

\* The thread runs on, a busy drive comes to an end, the CPU takes pending
\* interrupts.  Nothing is assumed of the timer or the keyboard.
Fairness == WF_vars(Kernel) /\ WF_vars(Drive) /\ WF_vars(DriveInterrupt)

Spec == Init /\ [][Next]_vars /\ Fairness

-----------------------------------------------------------------------------
Packets == {<<>>} \cup (Lbas \X Counts)

Phases == {"ready", "accepting", "awaits_packet", "seeking", "has_data", "ending", "failed"}

TypeOK ==
  /\ pc \in {"idle", "command", "poll_for_packet", "send_packet", "wait", "clear",
             "poll_for_data", "receive", "drain"}
  /\ lba \in Lbas /\ numsects \in Counts
  /\ i \in 0 .. numsects
  /\ edi \in Seq(Nat \cup {Garbage}) /\ Len(edi) = i
  /\ result \in {0, 2, 3}
  /\ ide_irq_invoked \in BOOLEAN /\ irq \in BOOLEAN
  /\ drive \in Phases
  /\ packet \in Packets /\ served \in Nat

\* However the interrupts fall, what has been received is a prefix of the
\* sectors asked for, in order, and data is read only while DRQ is set.
ReceivesTheSectors ==
  /\ edi = [k \in 1 .. i |-> lba + k - 1]
  /\ pc = "receive" => DRQ

\* The drive gets a command or a packet only when it expects one: a read
\* that returned, with or without an error, left the drive neither busy nor
\* with data to give, although a tick may have woken the last ide_wait_irq.
CommandsWhenExpected ==
  /\ pc \in {"idle", "command"} => ~BSY /\ ~DRQ
  /\ pc = "send_packet" => drive = "awaits_packet"

\* Where the kernel is in its read tells what the drive may be doing, and how
\* many sectors both count; only early wake-ups make it a set of phases.
PhasesAgree ==
  /\ pc \in {"idle", "command"} => drive \in {"ready", "failed"}
  /\ pc = "poll_for_packet" => drive \in {"accepting", "awaits_packet", "failed"}
  /\ pc \in {"command", "poll_for_packet", "send_packet"} => i = 0
  /\ pc \in {"wait", "clear", "poll_for_data", "receive", "drain"} =>
       /\ packet = <<lba, numsects>> /\ served = i
       /\ drive \in IF i < numsects THEN {"seeking", "has_data", "failed", "ready"}
                                    ELSE {"ending", "ready"}
  /\ pc \in {"poll_for_data", "receive"} => i < numsects
  /\ pc = "receive" => drive = "has_data"
  /\ pc = "drain" => i = numsects

\* Kernel and drive agree on where in a command they are.
IInv == TypeOK /\ CommandsWhenExpected /\ PhasesAgree

\* A read that returns an error was failed by the drive: an early wake-up
\* does not make ide_polling see a drive that is not done yet.
ErrorsAreTheDrives ==
  [][pc # "idle" /\ pc' = "idle" /\ result' # 0 =>
       \/ result' = 2 /\ drive = "failed"
       \/ result' = 3 /\ drive = "ready"]_vars

\* A read comes to an end even when the drive's own interrupts are the only
\* ones: the wake-ups ide_wait_irq can lose are never needed.
ReadsReturn == pc # "idle" ~> pc = "idle"
=============================================================================
