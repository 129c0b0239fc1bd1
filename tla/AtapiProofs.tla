---------------------------- MODULE AtapiProofs ----------------------------
(***************************************************************************)
(* Theorems about Atapi.tla, for every set of sectors and counts, and      *)
(* whatever the timer, the keyboard and the drive do.                      *)
(***************************************************************************)
EXTENDS Atapi, TLAPS

\* What ide_polling may return, and what it says of a drive that is not busy.
LEMMA PolledFact ==
  ASSUME TypeOK, ~BSY
  PROVE  /\ Polled \in {0, 2, 3}
         /\ Polled = 0 <=> drive \in {"awaits_packet", "has_data"}
         /\ Polled = 2 <=> drive = "failed"
         /\ Polled = 3 <=> drive = "ready"
<1>1. drive \in {"ready", "awaits_packet", "has_data", "failed"}
  BY DEF TypeOK, Phases, BSY
<1> QED
  BY <1>1 DEF DRQ, ERR, Polled

\* Appending the sector that comes next to those received.
LEMMA AppendNext ==
  ASSUME NEW a \in Nat, NEW n \in Nat
  PROVE  Append([k \in 1 .. n |-> a + k - 1], a + n) = [k \in 1 .. n + 1 |-> a + k - 1]
<1> DEFINE s == [k \in 1 .. n |-> a + k - 1]
           t == [k \in 1 .. n + 1 |-> a + k - 1]
<1>1. s \in Seq(Int) /\ Len(s) = n
  BY SMT
<1>2. t \in Seq(Int) /\ Len(t) = n + 1
  BY SMT
<1>3. Append(s, a + n) \in Seq(Int) /\ Len(Append(s, a + n)) = n + 1
  BY <1>1, SMT
<1>4. ASSUME NEW k \in 1 .. n + 1 PROVE Append(s, a + n)[k] = t[k]
  BY <1>1, SMT
<1> QED
  BY <1>2, <1>3, <1>4, SMT

\* Kernel and drive agree on where in a command they are, whenever the
\* interrupts of drive, timer and keyboard come.
LEMMA IInvInductive ==
  /\ Init => IInv
  /\ IInv /\ [Next]_vars => IInv'
<1>1. Init => IInv
  <2> SUFFICES ASSUME Init PROVE IInv
    OBVIOUS
  <2>1. TypeOK
    <3>1. edi \in Seq(Nat \cup {Garbage}) /\ Len(edi) = i /\ i \in 0 .. numsects
      BY AtapiAssumption DEF Init
    <3>2. packet \in Packets
      BY Zenon DEF Init, Packets
    <3> QED
      BY <3>1, <3>2, Zenon DEF Init, TypeOK, Phases
  <2>2. CommandsWhenExpected /\ PhasesAgree
    BY DEF Init, CommandsWhenExpected, PhasesAgree, BSY, DRQ
  <2> QED
    BY <2>1, <2>2 DEF IInv
<1>2. IInv /\ [Next]_vars => IInv'
  <2> SUFFICES ASSUME IInv, [Next]_vars PROVE IInv'
    OBVIOUS
  <2> USE AtapiAssumption DEF IInv, CommandsWhenExpected, PhasesAgree, kernel, device,
                              BSY, DRQ, Phases
  <2>1. ASSUME NEW a \in Lbas, NEW n \in Counts, Begin(a, n) PROVE IInv'
    <3>1. edi' \in Seq(Nat \cup {Garbage}) /\ Len(edi') = i' /\ i' \in 0 .. numsects'
      BY <2>1 DEF Begin
    <3>2. pc' = "command" /\ drive' = drive /\ pc = "idle"
      BY <2>1 DEF Begin
    <3> QED
      BY <2>1, <3>1, <3>2 DEF Begin, TypeOK
  <2>2. CASE SendCommand
    BY <2>2 DEF SendCommand, TypeOK
  <2>3. CASE Poll("poll_for_packet", "send_packet")
    BY <2>3, PolledFact DEF Poll, TypeOK
  <2>4. CASE SendPacket
    <3>1. packet' \in Packets
      BY <2>4 DEF SendPacket, TypeOK, Packets
    <3>2. TypeOK'
      BY <2>4, <3>1 DEF SendPacket, TypeOK
    <3>3. packet' = <<lba', numsects'>> /\ served' = i' /\ drive' = "seeking"
          /\ pc' = "wait" /\ i' = 0 /\ numsects' \in Nat \ {0}
      BY <2>4 DEF SendPacket, TypeOK
    <3> QED
      BY <3>2, <3>3
  <2>5. CASE SeeFlag
    BY <2>5 DEF SeeFlag, TypeOK
  <2>6. CASE ClearFlag
    <3>1. TypeOK /\ numsects \in Nat /\ i \in 0 .. numsects
      BY DEF TypeOK
    <3>2. CASE i < numsects
      BY <2>6, <3>1, <3>2 DEF ClearFlag, TypeOK
    <3>3. CASE i = numsects
      BY <2>6, <3>1, <3>3 DEF ClearFlag, TypeOK
    <3> QED
      BY <3>1, <3>2, <3>3
  <2>7. CASE Poll("poll_for_data", "receive")
    BY <2>7, PolledFact DEF Poll, TypeOK
  <2>8. CASE Receive
    <3>1. drive \in Phases /\ numsects \in Nat \ {0} /\ i \in Nat /\ i < numsects
          /\ packet[1] = lba /\ packet[2] = numsects /\ lba \in Nat /\ served = i
      BY <2>8 DEF Receive, TypeOK
    <3>2. edi' \in Seq(Nat \cup {Garbage}) /\ Len(edi') = i'
      <4> DEFINE new == IF DRQ THEN packet[1] + served ELSE Garbage
      <4>1. new \in Nat \cup {Garbage}
        BY <3>1
      <4>2. edi' = Append(edi, new) /\ i' = i + 1
        BY <2>8 DEF Receive
      <4> HIDE DEF new
      <4> QED
        BY <4>1, <4>2, <3>1 DEF TypeOK
    <3>3. /\ drive = "has_data" /\ served' = i' /\ i' = i + 1
          /\ drive' = IF i' = numsects' THEN "ending" ELSE "seeking"
          /\ pc' = "wait" /\ packet' = <<lba', numsects'>> /\ numsects' = numsects
      BY <2>8, <3>1 DEF Receive
    <3>4. TypeOK'
      BY <2>8, <3>1, <3>2, <3>3 DEF Receive, TypeOK
    <3> QED
      BY <3>1, <3>3, <3>4
  <2>9. CASE Drain
    BY <2>9 DEF Drain, TypeOK
  <2>10. CASE Drive
    <3>1. BSY /\ drive' \in NextPhases /\ irq' \in BOOLEAN
      BY <2>10 DEF Drive, TypeOK
    <3>2. \/ drive = "accepting" /\ drive' \in {"awaits_packet", "failed"}
          \/ drive = "seeking" /\ drive' \in {"has_data", "failed", "ready"}
          \/ drive = "ending" /\ drive' = "ready"
      BY <3>1 DEF NextPhases
    <3>3. UNCHANGED <<kernel, ide_irq_invoked, packet, served>>
      BY <2>10 DEF Drive
    <3>4. TypeOK'
      BY <3>1, <3>2, <3>3 DEF TypeOK
    <3> QED
      BY <3>2, <3>3, <3>4
  <2>11. CASE DriveInterrupt
    BY <2>11 DEF DriveInterrupt, TypeOK
  <2>12. CASE OtherInterrupt
    BY <2>12 DEF OtherInterrupt, TypeOK
  <2>13. CASE UNCHANGED vars
    BY <2>13 DEF vars, TypeOK
  <2> QED
    BY <2>1, <2>2, <2>3, <2>4, <2>5, <2>6, <2>7, <2>8, <2>9, <2>10, <2>11, <2>12, <2>13
       DEF Next, Kernel
<1> QED
  BY <1>1, <1>2

\* Kernel and drive agree on where in a command they are, whatever interrupts
\* wake the kernel: neither busy nor with data left when a command is sent.
THEOREM KernelAndDriveAgree == Spec => []IInv
BY IInvInductive, PTL DEF Spec

\* What has been received is a prefix of the sectors asked for, in order, and
\* data is read only while DRQ is set, however the interrupts fall.
THEOREM ReceivesTheSectorsInOrder == Spec => []ReceivesTheSectors
<1>1. Init => ReceivesTheSectors
  BY DEF Init, ReceivesTheSectors
<1>2. IInv /\ IInv' /\ ReceivesTheSectors /\ [Next]_vars => ReceivesTheSectors'
  <2> SUFFICES ASSUME IInv, IInv', ReceivesTheSectors, [Next]_vars
               PROVE  ReceivesTheSectors'
    OBVIOUS
  <2>1. (pc = "receive" => DRQ)'
    BY DEF IInv, PhasesAgree, DRQ
  <2>2. CASE Receive
    <3>1. /\ drive = "has_data" /\ packet[1] = lba /\ served = i
          /\ lba \in Nat /\ i \in Nat
      BY <2>2, AtapiAssumption DEF Receive, IInv, PhasesAgree, TypeOK
    <3>2. edi' = Append(edi, lba + i) /\ i' = i + 1 /\ lba' = lba
      BY <2>2, <3>1 DEF Receive, DRQ
    <3>3. edi = [k \in 1 .. i |-> lba + k - 1]
      BY DEF ReceivesTheSectors
    <3>4. edi' = [k \in 1 .. i + 1 |-> lba + k - 1]
      BY <3>1, <3>2, <3>3, AppendNext
    <3> QED
      BY <2>1, <3>2, <3>4 DEF ReceivesTheSectors
  <2>3. ASSUME NEW a \in Lbas, NEW n \in Counts, Begin(a, n)
        PROVE  ReceivesTheSectors'
    BY <2>1, <2>3 DEF Begin, ReceivesTheSectors
  <2>4. CASE UNCHANGED <<edi, i, lba>>
    BY <2>1, <2>4 DEF ReceivesTheSectors
  <2> QED
    BY <2>2, <2>3, <2>4 DEF Next, Kernel, SendCommand, Poll, SendPacket, SeeFlag,
       ClearFlag, Drain, Drive, DriveInterrupt, OtherInterrupt, kernel, vars
<1> QED
  BY <1>1, <1>2, KernelAndDriveAgree, PTL DEF Spec

\* A read that returns an error was failed by the drive: an early wake-up does
\* not make ide_polling see a drive that is not done yet.
THEOREM OnlyTheDriveFails == Spec => ErrorsAreTheDrives
<1>1. IInv /\ [Next]_vars =>
        [pc # "idle" /\ pc' = "idle" /\ result' # 0 =>
           \/ result' = 2 /\ drive = "failed"
           \/ result' = 3 /\ drive = "ready"]_vars
  <2> SUFFICES ASSUME IInv, Next, pc # "idle", pc' = "idle", result' # 0
               PROVE  \/ result' = 2 /\ drive = "failed"
                      \/ result' = 3 /\ drive = "ready"
    OBVIOUS
  <2>1. ASSUME NEW here, NEW next \in {"send_packet", "receive"}, Poll(here, next)
        PROVE  \/ result' = 2 /\ drive = "failed"
               \/ result' = 3 /\ drive = "ready"
    BY <2>1, PolledFact DEF IInv, Poll
  <2>2. ~Drain
    BY DEF Drain
  <2> QED
    BY <2>1, <2>2 DEF Next, Kernel, Begin, SendCommand, SendPacket, SeeFlag, ClearFlag,
       Receive, Drive, DriveInterrupt, OtherInterrupt, kernel
<1> QED
  BY <1>1, KernelAndDriveAgree, PTL DEF Spec, ErrorsAreTheDrives
=============================================================================
