-------------------------- MODULE InterruptsProofs --------------------------
(***************************************************************************)
(* Theorems about Interrupts.tla, for every set of lines and exceptions    *)
(* and every width of the counter.                                         *)
(***************************************************************************)
EXTENDS Interrupts, SequenceTheorems, TLAPS

\* A sequence that starts with s and goes on with t is their concatenation.
LEMMA Pieces ==
  ASSUME NEW S, NEW s \in Seq(S), NEW t \in Seq(S), NEW u \in Seq(S),
         Len(u) = Len(s) + Len(t),
         \A k \in 1 .. Len(s) : u[k] = s[k],
         \A k \in 1 .. Len(t) : u[Len(s) + k] = t[k]
  PROVE  s \o t = u
<1>1. /\ s \o t \in Seq(S) /\ Len(s \o t) = Len(s) + Len(t)
      /\ Len(s) \in Nat /\ Len(t) \in Nat
      /\ \A k \in 1 .. Len(s) + Len(t) :
           (s \o t)[k] = IF k <= Len(s) THEN s[k] ELSE t[k - Len(s)]
  BY ConcatProperties, LenProperties
<1>2. ASSUME NEW k \in 1 .. Len(s \o t) PROVE (s \o t)[k] = u[k]
  <2>1. CASE k <= Len(s)
    BY <1>1, <2>1
  <2>2. CASE k > Len(s)
    <3> DEFINE j == k - Len(s)
    <3>1. j \in 1 .. Len(t) /\ k = Len(s) + j
      BY <1>1, <2>2
    <3>2. u[k] = t[j]
      BY <3>1
    <3> QED
      BY <1>1, <2>2, <3>2
  <2> QED
    BY <1>1, <2>1, <2>2
<1> QED
  BY <1>1, <1>2, SeqEqual

\* The pieces of a registers_t, put together.
LEMMA FramePieces ==
  ASSUME NEW S, NEW a \in S, NEW b \in S, NEW c \in S, NEW d \in S,
         NEW e \in S, NEW f \in S, NEW g \in S
  PROVE  /\ <<a, b, c>> \o <<d, e, f, g>> = <<a, b, c, d, e, f, g>>
         /\ <<a, b, c, d>> \o <<e, f, g>> = <<a, b, c, d, e, f, g>>
         /\ <<a, b, c>> \o <<d>> = <<a, b, c, d>>
         /\ <<d>> \o <<e, f, g>> = <<d, e, f, g>>
         /\ <<a, b, c>> \o <<>> = <<a, b, c>>
         /\ <<>> \o <<e, f, g>> = <<e, f, g>>
         /\ <<a, b, c, d, e, f, g>> \o <<>> = <<a, b, c, d, e, f, g>>
<1>1. <<a, b, c>> \o <<d, e, f, g>> = <<a, b, c, d, e, f, g>>
  <2> DEFINE s == <<a, b, c>>
             t == <<d, e, f, g>>
             u == <<a, b, c, d, e, f, g>>
  <2>1. s \in Seq(S) /\ t \in Seq(S) /\ u \in Seq(S) /\ Len(u) = Len(s) + Len(t)
    OBVIOUS
  <2>2. \A k \in 1 .. Len(s) : u[k] = s[k]
    OBVIOUS
  <2>3. \A k \in 1 .. Len(t) : u[Len(s) + k] = t[k]
    OBVIOUS
  <2>4. s \o t = u
    <3> HIDE DEF s, t, u
    <3> QED
      BY <2>1, <2>2, <2>3, Pieces
  <2> QED
    BY <2>4
<1>2. <<a, b, c, d>> \o <<e, f, g>> = <<a, b, c, d, e, f, g>>
  <2> DEFINE s == <<a, b, c, d>>
             t == <<e, f, g>>
             u == <<a, b, c, d, e, f, g>>
  <2>1. s \in Seq(S) /\ t \in Seq(S) /\ u \in Seq(S) /\ Len(u) = Len(s) + Len(t)
    OBVIOUS
  <2>2. \A k \in 1 .. Len(s) : u[k] = s[k]
    OBVIOUS
  <2>3. \A k \in 1 .. Len(t) : u[Len(s) + k] = t[k]
    OBVIOUS
  <2>4. s \o t = u
    <3> HIDE DEF s, t, u
    <3> QED
      BY <2>1, <2>2, <2>3, Pieces
  <2> QED
    BY <2>4
<1>3. <<a, b, c>> \o <<d>> = <<a, b, c, d>>
  <2> DEFINE s == <<a, b, c>>
             t == <<d>>
             u == <<a, b, c, d>>
  <2>1. s \in Seq(S) /\ t \in Seq(S) /\ u \in Seq(S) /\ Len(u) = Len(s) + Len(t)
    OBVIOUS
  <2>2. \A k \in 1 .. Len(s) : u[k] = s[k]
    OBVIOUS
  <2>3. \A k \in 1 .. Len(t) : u[Len(s) + k] = t[k]
    OBVIOUS
  <2>4. s \o t = u
    <3> HIDE DEF s, t, u
    <3> QED
      BY <2>1, <2>2, <2>3, Pieces
  <2> QED
    BY <2>4
<1>4. <<d>> \o <<e, f, g>> = <<d, e, f, g>>
  <2> DEFINE s == <<d>>
             t == <<e, f, g>>
             u == <<d, e, f, g>>
  <2>1. s \in Seq(S) /\ t \in Seq(S) /\ u \in Seq(S) /\ Len(u) = Len(s) + Len(t)
    OBVIOUS
  <2>2. \A k \in 1 .. Len(s) : u[k] = s[k]
    OBVIOUS
  <2>3. \A k \in 1 .. Len(t) : u[Len(s) + k] = t[k]
    OBVIOUS
  <2>4. s \o t = u
    <3> HIDE DEF s, t, u
    <3> QED
      BY <2>1, <2>2, <2>3, Pieces
  <2> QED
    BY <2>4
<1>5. <<a, b, c>> \in Seq(S) /\ <<e, f, g>> \in Seq(S) /\ <<a, b, c, d, e, f, g>> \in Seq(S)
  OBVIOUS
<1>6. \A s \in Seq(S) : s \o <<>> = s /\ <<>> \o s = s
  BY ConcatEmptySeq
<1> QED
  BY <1>1, <1>2, <1>3, <1>4, <1>5, <1>6, Zenon

\* Whatever the vector, the CPU and the stub push one registers_t together.
LEMMA PushesOneFrame ==
  ASSUME NEW v \in 0 .. 47, v \notin {17, 21, 29, 30}
  PROVE  \E code \in {"code", "dummy"} :
           StubPushes(v) \o CpuPushes(v) \o <<>> =
             <<"ds", general, v, code, eip, "cs", IFlag>>
<1> DEFINE S == {"ds", general, v, "code", "dummy", eip, "cs", IFlag}
<1>1. /\ "ds" \in S /\ general \in S /\ v \in S /\ "code" \in S /\ "dummy" \in S
      /\ eip \in S /\ "cs" \in S /\ IFlag \in S
  BY Zenon
<1> DEFINE Frame(d) == <<"ds", general, v, d, eip, "cs", IFlag>>
<1>2. ASSUME NEW d \in S
      PROVE  /\ <<"ds", general, v>> \o <<>> = <<"ds", general, v>>
             /\ <<d>> \o <<eip, "cs", IFlag>> = <<d, eip, "cs", IFlag>>
             /\ <<"ds", general, v>> \o <<d, eip, "cs", IFlag>> = Frame(d)
             /\ <<"ds", general, v>> \o <<d>> = <<"ds", general, v, d>>
             /\ <<>> \o <<eip, "cs", IFlag>> = <<eip, "cs", IFlag>>
             /\ <<"ds", general, v, d>> \o <<eip, "cs", IFlag>> = Frame(d)
             /\ Frame(d) \o <<>> = Frame(d)
  <2> HIDE DEF S
  <2> QED
    BY <1>1, <1>2, FramePieces
<1> HIDE DEF S
<1>3. CASE v \in NoDummy
  <2>1. v \in PushesCode
    BY <1>3 DEF NoDummy, PushesCode
  <2>2. /\ StubPushes(v) = <<"ds", general, v>> \o <<>>
        /\ CpuPushes(v) = <<"code">> \o <<eip, "cs", IFlag>>
    BY <1>3, <2>1, Zenon DEF StubPushes, CpuPushes
  <2>3. StubPushes(v) \o CpuPushes(v) \o <<>> = Frame("code")
    BY <1>1, <1>2, <2>2, Zenon
  <2> QED
    BY <2>3, Zenon
<1>4. CASE v \notin NoDummy
  <2>1. v \notin PushesCode
    BY <1>4 DEF NoDummy, PushesCode
  <2>2. /\ StubPushes(v) = <<"ds", general, v>> \o <<"dummy">>
        /\ CpuPushes(v) = <<>> \o <<eip, "cs", IFlag>>
    BY <1>4, <2>1, Zenon DEF StubPushes, CpuPushes
  <2>3. StubPushes(v) \o CpuPushes(v) \o <<>> = Frame("dummy")
    BY <1>1, <1>2, <2>2, Zenon
  <2> QED
    BY <2>3, Zenon
<1> QED
  BY <1>3, <1>4

-----------------------------------------------------------------------------
\* The part of IInv that is inductive by itself; the rest follows from it.
Core == TypeOK /\ OneFrame /\ InService

Labels == ThreadLabels \cup {"irq_handler", "eoi_master", "handler", "iret",
                              "isr_handler", "halt"}

\* Acknowledged, NoNesting and FrameMatches say less than OneFrame and InService.
LEMMA CoreImpliesIInv == Core => IInv
<1> SUFFICES ASSUME Core PROVE IInv
  OBVIOUS
<1>1. CASE eip \in ThreadLabels
  <2>1. stack = <<>>
    BY <1>1 DEF Core, OneFrame
  <2>2. master = {} /\ slave = {}
    BY <1>1 DEF Core, InService, ThreadLabels
  <2> QED
    BY <2>1, <2>2 DEF Core, IInv, Acknowledged, NoNesting, FrameMatches, FrameSize
<1>2. CASE eip \notin ThreadLabels
  <2>1. PICK code \in {"code", "dummy"}, eflags \in BOOLEAN :
          stack = <<"ds", interrupted.general, interrupted.vector, code,
                    interrupted.eip, "cs", eflags>>
    BY <1>2 DEF Core, OneFrame
  <2>2. stack # <<>> /\ Len(stack) = 7 /\ stack[3] = interrupted.vector
        /\ stack[5] = interrupted.eip /\ stack[6] = "cs"
    BY <2>1
  <2> QED
    BY <2>2 DEF Core, IInv, Acknowledged, NoNesting, FrameMatches, FrameSize, int_no
<1> QED
  BY <1>1, <1>2

\* What the vectors and the lines are.
LEMMA LineFacts ==
  ASSUME NEW line \in Lines
  PROVE  /\ line \in 0 .. 15 /\ line \notin {2, 7}
         /\ IRQ(line) \in 32 .. 47 /\ IRQ(line) # IRQ(7) /\ IRQ(line) - IRQ(0) = line
         /\ IRQ(line) >= IRQ(8) <=> line >= 8
         /\ OnMaster(line) \in 0 .. 7
BY InterruptsAssumption DEF IRQ, OnMaster

\* Where the thread is, interrupts on or off, nothing is in service.
LEMMA ThreadFacts ==
  ASSUME Core, eip \in ThreadLabels
  PROVE  stack = <<>> /\ master = {} /\ slave = {}
BY DEF Core, OneFrame, InService, ThreadLabels

\* Only the thread is interrupted, and not before sti.
LEMMA InterruptsOn == Core /\ IFlag => eip \in ThreadLabels \ {"isr_install", "sti"}
BY DEF Core, OneFrame

\* An interrupt or exception of the thread puts one registers_t on the stack
\* and leaves interrupts off.
LEMMA EnterFacts ==
  ASSUME Core, NEW v \in 0 .. 47, v \notin {17, 21, 29, 30}, eip \in ThreadLabels,
         NEW handler \in {"irq_handler", "isr_handler"}, Enter(v, handler),
         handler = "irq_handler" => IFlag /\ v >= 32
  PROVE  /\ OneFrame'
         /\ eip' = handler /\ interrupted'.vector = v
         /\ eip' \in Labels /\ IFlag' \in BOOLEAN /\ general' \in Values
         /\ interrupted' \in [vector : 0 .. 47, eip : ThreadLabels, general : Values]
<1>1. /\ eip' = handler /\ IFlag' = FALSE /\ general' = "clobbered"
      /\ interrupted' = [vector |-> v, eip |-> eip, general |-> general]
  BY DEF Enter, Gate
<1>2. general \in Values
  BY DEF Core, TypeOK
<1>3. interrupted'.vector = v /\ interrupted'.eip = eip /\ interrupted'.general = general
  BY <1>1
<1>4. PICK code \in {"code", "dummy"} :
        stack' = <<"ds", general, v, code, eip, "cs", IFlag>>
  BY PushesOneFrame, ThreadFacts DEF Enter
<1>5. IFlag <=> eip \notin {"isr_install", "sti"}
  BY DEF Core, OneFrame
<1>6. IFlag \in BOOLEAN
  BY DEF Core, TypeOK
<1>7. eip' \notin ThreadLabels
  BY <1>1 DEF ThreadLabels
<1>8. OneFrame'
  <2>1. /\ stack' = <<"ds", interrupted'.general, interrupted'.vector, code,
                      interrupted'.eip, "cs", IFlag>>
        /\ IFlag <=> interrupted'.eip \notin {"isr_install", "sti"}
        /\ eip' \notin {"isr_handler", "halt"} => IFlag /\ interrupted'.vector >= 32
    BY <1>1, <1>3, <1>4, <1>5
  <2>2. \E c \in {"code", "dummy"}, eflags \in BOOLEAN :
          /\ stack' = <<"ds", interrupted'.general, interrupted'.vector, c,
                        interrupted'.eip, "cs", eflags>>
          /\ eflags <=> interrupted'.eip \notin {"isr_install", "sti"}
          /\ eip' \notin {"isr_handler", "halt"} => eflags /\ interrupted'.vector >= 32
    BY <1>6, <2>1, Zenon
  <2> QED
    BY <1>1, <1>7, <2>2, Zenon DEF OneFrame
<1> QED
  BY <1>1, <1>2, <1>3, <1>8 DEF Labels, Values

\* The nonspecific end of interrupt ends the only one in service.
LEMMA AcknowledgeOne ==
  /\ \A n \in Int : Acknowledge({n}) = {}
  /\ Acknowledge({}) = {}
<1>1. ASSUME NEW n \in Int PROVE Acknowledge({n}) = {}
  <2>1. Min({n}) = n
    BY DEF Min
  <2> QED
    BY <2>1 DEF Acknowledge
<1> QED
  BY <1>1 DEF Acknowledge

\* The registers_t a handler finds.
LEMMA FrameFacts ==
  ASSUME Core, eip \in {"irq_handler", "eoi_master", "handler", "iret"}
  PROVE  /\ Len(stack) = 7 /\ stack[2] = interrupted.general
         /\ int_no = interrupted.vector /\ interrupted.vector \in 32 .. 47
         /\ stack[5] = interrupted.eip /\ stack[7] = TRUE
         /\ interrupted.eip \in ThreadLabels \ {"isr_install", "sti"}
         /\ interrupted.general \in Values
<1>1. PICK code \in {"code", "dummy"}, eflags \in BOOLEAN :
        /\ stack = <<"ds", interrupted.general, interrupted.vector, code,
                     interrupted.eip, "cs", eflags>>
        /\ eflags <=> interrupted.eip \notin {"isr_install", "sti"}
        /\ eflags /\ interrupted.vector >= 32
  BY DEF Core, OneFrame, ThreadLabels
<1>2. eflags = TRUE
  BY <1>1
<1>3. /\ interrupted.vector \in 0 .. 47 /\ interrupted.eip \in ThreadLabels
      /\ interrupted.general \in Values
  BY DEF Core, TypeOK
<1> QED
  BY <1>1, <1>2, <1>3 DEF int_no

\* A step inside a handler that leaves the frame alone.
LEMMA SameFrame ==
  ASSUME Core, eip \notin ThreadLabels, eip' \notin ThreadLabels,
         UNCHANGED <<IFlag, stack, interrupted>>,
         eip' \notin {"isr_handler", "halt"} => eip \notin {"isr_handler", "halt"}
  PROVE  OneFrame'
<1>1. PICK code \in {"code", "dummy"}, eflags \in BOOLEAN :
        /\ stack = <<"ds", interrupted.general, interrupted.vector, code,
                     interrupted.eip, "cs", eflags>>
        /\ eflags <=> interrupted.eip \notin {"isr_install", "sti"}
        /\ eip \notin {"isr_handler", "halt"} => eflags /\ interrupted.vector >= 32
  BY DEF Core, OneFrame
<1>2. /\ stack' = <<"ds", interrupted'.general, interrupted'.vector, code,
                    interrupted'.eip, "cs", eflags>>
      /\ eflags <=> interrupted'.eip \notin {"isr_install", "sti"}
      /\ eip' \notin {"isr_handler", "halt"} => eflags /\ interrupted'.vector >= 32
  BY <1>1
<1>3. ~IFlag'
  BY DEF Core, OneFrame
<1> QED
  BY <1>2, <1>3, Zenon DEF OneFrame

\* Every step of CPU, PICs, handlers and thread keeps the frame and the lines
\* in service in step with eip.
LEMMA CoreInductive ==
  /\ Init => Core
  /\ Core /\ [Next]_vars => Core'
<1>1. Init => Core
  <2> SUFFICES ASSUME Init PROVE Core
    OBVIOUS
  <2>1. TypeOK
    <3>1. /\ eip \in ThreadLabels /\ IFlag \in BOOLEAN /\ general \in Values
          /\ requested \subseteq Lines /\ master \subseteq 0 .. 7 /\ slave \subseteq 8 .. 15
          /\ scancode \in BOOLEAN
      BY DEF Init, ThreadLabels, Values
    <3>2. {tick, starting_tick} \subseteq 0 .. Ticks - 1
      BY InterruptsAssumption DEF Init
    <3>3. handlers \in [32 .. 47 -> {"none", "timer_callback", "keyboard_callback"}]
      BY DEF Init
    <3>4. interrupted \in [vector : 0 .. 47, eip : ThreadLabels, general : Values]
      BY DEF Init, ThreadLabels, Values
    <3> QED
      BY <3>1, <3>2, <3>3, <3>4 DEF TypeOK
  <2>2. OneFrame /\ InService
    BY DEF Init, OneFrame, InService, ThreadLabels
  <2> QED
    BY <2>1, <2>2 DEF Core
<1>2. Core /\ [Next]_vars => Core'
  <2> SUFFICES ASSUME Core, [Next]_vars PROVE Core'
    OBVIOUS
  <2> USE DEF pics, data
  <2>1. ASSUME NEW line \in Lines, Take(line) PROVE Core'
    <3>1. /\ IFlag /\ Enter(IRQ(line), "irq_handler")
          /\ requested' = requested \ {line}
          /\ master' = master \cup {OnMaster(line)}
          /\ slave' = (IF line >= 8 THEN slave \cup {line} ELSE slave)
          /\ UNCHANGED data
      BY <2>1 DEF Take
    <3>2. eip \in ThreadLabels /\ master = {} /\ slave = {}
      BY <3>1, InterruptsOn, ThreadFacts
    <3>3. /\ IRQ(line) \in 32 .. 47 /\ IRQ(line) \notin {17, 21, 29, 30}
      BY LineFacts
    <3>4. /\ OneFrame' /\ eip' = "irq_handler" /\ interrupted'.vector = IRQ(line)
          /\ eip' \in Labels /\ IFlag' \in BOOLEAN /\ general' \in Values
          /\ interrupted' \in [vector : 0 .. 47, eip : ThreadLabels, general : Values]
      BY <3>1, <3>2, <3>3, EnterFacts
    <3>5. TypeOK'
      BY <3>1, <3>2, <3>4, LineFacts DEF TypeOK, Core, Labels
    <3>6. InService'
      BY <3>1, <3>2, <3>4, LineFacts DEF InService
    <3> QED
      BY <3>4, <3>5, <3>6 DEF Core
  <2>2. CASE Spurious
    <3>1. IFlag /\ Enter(IRQ(7), "irq_handler") /\ UNCHANGED <<pics, data>>
      BY <2>2 DEF Spurious
    <3>2. eip \in ThreadLabels /\ master = {} /\ slave = {}
      BY <3>1, InterruptsOn, ThreadFacts
    <3>3. IRQ(7) = 39
      BY DEF IRQ
    <3>4. /\ OneFrame' /\ eip' = "irq_handler" /\ interrupted'.vector = IRQ(7)
          /\ eip' \in Labels /\ IFlag' \in BOOLEAN /\ general' \in Values
          /\ interrupted' \in [vector : 0 .. 47, eip : ThreadLabels, general : Values]
      BY <3>1, <3>2, <3>3, EnterFacts
    <3>5. TypeOK'
      BY <3>1, <3>4 DEF TypeOK, Core, Labels
    <3>6. InService'
      BY <3>1, <3>2, <3>3, <3>4 DEF InService, IRQ
    <3> QED
      BY <3>4, <3>5, <3>6 DEF Core
  <2>3. ASSUME NEW v \in Faults, Fault(v) PROVE Core'
    <3>1. /\ eip \in ThreadLabels /\ Enter(v, "isr_handler") /\ UNCHANGED <<pics, data>>
      BY <2>3 DEF Fault, ThreadLabels
    <3>2. master = {} /\ slave = {}
      BY <3>1, ThreadFacts
    <3>3. v \in 0 .. 47 /\ v \notin {17, 21, 29, 30}
      BY InterruptsAssumption
    <3>4. /\ OneFrame' /\ eip' = "isr_handler"
          /\ eip' \in Labels /\ IFlag' \in BOOLEAN /\ general' \in Values
          /\ interrupted' \in [vector : 0 .. 47, eip : ThreadLabels, general : Values]
      BY <3>1, <3>3, EnterFacts
    <3>5. TypeOK'
      BY <3>1, <3>4 DEF TypeOK, Core, Labels
    <3>6. InService'
      BY <3>1, <3>2, <3>4 DEF InService
    <3> QED
      BY <3>4, <3>5, <3>6 DEF Core
  <2>4. CASE EoiSlave
    <3>1. /\ eip = "irq_handler" /\ eip' = "eoi_master"
          /\ slave' = (IF FromSlave THEN Acknowledge(slave) ELSE slave)
          /\ UNCHANGED <<IFlag, general, stack, interrupted, requested, master, data>>
      BY <2>4 DEF EoiSlave
    <3>2. slave' = {}
      <4>1. int_no = interrupted.vector /\ interrupted.vector \in 32 .. 47
        BY <3>1, FrameFacts
      <4>2. FromSlave <=> interrupted.vector >= IRQ(8)
        BY <4>1 DEF FromSlave, IRQ
      <4>3. slave = IF interrupted.vector >= IRQ(8)
                    THEN {interrupted.vector - IRQ(0)} ELSE {}
        BY <3>1 DEF Core, InService
      <4>4. interrupted.vector - IRQ(0) \in Int
        BY <4>1 DEF IRQ
      <4> QED
        BY <3>1, <4>2, <4>3, <4>4, AcknowledgeOne
    <3>3. OneFrame'
      BY <3>1, SameFrame DEF ThreadLabels
    <3>4. TypeOK'
      BY <3>1, <3>2 DEF TypeOK, Core
    <3>5. InService'
      BY <3>1, <3>2 DEF InService, Core
    <3> QED
      BY <3>3, <3>4, <3>5 DEF Core
  <2>5. CASE EoiMaster
    <3>1. /\ eip = "eoi_master" /\ eip' = "handler"
          /\ master' = Acknowledge(master)
          /\ UNCHANGED <<IFlag, general, stack, interrupted, requested, slave, data>>
      BY <2>5 DEF EoiMaster
    <3>2. master' = {} /\ slave' = {}
      <4>1. interrupted.vector \in 32 .. 47
        BY <3>1, FrameFacts
      <4>2. OnMaster(interrupted.vector - IRQ(0)) \in Int
        BY <4>1 DEF OnMaster, IRQ
      <4>3. /\ slave = {}
            /\ master = IF interrupted.vector # IRQ(7)
                        THEN {OnMaster(interrupted.vector - IRQ(0))} ELSE {}
        BY <3>1 DEF Core, InService
      <4> QED
        BY <3>1, <4>2, <4>3, AcknowledgeOne
    <3>3. OneFrame'
      BY <3>1, SameFrame DEF ThreadLabels
    <3>4. TypeOK'
      BY <3>1, <3>2 DEF TypeOK, Core
    <3>5. InService'
      BY <3>1, <3>2 DEF InService
    <3> QED
      BY <3>3, <3>4, <3>5 DEF Core
  <2>6. CASE Handler
    <3>1. /\ eip = "handler" /\ eip' = "iret"
          /\ UNCHANGED <<IFlag, general, stack, interrupted, pics, handlers, starting_tick>>
      BY <2>6 DEF Handler
    <3>2. tick' \in 0 .. Ticks - 1 /\ scancode' \in BOOLEAN
      <4>1. \A n \in Nat : (n + 1) % Ticks \in 0 .. Ticks - 1
        BY InterruptsAssumption, Z3
      <4>2. tick \in Nat /\ tick \in 0 .. Ticks - 1 /\ scancode \in BOOLEAN
        BY InterruptsAssumption DEF TypeOK, Core
      <4>3. tick' \in {(tick + 1) % Ticks, tick} /\ scancode' \in {FALSE, scancode}
        BY <2>6, Zenon DEF Handler
      <4> QED
        BY <4>1, <4>2, <4>3
    <3>3. OneFrame'
      BY <3>1, SameFrame DEF ThreadLabels
    <3>4. TypeOK'
      BY <3>1, <3>2 DEF TypeOK, Core
    <3>5. InService'
      BY <3>1 DEF InService, Core
    <3> QED
      BY <3>3, <3>4, <3>5 DEF Core
  <2>7. CASE Return
    <3>1. /\ eip = "iret" /\ general' = stack[2] /\ eip' = stack[5] /\ IFlag' = stack[7]
          /\ stack' = SubSeq(stack, FrameSize + 1, Len(stack))
          /\ UNCHANGED <<interrupted, pics, data>>
      BY <2>7 DEF Return
    <3>2. /\ Len(stack) = 7 /\ general' = interrupted.general /\ eip' = interrupted.eip
          /\ IFlag' = TRUE /\ interrupted.general \in Values
          /\ interrupted.eip \in ThreadLabels \ {"isr_install", "sti"}
      BY <3>1, FrameFacts
    <3>3. stack' = <<>>
      BY <3>1, <3>2, SubSeqEmpty DEF FrameSize
    <3>4. master = {} /\ slave = {}
      BY <3>1 DEF Core, InService
    <3>5. OneFrame'
      BY <3>2, <3>3 DEF OneFrame
    <3>6. TypeOK'
      BY <3>1, <3>2 DEF TypeOK, Core
    <3>7. InService'
      BY <3>1, <3>2, <3>4 DEF InService, ThreadLabels
    <3> QED
      BY <3>5, <3>6, <3>7 DEF Core
  <2>8. CASE IsrHandler
    <3>1. /\ eip = "isr_handler" /\ eip' = "halt"
          /\ UNCHANGED <<IFlag, general, stack, interrupted, pics, data>>
      BY <2>8 DEF IsrHandler
    <3>2. OneFrame'
      BY <3>1, SameFrame DEF ThreadLabels
    <3>3. TypeOK'
      BY <3>1 DEF TypeOK, Core
    <3>4. InService'
      BY <3>1 DEF InService, Core
    <3> QED
      BY <3>2, <3>3, <3>4 DEF Core
  <2>9. CASE Setup \/ Run \/ Sleep \/ Wake
    <3>1. /\ eip \in ThreadLabels /\ eip' \in ThreadLabels
          /\ UNCHANGED <<stack, interrupted, master, slave>>
          /\ IFlag' <=> eip' \notin {"isr_install", "sti"}
      BY <2>9 DEF Setup, IsrInstall, Sti, InitTimer, InitKeyboard, Run, Sleep, Wake, Thread,
                  ThreadLabels, Core, OneFrame
    <3>2. stack = <<>> /\ master = {} /\ slave = {}
      BY <3>1, ThreadFacts
    <3>3. OneFrame' /\ InService'
      BY <3>1, <3>2 DEF OneFrame, InService, ThreadLabels
    <3>4. IFlag' \in BOOLEAN /\ general' \in Values /\ requested' \subseteq Lines
      BY <2>9 DEF Setup, IsrInstall, Sti, InitTimer, InitKeyboard, Run, Sleep, Wake, Core,
                  TypeOK, Values
    <3>5. /\ handlers' \in [32 .. 47 -> {"none", "timer_callback", "keyboard_callback"}]
          /\ {tick', starting_tick'} \subseteq 0 .. Ticks - 1 /\ scancode' \in BOOLEAN
      BY <2>9 DEF Setup, IsrInstall, Sti, InitTimer, InitKeyboard, Run, Sleep, Wake, Core,
                  TypeOK, register_interrupt_handler
    <3>6. TypeOK'
      BY <3>1, <3>4, <3>5 DEF TypeOK, Core
    <3> QED
      BY <3>3, <3>6 DEF Core
  <2>10. ASSUME NEW line \in Lines \ {Keyboard}, Raise(line) PROVE Core'
    BY <2>10 DEF Raise, Core, TypeOK, OneFrame, InService, cpu
  <2>11. CASE Key
    BY <2>11, InterruptsAssumption DEF Key, Core, TypeOK, OneFrame, InService, cpu
  <2>12. CASE UNCHANGED vars
    BY <2>12 DEF vars, Core, TypeOK, OneFrame, InService, cpu
  <2> QED
    BY <2>1, <2>2, <2>3, <2>4, <2>5, <2>6, <2>7, <2>8, <2>9, <2>10, <2>11, <2>12
       DEF Next, InHandler, Halted
<1> QED
  BY <1>1, <1>2

\* Core holds in every reachable state.
LEMMA CoreHolds == Spec => []Core
BY CoreInductive, PTL DEF Spec

\* Stack, interrupt flag and PICs agree in every state: handlers do not nest,
\* registers_t is where its users look for it, and no line stays in service.
THEOREM HandlersLeaveNothingBehind == Spec => []IInv
BY CoreHolds, CoreImpliesIInv, PTL

\* Whatever interrupts it, the thread goes on where it was, with its registers
\* and with interrupts on.
THEOREM InterruptsAreTransparent == Spec => Transparent
<1>1. Core /\ [Next]_vars =>
        [stack # <<>> /\ stack' = <<>> =>
           eip' = interrupted.eip /\ general' = interrupted.general /\ IFlag']_vars
  <2> SUFFICES ASSUME Core, Next, stack # <<>>, stack' = <<>>
               PROVE  eip' = interrupted.eip /\ general' = interrupted.general /\ IFlag'
    OBVIOUS
  <2>1. eip \notin ThreadLabels
    BY ThreadFacts
  <2>2. ~IFlag
    BY <2>1, InterruptsOn
  <2>3. CASE Return
    <3>1. eip \in {"irq_handler", "eoi_master", "handler", "iret"}
      BY <2>3 DEF Return
    <3> QED
      BY <2>3, <3>1, FrameFacts DEF Return
  <2>4. stack' # stack
    OBVIOUS
  <2> QED
    BY <2>1, <2>2, <2>3, <2>4 DEF Next, InHandler, EoiSlave, EoiMaster, Handler, IsrHandler,
       Setup, IsrInstall, Sti, InitTimer, InitKeyboard, Run, Sleep, Wake, Thread, Fault, Take,
       Spurious, Raise, Key, Halted, vars, cpu, ThreadLabels
<1> QED
  BY <1>1, CoreHolds, PTL DEF Spec, Transparent
=============================================================================
