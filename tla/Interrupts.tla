----------------------------- MODULE Interrupts -----------------------------
(***************************************************************************)
(* How interrupts and exceptions reach C code and return from it: the      *)
(* stubs of cpu/interrupt.asm, irq_handler, isr_handler and the setup in   *)
(* cpu/isr.c, with the timer's and the keyboard's handler as clients, and  *)
(* sleep() of cpu/timer.c as the code that depends on them.                *)
(*                                                                         *)
(* The CPU, the two interrupt controllers (PICs) and the devices are the   *)
(* environment.  The stack is explicit, top first, with one word for all   *)
(* of pusha's registers: irq_handler and isr_handler find their argument,  *)
(* a registers_t, by its position there.                                   *)
(*                                                                         *)
(* irq_handler also sets ide_irq_invoked (see Atapi.tla) and the keyboard  *)
(* handler prints (see Console.tla); neither is read here.                 *)
(***************************************************************************)
EXTENDS Integers, Sequences, FiniteSetsExt

CONSTANTS
  Lines,   \* lines of the PICs whose devices raise interrupts
  Faults,  \* exceptions the thread may run into: in ring 0, without the
           \* extensions of later processors
  Ticks    \* 2^32: the counter of the timer wraps here

Timer == 0
Keyboard == 1
IRQ(line) == 32 + line

ASSUME InterruptsAssumption ==
  /\ {Timer, Keyboard} \subseteq Lines
  /\ Lines \subseteq 0 .. 15 \ {2, 7}
  /\ Faults \subseteq 0 .. 31 \ {17, 21, 29, 30}
  /\ Ticks \in Nat \ {0, 1}

VARIABLES
  eip,            \* what the CPU does next
  IFlag,          \* the interrupt flag: interrupts are taken
  general,        \* the registers pusha saves
  stack,          \* what interrupts have pushed
  handlers,       \* interrupt_handlers
  tick, starting_tick,
  requested,      \* lines whose request is latched in a PIC
  master, slave,  \* lines in service
  scancode,       \* port 0x60 holds a byte nobody has read
  interrupted     \* history: what the last interrupt or exception stopped

cpu == <<eip, IFlag, general, stack, interrupted>>
pics == <<requested, master, slave>>
data == <<handlers, tick, starting_tick, scancode>>
vars == <<cpu, pics, data>>

-----------------------------------------------------------------------------
\* The stack in a handler.  registers_t: ds, the registers of pusha, int_no,
\* err_code, eip, cs, eflags.
int_no == stack[3]
FrameSize == 7

\* Exceptions for which the CPU pushes an error code.
PushesCode == {8, 10, 11, 12, 13, 14, 17, 21, 29, 30}

\* Variant: the stub of the page fault pushes a dummy code as well.
NoDummyButOne == {8, 10, 11, 12, 13}

\* Stubs that push no dummy error code.
NoDummy == {8, 10, 11, 12, 13, 14}

\* The CPU saves where it was; the stub completes the registers_t.
CpuPushes(v) == (IF v \in PushesCode THEN <<"code">> ELSE <<>>) \o <<eip, "cs", IFlag>>
StubPushes(v) == <<"ds", general, v>> \o (IF v \in NoDummy THEN <<>> ELSE <<"dummy">>)

\* Flags 0x8E and 0xEE: an interrupt gate, which clears it.
Gate == FALSE

\* Vector v, up to the call of the common stub.
Enter(v, handler) ==
  /\ stack' = StubPushes(v) \o CpuPushes(v) \o stack
  /\ IFlag' = Gate
  /\ general' = "clobbered"
  /\ eip' = handler
  /\ interrupted' = [vector |-> v, eip |-> eip, general |-> general]

-----------------------------------------------------------------------------
\* The PICs: line 0 comes first, then 1, the slave's, 3 to 7.  A request
\* waits while one of the same or a higher priority is in service.
OnMaster(line) == IF line >= 8 THEN 2 ELSE line

Precedes(a, b) == OnMaster(a) < OnMaster(b) \/ (OnMaster(a) = OnMaster(b) /\ a < b)

Pending(line) ==
  /\ line \in requested
  /\ \A m \in master : OnMaster(line) < m
  /\ \A s \in slave : line >= 8 => line < s
  /\ \A other \in requested \ {line} : Precedes(line, other)

\* A nonspecific end of interrupt.
Acknowledge(lines) == IF lines = {} THEN {} ELSE lines \ {Min(lines)}

Take(line) ==
  /\ IFlag /\ Pending(line)
  /\ Enter(IRQ(line), "irq_handler")
  /\ requested' = requested \ {line}
  /\ master' = master \cup {OnMaster(line)}
  /\ slave' = IF line >= 8 THEN slave \cup {line} ELSE slave
  /\ UNCHANGED data

\* A request that vanished: the PIC answers with line 7, not in service.
Spurious ==
  /\ IFlag /\ requested = {}
  /\ Enter(IRQ(7), "irq_handler")
  /\ UNCHANGED <<pics, data>>

Raise(line) ==
  /\ requested' = requested \cup {line}
  /\ UNCHANGED <<cpu, master, slave, data>>

\* The keyboard controller signals a byte when its buffer becomes full, and
\* takes no other before that one is read.
Key ==
  /\ ~scancode /\ scancode' = TRUE
  /\ requested' = requested \cup {Keyboard}
  /\ UNCHANGED <<cpu, master, slave, handlers, tick, starting_tick>>

-----------------------------------------------------------------------------
\* irq_handler, one access to a PIC after the other.

FromSlave == int_no >= 40

EoiSlave ==
  /\ eip = "irq_handler" /\ eip' = "eoi_master"
  /\ slave' = IF FromSlave THEN Acknowledge(slave) ELSE slave
  /\ UNCHANGED <<IFlag, general, stack, interrupted, requested, master, data>>

\* Variant: an interrupt without a handler is not acknowledged.
EoiIfRegistered ==
  /\ eip = "eoi_master" /\ eip' = "handler"
  /\ master' = IF handlers[int_no] = "none" THEN master ELSE Acknowledge(master)
  /\ UNCHANGED <<IFlag, general, stack, interrupted, requested, slave, data>>

EoiMaster ==
  /\ eip = "eoi_master" /\ eip' = "handler"
  /\ master' = Acknowledge(master)
  /\ UNCHANGED <<IFlag, general, stack, interrupted, requested, slave, data>>

\* Variant: the keyboard's handler returns before it reads port 0x60.
HandlerLeavesByte ==
  /\ eip = "handler" /\ eip' = "iret"
  /\ tick' = IF handlers[int_no] = "timer_callback" THEN (tick + 1) % Ticks ELSE tick
  /\ UNCHANGED <<IFlag, general, stack, interrupted, pics, handlers, starting_tick,
                 scancode>>

\* The registered handler: timer_callback, keyboard_callback or none.
Handler ==
  /\ eip = "handler" /\ eip' = "iret"
  /\ tick' = IF handlers[int_no] = "timer_callback" THEN (tick + 1) % Ticks ELSE tick
  /\ scancode' = IF handlers[int_no] = "keyboard_callback" THEN FALSE ELSE scancode
  /\ UNCHANGED <<IFlag, general, stack, interrupted, pics, handlers, starting_tick>>

\* Variant: registers saved by pusha are not restored.
ReturnNoPopa ==
  /\ eip = "iret"
  /\ eip' = stack[5] /\ IFlag' = stack[7]
  /\ stack' = SubSeq(stack, FrameSize + 1, Len(stack))
  /\ UNCHANGED <<general, interrupted, pics, data>>

\* The rest of irq_common_stub.
Return ==
  /\ eip = "iret"
  /\ general' = stack[2] /\ eip' = stack[5] /\ IFlag' = stack[7]
  /\ stack' = SubSeq(stack, FrameSize + 1, Len(stack))
  /\ UNCHANGED <<interrupted, pics, data>>

\* isr_handler prints registers_t and executes hlt, with interrupts off.
IsrHandler ==
  /\ eip = "isr_handler" /\ eip' = "halt"
  /\ UNCHANGED <<IFlag, general, stack, interrupted, pics, data>>

Halted == eip = "halt" /\ UNCHANGED vars

-----------------------------------------------------------------------------
\* The kernel's thread.
Thread(from, to) ==
  /\ eip = from /\ eip' = to
  /\ UNCHANGED <<stack, interrupted, master, slave>>

\* isr_install: the gates, then the PICs, which forget what they latched.
IsrInstall ==
  /\ Thread("isr_install", "sti")
  /\ requested' = {}
  /\ UNCHANGED <<IFlag, general, data>>

\* irq_install, in three steps: interrupts are on before a handler is there.
Sti ==
  /\ Thread("sti", "init_timer")
  /\ IFlag' = TRUE
  /\ UNCHANGED <<general, requested, data>>

register_interrupt_handler(v, h) == handlers' = [handlers EXCEPT ![v] = h]

InitTimer ==
  /\ Thread("init_timer", "init_keyboard")
  /\ register_interrupt_handler(IRQ(Timer), "timer_callback")
  /\ UNCHANGED <<IFlag, general, requested, tick, starting_tick, scancode>>

InitKeyboard ==
  /\ Thread("init_keyboard", "run")
  /\ register_interrupt_handler(IRQ(Keyboard), "keyboard_callback")
  /\ UNCHANGED <<IFlag, general, requested, tick, starting_tick, scancode>>

Run ==
  /\ Thread("run", "run")
  /\ general' \in {"a", "b"}
  /\ UNCHANGED <<IFlag, requested, data>>

\* sleep(1)
Sleep ==
  /\ Thread("run", "sleep")
  /\ starting_tick' = tick
  /\ UNCHANGED <<IFlag, general, requested, handlers, tick, scancode>>

\* (tick - starting_tick) * 1000 < 1 * TIMER_FREQ no longer holds.
Wake ==
  /\ Thread("sleep", "run")
  /\ tick # starting_tick
  /\ UNCHANGED <<IFlag, general, requested, data>>

Fault(v) ==
  /\ eip \in {"sti", "init_timer", "init_keyboard", "run", "sleep"}
  /\ Enter(v, "isr_handler")
  /\ UNCHANGED <<pics, data>>

-----------------------------------------------------------------------------
\* Boot: interrupts are off.  kernel_main has come to setup_interrupt_handlers.
Init ==
  /\ eip = "isr_install" /\ IFlag = FALSE /\ general = "a" /\ stack = <<>>
  /\ handlers = [v \in 32 .. 47 |-> "none"]
  /\ tick = 0 /\ starting_tick = 0
  /\ requested = {} /\ master = {} /\ slave = {}
  /\ scancode = FALSE
  /\ interrupted = [vector |-> 0, eip |-> "isr_install", general |-> "a"]

InHandler == EoiSlave \/ EoiMaster \/ Handler \/ Return \/ IsrHandler
Setup == IsrInstall \/ Sti \/ InitTimer \/ InitKeyboard

Next ==
  \/ InHandler \/ Setup \/ Run \/ Sleep \/ Wake
  \/ \E v \in Faults : Fault(v)
  \/ \E line \in Lines : Take(line)
  \/ Spurious
  \/ \E line \in Lines \ {Keyboard} : Raise(line)
  \/ Key
  \/ Halted

\* The timer goes on ticking.  A handler is much shorter than the 20 ms
\* between two ticks, so that the thread and the keyboard get their turn: again
\* and again interrupts are on and the timer's is not the next one.
NoStorm == []<>((IFlag /\ ~Pending(Timer)) \/ eip = "halt")

Fairness ==
  /\ WF_vars(InHandler)
  /\ SF_vars(Setup) /\ SF_vars(Wake)
  /\ WF_vars(Raise(Timer))
  /\ \A line \in {Timer, Keyboard} : SF_vars(Take(line))
  /\ NoStorm

Spec == Init /\ [][Next]_vars /\ Fairness

-----------------------------------------------------------------------------
ThreadLabels ==
  {"isr_install", "sti", "init_timer", "init_keyboard", "run", "sleep"}
Values == {"a", "b", "clobbered"}

\* Types and ranges.
TypeOK ==
  /\ eip \in ThreadLabels \cup {"irq_handler", "eoi_master", "handler", "iret",
                                "isr_handler", "halt"}
  /\ IFlag \in BOOLEAN /\ general \in Values
  /\ handlers \in [32 .. 47 -> {"none", "timer_callback", "keyboard_callback"}]
  /\ {tick, starting_tick} \subseteq 0 .. Ticks - 1
  /\ requested \subseteq Lines /\ master \subseteq 0 .. 7 /\ slave \subseteq 8 .. 15
  /\ scancode \in BOOLEAN
  /\ interrupted \in [vector : 0 .. 47, eip : ThreadLabels, general : Values]

\* Whatever line it was, real or spurious, when the thread runs on, no line
\* is in service: none is blocked for good, and no end of interrupt was
\* spent on another line's.
Acknowledged == stack = <<>> => master = {} /\ slave = {}

\* Handlers do not nest, although they acknowledge first: the kernel's stack
\* never holds more than one registers_t.
NoNesting == Len(stack) <= FrameSize

\* registers_t "matches exactly the pushes on interrupt.asm" (isr.h:72): a
\* handler sees the vector and the eip of what it interrupted, with or without
\* an error code from the CPU.
FrameMatches ==
  stack # <<>> =>
    /\ int_no = interrupted.vector
    /\ stack[5] = interrupted.eip /\ stack[6] = "cs"

\* Interrupts are off before sti and in the handlers, and only there; the stack
\* holds one registers_t in the handlers and nothing else, and a handler that
\* returns turns them on again.
OneFrame ==
  /\ IFlag <=> eip \in ThreadLabels \ {"isr_install", "sti"}
  /\ eip \in ThreadLabels => stack = <<>>
  /\ eip \notin ThreadLabels =>
       \E code \in {"code", "dummy"}, eflags \in BOOLEAN :
         /\ stack = <<"ds", interrupted.general, interrupted.vector, code,
                      interrupted.eip, "cs", eflags>>
         /\ eflags <=> interrupted.eip \notin {"isr_install", "sti"}
         /\ eip \notin {"isr_handler", "halt"} => eflags /\ interrupted.vector >= 32

\* A line is in service from the interrupt it caused to the end of interrupt
\* its handler sends, on the slave and then on the master, and no other is.
InService ==
  /\ master = IF /\ eip \in {"irq_handler", "eoi_master"}
                 /\ interrupted.vector # IRQ(7)
              THEN {OnMaster(interrupted.vector - IRQ(0))} ELSE {}
  /\ slave = IF eip = "irq_handler" /\ interrupted.vector >= IRQ(8)
             THEN {interrupted.vector - IRQ(0)} ELSE {}

\* Stack, flags and PICs agree in every state, whatever came in between.
IInv == TypeOK /\ Acknowledged /\ NoNesting /\ FrameMatches /\ OneFrame /\ InService

\* The thread finds everything as it was before the interrupt: it goes on
\* where it was, with its registers and with interrupts on.
Transparent ==
  [][stack # <<>> /\ stack' = <<>> =>
       eip' = interrupted.eip /\ general' = interrupted.general /\ IFlag']_vars

\* Where the thread is, or will go on.
ThreadAt == IF stack = <<>> THEN eip ELSE stack[Len(stack) - 2]
Dead == eip = "halt"

\* sleep() ends: the thread never sleeps before the timer's handler counts,
\* and no handler loses the ticks.
SleepReturns == ThreadAt = "sleep" ~> (ThreadAt # "sleep" \/ Dead)

\* If the keyboard's buffer is empty when its handler is there, every key
\* from then on is read.  (A key between sti and init_keyboard, or before,
\* is acknowledged or forgotten but not read, and is the last one.)
KeyboardAnswers ==
  [](handlers[IRQ(Keyboard)] # "none" /\ ~scancode =>
       [](scancode => <>(~scancode \/ Dead)))
=============================================================================
