------------------------------ MODULE Console ------------------------------
(***************************************************************************)
(* The text console (drivers/screen.c) shared by the kernel's thread and   *)
(* the keyboard handler (drivers/keyboard.c), which echoes keys with the   *)
(* same functions.                                                         *)
(*                                                                         *)
(* The position of the next character is kept by the hardware, in two byte *)
(* registers of the CRT controller behind one index and one data port.     *)
(* get_cursor_offset and set_cursor_offset each take four port accesses on *)
(* the thread, and an interrupt can come before each of them.  A handler   *)
(* runs with interrupts off: what it prints is one step here.              *)
(*                                                                         *)
(* Offsets count bytes in the code, two per character cell; here they      *)
(* count cells.  Row and column are those of the cell, except before the   *)
(* first one (kprint_backspace with the cursor at 0 asks for column -1).   *)
(***************************************************************************)
EXTENDS Integers, Sequences

CONSTANTS
  Cols, Rows,  \* MAX_COLS, MAX_ROWS
  Byte,        \* 256, the values of a register
  Messages,    \* what the thread prints: sequences over Characters
  Columns,     \* columns kprint_at_col is called with
  Keys         \* what the keyboard sends: subset of Scancodes

Characters == {"letter", "newline"}
Scancodes == {"letter", "enter", "backspace"}

ASSUME ConsoleAssumption ==
  /\ {Cols, Rows, Byte} \subseteq Nat \ {0}
  /\ Cols * Rows <= Byte * Byte
  /\ Messages \subseteq Seq(Characters)
  /\ Columns \subseteq 0 .. Cols - 1
  /\ Keys \subseteq Scancodes

VARIABLES
  index,      \* the register the data port stands for: 14 or 15
  high, low,  \* those registers: the cursor's cell
  written,    \* cells of video memory written by the last step
  pc,         \* the thread's next step
  goal,       \* what the thread reads or sets the cursor for
  message,    \* what is left of the message being printed
  column,     \* the argument of kprint_at_col
  cell,       \* the thread's offset, or the part of it already read
  spoiled     \* history: a key came during this call of the thread, or the
              \* call began with the cursor off the screen

cursor == <<index, high, low>>
task == <<goal, message, column, spoiled>>
vars == <<cursor, written, pc, task, cell>>

Cells == Cols * Rows
Cursor == high * Byte + low
OnScreen == Cursor < Cells

-----------------------------------------------------------------------------
\* Variant: the coordinates are not checked.
NeverMisplaced(at) == FALSE

\* The error control of print_char: col >= MAX_COLS || row >= MAX_ROWS.
Misplaced(at) == at >= Cells

\* Variant: the screen scrolls one character late.
BeyondEnd(next) == next > Cells

\* offset >= MAX_ROWS * MAX_COLS * 2: time to scroll.
AtEnd(next) == next >= Cells

\* print_char(c) at a cell: where the next character goes, the cells it
\* writes, and whether it sets the cursor.  Off the screen it only draws an
\* 'E' in the last cell.  Reaching the end scrolls, which rewrites all cells.
print_char(c, at) ==
  LET next == CASE c = "newline"   -> (at \div Cols + 1) * Cols
                [] c = "backspace" -> at
                [] c = "letter"    -> at + 1
      drawn == IF c = "newline" THEN {} ELSE {at}
  IN IF Misplaced(at)
       THEN [next |-> at, cells |-> {Cells - 1}, sets |-> FALSE]
     ELSE IF AtEnd(next)
       THEN [next |-> next - Cols, cells |-> drawn \cup (0 .. Cells - 1), sets |-> TRUE]
       ELSE [next |-> next, cells |-> drawn, sets |-> TRUE]

\* Variant: a negative column is taken as it is.
EchoAtColumnMinusOne(key) ==
  CASE key = "letter"    -> print_char("letter", Cursor)
    [] key = "enter"     -> print_char("newline", Cursor)
    [] key = "backspace" -> print_char("backspace", Cursor - 1)

\* The keyboard handler: kprint of one character, or kprint_backspace, whose
\* column -1 makes print_char read the cursor again.
Echo(key) ==
  CASE key = "letter"    -> print_char("letter", Cursor)
    [] key = "enter"     -> print_char("newline", Cursor)
    [] key = "backspace" -> print_char("backspace", IF Cursor = 0 THEN Cursor ELSE Cursor - 1)

Key(key) ==
  LET p == Echo(key) IN
  /\ index' = 15
  /\ high' = IF p.sets THEN (p.next \div Byte) % Byte ELSE high
  /\ low' = IF p.sets THEN p.next % Byte ELSE low
  /\ written' = p.cells
  /\ spoiled' = (spoiled \/ pc # "idle")
  /\ UNCHANGED <<pc, goal, message, column, cell>>

-----------------------------------------------------------------------------
Thread(from, to) == pc = from /\ pc' = to

Kprint(m) ==
  /\ Thread("idle", "get_1")
  /\ goal' = "print" /\ message' = m /\ spoiled' = ~OnScreen
  /\ UNCHANGED <<cursor, written, column, cell>>

\* Move to a column of the current row, then kprint.
KprintAtCol(m, c) ==
  /\ Thread("idle", "get_1")
  /\ goal' = "column" /\ message' = m /\ column' = c /\ spoiled' = ~OnScreen
  /\ UNCHANGED <<cursor, written, cell>>

\* get_cursor_offset, one port access after the other.
Get1 == Thread("get_1", "get_2") /\ index' = 14
        /\ UNCHANGED <<high, low, written, task, cell>>

DataPort == IF index = 14 THEN high ELSE low

Get2 == Thread("get_2", "get_3") /\ cell' = DataPort * Byte
        /\ UNCHANGED <<cursor, written, task>>

\* Variant: the register of the low byte is not asked for.
Get3Silent == Thread("get_3", "get_4") /\ UNCHANGED <<cursor, written, task, cell>>

Get3 == Thread("get_3", "get_4") /\ index' = 15
        /\ UNCHANGED <<high, low, written, task, cell>>

Get4 ==
  LET offset == cell + DataPort IN
  /\ \/ Thread("get_4", "print") /\ goal = "print" /\ cell' = offset
     \/ /\ Thread("get_4", "set_1") /\ goal = "column"
        /\ cell' = (offset \div Cols) * Cols + column
  /\ UNCHANGED <<cursor, written, task>>

\* One iteration of the loop in kprint_at.
PrintNext ==
  LET p == print_char(Head(message), cell) IN
  /\ pc = "print" /\ message # <<>>
  /\ pc' = IF p.sets THEN "set_1" ELSE "print"
  /\ message' = Tail(message)
  /\ cell' = p.next /\ written' = p.cells
  /\ UNCHANGED <<cursor, goal, column, spoiled>>

Return ==
  /\ Thread("print", "idle") /\ message = <<>>
  /\ cell' = 0 /\ column' = 0 /\ goal' = "print"
  /\ UNCHANGED <<cursor, written, message, spoiled>>

\* set_cursor_offset, one port access after the other.
ToDataPort(byte) ==
  IF index = 14 THEN high' = byte /\ UNCHANGED low
                ELSE low' = byte /\ UNCHANGED high

Set1 == Thread("set_1", "set_2") /\ index' = 14
        /\ UNCHANGED <<high, low, written, task, cell>>

Set2 == Thread("set_2", "set_3") /\ ToDataPort((cell \div Byte) % Byte)
        /\ UNCHANGED <<index, written, task, cell>>

\* Variant: the low byte goes to the high register.
Set3Again == Thread("set_3", "set_4") /\ index' = 14
             /\ UNCHANGED <<high, low, written, task, cell>>

Set3 == Thread("set_3", "set_4") /\ index' = 15
        /\ UNCHANGED <<high, low, written, task, cell>>

\* Variant: kprint_at_col forgets that the column is set.
Set4Again ==
  /\ \/ Thread("set_4", "print") /\ goal = "print"
     \/ Thread("set_4", "get_1") /\ goal = "column"
  /\ ToDataPort(cell % Byte)
  /\ UNCHANGED <<index, written, task, cell>>

Set4 ==
  /\ \/ Thread("set_4", "print") /\ goal = "print"
     \/ Thread("set_4", "get_1") /\ goal = "column"
  /\ goal' = "print"
  /\ ToDataPort(cell % Byte)
  /\ UNCHANGED <<index, written, message, column, cell, spoiled>>

Step == Get1 \/ Get2 \/ Get3 \/ Get4 \/ PrintNext \/ Return
        \/ Set1 \/ Set2 \/ Set3 \/ Set4

\* clear_screen has run.
Init ==
  /\ index = 15 /\ high = 0 /\ low = 0
  /\ written = {}
  /\ pc = "idle" /\ goal = "print" /\ message = <<>> /\ column = 0 /\ cell = 0
  /\ spoiled = FALSE

Next ==
  \/ \E m \in Messages : Kprint(m) \/ \E c \in Columns : KprintAtCol(m, c)
  \/ Step
  \/ \E key \in Keys : Key(key)

Spec == Init /\ [][Next]_vars /\ WF_vars(Step)

-----------------------------------------------------------------------------
Labels == {"idle", "print"} \cup {"get_1", "get_2", "get_3", "get_4"}
            \cup {"set_1", "set_2", "set_3", "set_4"}

TypeOK ==
  /\ index \in {14, 15}
  /\ {high, low} \subseteq 0 .. Byte - 1
  /\ pc \in Labels /\ goal \in {"print", "column"}
  /\ message \in Seq(Characters) /\ column \in 0 .. Cols - 1
  /\ cell \in Nat /\ spoiled \in BOOLEAN

\* However the port accesses interleave, and whatever position a torn read
\* yields, nothing is written outside video memory: the test of col and row
\* at the top of print_char catches every one of them.
WritesOnScreen == written \subseteq 0 .. Cells - 1

\* The handler by itself never loses the cursor: not at the end of the
\* screen, where it scrolls, and not at its beginning, where
\* kprint_backspace computes column -1.
EchoKeepsCursor == [][pc = "idle" /\ pc' = "idle" /\ OnScreen => OnScreen']_vars

\* Every kprint returns, also when the cursor has been lost.
KprintReturns == pc # "idle" ~> pc = "idle"

\* "Use the VGA ports to get the current cursor position" (screen.c:139): as
\* long as no key comes during the thread's call, what get_cursor_offset
\* returns is where the cursor is, and set_cursor_offset puts it where
\* print_char returns, with no byte of an older position left.  Keys before
\* the call do no harm.
ExactBetweenKeys ==
  [][~spoiled /\ pc' # pc =>
       /\ pc = "get_4" /\ goal = "print" => cell' = Cursor
       /\ pc = "set_4" => Cursor' = cell]_vars

\* Under the same condition the thread scrolls in time: whenever it is
\* between characters or between calls, the cursor is on the screen.
StaysOnScreen ==
  pc \in {"idle", "print"} /\ ~spoiled => OnScreen /\ cell < Cells

\* What the thread knows of the cursor at each port access, as long as no key
\* came: the index register is where it left it, and the bytes it has read or
\* set are those of one position on the screen.
CursorKnown ==
  /\ pc \in {"idle", "print", "get_1", "get_2", "get_3", "get_4"} => OnScreen
  /\ pc \in {"print", "set_1", "set_2", "set_3", "set_4"} => cell < Cells
  /\ pc \in {"get_2", "set_2"} => index = 14
  /\ pc \in {"get_4", "set_4"} => index = 15
  /\ pc \in {"get_3", "get_4"} => cell = high * Byte
  /\ pc \in {"set_3", "set_4"} => high = cell \div Byte

\* Thread and CRT controller agree until a key comes in between.
IInv ==
  /\ TypeOK
  /\ pc = "idle" => cell = 0
  /\ ~spoiled => CursorKnown

\* "Sets the video cursor to the returned offset" (screen.c:90), said of
\* print_char without any condition on the keyboard.  The call of
\* set_cursor_offset is print_char's, its cell one of the screen, so that the
\* registers can hold it; a key before that call does no harm to it.
SetsTheReturnedOffset ==
  [][pc = "set_4" /\ pc' # pc /\ goal = "print" /\ cell < Cells => Cursor' = cell]_vars
=============================================================================
