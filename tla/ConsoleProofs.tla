--------------------------- MODULE ConsoleProofs ---------------------------
(***************************************************************************)
(* Theorems about Console.tla, for screens of every size and every         *)
(* interleaving of the thread with the keyboard handler.                   *)
(***************************************************************************)
EXTENDS Console, TLAPS

\* The strengthening of WritesOnScreen: no cell number is negative.
CellsInv ==
  /\ WritesOnScreen
  /\ high \in Nat /\ low \in Nat /\ cell \in Nat
  /\ column \in Nat
  /\ message \in Seq(Characters)

\* Cells is positive, and a quotient by Cols or Byte is a natural number.
LEMMA Sizes ==
  /\ Cells \in Nat \ {0} /\ Cols \in Nat \ {0} /\ Byte \in Nat \ {0}
  /\ \A n \in Nat : /\ n \div Cols \in Nat /\ n \div Byte \in Nat
                    /\ n % Byte \in Nat /\ (n \div Byte) % Byte \in Nat
                    /\ (n \div Cols) * Cols \in Nat /\ (n \div Cols + 1) * Cols \in Nat
                    /\ n * Byte \in Nat
                    /\ n < Cells => (n \div Cols + 1) * Cols <= Cells
<1>1. Cols \in Nat \ {0} /\ Byte \in Nat \ {0} /\ Rows \in Nat \ {0}
  BY ConsoleAssumption
<1>2. Cells \in Nat \ {0}
  BY <1>1, Z3 DEF Cells
<1>3. ASSUME NEW n \in Nat
      PROVE  /\ n \div Cols \in Nat /\ n \div Byte \in Nat
             /\ n % Byte \in Nat /\ (n \div Byte) % Byte \in Nat
  BY <1>1, Z3
<1>4. \A m, k \in Nat : m * k \in Nat /\ (m + 1) * k \in Nat
  BY Z3
<1>5. ASSUME NEW n \in Nat, n < Cells
      PROVE  (n \div Cols + 1) * Cols <= Cells
  <2>1. n \div Cols < Rows
    BY <1>1, <1>5, Z3 DEF Cells
  <2>2. \A q \in Nat : q < Rows => (q + 1) * Cols <= Cols * Rows
    BY <1>1, Z3
  <2> QED
    BY <1>3, <2>1, <2>2 DEF Cells
<1> QED
  BY <1>1, <1>2, <1>3, <1>4, <1>5

\* print_char at any offset, on or off the screen, writes on the screen and
\* returns an offset that is not negative.
LEMMA CharWritesOnScreen ==
  ASSUME NEW c \in Characters \cup {"backspace"}, NEW at \in Nat
  PROVE  /\ print_char(c, at).cells \subseteq 0 .. Cells - 1
         /\ print_char(c, at).next \in Nat
<1>1. CASE at >= Cells
  BY <1>1, Sizes DEF print_char, Misplaced
<1>2. CASE at < Cells
  <2> DEFINE next == CASE c = "newline"   -> (at \div Cols + 1) * Cols
                       [] c = "backspace" -> at
                       [] c = "letter"    -> at + 1
             drawn == IF c = "newline" THEN {} ELSE {at}
  <2>1. next \in Nat /\ drawn \subseteq 0 .. Cells - 1
    BY <1>2, Sizes DEF Characters
  <2>2. Cols <= Cells
    BY ConsoleAssumption, Z3 DEF Cells
  <2>3. print_char(c, at) = IF next >= Cells
                       THEN [next |-> next - Cols, cells |-> drawn \cup (0 .. Cells - 1),
                             sets |-> TRUE]
                       ELSE [next |-> next, cells |-> drawn, sets |-> TRUE]
    <3>1. ~(at >= Cells)
      BY <1>2, Sizes
    <3> QED
      BY <3>1 DEF print_char, Misplaced, AtEnd
  <2> HIDE DEF next, drawn
  <2>4. CASE next >= Cells
    BY <2>1, <2>2, <2>3, <2>4, Sizes
  <2>5. CASE next < Cells
    BY <2>1, <2>3, <2>5, Sizes
  <2> QED
    BY <2>1, <2>4, <2>5, Sizes
<1> QED
  BY <1>1, <1>2, Sizes

\* Nothing is ever written outside video memory, whatever the two actors do.
THEOREM VideoMemoryIsSafe == Spec => []WritesOnScreen
<1>1. Init => CellsInv
  BY DEF Init, CellsInv, WritesOnScreen
<1>2. CellsInv /\ [Next]_vars => CellsInv'
  <2> SUFFICES ASSUME CellsInv, [Next]_vars PROVE CellsInv'
    OBVIOUS
  <2> USE DEF CellsInv, WritesOnScreen
  <2>1. ASSUME NEW m \in Messages, Kprint(m) PROVE CellsInv'
    BY <2>1, ConsoleAssumption DEF Kprint, cursor
  <2>2. ASSUME NEW m \in Messages, NEW c \in Columns, KprintAtCol(m, c) PROVE CellsInv'
    <3>1. c \in Nat /\ m \in Seq(Characters)
      BY ConsoleAssumption, Sizes
    <3> QED
      BY <2>2, <3>1 DEF KprintAtCol, cursor
  <2>3. ASSUME NEW key \in Keys, Key(key) PROVE CellsInv'
    <3>1. Cursor \in Nat
      BY Sizes DEF Cursor
    <3>2. Echo(key).cells \subseteq 0 .. Cells - 1 /\ Echo(key).next \in Nat
      <4>1. key \in {"letter", "enter", "backspace"}
        BY ConsoleAssumption DEF Scancodes
      <4>2. CASE key = "letter"
        BY <3>1, <4>2, CharWritesOnScreen DEF Echo, Characters
      <4>3. CASE key = "enter"
        BY <3>1, <4>3, CharWritesOnScreen DEF Echo, Characters
      <4>4. CASE key = "backspace"
        <5>1. (IF Cursor = 0 THEN Cursor ELSE Cursor - 1) \in Nat
          BY <3>1
        <5>2. Echo(key) = print_char("backspace", IF Cursor = 0 THEN Cursor ELSE Cursor - 1)
          BY <4>4 DEF Echo
        <5> QED
          BY <5>1, <5>2, CharWritesOnScreen
      <4> QED
        BY <4>1, <4>2, <4>3, <4>4
    <3>3. /\ high' \in {(Echo(key).next \div Byte) % Byte, high}
          /\ low' \in {Echo(key).next % Byte, low}
          /\ written' = Echo(key).cells
          /\ UNCHANGED <<column, message, cell>>
      BY <2>3 DEF Key, task
    <3>4. high' \in Nat /\ low' \in Nat
      BY <3>2, <3>3, Sizes
    <3> QED
      BY <3>2, <3>3, <3>4
  <2>4. CASE Get1 \/ Get3 \/ Set1 \/ Set3
    BY <2>4 DEF Get1, Get3, Set1, Set3, task
  <2>5. CASE Get2
    BY <2>5, Sizes DEF Get2, DataPort, cursor, task
  <2>6. CASE Get4
    <3>1. cell + DataPort \in Nat
      BY DEF DataPort
    <3>2. ((cell + DataPort) \div Cols) * Cols \in Nat
      BY <3>1, Sizes
    <3>3. ((cell + DataPort) \div Cols) * Cols + column \in Nat
      BY <3>2
    <3>4. cell' \in Nat
      BY <2>6, <3>1, <3>3, Zenon DEF Get4
    <3> QED
      BY <2>6, <3>4 DEF Get4, cursor, task
  <2>7. CASE PrintNext
    <3>1. Head(message) \in Characters /\ Tail(message) \in Seq(Characters)
      <4>1. message \in Seq(Characters) /\ message # <<>>
        BY <2>7 DEF PrintNext
      <4> QED
        BY <4>1
    <3>2. /\ print_char(Head(message), cell).cells \subseteq 0 .. Cells - 1
          /\ print_char(Head(message), cell).next \in Nat
      BY <3>1, CharWritesOnScreen
    <3> QED
      BY <2>7, <3>1, <3>2, Zenon DEF PrintNext, cursor
  <2>8. CASE Return
    BY <2>8 DEF Return, cursor
  <2>9. CASE Set2 \/ Set4
    BY <2>9, Sizes DEF Set2, Set4, ToDataPort, task
  <2>10. CASE UNCHANGED vars
    BY <2>10 DEF vars, cursor, task
  <2> QED
    BY <2>1, <2>2, <2>3, <2>4, <2>5, <2>6, <2>7, <2>8, <2>9, <2>10 DEF Next, Step
<1>3. CellsInv => WritesOnScreen
  BY DEF CellsInv
<1> QED
  BY <1>1, <1>2, <1>3, PTL DEF Spec

-----------------------------------------------------------------------------
\* A byte register holds a byte, and two of them any cell of the screen.
LEMMA Bytes ==
  /\ \A n \in Nat : n % Byte \in 0 .. Byte - 1 /\ (n \div Byte) % Byte \in 0 .. Byte - 1
  /\ \A n \in Nat : n < Cells => /\ (n \div Byte) % Byte = n \div Byte
                                /\ (n \div Byte) * Byte + (n % Byte) = n
<1>1. ASSUME NEW n \in Nat
      PROVE  n % Byte \in 0 .. Byte - 1 /\ (n \div Byte) % Byte \in 0 .. Byte - 1
  BY ConsoleAssumption, Sizes, Z3
<1>2. ASSUME NEW n \in Nat, n < Cells
      PROVE  (n \div Byte) % Byte = n \div Byte /\ (n \div Byte) * Byte + (n % Byte) = n
  <2>1. n < Byte * Byte
    BY <1>2, ConsoleAssumption, Sizes DEF Cells
  <2>2. n \div Byte < Byte /\ n \div Byte \in Nat
    BY <2>1, Sizes, Z3
  <2> QED
    BY <2>2, Sizes, Z3
<1> QED
  BY <1>1, <1>2

\* print_char at a cell of the screen sets the cursor to one of them.
LEMMA CharKeepsCursor ==
  ASSUME NEW c \in Characters \cup {"backspace"}, NEW at \in Nat, at < Cells
  PROVE  /\ print_char(c, at).sets = TRUE
         /\ print_char(c, at).next \in Nat /\ print_char(c, at).next < Cells
<1> DEFINE next == CASE c = "newline"   -> (at \div Cols + 1) * Cols
                     [] c = "backspace" -> at
                     [] c = "letter"    -> at + 1
           drawn == IF c = "newline" THEN {} ELSE {at}
<1>1. next \in Nat /\ next <= Cells
  BY Sizes DEF Characters
<1>2. Cols <= Cells
  BY ConsoleAssumption, Z3 DEF Cells
<1>3. print_char(c, at) = IF next >= Cells
                          THEN [next |-> next - Cols, cells |-> drawn \cup (0 .. Cells - 1),
                                sets |-> TRUE]
                          ELSE [next |-> next, cells |-> drawn, sets |-> TRUE]
  <2>1. ~(at >= Cells)
    BY Sizes
  <2> QED
    BY <2>1 DEF print_char, Misplaced, AtEnd
<1> HIDE DEF next, drawn
<1>4. CASE next >= Cells
  <2>1. print_char(c, at) = [next |-> next - Cols, cells |-> drawn \cup (0 .. Cells - 1),
                             sets |-> TRUE]
    BY <1>3, <1>4
  <2>2. next - Cols \in Nat /\ next - Cols < Cells
    BY <1>1, <1>2, <1>4, Sizes
  <2> QED
    BY <2>1, <2>2
<1>5. CASE next < Cells
  <2>1. ~(next >= Cells)
    BY <1>1, <1>5, Sizes
  <2>2. print_char(c, at) = [next |-> next, cells |-> drawn, sets |-> TRUE]
    BY <1>3, <2>1, Zenon
  <2> QED
    BY <1>1, <1>5, <2>2
<1>6. next >= Cells \/ next < Cells
  BY <1>1, Sizes
<1> QED
  BY <1>4, <1>5, <1>6, Zenon

\* A cursor on the screen is the number of a cell.
LEMMA CursorRange == TypeOK /\ OnScreen => Cursor \in Nat /\ Cursor < Cells
BY Sizes DEF TypeOK, Cursor, OnScreen

\* By itself, every key sets the cursor to a cell of the screen, too.
LEMMA EchoOnScreen ==
  ASSUME TypeOK, OnScreen, NEW key \in Keys
  PROVE  /\ Echo(key).sets = TRUE
         /\ Echo(key).next \in Nat /\ Echo(key).next < Cells
<1>1. Cursor \in Nat /\ Cursor < Cells
  BY CursorRange
<1>2. key \in {"letter", "enter", "backspace"}
  BY ConsoleAssumption DEF Scancodes
<1>3. CASE key = "letter"
  BY <1>1, <1>3, CharKeepsCursor DEF Echo, Characters
<1>4. CASE key = "enter"
  BY <1>1, <1>4, CharKeepsCursor DEF Echo, Characters
<1>5. CASE key = "backspace"
  <2> DEFINE at == IF Cursor = 0 THEN Cursor ELSE Cursor - 1
  <2>1. at \in Nat /\ at < Cells
    BY <1>1, Sizes
  <2>2. Echo(key) = print_char("backspace", at)
    BY <1>5 DEF Echo
  <2> HIDE DEF at
  <2> QED
    BY <2>1, <2>2, CharKeepsCursor
<1> QED
  BY <1>2, <1>3, <1>4, <1>5

\* The position a cell below Cells has in the two registers.
LEMMA SplitOnScreen ==
  ASSUME NEW n \in Nat, n < Cells, high' = (n \div Byte) % Byte, low' = n % Byte
  PROVE  Cursor' = n /\ OnScreen'
<1>1. Cursor' = n
  BY Bytes DEF Cursor
<1> QED
  BY <1>1 DEF OnScreen

\* By itself the keyboard handler never loses the cursor.
LEMMA KeyOnScreen ==
  ASSUME TypeOK, OnScreen, NEW key \in Keys, Key(key)
  PROVE  OnScreen'
<1>1. high' = (Echo(key).next \div Byte) % Byte /\ low' = Echo(key).next % Byte
  BY EchoOnScreen, Zenon DEF Key
<1> QED
  BY <1>1, EchoOnScreen, SplitOnScreen

\* Types and ranges to begin with.
LEMMA InitTyped == Init => TypeOK
<1> SUFFICES ASSUME Init PROVE TypeOK
  OBVIOUS
<1>1. message \in Seq(Characters)
  BY DEF Init
<1>2. /\ spoiled \in BOOLEAN /\ pc \in Labels
      /\ goal \in {"print", "column"} /\ index \in {14, 15}
  BY Zenon DEF Init, Labels
<1>3. {high, low} \subseteq 0 .. Byte - 1 /\ column \in 0 .. Cols - 1 /\ cell \in Nat
  BY Sizes DEF Init
<1> QED
  BY <1>1, <1>2, <1>3, Zenon DEF TypeOK

\* The registers hold bytes, whoever writes them.
LEMMA Typed == Spec => []TypeOK
<1>1. Init => TypeOK
  BY InitTyped
<1>2. TypeOK /\ [Next]_vars => TypeOK'
  <2> SUFFICES ASSUME TypeOK, [Next]_vars PROVE TypeOK'
    OBVIOUS
  <2>1. ASSUME NEW m \in Messages, Kprint(m) PROVE TypeOK'
    BY <2>1, ConsoleAssumption DEF Kprint, Thread, cursor, TypeOK, Labels
  <2>2. ASSUME NEW m \in Messages, NEW c \in Columns, KprintAtCol(m, c) PROVE TypeOK'
    <3>1. c \in 0 .. Cols - 1 /\ m \in Seq(Characters)
      BY ConsoleAssumption
    <3> QED
      BY <2>2, <3>1 DEF KprintAtCol, Thread, cursor, TypeOK, Labels
  <2>3. ASSUME NEW key \in Keys, Key(key) PROVE TypeOK'
    <3>1. Cursor \in Nat
      BY Sizes DEF Cursor, TypeOK
    <3>2. Echo(key).next \in Nat
      <4>1. key \in {"letter", "enter", "backspace"}
        BY ConsoleAssumption DEF Scancodes
      <4>2. (IF Cursor = 0 THEN Cursor ELSE Cursor - 1) \in Nat
        BY <3>1
      <4> QED
        BY <3>1, <4>1, <4>2, CharWritesOnScreen DEF Echo, Characters
    <3>3. /\ high' \in {(Echo(key).next \div Byte) % Byte, high}
          /\ low' \in {Echo(key).next % Byte, low}
          /\ index' = 15 /\ spoiled' \in BOOLEAN
          /\ UNCHANGED <<pc, goal, message, column, cell>>
      BY <2>3 DEF Key, TypeOK
    <3>4. {high', low'} \subseteq 0 .. Byte - 1
      BY <3>2, <3>3, Bytes DEF TypeOK
    <3> QED
      BY <3>3, <3>4 DEF TypeOK
  <2>4. CASE Get1 \/ Get3 \/ Set1 \/ Set3
    BY <2>4 DEF Get1, Get3, Set1, Set3, Thread, task, TypeOK, Labels
  <2>5. CASE Get2
    <3>1. DataPort * Byte \in Nat
      BY Sizes DEF DataPort, TypeOK
    <3> QED
      BY <2>5, <3>1 DEF Get2, Thread, cursor, task, TypeOK, Labels
  <2>6. CASE Get4
    <3>1. cell + DataPort \in Nat
      BY Sizes DEF DataPort, TypeOK
    <3>2. ((cell + DataPort) \div Cols) * Cols \in Nat
      BY <3>1, Sizes
    <3>3. column \in Nat
      BY Sizes DEF TypeOK
    <3>4. ((cell + DataPort) \div Cols) * Cols + column \in Nat
      BY <3>2, <3>3
    <3>5. cell' \in Nat /\ pc' \in {"print", "set_1"}
      BY <2>6, <3>1, <3>4, Zenon DEF Get4, Thread
    <3> QED
      BY <2>6, <3>5 DEF Get4, cursor, task, TypeOK, Labels
  <2>7. CASE PrintNext
    <3>1. Head(message) \in Characters /\ Tail(message) \in Seq(Characters)
      <4>1. message \in Seq(Characters) /\ message # <<>>
        BY <2>7 DEF PrintNext, TypeOK
      <4> QED
        BY <4>1
    <3>2. print_char(Head(message), cell).next \in Nat
      BY <3>1, CharWritesOnScreen DEF TypeOK
    <3>3. /\ message' = Tail(message) /\ cell' = print_char(Head(message), cell).next
          /\ pc' \in {"set_1", "print"} /\ UNCHANGED <<cursor, goal, column, spoiled>>
      BY <2>7, Zenon DEF PrintNext
    <3> QED
      BY <3>1, <3>2, <3>3 DEF TypeOK, cursor, Labels
  <2>8. CASE Return
    BY <2>8, Sizes DEF Return, Thread, cursor, TypeOK, Labels
  <2>9. CASE Set2 \/ Set4
    <3>1. cell % Byte \in 0 .. Byte - 1 /\ (cell \div Byte) % Byte \in 0 .. Byte - 1
      BY Bytes DEF TypeOK
    <3> QED
      BY <2>9, <3>1 DEF Set2, Set4, ToDataPort, Thread, task, TypeOK, Labels
  <2>10. CASE UNCHANGED vars
    BY <2>10 DEF vars, cursor, task, TypeOK
  <2> QED
    BY <2>1, <2>2, <2>3, <2>4, <2>5, <2>6, <2>7, <2>8, <2>9, <2>10 DEF Next, Step
<1> QED
  BY <1>1, <1>2, PTL DEF Spec

-----------------------------------------------------------------------------
\* What the thread knows of the cursor survives every step of its own.
LEMMA KnownInductive ==
  /\ Init => IInv
  /\ IInv /\ TypeOK' /\ [Next]_vars => IInv'
<1> DEFINE Known == /\ pc = "idle" => cell = 0
                    /\ ~spoiled => CursorKnown
<1>1. TypeOK /\ Init => Known
  BY Sizes DEF Init, CursorKnown, OnScreen, Cursor
<1>2. IInv /\ TypeOK' /\ [Next]_vars => Known'
  <2> SUFFICES ASSUME IInv, TypeOK', [Next]_vars PROVE Known'
    OBVIOUS
  <2>1. ASSUME NEW m \in Messages, Kprint(m) PROVE Known'
    BY <2>1 DEF Kprint, Thread, cursor, CursorKnown, OnScreen, Cursor, Cells
  <2>2. ASSUME NEW m \in Messages, NEW c \in Columns, KprintAtCol(m, c) PROVE Known'
    BY <2>2 DEF KprintAtCol, Thread, cursor, CursorKnown, OnScreen, Cursor, Cells
  <2>3. ASSUME NEW key \in Keys, Key(key) PROVE Known'
    <3>1. CASE pc # "idle"
      BY <2>3, <3>1 DEF Key
    <3>2. CASE pc = "idle" /\ ~spoiled
      <4>1. OnScreen'
        BY <2>3, <3>2, KeyOnScreen DEF IInv, CursorKnown
      <4> QED
        BY <2>3, <3>2, <4>1 DEF Key, IInv, CursorKnown
    <3>3. CASE pc = "idle" /\ spoiled
      BY <2>3, <3>3 DEF Key, IInv
    <3> QED
      BY <3>1, <3>2, <3>3
  <2>4. CASE Get1
    BY <2>4 DEF Get1, Thread, task, IInv, CursorKnown, OnScreen, Cursor
  <2>5. CASE Get2
    BY <2>5 DEF Get2, DataPort, Thread, cursor, task, IInv, CursorKnown, OnScreen, Cursor
  <2>6. CASE Get3
    BY <2>6 DEF Get3, Thread, task, IInv, CursorKnown, OnScreen, Cursor
  <2>7. CASE Get4
    <3> SUFFICES ASSUME ~spoiled PROVE Known'
      BY <2>7 DEF Get4, Thread, task
    <3>1. /\ pc = "get_4" /\ OnScreen /\ index = 15 /\ cell = high * Byte
          /\ UNCHANGED <<cursor, task>>
      BY <2>7 DEF Get4, Thread, IInv, CursorKnown
    <3>2. cell + DataPort = Cursor /\ OnScreen'
      BY <3>1 DEF DataPort, Cursor, OnScreen, cursor
    <3>3. Cursor \in Nat /\ Cursor < Cells
      BY <3>1, CursorRange DEF IInv
    <3>4. CASE goal = "print"
      BY <2>7, <3>1, <3>2, <3>3, <3>4 DEF Get4, Thread, CursorKnown
    <3>5. CASE goal = "column"
      <4>1. (Cursor \div Cols) * Cols \in Nat /\ (Cursor \div Cols + 1) * Cols <= Cells
        BY <3>3, Sizes
      <4>2. Cursor \div Cols \in Nat /\ Cols \in Nat
        BY <3>3, Sizes
      <4>3. (Cursor \div Cols + 1) * Cols = (Cursor \div Cols) * Cols + Cols
        BY <4>2, Z3
      <4>4. column \in Nat /\ column < Cols
        BY <4>2 DEF IInv, TypeOK
      <4>5. (Cursor \div Cols) * Cols + column < Cells
        BY <4>1, <4>2, <4>3, <4>4, Sizes
      <4>6. pc' = "set_1" /\ cell' = (Cursor \div Cols) * Cols + column
        BY <2>7, <3>2, <3>5, Zenon DEF Get4, Thread
      <4> QED
        BY <4>5, <4>6 DEF CursorKnown
    <3> QED
      BY <3>4, <3>5 DEF IInv, TypeOK
  <2>8. CASE PrintNext
    <3> SUFFICES ASSUME ~spoiled PROVE Known'
      BY <2>8 DEF PrintNext
    <3>1. pc = "print" /\ OnScreen /\ cell < Cells /\ cell \in Nat /\ message # <<>>
      BY <2>8 DEF PrintNext, IInv, CursorKnown, TypeOK
    <3>2. Head(message) \in Characters
      BY <3>1 DEF IInv, TypeOK
    <3>3. /\ print_char(Head(message), cell).sets = TRUE
          /\ print_char(Head(message), cell).next < Cells
      BY <3>1, <3>2, CharKeepsCursor
    <3>4. pc' = "set_1" /\ cell' = print_char(Head(message), cell).next
      BY <2>8, <3>3, Zenon DEF PrintNext
    <3> QED
      BY <3>3, <3>4 DEF CursorKnown
  <2>9. CASE Return
    BY <2>9, Sizes DEF Return, Thread, cursor, IInv, CursorKnown, OnScreen, Cursor
  <2>10. CASE Set1
    BY <2>10 DEF Set1, Thread, task, IInv, CursorKnown
  <2>11. CASE Set2
    <3>1. ~spoiled => index = 14 /\ cell < Cells
      BY <2>11 DEF Set2, Thread, IInv, CursorKnown
    <3>2. ~spoiled => high' = cell \div Byte
      BY <2>11, <3>1, Bytes DEF Set2, ToDataPort, IInv, TypeOK
    <3> QED
      BY <2>11, <3>1, <3>2 DEF Set2, Thread, task, CursorKnown
  <2>12. CASE Set3
    BY <2>12 DEF Set3, Thread, task, IInv, CursorKnown
  <2>13. CASE Set4
    <3> SUFFICES ASSUME ~spoiled PROVE Known'
      BY <2>13 DEF Set4, Thread
    <3>1. /\ index = 15 /\ high = cell \div Byte /\ cell < Cells /\ cell \in Nat
      BY <2>13 DEF Set4, Thread, IInv, CursorKnown, TypeOK
    <3>2. high' = (cell \div Byte) % Byte /\ low' = cell % Byte
      BY <2>13, <3>1, Bytes DEF Set4, ToDataPort
    <3>3. OnScreen'
      BY <3>1, <3>2, SplitOnScreen
    <3> QED
      BY <2>13, <3>1, <3>3 DEF Set4, Thread, CursorKnown
  <2>14. CASE UNCHANGED vars
    BY <2>14 DEF vars, cursor, task, IInv, CursorKnown, OnScreen, Cursor
  <2> QED
    BY <2>1, <2>2, <2>3, <2>4, <2>5, <2>6, <2>7, <2>8, <2>9, <2>10, <2>11, <2>12, <2>13,
       <2>14 DEF Next, Step
<1>3. Init => TypeOK
  BY InitTyped
<1> QED
  BY <1>1, <1>2, <1>3 DEF IInv

\* Registers and offsets are in range, and until a key comes the thread and the
\* CRT controller agree on the position, byte by byte.
THEOREM PositionIsKnown == Spec => []IInv
BY KnownInductive, Typed, PTL DEF Spec

\* Until a key comes the cursor is on the screen between two characters and
\* between two calls: the thread scrolls in time.
THEOREM CursorStaysOnScreen == Spec => []StaysOnScreen
<1>1. IInv => StaysOnScreen
  <2>1. Cells > 0
    BY Sizes
  <2> QED
    BY <2>1 DEF IInv, CursorKnown, StaysOnScreen
<1> QED
  BY <1>1, PositionIsKnown, PTL

\* The keyboard handler by itself never moves the cursor off the screen.
THEOREM EchoIsSafe == Spec => EchoKeepsCursor
<1>1. TypeOK /\ [Next]_vars => [pc = "idle" /\ pc' = "idle" /\ OnScreen => OnScreen']_vars
  <2> SUFFICES ASSUME TypeOK, Next, pc = "idle", pc' = "idle", OnScreen PROVE OnScreen'
    OBVIOUS
  <2>1. PICK key \in Keys : Key(key)
    BY DEF Next, Kprint, KprintAtCol, Thread, Step, Get1, Get2, Get3, Get4, PrintNext, Return,
           Set1, Set2, Set3, Set4
  <2> QED
    BY <2>1, KeyOnScreen
<1> QED
  BY <1>1, Typed, PTL DEF Spec, EchoKeepsCursor

\* Until a key comes get_cursor_offset returns where the cursor is and
\* set_cursor_offset puts it where it was told to.
THEOREM PortAccessIsExact == Spec => ExactBetweenKeys
<1>1. IInv /\ [Next]_vars =>
        [~spoiled /\ pc' # pc =>
           /\ pc = "get_4" /\ goal = "print" => cell' = Cursor
           /\ pc = "set_4" => Cursor' = cell]_vars
  <2> SUFFICES ASSUME IInv, Next, ~spoiled, pc' # pc
               PROVE  /\ pc = "get_4" /\ goal = "print" => cell' = Cursor
                      /\ pc = "set_4" => Cursor' = cell
    OBVIOUS
  <2>1. ASSUME pc = "get_4", goal = "print" PROVE cell' = Cursor
    <3>1. Get4
      BY <2>1 DEF Next, Kprint, KprintAtCol, Key, Thread, Step, Get1, Get2, Get3, PrintNext,
         Return, Set1, Set2, Set3, Set4
    <3>2. index = 15 /\ cell = high * Byte
      BY <2>1 DEF IInv, CursorKnown
    <3> QED
      BY <2>1, <3>1, <3>2 DEF Get4, DataPort, Cursor
  <2>2. ASSUME pc = "set_4" PROVE Cursor' = cell
    <3>1. Set4
      BY <2>2 DEF Next, Kprint, KprintAtCol, Key, Thread, Step, Get1, Get2, Get3, Get4,
         PrintNext, Return, Set1, Set2, Set3
    <3>2. index = 15 /\ high = cell \div Byte /\ cell < Cells /\ cell \in Nat
      BY <2>2 DEF IInv, CursorKnown, TypeOK
    <3>3. high' = (cell \div Byte) % Byte /\ low' = cell % Byte
      BY <3>1, <3>2, Bytes DEF Set4, ToDataPort
    <3> QED
      BY <3>2, <3>3, SplitOnScreen
  <2> QED
    BY <2>1, <2>2
<1> QED
  BY <1>1, PositionIsKnown, PTL DEF Spec, ExactBetweenKeys
=============================================================================
