\* Keys arrive between any two port accesses.
SPECIFICATION Spec
CONSTANTS
  Cols = 3
  Rows = 3
  Byte = 4
  Messages <- Texts
  Columns = {0, 2}
  Keys = {"letter", "enter", "backspace"}
INVARIANTS IInv WritesOnScreen StaysOnScreen
PROPERTIES EchoKeepsCursor KprintReturns ExactBetweenKeys
