\* Does print_char set the cursor while somebody types?
SPECIFICATION Spec
CONSTANTS
  Cols = 3
  Rows = 3
  Byte = 4
  Messages <- Texts
  Columns = {0, 2}
  Keys = {"letter", "enter", "backspace"}
PROPERTIES SetsTheReturnedOffset
