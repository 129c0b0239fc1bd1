SPECIFICATION Spec
CONSTANTS
  Lbas = {0, 5}
  Counts = {1, 2, 3}
INVARIANTS IInv ReceivesTheSectors
PROPERTIES ErrorsAreTheDrives ReadsReturn
