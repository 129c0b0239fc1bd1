SPECIFICATION Spec
CONSTANTS
  Lines = {0, 1, 8, 14}
  Faults = {6, 8, 14}
  Ticks = 3
INVARIANT IInv
PROPERTIES Transparent SleepReturns KeyboardAnswers
