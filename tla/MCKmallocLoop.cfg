SPECIFICATION LoopSpec
CONSTANTS
  Entries = 3
  BlockSize = 2
  Owners = {o1, o2, o3}
  BootSizes <- OneStack
  Sizes = {1, 2}
  Zero = Zero
  Nobody = Nobody
INVARIANTS LoopIInv
PROPERTIES ImplementsAtomic CallsEnd
