\* The requests the kernel makes: <<2, 2>> at boot, single blocks afterwards.
SPECIFICATION Spec
CONSTANTS
  Entries = 6
  BlockSize = 2
  Owners = {o1, o2, o3, o4, o5}
  BootSizes <- BootOfKernelMain
  Sizes = {1}
  Zero = Zero
SYMMETRY OwnerSymmetry
INVARIANTS IInv ExitsOnlyWhenFull
PROPERTIES KeepsData FoundSequence ImplementsPool
