SPECIFICATION Spec
CONSTANTS
  OFFSET_SPAN = 16
  KernelFile <- MCKernelFile
  Flow <- MCFlow
  FirstBlock = 0
  Addresses = {1, 3, 6}
  Heap = {6, 7, 8}
  Sizes = {1, 3}
  Cost <- MCCost
  LoadInst = "load"
  StoreInst = "store"
  MIN_TUPLE_OFFSET = 1
  MAX_EPOCHS = 3
  ACCESSES = 6
  NoKernel = NoKernel
INVARIANT WorkingSetsDisjoint
INVARIANT WorkingSetsRecord
INVARIANT KernelsMatch
INVARIANT TemporariesRemoved
INVARIANT DependenciesReal
INVARIANT LastWriterFound
CHECK_DEADLOCK FALSE
