SPECIFICATION FairSpec
CONSTANTS
  Threads = {main, t1, t2, t3}
  Main = main
  Blocks = {b1}
  NoBlock = NoBlock
  main = main
  t1 = t1
  t2 = t2
  t3 = t3
  b1 = b1
INVARIANT TypeOK
INVARIANT RegistrantsExclusive
INVARIANT AtomicsCount
INVARIANT SpawnedFromLauncher
PROPERTY RegistrantProceeds
