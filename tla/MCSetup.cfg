SPECIFICATION TwoMachinesSpec
CONSTANTS
  Environments <- SmallEnvironments
  EnvKey <- TheKeys
  DefaultFile = "pkg"
  Ollama = "ollama"
  Garbled = garbled
  Indexes <- SmallIndexes
  None = none
  Blank = blank
  Failure = failure
  Clients <- TwoClients
  RootKey <- TwoRoots
  PathOf <- FourFiles
  Wishes <- SmallWishes
  Disks <- SmallDisks
  Foreign <- SmallForeign
  MaxRuns = 2
  MaxEdits = 1
INVARIANTS
  NothingLost
  ServesAsSetUp
CHECK_DEADLOCK FALSE
