SPECIFICATION RequestSpec
CONSTANTS
  Jobs = {j1, j2}
  Taken = 1
  Crates = {".", "a", "b"}
  Networks = {mainnet, testnet}
  HomeNetwork = testnet
  Notes = {note}
  Addresses = {account}
  Folders <- FoldersOfInstance
  MaxBusyRetries = 1
  MaxClicks = 3
  ScriptRetries = 1
  j1 = j1 j2 = j2
  mainnet = mainnet testnet = testnet
  note = note account = account
INVARIANTS
  TypeOK
  ShownIsOfSubmission
  ExactInputs
  DriftOnlyWhenLockLost
CHECK_DEADLOCK FALSE
PROPERTY EverySubmissionEnds
