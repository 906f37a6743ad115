CONSTANTS
  Block = {b1, b2, b3, b4}
  r1 = r1
  r2 = r2
  r3 = r3
  r4 = r4
  Request = {r1, r2, r3}
  Lease = {1, 2, 3, 4}
  NoHash = NoHash
  NoSource = NoSource
  Hash <- MCHash
  BlockSize = 1
  PromptTokens <- MCPrompt
  MaxTokens <- MCMax
  Hashes <- MCHashes
  SourceOf <- MCSourceOf
  Windows <- MCWindows
  Budget = 3
  MaxRunning = 2
  MaxConcurrent = 2
  Watermark = 0
  Async = TRUE
  Defer = TRUE
  ReserveFullISL = FALSE
  Execute = TRUE
  CanAbort = {r1}
  StopsEarly = {r3}
  MaxResets = 1
SYMMETRY BlockSymmetry
SPECIFICATION Spec
INVARIANTS
  TypeOK
  RefsCountHolders
  EveryLeaseIsQueued
  OnlyRunningHoldBlocks
  QueuesMatchStatus
  InFlightBlocksAreHeld
  FencesAreNearMonotonic
  PlaceholdersCountOutputs
PROPERTIES
  ResetFailsOnlyForDeferred
  PrefixesAreComputed
