CONSTANTS
  Block = {b1, b2, b3}
  r1 = r1
  r2 = r2
  r3 = r3
  r4 = r4
  Request = {r1, r2}
  Lease = {1, 2, 3}
  NoHash = NoHash
  NoSource = NoSource
  Hash <- MCHash
  BlockSize = 1
  PromptTokens <- MCPrompt
  MaxTokens <- MCMax
  Hashes <- MCHashes
  SourceOf <- MCSourceOf
  Windows <- MCWindows
  Budget = 3
  MaxRunning = 2
  MaxConcurrent = 1
  Watermark = 0
  Async = FALSE
  Defer = FALSE
  ReserveFullISL = TRUE
  Execute = TRUE
  CanAbort = {}
  StopsEarly = {}
  MaxResets = 0
SPECIFICATION FairSpec
PROPERTIES
  EveryRequestFinishes
