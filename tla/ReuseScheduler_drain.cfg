CONSTANTS
  Block = {b1, b2, b3, b4}
  r1 = r1
  r2 = r2
  r3 = r3
  r4 = r4
  Request = {r1, r2, r3}
  Lease = {1, 2, 3, 4}
  NoHash = NoHash
  NoSource = NoSource
  Hash <- MCHash
  BlockSize = 1
  PromptTokens <- MCPromptShort
  MaxTokens <- MCMaxShort
  Hashes <- MCHashesShort
  SourceOf <- MCSourceOf
  Windows <- MCWindows
  Budget = 2
  MaxRunning = 2
  MaxConcurrent = 2
  Watermark = 0
  Async = TRUE
  Defer = TRUE
  ReserveFullISL = TRUE
  Execute = TRUE
  CanAbort = {}
  StopsEarly = {}
  MaxResets = 0
SPECIFICATION FairSpec
PROPERTIES
  EveryRequestFinishes
  DeferredFreesDrain
