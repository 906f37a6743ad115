CONSTANTS
  Block = {b1, b2, b3, b4, b5}
  r1 = r1
  r2 = r2
  r3 = r3
  r4 = r4
  Request = {r1, r2, r3, r4}
  Lease = {1, 2, 3}
  NoHash = NoHash
  NoSource = NoSource
  Hash <- MCHash4
  BlockSize = 2
  PromptTokens <- MCPrompt4
  MaxTokens <- MCMax4
  Hashes <- MCHashes4
  SourceOf <- MCSourceOf4
  Windows <- MCWindows
  Budget = 5
  MaxRunning = 2
  MaxConcurrent = 1
  Watermark = 0
  Async = FALSE
  Defer = FALSE
  ReserveFullISL = TRUE
  Execute = TRUE
  CanAbort = {}
  StopsEarly = {}
  MaxResets = 0
SYMMETRY BlockSymmetry
SPECIFICATION Spec
PROPERTIES
  PrefixesAreComputed
