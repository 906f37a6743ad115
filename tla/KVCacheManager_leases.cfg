CONSTANTS
  Block = {b1, b2, b3, b4}
  r1 = r1
  r2 = r2
  r3 = r3
  Request = {r1, r2, r3}
  Lease = {l1}
  NoHash = NoHash
  Hash <- MCHash
  BlockSize = 2
  PromptTokens <- MCPromptTokens
  MaxTokens <- MCMaxTokens
  Hashes <- MCHashes
  MaxLeaseBlocks = 2
SYMMETRY BlockSymmetry
SPECIFICATION Spec
INVARIANTS
  TypeOK
  TablesCarryTheirHashes
  RefsCountHolders
  UncachedBlocksGoFirst
  CachedPrefixesAreClosed
  MapMatchesHashes
PROPERTIES
  ImplementsBlockStore
