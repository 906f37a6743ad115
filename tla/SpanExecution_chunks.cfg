CONSTANTS
  a = a
  b = b
  c = c
  Request = {a, b, c}
  NoBlock = NoBlock
  Prompt <- MCPrompt
  Outputs <- MCOutputs
  Cached <- MCCached
  Candidates <- MCCandidates
  Affected <- MCAffected
  Repacked <- MCRepacked
  Counterfactual <- MCOnly
  Supported = {a, b, c}
  BlockSize = 2
  MinSpan = 1
  MinRepackedSpan = 2
  Budget = 5
  MaxPreemptions = 1
SPECIFICATION Spec
INVARIANTS
  TypeOK
  ContextIsWritten
  RepairsPrecedeUse
  SampledRowsAreComputed
  RowsAreComputedOrCopied
CHECK_DEADLOCK FALSE
