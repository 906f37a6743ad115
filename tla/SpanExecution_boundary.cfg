CONSTANTS
  a = a
  b = b
  c = c
  Request = {a, b}
  NoBlock = NoBlock
  Prompt <- MCPrompt
  Outputs <- MCOutputs
  Cached <- MCCached
  Candidates <- MCCandidates
  Affected <- MCAffected
  Repacked <- MCRepacked
  Counterfactual <- MCNone
  Supported = {a, b}
  BlockSize = 2
  MinSpan = 1
  MinRepackedSpan = 2
  Budget = 5
  MaxPreemptions = 1
SPECIFICATION Spec
INVARIANTS
  FallbackIsPreserved
CHECK_DEADLOCK FALSE
