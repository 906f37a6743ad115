CONSTANTS
  a = a
  b = b
  c = c
  Request = {a, b, c}
  NoSource = NoSource
  NoOperator = NoOperator
  Key <- MCKey
  Capacity = 4
  Blocks <- MCBlocks
  TailTokens <- MCTail
  Salt <- MCSalt
  SourceOf <- MCSource
  BlockSize = 2
  MaxSources = 2
  Layers = 2
  Budget = 4
  Active = TRUE
  MaxPreemptions = 0
  MaxResets = 0
SPECIFICATION Spec
INVARIANTS
  EveryPrefillRuns
CHECK_DEADLOCK FALSE
