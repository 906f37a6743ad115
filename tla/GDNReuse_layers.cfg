CONSTANTS
  a = a
  b = b
  c = c
  Request = {a, b, c}
  NoSource = NoSource
  NoOperator = NoOperator
  Key <- MCKey
  Capacity = 2
  Blocks <- MCBlocks
  TailTokens <- MCTail
  Salt <- MCSalt
  SourceOf <- MCSource
  BlockSize = 2
  MaxSources = 2
  Layers = 2
  Budget = 5
  Active = TRUE
  MaxPreemptions = 1
  MaxResets = 1
SPECIFICATION Spec
INVARIANTS
  TypeOK
  SidecarsConsistent
  LayersAgree
  AppliedOperatorsFit
PROPERTIES
  AdmittedReuseHappens
  ImplementsOperatorCache
CHECK_DEADLOCK FALSE
