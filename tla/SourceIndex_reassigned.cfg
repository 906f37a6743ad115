CONSTANTS
  a1 = a1
  a2 = a2
  b = b
  c = c
  sA = sA
  sB = sB
  idA = idA
  idB = idB
  idC = idC
  Request = {a1, a2, b, c}
  RequestId = {idA, idB, idC}
  Session = {sA, sB}
  NoSource = NoSource
  NoSession = NoSession
  NoHash = NoHash
  Block = {k1, k2, k3, k4}
  Id <- MCId
  Prompt <- MCPrompt
  Domain <- MCDomain
  SessionOf <- MCSession
  Named <- MCNamed
  AutoSource = {c}
  CanPreempt = {}
  Remote = {c}
  BlockSize = 2
  MaxSources = 2
  Repacking = TRUE
  FingerprintWindow = 2
  SearchLimit = 2
  MinShared = 1
  MaxLeases = 1
SYMMETRY BlockSymmetry
SPECIFICATION Spec
INVARIANTS
  NoReassignedBlockIsRetained
