SPECIFICATION Spec
CONSTANTS
  s1 = s1
  s2 = s2
  w1 = w1
  w2 = w2
  Sources <- TwoSources
  Workers <- TwoWorkers
  Replicas <- EqualReplicas
  Mebi = 1
  MinChunk = 1
  MaxChunk = 64
  MaxRetries = 1
  MaxFaults = 1
  Stale = Stale
  Idle = Idle
SYMMETRY Symmetric
INVARIANTS
  PlanTilesFile
  BytesInPlace
  SuccessIsTheSource
