SPECIFICATION Spec
CONSTANTS
  t1 = t1
  t2 = t2
  e1 = e1
  e2 = e2
  e3 = e3
  d1 = d1
  d2 = d2
  c1 = c1
  c1x = c1x
  c2 = c2
  x1 = x1
  x2 = x2
  NoClient = NoClient
  NoRequest = NoRequest
  Thread <- TwoThreads
  Event <- ThreeEvents
  Delegation <- TwoDelegations
  Commitment <- ThreeCommitments
  Leaf <- TwoLeaves
  Client <- TwoClients
  Purpose <- TwoPurposes
  AuthAgent <- MCAuthAgent
  DelegAgent <- MCDelegAgent
  ClientOf <- MCClientOf
  PurposeOf <- MCPurposeOf
  Strip <- MCStrip
  Capacity = 2
  MaxRequests = 3
  MaxFailures = 1
  MaxCrashes = 1
SYMMETRY ThreadSymmetry
INVARIANTS
  WitnessOpensRoot
  AckDurable
  CapacityRespected
  ReplayBounded
CHECK_DEADLOCK FALSE
