SPECIFICATION Spec
CONSTANTS
  a1 = a1
  a2 = a2
  m1 = m1
  m2 = m2
  NoMonth = NoMonth
  Agent <- TwoAgents
  Month <- TwoMonths
  Revenue <- MCRevenue
  MinPayout = 2
  DryRun <- DryAndReal
  MaxLogins = 2
  MaxRuns = 3
  MaxLost = 1
  MaxCrashes = 1
SYMMETRY AgentSymmetry
INVARIANTS
  LedgerBalanced
  PaidMovedOrPretended
  MovedMeansPaid
PROPERTIES
  PoolRespected
CHECK_DEADLOCK FALSE
