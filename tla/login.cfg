SPECIFICATION Spec
CONSTANTS
  t1 = t1
  t2 = t2
  a1 = a1
  acme = acme
  beta = beta
  acme1 = acme1
  acme2 = acme2
  beta1 = beta1
  r1 = r1
  r2 = r2
  NoLogin = NoLogin
  Thread <- TwoThreads
  Agent <- OneAgent
  Client <- TwoClients
  Tree <- ThreeTrees
  OwnerOf <- MCOwnerOf
  Root <- TwoRoots
  Window = 2
  MaxRows = 3
  MaxLogins = 2
  MaxKeyChanges = 1
  MaxCrashes = 1
SYMMETRY RootSymmetry
INVARIANTS
  TokenScoped
  TokenLogged
PROPERTIES
  PassedRootIsValid
CHECK_DEADLOCK FALSE
