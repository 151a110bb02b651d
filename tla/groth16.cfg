SPECIFICATION Spec
CONSTANTS
  FieldPrime = 103
  U = 1
  Xi <- MCXi
  Digits <- MCDigits
  Point1 <- MCPoint1
  Point2 <- MCPoint2
  Generated <- MCGenerated
  Order = 97
  Radix = 128
  NVars = 4
  NPublic = 1
  DomainSize = 4
  Root = 33
  Coefs <- MCCoefs
  NLOCKS = 2
  Threads <- MCThreads
  NoThread = NoThread
  Begin <- MCBegin
  End <- MCEnd
  Key <- MCKey
  VerificationKey <- MCVerificationKey
  Witnesses <- MCWitnesses
  Satisfying <- MCSatisfying
  Randoms <- MCRandoms
  Inputs <- MCInputs
  Changes <- MCChanges
  Foreign <- MCForeign
  Protocols = {"groth16", "plonk"}
INVARIANTS
  ProofVerifies
  MillerExact
  SumsComplete
  BlindingCancels
  EquationChecked
CHECK_DEADLOCK FALSE
