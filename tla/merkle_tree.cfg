SPECIFICATION Spec
CONSTANTS
  x1 = x1
  x2 = x2
  x3 = x3
  h1 = h1
  h2 = h2
  Zero = Zero
  Leaf <- ThreeLeaves
  Short <- MCShort
  Depth = 3
  MaxFallbacks = 1
INVARIANTS
  RootIsReference
  WitnessOpens
  RootBindsLeaves
CHECK_DEADLOCK FALSE
