SPECIFICATION ApiSpec
CONSTANTS
  t1 = t1
  t2 = t2
  h1 = h1
  Other = other
  Thread <- MCThread
  Descriptor <- MCDescriptor
  Region <- MCRegion
  Handle <- MCHandle
  Zkey <- MCZkey
  Witness <- MCWitness
  Digits <- MCDigits
  MaxCalls = 3
SYMMETRY Symmetric
INVARIANTS
  DescriptorsOwned
  KeyStaysMapped
  SizesSuffice
CHECK_DEADLOCK FALSE
