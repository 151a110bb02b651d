SPECIFICATION OidcSpec
CONSTANTS
  k1 = k1
  k2 = k2
  rp1 = rp1
  rp2 = rp2
  u1 = u1
  u2 = u2
  v1 = v1
  v2 = v2
  h1 = h1
  h2 = h2
  None = None
  Code <- TwoCodes
  ClientId <- TwoClients
  Redirect <- TwoRedirects
  Allowed <- MCAllowed
  Verifier <- TwoVerifiers
  Challenge <- TwoChallenges
  S256 <- MCS256
  Lifetime = 2
  MaxTime = 3
  MaxExchanges = 2
  MaxLocks = 1
INVARIANTS
  ReuseNeedsRefusal
  TokenBound
CHECK_DEADLOCK FALSE
