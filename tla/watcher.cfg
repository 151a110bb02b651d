SPECIFICATION FairSpec
CONSTANTS
  acme = acme
  beta = beta
  a1 = a1
  a2 = a2
  b1 = b1
  None = None
  Client <- TwoClients
  Mapped <- OnlyAcme
  Auth <- ThreeAuths
  ClientOf <- MCClientOf
  Agent <- TwoAgents
  AgentOf <- MCAgentOf
  Me <- MCMe
  QueueCap = 2
  MaxRuns = 2
  MaxDelivered = 6
INVARIANTS
  TypeOK
  
  OnlyMyAuthorizations
PROPERTIES
  Settles
CHECK_DEADLOCK FALSE
