SPECIFICATION Spec
CONSTANTS
  good = good
  better = better
  refused = refused
  garbage = garbage
  ours = ours
  foreign = foreign
  t1 = t1
  t2 = t2
  Empty = Empty
  None = None
  Truncated = Truncated
  Input <- MCInput
  Parses <- MCParses
  Solves <- MCSolves
  Circuit <- MCCircuit
  Loaded <- MCCircuit
  Built <- MCCircuit
  Foreign <- MCForeign
  Worker <- MCWorker
  MaxPosts = 3
INVARIANTS
  SoleWorker
  ReplyHonest
PROPERTIES
  JobSpec
  JobEnds
CHECK_DEADLOCK FALSE
