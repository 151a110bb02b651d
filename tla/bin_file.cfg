SPECIFICATION Spec
CONSTANTS
  Files <- MCFiles
  Garbage <- MCGarbage
  Lost <- MCLost
  Word = 256
  Width = 2048
INVARIANTS
  WithinFile
  AcceptedIffWhole
  HeaderExact
CHECK_DEADLOCK FALSE
