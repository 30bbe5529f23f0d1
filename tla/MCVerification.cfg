SPECIFICATION VerificationSpec
CONSTANTS
  MaxMessages = 3
  MaxRoots = 2
  MaxBlocks = 4
  MaxLeaves = 7
  DeployBlock = 1
  Chunk = 2
INVARIANTS VerificationTypeOK SearchIsExact AnswerIsRight ProofsVerify RootFixesLeaves
CHECK_DEADLOCK FALSE
