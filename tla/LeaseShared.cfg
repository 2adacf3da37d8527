\* One verifier of two listings that share a body; a download may break off.
SPECIFICATION AccessFairSpec
CONSTANTS
  Item = {"a", "b"}
  Ours = {"a", "b"}
  BodyOf <- OneBody
  Order <- InOrder
  SetAccess <- Private
  Checker = {"v"}
  Payer = {}
  Quorum = 1
  LeaseFetches = 3
  TokenMax = 1
  MaxChallenges = 2
  MaxBroken = 1
  MaxTokens = 0
PROPERTY WaitingIsMet
CHECK_DEADLOCK FALSE
