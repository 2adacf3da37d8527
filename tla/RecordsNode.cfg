SPECIFICATION Spec
CONSTANTS
  Grace = 1
  MaxFetch = 2
  MaxRecords = 2
  MaxExtras = 1
  home = home
  near = near
  far = far
  Endpoints = {home, near, far}
  Seeds = {home}
  Shelf <- TheirRecords
  Taken <- TakenAt
  Dated <- DatedAt
  Refusable = {"bad"}
  PageSize = 2
  MaxPeers = 2
  EvictAfter = 2
  MaxTrouble = 2
  Items = {"v1", "v2", "d", "e", "u"}
  Verified = {"v1", "v2", "d", "e"}
  NewerOf <- Newer
  Dear = {"d", "e"}
  TrackFirst = {"v1"}
  MaxTrack = 4
  Own = {"a1", "a2", "a3"}
  Foreign = {"f1", "f2"}
  Bytes <- SameBytes
  Overlaps <- AllOverlap
  Parents <- OnA1
  Updates = {}
  SeenCap = 1
  Already = {"a1"}
  MaxListing = 3
  Item = {"a", "b", "f"}
  Ours = {"a", "b"}
  BodyOf <- Own3
  Order <- Od
  SetAccess <- SetsOpen
  Checker = {"v"}
  Payer = {"p"}
  Quorum = 1
  LeaseFetches = 3
  TokenMax = 1
  MaxChallenges = 2
  MaxBroken = 3
  MaxTokens = 1
INVARIANTS ServedIsHeld SupersededByNewer
PROPERTIES ChallengesEnd EveryRecordArrives KeepsUp EveryWaitingIsMet
CONSTRAINT Apart
CHECK_DEADLOCK FALSE
