SPECIFICATION Spec
CONSTANTS
  Ag = {"a", "b"}
  MaxRunning = 1
  MaxHosted = 3
  AgentId = {"a"}
  People = {"p", "q"}
  Team = {"t", "u"}
  TeamRoles <- OneMap
  FeedMax = 1
  MaxShared = 3
  Proj = {"p1"}
  Commit = {"s", "t", "c", "g"}
  KindOf <- KindOfCommit
  Operator <- OperatorOf
  Callers = {"m"}
  MaxConcurrent = 2
  Retain = 1
  MaxDeployments = 2
  MaxReboots = 1
  Tree = {"x", "y", "bad"}
  Runs = {"x", "y"}
  GitCaller = {g1, g2}
  Url = {"u"}
  MaxCommits = 3
  MaxEdits = 2
  RunIds = {"r1", "r2"}
  RunCallers = {"k", "v"}
  KeyedCaller = {"k"}
  Language = {"python"}
  Host = {"ours", "other"}
  AllowedHosts = {"ours"}
  MaxRuns = 2
  PerCaller = 1
  PerKeyedCaller = 2
  MaxRedirects = 2
  MaxStray = 1
  MaxNodeRestarts = 1
  AgentIds = {"a"}
  Upstreams = {"u"}
  MeshPeers = {"p", "q"}
  ConfigAgent = {}
  LabelSets <- Labels
  Requirements <- Asked
  EgressFloor = {"eu"}
  LabelAuthority = {"p"}
  MaxSeen = 2
INVARIANTS TokensAreHeld FollowersAreTold LiveIsNewest OneAnswer SlotsAreRuns BodyNeedsLabels
SYMMETRY CallersAlike
CONSTRAINT Apart
CHECK_DEADLOCK FALSE
