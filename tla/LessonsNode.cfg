SPECIFICATION Spec
CONSTANTS
  p1 = p1
  p2 = p2
  p3 = p3
  p4 = p4
  Proc <- Four
  Sees <- TwoSee
  MaxClaims = 1
  MaxDeaths = 2
  Asks = {"a1", "a2"}
  TeachKey = {"k", "w"}
  Lessons = {1, 2}
  Knows = {"a", "b"}
  StackUnder <- OnA
  Hidden = {"b"}
  QueueMax = 1
  ActivePerKey = 1
  PerDay = 1
  MaxLost = 1
  MaxStops = 2
  Teacher = {"o"}
  Knowledge = {"k", "j"}
  Published <- TwoPublished
  File = {"f", "g"}
  Readings <- FilesRead
  Typed <- TypedRows
  MaxRows = 3
  KeptPerKey = 2
  MaxSets = 2
  MaxRevision = 2
  MaxLessons = 1
  Visitor = {"v", "w"}
  Bucket = {"ip", "kv", "kw"}
  BucketsOf <- Buckets
  Offer = {"o1", "o2"}
  Rows <- RowsOf2
  Bases <- BasesOf2
  Context <- ContextOf2
  KnownItems = {"b", "d", "e"}
  DraftOf <- Drafts2
  Below <- Under2
  Spots = {1, 2}
  Spans <- Spans2
  Delta = {"d"}
  Teaches <- Teaches2
  Listed <- Listed2
  Malformed = {}
  PerCall = 2
  CallsPerUnit = 3
  Hourly = 3
  Unlisted = "unlisted"
  MaxProbes = 2
  MaxHours = 1
  MaxTurns = 2
INVARIANTS HoldersAreCounted QueueIsBounded CopyIsDeclared ModelIsPutBack
PROPERTY DeadIsTakenBack
CONSTRAINT Apart
CHECK_DEADLOCK FALSE
