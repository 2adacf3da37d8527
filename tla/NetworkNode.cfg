SPECIFICATION Spec
CONSTANTS
  Acc = {"a1", "a2"}
  SsoOrg = {"o1", "o2"}
  Legacy = {"g1"}
  Scripts <- IdpScripts
  MaxAccounts = 3
  Org = {"x", "y"}
  Person = {"p", "q"}
  Domain = {"d"}
  SsoId = {"s"}
  GivenRoles = {0, 3}
  MemberLimit = 2
  PerCreator = 1
  MaxOrganizations = 4
  Wallet = {"ann", "bob"}
  Delegate = {"k"}
  NodeKey = "node"
  ConfigOwners = {"ann"}
  Codes = {"c1", "c2"}
  FreeTries = 0
  Node = {"a", "b"}
  Backend = {"ia", "ib", "ic", "k"}
  Model = {"m", "z", "q"}
  Calls = {"c1", "c2"}
  Kind <- KindOfBackend
  Names <- BackendModels
  Slots <- OneSlot
  Setups <- BackendSets
  Preferred <- Pinned
  PerMinute = 1
  MaxDeep = 1
  MaxStarts = 1
  Test = {"t1", "t2"}
  VisitorOf <- TestVisitors
  IdOf <- RequestIds
  ModelOf <- TestedModel
  MaxReceipts = 2
  MaxEntries = 2
  MaxClock = 3
  MaxFlushes = 2
  MaxCrashes = 1
INVARIANTS SessionsFollow OffboardedIsOut EndedKeyIsOut NamedModelAnswers ReceiptsAreKept
CONSTRAINT Apart
CHECK_DEADLOCK FALSE
