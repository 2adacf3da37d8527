\* The seller (faults, one stop), the buyer (two calls, two quotes, errors that
\* may lie, one stop), the queue (five requests of two callers) and the deposit
\* watcher (two chains, three deposits, two failures, one restart).
SPECIFICATION Spec
CONSTANTS
  Buyer = {"payer"}
  SaleQuote = {"q1", "q2"}
  Presentation = {"first", "second", "third"}
  BuyerOf <- QuoteHolder
  Price <- QuotePrice
  Pays <- PresentedFor
  SaleKinds = {"ain", "local"}
  Credit = 3
  LedgerFaults = TRUE
  MaxSellerStops = 1
  Call = {"c1", "c2"}
  MaxQuotes = 2
  Kinds = {"ain", "local"}
  FaithfulErrors = FALSE
  MayRepeat = TRUE
  MaxCrashes = 1
  Queue = {"model", "image"}
  Slots <- SlotsOf
  Leased = {"model"}
  Req = {"a1", "a2", "a3", "b1", "b2"}
  CallerOf <- AskedBy
  Work <- WorkOf
  Polite = {"b2"}
  Lines <- SomeLines
  Scheduling = {TRUE, FALSE}
  Chains <- TwoChains
  Deposit = {"d1", "d2", "d3"}
  ChainOf <- DepositChain
  Confirmations <- HowDeep
  VaultShare = {"ethereum"}
  RpcWidth <- RangeTaken
  MinSpan = 1
  MaxSpan = 2
  FaultKinds <- RpcOrAny
  MaxHead = 2
  MaxFaults = 2
  MaxRestarts = 1
INVARIANTS NoOverdraft QuoteSpentLast MoneyIsOnRecord NeverPaidTwice NobodyWaitsForNothing FairShare FinishedIsCredited
PROPERTIES DepositsAreCredited
CONSTRAINT Apart
\* Every presentation and every request may have been answered.
CHECK_DEADLOCK FALSE
