\* One call at a time, no stop, errors that tell the truth, nobody pays again on purpose.
SPECIFICATION BuySpec
CONSTANTS
  Call = {c1}
  MaxQuotes = 2
  Kinds = {"ain"}
  FaithfulErrors = TRUE
  MayRepeat = FALSE
  MaxCrashes = 0
INVARIANTS
  PaidOnce
