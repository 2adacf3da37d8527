CONSTANTS
  j1 = j1
  j2 = j2
  Jobs = {j1, j2}
  MaxDrafts = 2
  MaxMishaps = 1
  PublishModes = {"auto", "review"}
  NoJob = none
SPECIFICATION FairTeachSpec
INVARIANTS
  FilesUntilRestored
  CancelIsHonoured
CHECK_DEADLOCK FALSE
CONSTRAINT OneOrTwo
PROPERTY LessonsEnd
