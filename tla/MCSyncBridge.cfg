SPECIFICATION FairSpec
CONSTANTS
  Calls = {k1, k2, k3}
  Cells = {a1, a2}
  None = None
INVARIANTS
  TypeOK
  CallbackOwnsPromise
  AnswersOwnCall
  NoPromiseLost
PROPERTIES
  PromisesReclaimed
CHECK_DEADLOCK FALSE
