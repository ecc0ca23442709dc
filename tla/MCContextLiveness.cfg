SPECIFICATION FairSpec
CONSTANTS
  Threads = {t1, t2}
  Ctxs = {c1, c2}
  Configs = {o1}
  None = None
  MaxCalls = 1
PROPERTIES
  CallsReturn
  UnloadEnds
  LateContextsReaped
