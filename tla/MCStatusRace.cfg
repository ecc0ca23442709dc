SPECIFICATION Spec
CONSTANTS
  Threads = {t1, t2}
  Ctxs = {c1, c2}
  Configs = {o1, o2}
  None = None
  MaxCalls = 2
SYMMETRY Symmetry
INVARIANT StatusReadUnraced
