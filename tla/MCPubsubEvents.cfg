SPECIFICATION PSpec
CONSTANTS
  Keys = {x1, x2}
  Bounds = {0, 1}
  Threads = {t1, t2}
  MaxHandlers = 1
  MaxArrivals = 1
SYMMETRY Symmetry
INVARIANTS
  MessagesAccounted
  EventReachesHandler
  DropsReported
