SPECIFICATION FairSpec
CONSTANTS
  Topics = {x1, x2}
  Consumers = {h1, h2}
  MessageBounds = {1, 3}
  ByteBounds = {0, 4}
  Sizes = {2, 5}
  Word = 6
  MaxArrivals = 3
INVARIANTS
  Bounded
  BytesAccounted
  Ordered
  NoSleeperOnMessage
PROPERTIES
  BacklogSpec
  TimeoutMeansEmpty
  PopReturns
