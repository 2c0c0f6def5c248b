\* The queue at both of its limits, batches of one, two and four items.
SPECIFICATION FairSpec
CONSTANTS
  Name = {1}
  Iface = {"BusItem"}
  BusItem = "BusItem"
  Path = {1, 2, 3, 4}
  Conn = {c1, c2}
  NoConn = NoConn
  Contents <- OneTwoOrFour
  MaxPendingBatches = 2
  MaxPendingItems = 3
  PendingTTL = 2
  RefreshInterval = 2
  RetryDelay = 1
  CallTimeout = 1
  RepliesInOrder = TRUE
  CallsMayRaise = TRUE
  SelectGlobal = TRUE
  SelectKeys <- NoKeys
  SubscribeLate = FALSE
  MaxWire = 1
  MaxBatches = 3
INVARIANT QueueAccounted
INVARIANT OnePlaceEach
PROPERTY LeavesForAReason
PROPERTY QueueDrains
PROPERTY RefreshEnds
