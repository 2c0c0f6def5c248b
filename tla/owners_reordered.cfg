\* Replies may overtake signals or trail them.
SPECIFICATION Spec
CONSTANTS
  Name = {1, 2}
  Iface = {"BusItem"}
  BusItem = "BusItem"
  Path = {1}
  Conn = {c1, c2}
  NoConn = NoConn
  Contents <- OneItem
  MaxPendingBatches = 2
  MaxPendingItems = 2
  PendingTTL = 2
  RefreshInterval = 2
  RetryDelay = 1
  CallTimeout = 1
  RepliesInOrder = FALSE
  CallsMayRaise = TRUE
  SelectGlobal = TRUE
  SelectKeys <- NoKeys
  SubscribeLate = FALSE
  MaxWire = 3
  MaxBatches = 1
SYMMETRY Symmetry
INVARIANT NeverStuckRefreshing
INVARIANT SettledBelief
INVARIANT StoppedIsInert
