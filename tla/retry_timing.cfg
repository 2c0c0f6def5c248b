\* The real delays, in seconds.
SPECIFICATION Spec
CONSTANTS
  Name = {1}
  Iface = {"BusItem"}
  BusItem = "BusItem"
  Path = {1}
  Conn = {c1, c2}
  NoConn = NoConn
  Contents <- OneItem
  MaxPendingBatches = 2
  MaxPendingItems = 2
  PendingTTL = 10
  RefreshInterval = 60
  RetryDelay = 5
  CallTimeout = 5
  RepliesInOrder = TRUE
  CallsMayRaise = FALSE
  SelectGlobal = TRUE
  SelectKeys <- NoKeys
  SubscribeLate = FALSE
  MaxWire = 2
  MaxBatches = 1
SYMMETRY Symmetry
PROPERTY RetriedWhileFresh
