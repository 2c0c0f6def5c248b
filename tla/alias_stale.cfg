\* A connection that takes a second name.
SPECIFICATION PathSpec
CONSTANTS
  Name = {1, 2}
  Iface = {"BusItem"}
  BusItem = "BusItem"
  Path = {1}
  Conn = {c1, c2}
  NoConn = NoConn
  Contents <- NumberOrNot
  MaxPendingBatches = 2
  MaxPendingItems = 2
  PendingTTL = 1
  RefreshInterval = 1
  RetryDelay = 1
  CallTimeout = 1
  RepliesInOrder = TRUE
  CallsMayRaise = FALSE
  SelectGlobal = TRUE
  SelectKeys <- NoKeys
  SubscribeLate = FALSE
  MaxWire = 2
  MaxBatches = 2
  Serial = {1, 2}
  OtelSerial <- OwnSerial
  PromSerial <- OwnSerial
SYMMETRY Symmetry
PROPERTY UnavailableRemoves
