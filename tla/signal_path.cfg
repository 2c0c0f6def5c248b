\* Two services that share a serial label, each subscribed to by name before
\* the first batch.
SPECIFICATION PathSpec
CONSTANTS
  Name = {1, 2}
  Iface = {"BusItem"}
  BusItem = "BusItem"
  Path = {1, 2}
  Conn = {c1, c2}
  NoConn = NoConn
  Contents <- MixedItems
  MaxPendingBatches = 2
  MaxPendingItems = 4
  PendingTTL = 1
  RefreshInterval = 1
  RetryDelay = 1
  CallTimeout = 1
  RepliesInOrder = TRUE
  CallsMayRaise = FALSE
  SelectGlobal = FALSE
  SelectKeys <- AliasKeys
  SubscribeLate = FALSE
  MaxWire = 2
  MaxBatches = 2
  Serial = {1}
  OtelSerial <- SharedSerial
  PromSerial <- SharedSerial
SYMMETRY Symmetry
INVARIANT SamplesAreOwned
INVARIANT NoSupersededReading
INVARIANT ExportersAgree
INVARIANT NothingWaitsForAKnownName
INVARIANT DeliveredUnderOwnName
PROPERTY LostOnlyByItsPublisher
PROPERTY NewestReadingWins
