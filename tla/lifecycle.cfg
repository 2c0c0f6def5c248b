\* The main thread, another thread that uses its listener, and a worker that may
\* stop it itself; two signals.
SPECIFICATION ServiceSpec
CONSTANTS
  Main = main
  Caller = {main, t2}
  Worker = worker
  NoThread = none
  MaxPolls = 1
  MaxSignals = 2
INVARIANT ReleasedAtExit
PROPERTIES CleanupIsExclusive StopReturns StopEndsWorker RunEnds ProvidersOutliveWorker ServiceEnds
CHECK_DEADLOCK FALSE
