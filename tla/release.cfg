SPECIFICATION SystemSpec
CONSTANTS
  Runs = {1, 2, 3}
  Commits = {1, 2}
  Bases <- const_Bases
  PolicyFloor = 1
  NumberLimit = 3
  NoPlan = NoPlan
  Flows = {1, 2}
  Files = {1, 2}
  Requests = {"rc", "stable"}
  Images = {1, 2}
  Budget <- const_Budget
INVARIANTS NumbersUnique PublishedIsBacked LatestIsComplete
PROPERTIES LedgerDurable RefinesNumbers NoDowngrade FinalIsClosed
CHECK_DEADLOCK FALSE
