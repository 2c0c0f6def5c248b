SPECIFICATION Spec
CONSTANTS
  None = None
  Foreign = Foreign
  Assemblers = {p1, p2}
  Packages <- MCPackages
  Attempt = 2
  Version = "v"
  MaxChanges = 1
INVARIANTS OutputVerifies EvidenceIsTrue SetIsWhole
PROPERTY OthersKeepTheirNames
CHECK_DEADLOCK FALSE
