SPECIFICATION Spec
CONSTANTS
  Ue = {u, v}
  u = u
  v = v
  NumIds = 3
  FirstDedicated = 2
  LastDedicated = 2
  PreambleTransMax = 1
  SrsIndices = 3
  MaxRnti = 2
  MaxSent = 2
  PatientJoining = TRUE
  None = None
INVARIANTS
  
  ResultsExpected
PROPERTY
  DedicatedEnds
CHECK_DEADLOCK FALSE
