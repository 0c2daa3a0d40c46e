SPECIFICATION FairSpec
CONSTANTS
  Gnb = {A, B}
  A = A
  B = B
  First = {A}
  NoCell = NoCell
  MaxRnti = 3
  MaxFailures = 2
  Orders = {TRUE, FALSE}
  Forwards = TRUE
INVARIANTS AnswersExpected ContextInv TunnelFree
PROPERTIES OwnRelease NoStaleContext
CHECK_DEADLOCK FALSE
