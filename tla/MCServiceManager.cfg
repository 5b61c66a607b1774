\* The desktop's service manager: three process names, the code's limit of two
\* automatic restarts.  Every state is reachable without any other bound.
\* CHECK_DEADLOCK FALSE: the application ends.
CONSTANTS
  Process = {p1, p2, p3}
  NoProcess = NoProcess
  MaxAutomaticRestarts = 2
SPECIFICATION FairSpec
CHECK_DEADLOCK FALSE
INVARIANTS
  OwnedAndConnected
  PhaseTruthful
  LostServiceRestarts
PROPERTIES
  StaysDown
  PhasesEnd
  AutomaticRestartsEnd
