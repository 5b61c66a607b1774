\* Two services, the code's five schema versions, one start found in any of them.
CONSTANTS
  Service = {s1, s2}
  NoService = NoService
  Missing = Missing
  Damaged = Damaged
  Latest = 5
  MaxClock = 8
  MaxFaults = 2
SPECIFICATION FairSpec
INVARIANTS
  RecoveryPoints
  InterruptedUpgradeResumes
PROPERTIES
  UpgradeCompletes
  ImplementsStore
