\* Names for every directory set aside, four crashes, failures or accidents.
CONSTANTS
  Tomb = {t1, t2, t3, t4, t5}
  MaxFaults = 4
SPECIFICATION Spec
INVARIANTS
  BytesKept
  InstalledIsInPlace
  WorkKeepsInstallation
  StartsUnlessCleanupFailed
