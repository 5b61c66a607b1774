CONSTANTS
  Roles <- MCRoles
  Narrators = {"narrator"}
  Scopes = {"hero"}
  MaxSessions = 3
  MaxClips = 3
  MaxEntries = 2
  MaxChanges = 1
SPECIFICATION MCSpec
CHECK_DEADLOCK FALSE
INVARIANTS ReadyRestsOnCurrentEvidence
PROPERTIES UnrelatedApprovalsStay
