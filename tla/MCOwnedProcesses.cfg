\* Two runtime identities in the life of a data directory, failing transactions.
CONSTANTS
  Inst = {i1, i2}
  MaxOwned = 2
  DatabaseFails = TRUE
  None = None
SPECIFICATION Spec
SYMMETRY InstSymmetry
INVARIANTS
  NoOrphan
  ResultIsVouched
PROPERTIES
  ExitIsFinal
