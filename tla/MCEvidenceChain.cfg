CONSTANTS
  Dialogue = "dialogue"
  Upstream = {"structure", "dialogue"}
  MaxExtractions = 2
  MaxRuns = 1
  MaxChanges = 2
  Role = {"narrator", "extra"}
  Narrators = {"narrator"}
  Custom = {"extra"}
  v1 = v1
  v2 = v2
  leaf1 = leaf1
  leaf2 = leaf2
  Voice <- MCVoice
  NoVoice = NoVoice
  Leaf <- MCLeaf
  MaxCasts = 1
  MaxCorrections = 3
SPECIFICATION ChainSpec
CHECK_DEADLOCK FALSE
SYMMETRY MCSymmetry
INVARIANT NothingApprovedHasChanged
PROPERTY RefusalStands
