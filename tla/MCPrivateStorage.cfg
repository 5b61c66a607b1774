SPECIFICATION StorageSpec
CONSTANTS
  Upload = {u1, u2}
  Content = {b1, b2}
  Script = {s1}
  Audio = {a1, a2}
  Clear = {c1, c2}
  MaxFaults = 3
CHECK_DEADLOCK FALSE
INVARIANT RowsHaveTheirBytes
PROPERTY PurgedAudioIsGone
