CONSTANTS
  x1 = x1
  x2 = x2
  s = s
  w = w
  c1 = c1
  c2 = c2
  a1 = a1
  a2 = a2
  evidence = evidence
  session = session
  k1 = k1
  k2 = k2
  Target = {x1, w, c1, a1}
  Key = {k1}
  TypeOf <- MCTypeOf
  InputOf <- MCInputOf
  MaxJobs = 1
  MaxAttempts = 4
  MaxVersion = 2
  MaxStarts = 3
  MaxBusy = 1
SPECIFICATION Spec
CHECK_DEADLOCK FALSE
INVARIANTS
  RowsMirrorJobs
  EventLogAgrees
  PublishedOncePerSuccess
  CheckpointProvenance
