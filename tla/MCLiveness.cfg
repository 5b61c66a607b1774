CONSTANTS
  x1 = x1
  x2 = x2
  s = s
  w = w
  c1 = c1
  c2 = c2
  a1 = a1
  a2 = a2
  evidence = evidence
  session = session
  k1 = k1
  k2 = k2
  Target = {x1, s}
  Key = {k1}
  TypeOf <- MCTypeOf
  InputOf <- MCInputOf
  MaxJobs = 2
  MaxAttempts = 2
  MaxVersion = 1
  MaxStarts = 2
  MaxBusy = 0
SPECIFICATION FairSpec
INVARIANT OneJobPerExtraction
PROPERTIES
  StartRecoversImports
  StartedJobsEnd
  QueuedIsClaimed
