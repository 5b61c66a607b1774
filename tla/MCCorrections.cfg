SPECIFICATION CorrectionsSpec
CONSTANTS
  Chapter = {"c1", "c2"}
  Scene = {"s1", "s2"}
  Character = {"x", "y"}
  Mention = {"m1", "m2"}
  Line = {"l1"}
  ParentOf <- MCParentOf
  SceneOf <- MCSceneOf
  CandidatesOf <- MCCandidatesOf
  Name = {"n"}
  MaxTexts = 2
  MaxAnalyses = 2
  MaxEvents = 4
CHECK_DEADLOCK FALSE
INVARIANTS CorrectionsSurviveReruns ChangedEvidenceGoesBack RunsAreIsolated
