CONSTANTS
  Traces = {t1, t2}
  MaxHandoffs = 5
  MaxScored = 3
  Unanswered = Unanswered
  Strata = {failed, succeeded, unknown}
  MaxStratum = 4
  MaxReplaySteps = 3
  MaxReplays = 2
  MaxCost = 2
  MaxScore = 2
  MaxCalibrated = 7
  Budgets <- MCBudgets
  Datasets = {d1, d2}
  MaxCalibrations = 3
  Absent = Absent
  Torn = Torn
  Cells = {c1, c2}
  GateSeeds = {0, 1}
  MaxSubmissions = 3
  PValues = {1, 2, 5, 12}
  Alpha = 12
  Results <- MCResults
  SeedCounts = {2, 3}
  MinSeeds = 3
  MaxPilots = 4
  Seeds = {0, 1, 2}
  LabelOrder <- MCLabels
  Rhos = {0, 52}
SPECIFICATION StudiesSpec
INVARIANTS
  StudiesTypeOK
  TruthfulJudgeIsRight
  HitIsEarned
  SampleFits
  BudgetIsKept
  ThresholdIsTight
  AcceptedTransferIsCoherent
  OneArmOneDataset
  SupportedIsEarned
  VerdictIsEarned
  NumbersHaveData
  RecommendationIsEarned
CHECK_DEADLOCK FALSE
