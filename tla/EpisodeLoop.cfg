\* Every condition and gate arm, three steps, two retries.
CONSTANTS
  Conditions <- AllConditions
  Modes <- AllModes
  Budget = 3
  MaxRetries = 2
  Wordings = {w1}
  Far = 2
  Horizons = {1, 2, 4}
  NoMessage = NoMessage
  Sentinel = Sentinel
SPECIFICATION FairSpec
CHECK_DEADLOCK FALSE
INVARIANTS
  TypeOK
  DelayIsOneStep
  BlockedIsUngated
  RetriesExplained
  OnlyAcceptedOrSpent
  OneRecordPerStep
  LabelsMeanWhatTheySay
PROPERTIES
  EpisodeEnds
