\* One job, a pool of two threads over three cells, any three faults.
CONSTANTS
  Grid <- ThreeCells
  Jobs = {j1}
  Concurrency = 2
  MaxFaults = 3
  Inherited = {"clean", "moved_aside", "foreign"}
SPECIFICATION ResubmittedSpec
INVARIANTS
  TypeOK
  NoDuplicateEpisode
  OneWorld
  ManifestIsTrue
  NoStragglers
PROPERTIES
  PartsSurvive
  CompletedNotRerun
  PoolEnds
  EventuallyPublished
  ImplementsEpisodeLog
