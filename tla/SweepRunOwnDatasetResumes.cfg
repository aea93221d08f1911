CONSTANTS
  Grid <- TwoCells
  Jobs = {j1}
  Concurrency = 1
  MaxFaults = 1
  Inherited = {"clean"}
SPECIFICATION Spec
PROPERTIES
  OwnDatasetResumes
