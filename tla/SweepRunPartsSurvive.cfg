CONSTANTS
  Grid <- TwoCells
  Jobs = {j1, j2}
  Concurrency = 1
  MaxFaults = 0
  Inherited = {"clean"}
SPECIFICATION Spec
PROPERTIES
  PartsSurvive
