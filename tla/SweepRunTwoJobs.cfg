\* Two jobs on one dataset, a pool of two threads each: what still holds.
CONSTANTS
  Grid <- TwoCells
  Jobs = {j1, j2}
  Concurrency = 2
  MaxFaults = 1
  Inherited = {"clean"}
SPECIFICATION Spec
INVARIANTS
  NoGaps
