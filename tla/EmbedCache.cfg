\* Two threads, two texts, one kill.
CONSTANTS
  Workers = {w1, w2}
  Texts = {t1, t2}
  MaxKills = 1
SPECIFICATION FairSpec
INVARIANTS
  TypeOK
  AloneIsSafe
PROPERTIES
  TornHeals
  CallsEnd
