CONSTANTS
  Workers = {w1, w2}
  Texts = {t1, t2}
  MaxKills = 0
SPECIFICATION Spec
INVARIANTS
  SafeToShare
