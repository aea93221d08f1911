---------------------------- MODULE MCCalibration ----------------------------
(* The default budget of one handoff in five, and three others.            *)
EXTENDS Calibration

MCBudgets == {[num |-> 1, den |-> 5], [num |-> 1, den |-> 4], [num |-> 1, den |-> 2],
              [num |-> 1, den |-> 1]}
=============================================================================
