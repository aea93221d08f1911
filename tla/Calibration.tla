----------------------------- MODULE Calibration -----------------------------
(***************************************************************************)
(* The operating point of a runtime statistic (gate/calibration.py):       *)
(* held-out scores of the labelled handoffs are oriented towards failure,  *)
(* and the threshold is the lowest one that keeps the share of blocked     *)
(* handoffs within the budget.                                             *)
(*                                                                         *)
(*   labels --> folds --> orient --> quantile --> above --> calibrated     *)
(*        \--------\--> raised                                             *)
(*                                                                         *)
(* The probe is external: it gives each handoff some score out of          *)
(* 0..MaxScore. The scores are exact and a threshold is kept multiplied by *)
(* the budget's denominator, so that an interpolated quantile is an        *)
(* integer; the rounding of floats is left out.                            *)
(***************************************************************************)
EXTENDS Integers, FiniteSets, FiniteSetsExt

CONSTANTS
  MaxScore,      \* bound on a raw score
  MaxCalibrated,   \* bound on the handoffs calibrated on
  Budgets        \* the firing-rate budgets, as [num, den]

ASSUME CalibrationBoundsAssumption ==
  MaxScore \in Nat /\ MaxCalibrated \in Nat \ {0}
ASSUME BudgetsAssumption ==
  \A b \in Budgets : b.num \in Nat \ {0} /\ b.den \in Nat \ {0} /\ b.num <= b.den

VARIABLES
  scored,       \* score -> the handoffs that have it
  failing,      \* score -> those of them whose episode failed
  budget,
  labelled,     \* every handoff carries an outcome
  oneEpisode,   \* the handoffs are all of one episode
  calPc,
  orientation,  \* 1 or -1
  threshold,    \* the cut, times budget.den
  firing        \* how many handoffs score at or above it

calInputs == <<scored, failing, budget, labelled, oneEpisode>>
calVars == <<scored, failing, budget, labelled, oneEpisode, calPc, orientation,
             threshold, firing>>
-----------------------------------------------------------------------------
Scores == 0..MaxScore
Count(bag) == MapThenSumSet(LAMBDA v : bag[v], Scores)
Handoffs == Count(scored)
Failures == Count(failing)
Passing == [v \in Scores |-> scored[v] - failing[v]]

(* failure_label: fails on the first handoff without an outcome.           *)
CheckLabels ==
  /\ calPc = "labels"
  /\ calPc' = IF labelled THEN "folds" ELSE "raised"
  /\ UNCHANGED <<calInputs, orientation, threshold, firing>>

(* _oof_scores: at least two folds, and no episode in both sides of one,   *)
(* which one episode cannot give.                                          *)
CrossFit ==
  /\ calPc = "folds"
  /\ calPc' = IF oneEpisode THEN "raised" ELSE "orient"
  /\ UNCHANGED <<calInputs, orientation, threshold, firing>>

(* The pairs of a failing and a passing handoff that the score puts in     *)
(* order (sign 1), and against it (-1); the AUROC is below one half when   *)
(* the second are more. With one class there are no pairs.                 *)
PairsWhere(sign) ==
  MapThenSumSet(LAMBDA p : failing[p[1]] * Passing[p[2]],
                {p \in Scores \X Scores : sign * p[1] > sign * p[2]})
Orientation == IF PairsWhere(1) < PairsWhere(-1) THEN -1 ELSE 1

Orient ==
  /\ calPc = "orient"
  /\ orientation' = Orientation
  /\ calPc' = "quantile"
  /\ UNCHANGED <<calInputs, threshold, firing>>
-----------------------------------------------------------------------------
(* _choose_threshold, of the oriented scores.                              *)
Of(v) == IF orientation = 1 THEN scored[v] ELSE scored[-v]
Oriented == IF orientation = 1 THEN Scores ELSE {-v : v \in Scores}
Present == {v \in Oriented : Of(v) > 0}
Below(v) == MapThenSumSet(Of, {u \in Oriented : u < v})
(* The k-th lowest score, from 0.                                          *)
Rank(k) == CHOOSE v \in Present : Below(v) <= k /\ k < Below(v) + Of(v)

(* numpy's quantile at 1 - budget: between two ranks, linearly.            *)
Quantile ==
  LET position == (budget.den - budget.num) * (Handoffs - 1)
      low  == position \div budget.den
      part == position % budget.den
      high == IF part = 0 THEN low ELSE low + 1
  IN  budget.den * Rank(low) + part * (Rank(high) - Rank(low))

FiringAt(t) == MapThenSumSet(Of, {v \in Oriented : budget.den * v >= t})
OverBudget(f) == f * budget.den > budget.num * Handoffs

TakeQuantile ==
  /\ calPc = "quantile"
  /\ threshold' = Quantile
  /\ firing' = FiringAt(Quantile)
  /\ calPc' = "above"
  /\ UNCHANGED <<calInputs, orientation>>

KeepTheTie == calPc = "above" /\ calPc' = "calibrated"
              /\ UNCHANGED <<calInputs, orientation, threshold, firing>>
(* A tie at the quantile may overshoot: the cut moves to the next score    *)
(* above it, or above every score, where nothing fires.                    *)
StepAbove ==
  /\ calPc = "above"
  /\ LET above == {v \in Present : budget.den * v > threshold}
         next  == IF ~OverBudget(firing) THEN threshold
                  ELSE IF above # {} THEN budget.den * Min(above)
                  ELSE budget.den * (Max(Present) + 1)
     IN  threshold' = next /\ firing' = FiringAt(next)
  /\ calPc' = "calibrated"
  /\ UNCHANGED <<calInputs, orientation>>
-----------------------------------------------------------------------------
CalInit ==
  /\ scored \in [Scores -> 0..MaxCalibrated]
  /\ Handoffs \in 1..MaxCalibrated
  /\ failing \in [Scores -> 0..MaxCalibrated]
  /\ \A v \in Scores : failing[v] <= scored[v]
  /\ budget \in Budgets
  /\ labelled \in BOOLEAN
  /\ oneEpisode \in BOOLEAN
  /\ oneEpisode => Failures \in {0, Handoffs}
  /\ Handoffs = 1 => oneEpisode
  /\ ~labelled => Failures = 0 /\ oneEpisode
  /\ calPc = "labels"
  /\ orientation = 1 /\ threshold = 0 /\ firing = 0

CalNext == CheckLabels \/ CrossFit \/ Orient \/ TakeQuantile \/ StepAbove

CalSpec == CalInit /\ [][CalNext]_calVars
-----------------------------------------------------------------------------
(***************************************************************************)
(* Properties.                                                             *)
(***************************************************************************)
(* Every variable has its type.                                            *)
CalTypeOK ==
  /\ scored \in [Scores -> Nat] /\ failing \in [Scores -> Nat]
  /\ budget \in Budgets
  /\ labelled \in BOOLEAN /\ oneEpisode \in BOOLEAN
  /\ calPc \in {"labels", "folds", "orient", "quantile", "above", "calibrated", "raised"}
  /\ orientation \in {-1, 1}
  /\ threshold \in Int /\ firing \in Nat

(* The cut is as aggressive as the budget lets it be: it may overshoot it, *)
(* but by less than one handoff, every lower cut that blocks more is over  *)
(* the budget (calibration.py 135, "Most aggressive threshold"), and the   *)
(* scores it cuts are not in the wrong order of failure more often than in *)
(* the right one.                                                          *)
ThresholdIsTight ==
  calPc = "calibrated" =>
    /\ (firing - 1) * budget.den < budget.num * Handoffs
    /\ \A v \in Present : FiringAt(budget.den * v) > firing
                            => OverBudget(FiringAt(budget.den * v))
    /\ orientation * PairsWhere(1) >= orientation * PairsWhere(-1)

(* The share of blocked handoffs is within the budget, whatever the ties   *)
(* (calibration.py 138-140: "never over budget").                          *)
NeverOverBudget == calPc = "calibrated" => ~OverBudget(firing)
=============================================================================
