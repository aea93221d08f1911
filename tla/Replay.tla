------------------------------- MODULE Replay -------------------------------
(***************************************************************************)
(* Counterfactual replay (experiments/rq3a_replay.py): a sample of steps   *)
(* is drawn, its cost is forecast, and each step is replayed a few times   *)
(* against a budget of model calls and seconds; the majority is its label. *)
(*                                                                         *)
(*   sampling --> sampled                                                  *)
(*   forecasting --> refused                                               *)
(*              \--> replaying (one attempt a step) --> labelled           *)
(*                                                                         *)
(* The backend is external: a replay fails or not, at a cost within the    *)
(* declared band. Time only matters as the moment the limit has passed.    *)
(***************************************************************************)
EXTENDS Integers, Sequences, FiniteSets, FiniteSetsExt

CONSTANTS
  Strata,          \* the outcomes a step's trace can have: failed, not, unknown
  MaxStratum,      \* bound on the steps of a stratum
  MaxReplaySteps,  \* bound on the steps of one labelling
  MaxReplays,      \* bound on the replays of a step
  MaxCost          \* bound on the calls of one replay

ASSUME StrataAssumption == IsFiniteSet(Strata)
ASSUME ReplayBoundsAssumption ==
  /\ MaxStratum \in Nat /\ MaxReplaySteps \in Nat
  /\ MaxReplays \in Nat \ {0} /\ MaxCost \in Nat \ {0}

VARIABLES
  available,  \* stratum -> its steps
  wanted,     \* the size of sample asked for
  allocated,  \* stratum -> the steps taken from it
  plan,       \* [steps, replays, lo, hi, cap]: the forecast's assumptions
  replayPc,
  spent,      \* model calls on the meter
  overtime,   \* the time limit has passed
  done,       \* completed replays of the step at hand
  failures,   \* those of them that failed
  labels,     \* one label per step, in order
  stopped,    \* the budget ended the run
  cheap       \* bookkeeping: every replay so far cost the least it can

drawVars == <<available, wanted, allocated>>
replayVars == <<available, wanted, allocated, plan, replayPc, spent, overtime, done,
                failures, labels, stopped, cheap>>
-----------------------------------------------------------------------------
(* stratified_sample.                                                      *)
Total == MapThenSumSet(LAMBDA k : available[k], Strata)
Least(a, b) == IF a < b THEN a ELSE b
Size == Least(wanted, Total)
Floor(k) == (Size * available[k]) \div Total
Remainder(k) == (Size * available[k]) % Total
Leftover == Size - MapThenSumSet(Floor, Strata)

AnyOf(extra) == TRUE
(* The strata with the largest remainders get one more; among equals, the  *)
(* order in which the strata appear in the records decides, and may be any.*)
LargestRemainders(extra) ==
  \A k \in extra, l \in Strata \ extra : Remainder(k) >= Remainder(l)

Draw ==
  /\ replayPc = "sampling"
  /\ \E extra \in kSubset(Leftover, {k \in Strata : available[k] > 0}) :
       /\ LargestRemainders(extra)
       /\ allocated' = [k \in Strata |-> Floor(k) + IF k \in extra THEN 1 ELSE 0]
  /\ replayPc' = "sampled"
  /\ UNCHANGED <<available, wanted, plan, spent, overtime, done, failures, labels,
                 stopped, cheap>>
-----------------------------------------------------------------------------
(* project: refused if even the cheapest run is over the cap.              *)
Permitted == plan.steps * plan.replays * plan.lo <= plan.cap

Forecast ==
  /\ replayPc = "forecasting"
  /\ replayPc' = IF Permitted THEN "replaying" ELSE "refused"
  /\ UNCHANGED <<drawVars, plan, spent, overtime, done, failures, labels, stopped, cheap>>

(* label_by_replay.                                                        *)
Here == Len(labels) + 1
RoomForTheWorst == spent + plan.hi <= plan.cap /\ ~overtime
(* Asked before every replay, and of what is spent already.                *)
MayCall == spent < plan.cap /\ ~overtime

Replayable == replayPc = "replaying" /\ Here <= plan.steps /\ done < plan.replays

Attempt(failed, cost) ==
  /\ Replayable
  /\ MayCall
  /\ cost \in plan.lo .. plan.hi
  /\ spent' = spent + cost
  /\ failures' = failures + IF failed THEN 1 ELSE 0
  /\ done' = done + 1
  /\ cheap' = (cheap /\ cost = plan.lo)
  /\ UNCHANGED <<drawVars, plan, replayPc, overtime, labels, stopped>>

(* The time limit passes, if there is one.                                 *)
TimePasses ==
  /\ replayPc = "replaying" /\ ~overtime
  /\ overtime' = TRUE
  /\ UNCHANGED <<drawVars, plan, replayPc, spent, done, failures, labels, stopped, cheap>>

(* The label of the step at hand: nothing when no replay was completed,    *)
(* else the strict majority, a tie being no failure; exhausted when the    *)
(* budget cut its replays short.                                           *)
Label ==
  [failed    |-> IF done = 0 THEN {} ELSE {2 * failures > done},
   replays   |-> done,
   exhausted |-> done < plan.replays]

NextStep ==
  /\ labels' = Append(labels, Label)
  /\ done' = 0 /\ failures' = 0

StepDone ==
  /\ replayPc = "replaying" /\ Here <= plan.steps /\ done = plan.replays
  /\ NextStep
  /\ UNCHANGED <<drawVars, plan, replayPc, spent, overtime, stopped, cheap>>

(* The budget ends the step's attempts; the later steps come to the same   *)
(* test, and are labelled with nothing.                                    *)
BudgetStops ==
  /\ Replayable
  /\ ~MayCall
  /\ stopped' = TRUE
  /\ NextStep
  /\ UNCHANGED <<drawVars, plan, replayPc, spent, overtime, cheap>>

Finish ==
  /\ replayPc = "replaying" /\ Here > plan.steps
  /\ replayPc' = "labelled"
  /\ UNCHANGED <<drawVars, plan, spent, overtime, done, failures, labels, stopped, cheap>>
-----------------------------------------------------------------------------
Plans ==
  {p \in [steps : 0..MaxReplaySteps, replays : 1..MaxReplays, lo : 1..MaxCost,
          hi : 1..MaxCost, cap : 1 .. MaxReplaySteps * MaxReplays * MaxCost + 1] :
     p.lo <= p.hi}
NoPlan == [steps |-> 0, replays |-> 1, lo |-> 1, hi |-> 1, cap |-> 1]

ReplayInit ==
  /\ \/ /\ replayPc = "sampling" /\ plan = NoPlan
        /\ available \in [Strata -> 0..MaxStratum]
        /\ \E k \in Strata : available[k] > 0
        /\ wanted \in 0 .. Cardinality(Strata) * MaxStratum + 1
     \/ /\ replayPc = "forecasting" /\ plan \in Plans
        /\ available = [k \in Strata |-> 0] /\ wanted = 0
  /\ allocated = [k \in Strata |-> 0]
  /\ spent = 0 /\ overtime = FALSE
  /\ done = 0 /\ failures = 0
  /\ labels = <<>>
  /\ stopped = FALSE
  /\ cheap = TRUE

ReplayNext ==
  \/ Draw \/ Forecast
  \/ \E failed \in BOOLEAN, cost \in 1..MaxCost : Attempt(failed, cost)
  \/ TimePasses \/ StepDone \/ BudgetStops \/ Finish

ReplaySpec == ReplayInit /\ [][ReplayNext]_replayVars
-----------------------------------------------------------------------------
(***************************************************************************)
(* Properties.                                                             *)
(***************************************************************************)
LabelType == [failed : {{}, {TRUE}, {FALSE}}, replays : 0..MaxReplays, exhausted : BOOLEAN]

(* Every variable has its type.                                            *)
ReplayTypeOK ==
  /\ available \in [Strata -> 0..MaxStratum] /\ wanted \in Nat
  /\ allocated \in [Strata -> Nat]
  /\ plan \in Plans
  /\ replayPc \in {"sampling", "sampled", "forecasting", "refused", "replaying", "labelled"}
  /\ spent \in Nat /\ done \in 0 .. plan.replays /\ failures \in 0..done
  /\ labels \in Seq(LabelType) /\ Len(labels) <= plan.steps
  /\ overtime \in BOOLEAN /\ stopped \in BOOLEAN /\ cheap \in BOOLEAN

(* The strata sum to the size of the sample (rq3a_replay.py 232, "so the   *)
(* strata sum to exactly n"), none gives more steps than it has, so that   *)
(* drawing without replacement never fails, and a larger stratum never     *)
(* gives fewer steps than a smaller one.                                   *)
SampleFits ==
  replayPc = "sampled" =>
    /\ MapThenSumSet(LAMBDA k : allocated[k], Strata) = Size
    /\ \A k \in Strata : allocated[k] <= available[k]
    /\ \A k, l \in Strata : available[k] < available[l] => allocated[k] <= allocated[l]

(* The final count exceeds the cap by less than one replay's worth         *)
(* (rq3a_replay.py 200).                                                   *)
OverspendIsOneReplay == spent < plan.cap + plan.hi

(* A run that stopped shows it: from some step on every label is marked    *)
(* exhausted, and after the first of them no step has a replay or an       *)
(* outcome. A run that did not stop has a full vote behind every label.    *)
StopIsVisible ==
  LET cut == {i \in DOMAIN labels : labels[i].exhausted}
  IN  /\ stopped <=> cut # {}
      /\ \A i \in cut : \A j \in i + 1 .. Len(labels) :
           j \in cut /\ labels[j].replays = 0 /\ labels[j].failed = {}
      /\ \A i \in DOMAIN labels \ cut : labels[i].replays = plan.replays

(* The cap is where the forecast says: it is overspent by less than one    *)
(* replay, and a run the forecast permitted is never stopped while its     *)
(* replays cost the least they can and the time lasts. A run that was      *)
(* stopped says so at the steps it cut, and at no other.                   *)
BudgetIsKept ==
  /\ OverspendIsOneReplay
  /\ cheap /\ ~overtime => ~stopped
  /\ StopIsVisible
=============================================================================
