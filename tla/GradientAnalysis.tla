--------------------------- MODULE GradientAnalysis ---------------------------
(***************************************************************************)
(* The analysis of the information gradient (rq1.analyse_rq1) over         *)
(* whatever grid of conditions and seeds a dataset holds: which of the     *)
(* numbers of the report are computed, which are withheld, and what loses  *)
(* the whole report.                                                       *)
(*                                                                         *)
(*   labels -> labelled -> scored -> handoffs -> models -> contrasts ->    *)
(*   written                                                               *)
(*                                                                         *)
(* "labels" may be refused, and every later stage may raise.               *)
(*                                                                         *)
(* A cell of the grid is its episodes' outcome: absent, all failed or all  *)
(* successful. Probes and fits are external: each may raise where nothing  *)
(* catches it, and a bootstrap keeps some of its draws.                    *)
(***************************************************************************)
EXTENDS Integers, Sequences, FiniteSets, FiniteSetsExt

CONSTANTS
  Seeds

ASSUME SeedsAssumption == IsFiniteSet(Seeds) /\ Seeds # {}

VARIABLES
  grid,         \* condition -> seed -> absent, fail or success
  progress,     \* how the handoffs carry y_binary_progress
  rqPc,
  handoffModel, \* the conditions whose effect was estimated
  mediation,    \* the conditions with an indirect effect, those with an
                \* interval, and whether path b was fitted with the lengths too
  contrasts,    \* the conditions contrasted with C0
  sensitivity   \* [metric, seeds, dispersion]

rqInputs == <<grid, progress>>
rqVars == <<grid, progress, rqPc, handoffModel, mediation, contrasts, sensitivity>>
-----------------------------------------------------------------------------
ConditionOrder == <<"C0", "C1", "C4">>
Conditions == {ConditionOrder[i] : i \in DOMAIN ConditionOrder}

(* _episode_frame.                                                         *)
Ran(c, s) == grid[c][s] # "absent"
PresentConditions == {c \in Conditions : \E s \in Seeds : Ran(c, s)}
HardestPresent == ConditionOrder[Max({i \in DOMAIN ConditionOrder :
                                 ConditionOrder[i] \in PresentConditions})]
RunSeeds == {s \in Seeds : \E c \in Conditions : Ran(c, s)}
SuccessClasses == {grid[c][s] : c \in Conditions, s \in Seeds} \ {"absent"}

(* Some handoff has no label; all have the same; one value is so rare or   *)
(* in so few episodes, or the episodes are so few, that a training side of *)
(* the labels, or of those drawn for the control task, may lack it or be   *)
(* empty; or none does.                                                    *)
ProgressLabels == {"unlabelled", "constant", "clustered", "spread"}

(* Before any probe is fitted: records, their labels, both classes.        *)
Check ==
  /\ rqPc = "labels"
  /\ rqPc' = IF PresentConditions # {} /\ progress \in {"clustered", "spread"}
             THEN "labelled" ELSE "refused"
  /\ UNCHANGED <<rqInputs, handoffModel, mediation, contrasts, sensitivity>>

(* cpvi_with_sd, pvi and control_task_cpvi: a probe cannot be fitted to a  *)
(* training side that holds one value.                                     *)
FitProbes ==
  /\ rqPc = "labelled"
  /\ \/ rqPc' = "scored"
     \/ progress = "clustered" /\ rqPc' = "raised"
  /\ UNCHANGED <<rqInputs, handoffModel, mediation, contrasts, sensitivity>>

FewSeeds == Cardinality(RunSeeds) < 2
(* The grids that are a capability check, and hold no gradient.            *)
SingleCondition == Cardinality(PresentConditions) < 2

(* _handoff_model: the effects are over the first condition present, and   *)
(* nothing catches what a fit raises.                                      *)
Reference == ConditionOrder[Min({i \in DOMAIN ConditionOrder :
                                   ConditionOrder[i] \in PresentConditions})]
Effects == PresentConditions \ {Reference}

FitHandoffs ==
  /\ rqPc = "scored"
  /\ \/ /\ handoffModel' = IF SingleCondition THEN {} ELSE Effects
        /\ rqPc' = "handoffs"
     \/ /\ ~SingleCondition
        /\ rqPc' = "raised" /\ UNCHANGED handoffModel
  /\ UNCHANGED <<rqInputs, mediation, contrasts, sensitivity>>

(* _episode_mediation: with both outcomes only; nothing catches its fits,  *)
(* either. Path b is fitted with the message lengths if they differ, and   *)
(* _bootstrap_indirect gives no interval below two draws that kept both    *)
(* outcomes and every condition and could be fitted.                       *)
Targets == PresentConditions \ {"C0"}
Mediable == ~SingleCondition /\ Cardinality(SuccessClasses) = 2
NotMediated == [effects |-> {}, intervals |-> {}, lengthControlled |-> FALSE]
Mediations ==
  [effects : {Targets}, intervals : {Targets, {}}, lengthControlled : BOOLEAN]

FitMediation ==
  /\ rqPc = "handoffs"
  /\ \/ /\ mediation' \in IF Mediable THEN Mediations ELSE {NotMediated}
        /\ rqPc' = "models"
     \/ /\ Mediable
        /\ rqPc' = "raised" /\ UNCHANGED mediation
  /\ UNCHANGED <<rqInputs, handoffModel, contrasts, sensitivity>>

(* _contrasts: each condition present against C0, which is looked for only *)
(* now.                                                                    *)
Contrast ==
  /\ rqPc = "models"
  /\ IF "C0" \in PresentConditions
     THEN contrasts' = Targets /\ rqPc' = "contrasts"
     ELSE rqPc' = "raised" /\ UNCHANGED contrasts
  /\ UNCHANGED <<rqInputs, handoffModel, mediation, sensitivity>>

(* seed_sensitivity: the gap between C0 and the hardest condition, over    *)
(* the seeds that ran both; with one condition the success rate and its    *)
(* dispersion, undefined below two seeds and at a pooled rate of 0 or 1.   *)
Sensitivity ==
  /\ rqPc = "contrasts"
  /\ LET paired == {s \in Seeds : Ran("C0", s) /\ Ran(HardestPresent, s)}
         dispersed == ~FewSeeds /\ Cardinality(SuccessClasses) = 2
     IN  IF SingleCondition
         THEN /\ sensitivity' = [metric |-> "success_rate", seeds |-> RunSeeds,
                                 dispersion |-> dispersed]
              /\ rqPc' = "written"
         ELSE /\ sensitivity' = [metric |-> "condition_gap", seeds |-> paired,
                                 dispersion |-> FALSE]
              /\ rqPc' = IF paired = {} THEN "raised" ELSE "written"
  /\ UNCHANGED <<rqInputs, handoffModel, mediation, contrasts>>
-----------------------------------------------------------------------------
RqInit ==
  /\ grid \in [Conditions -> [Seeds -> {"absent", "fail", "success"}]]
  /\ progress \in ProgressLabels
  /\ progress \in {"clustered", "spread"} => PresentConditions # {}
  /\ rqPc = "labels"
  /\ handoffModel = {} /\ contrasts = {}
  /\ mediation = NotMediated
  /\ sensitivity = [metric |-> "none", seeds |-> {}, dispersion |-> FALSE]

RqNext == Check \/ FitProbes \/ FitHandoffs \/ FitMediation \/ Contrast \/ Sensitivity

RqSpec == RqInit /\ [][RqNext]_rqVars
-----------------------------------------------------------------------------
(***************************************************************************)
(* Properties.                                                             *)
(***************************************************************************)
(* Every variable has its type.                                            *)
RqTypeOK ==
  /\ DOMAIN grid = Conditions
  /\ \A c \in Conditions : grid[c] \in [Seeds -> {"absent", "fail", "success"}]
  /\ progress \in ProgressLabels
  /\ rqPc \in {"labels", "labelled", "scored", "handoffs", "models", "contrasts", "written",
              "refused", "raised"}
  /\ handoffModel \subseteq Conditions /\ contrasts \subseteq Conditions
  /\ mediation \in [effects : SUBSET Conditions, intervals : SUBSET Conditions,
                    lengthControlled : BOOLEAN]
  /\ sensitivity \in [metric : {"none", "success_rate", "condition_gap"},
                      seeds : SUBSET Seeds, dispersion : BOOLEAN]

(* Episodes at c and at C0, two different conditions.                      *)
Contrastable(c) ==
  /\ c # "C0"
  /\ \E s \in Seeds : Ran(c, s)
  /\ \E s \in Seeds : Ran("C0", s)

SawBothOutcomes ==
  \E c, d \in Conditions, s, t \in Seeds : grid[c][s] = "fail" /\ grid[d][t] = "success"

(* Every number in a written report has data behind it: an effect, an      *)
(* indirect effect and a contrast are of a condition other than C0 that    *)
(* ran, against a C0 that ran; the mediation, with the lengths or without, *)
(* saw both outcomes; a gap is never of a condition with itself (rq1.py    *)
(* 806-810, "C0 minus itself"), and is there for a seed only if it ran     *)
(* both ends; a dispersion is of two seeds with a pooled rate strictly     *)
(* between 0 and 1; and the three analyses agree on the conditions.        *)
(* A report is lost late only for what the grid lacks or a fit cannot do:  *)
(* after the contrasts only if no seed ran both ends; between the handoff  *)
(* model and the contrasts only for want of C0, or in a mediation that saw *)
(* both outcomes; and never on a grid of C0 alone, the capability check,   *)
(* whose every training side holds both values.                            *)
NumbersHaveData ==
  /\ rqPc = "written" =>
       /\ \A c \in handoffModel \cup mediation.effects \cup contrasts : Contrastable(c)
       /\ handoffModel = contrasts
       /\ mediation.effects \in {{}, contrasts}
       /\ mediation.effects # {} \/ mediation.lengthControlled => SawBothOutcomes
       /\ mediation.intervals \subseteq mediation.effects
       /\ sensitivity.seeds # {}
       /\ sensitivity.metric = "condition_gap" =>
            \E c \in contrasts : \A s \in sensitivity.seeds : Ran("C0", s) /\ Ran(c, s)
       /\ sensitivity.dispersion =>
            \E s, t \in sensitivity.seeds : s # t /\ {grid["C0"][s], grid["C0"][t]} =
                                                       {"fail", "success"}
  /\ rqPc = "raised" =>
       /\ contrasts # {} => ~\E s \in Seeds : Ran("C0", s) /\ Ran(HardestPresent, s)
       /\ handoffModel # {} /\ contrasts = {} =>
            SawBothOutcomes \/ ~\E s \in Seeds : Ran("C0", s)
       /\ progress # "clustered" => \E c \in Conditions \ {"C0"}, s \in Seeds : Ran(c, s)
=============================================================================
