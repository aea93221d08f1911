---------------------------- MODULE CausalVerdict ----------------------------
(***************************************************************************)
(* What the causal experiment concludes (rq3b.analyse_rq3b): six contrasts *)
(* of the active gate, two outcomes by three controls, corrected as one    *)
(* family by Holm's procedure (the default, and what the driver uses), and *)
(* the verdict on H6 read off those of the primary outcome.                *)
(*                                                                         *)
(* A p-value is a whole number of units, Alpha of them the level; the      *)
(* bootstrap that yields it is external. The cap of a corrected p-value at *)
(* one is left out: it is above any level.                                 *)
(***************************************************************************)
EXTENDS Integers, FiniteSets, FiniteSetsExt

CONSTANTS
  PValues,  \* the p-values a contrast may get, in units
  Alpha     \* the level, in the same units

ASSUME VerdictAssumption ==
  /\ Alpha \in Nat /\ PValues \subseteq Nat \ {0}
  /\ \E q \in PValues : q >= Alpha

VARIABLES
  empty,      \* the arms without a record
  rates,      \* the arms' success rates: all 0 or all 1, or neither
  pvalue,     \* contrast -> its p-value
  favours,    \* control -> the active gate succeeded more often
  corrected,  \* contrast -> its corrected p-value, 0 before
  verdictPc,
  verdict

verdictInputs == <<empty, rates, pvalue, favours>>
verdictVars == <<empty, rates, pvalue, favours, corrected, verdictPc, verdict>>
-----------------------------------------------------------------------------
Controls == {"matched_random", "random_trigger", "off"}
Blind == {"matched_random", "random_trigger"}
Contrasts == {"success", "steps"} \X Controls

(* analyse_rq3b: all four arms, or none of it.                             *)
RequireArms ==
  /\ verdictPc = "arms"
  /\ verdictPc' = IF empty = {} THEN "contrasts" ELSE "refused"
  /\ UNCHANGED <<verdictInputs, corrected, verdict>>

FamilyOfOutcome(c) == {d \in Contrasts : d[1] = c[1]}
(* One family over both outcomes and all controls.                         *)
Family(c) == Contrasts

(* Holm: each p-value times the number of those not below it, and never    *)
(* less than what a smaller one came to.                                   *)
Holm(c) ==
  Max({pvalue[d] * Cardinality({e \in Family(c) : pvalue[e] >= pvalue[d]}) :
         d \in {d \in Family(c) : pvalue[d] <= pvalue[c]}})

CorrectFamily ==
  /\ verdictPc = "contrasts"
  /\ corrected' = [c \in Contrasts |-> Holm(c)]
  /\ verdictPc' = "verdict"
  /\ UNCHANGED <<verdictInputs, verdict>>

Beaten == {k \in Controls : corrected[<<"success", k>>] < Alpha /\ favours[k]}

(* _verdict.                                                               *)
DrawVerdict ==
  /\ verdictPc = "verdict"
  /\ verdict' = CASE rates # "varied"           -> "untestable"
                  [] rates = "varied" /\ Blind \subseteq Beaten -> "supported"
                  [] rates = "varied" /\ ~(Blind \subseteq Beaten)
                     /\ Blind \cap Beaten # {}  -> "partial"
                  [] OTHER                      -> "not supported"
  /\ verdictPc' = "concluded"
  /\ UNCHANGED <<verdictInputs, corrected>>
-----------------------------------------------------------------------------
(* When every rate is the same, no success draw differs from zero.         *)
VerdictInit ==
  /\ empty \in SUBSET (Controls \cup {"active"})
  /\ rates \in {"floor", "ceiling", "varied"}
  /\ pvalue \in [Contrasts -> PValues]
  /\ favours \in [Controls -> BOOLEAN]
  /\ rates # "varied" =>
       \A k \in Controls : ~favours[k] /\ pvalue[<<"success", k>>] = Max(PValues)
  /\ empty # {} => rates = "floor" /\ \A c \in Contrasts : pvalue[c] = Max(PValues)
  /\ corrected = [c \in Contrasts |-> 0]
  /\ verdictPc = "arms"
  /\ verdict = "none"

VerdictNext == RequireArms \/ CorrectFamily \/ DrawVerdict

VerdictSpec == VerdictInit /\ [][VerdictNext]_verdictVars
-----------------------------------------------------------------------------
(***************************************************************************)
(* Properties.                                                             *)
(***************************************************************************)
(* Every variable has its type.                                            *)
VerdictTypeOK ==
  /\ empty \in SUBSET (Controls \cup {"active"})
  /\ rates \in {"floor", "ceiling", "varied"}
  /\ pvalue \in [Contrasts -> PValues]
  /\ favours \in [Controls -> BOOLEAN]
  /\ corrected \in [Contrasts -> Nat]
  /\ verdictPc \in {"arms", "contrasts", "verdict", "concluded", "refused"}
  /\ verdict \in {"none", "untestable", "supported", "partial", "not supported"}

(* The closed test of a contrast: every set of contrasts it could be true  *)
(* together with holds one that Bonferroni rejects for that set.           *)
RejectedWithEvery(c) ==
  \A S \in SUBSET Contrasts : c \in S => \E d \in S : Cardinality(S) * pvalue[d] < Alpha

Shown(k) == favours[k] /\ RejectedWithEvery(<<"success", k>>)

(* The verdict says what the contrasts show, with the error of the whole   *)
(* family of six under the level (rq3b.py 324-326, "every contrast below   *)
(* is a chance to declare it"): supported if and only if both score-blind  *)
(* controls are beaten on success, partial if exactly one is, whatever the *)
(* steps or the ungated arm say, and a run without variance, or without    *)
(* one of its arms, concludes neither.                                     *)
SupportedIsEarned ==
  verdictPc = "concluded" =>
    /\ empty = {}
    /\ verdict = "untestable" <=> rates # "varied"
    /\ verdict = "supported" <=> \A k \in Blind : Shown(k)
    /\ verdict = "partial" <=> Cardinality({k \in Blind : Shown(k)}) = 1
=============================================================================
