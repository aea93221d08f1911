------------------------------ MODULE MCStudies ------------------------------
(***************************************************************************)
(* The studies made from a dataset, each a sequential program of its own:  *)
(* a behaviour takes up one of them and leaves the others where they       *)
(* start, at one fixed input.                                              *)
(***************************************************************************)
EXTENDS Localisation, Replay, MCCalibration, GateArtefacts, CausalArms, CausalVerdict,
        PilotGates, GradientAnalysis, LabelChoice

VARIABLE study

MCResults == {<<0, 0>>, <<2, 0>>, <<2, 1>>, <<2, 2>>}
MCLabels == <<PrimaryY, Displacement, TerminalSuccess>>
-----------------------------------------------------------------------------
Studies == {"localisation", "replay", "calibration", "artefacts", "arms", "verdict",
            "pilot", "gradient", "labels"}

(* One input of each study with a choice of them.                          *)
LocIdle ==
  /\ method = "baseline"
  /\ corpus = [t \in Traces |->
                 [handoffs |-> 1, culprit |-> Unanswered, failed |-> Unanswered]]
ReplayIdle ==
  replayPc = "forecasting" /\ plan = NoPlan /\ available = [k \in Strata |-> 0] /\ wanted = 0
CalIdle ==
  /\ scored = [v \in Scores |-> 1] /\ failing = [v \in Scores |-> 0]
  /\ budget = [num |-> 1, den |-> 1]
  /\ labelled = TRUE /\ oneEpisode = FALSE
ArmsIdle == covered = {}
VerdictIdle ==
  /\ empty = {} /\ rates = "floor"
  /\ pvalue = [c \in Contrasts |-> Alpha] /\ favours = [k \in Controls |-> FALSE]
RqIdle ==
  /\ grid = [c \in Conditions |-> [s \in Seeds |-> "absent"]]
  /\ progress = "constant"
ChoiceIdle ==
  /\ recorded = [k \in Candidates |-> [coverage |-> "none", spread |-> "constant"]]
  /\ secondRan = FALSE

StudiesInit ==
  /\ study \in Studies
  /\ (IF study = "localisation" THEN TRUE ELSE LocIdle) /\ LocInit
  /\ (IF study = "replay" THEN TRUE ELSE ReplayIdle) /\ ReplayInit
  /\ (IF study = "calibration" THEN TRUE ELSE CalIdle) /\ CalInit
  /\ ArtInit
  /\ (IF study = "arms" THEN TRUE ELSE ArmsIdle) /\ ArmsInit
  /\ (IF study = "verdict" THEN TRUE ELSE VerdictIdle) /\ VerdictInit
  /\ PilotInit
  /\ (IF study = "gradient" THEN TRUE ELSE RqIdle) /\ RqInit
  /\ (IF study = "labels" THEN TRUE ELSE ChoiceIdle) /\ ChoiceInit

StudiesNext ==
  \/ /\ study = "localisation" /\ LocNext
     /\ UNCHANGED <<study, replayVars, calVars, artVars, armsVars, verdictVars, pilotVars, rqVars,
                    choiceVars>>
  \/ /\ study = "replay" /\ ReplayNext
     /\ UNCHANGED <<study, locVars, calVars, artVars, armsVars, verdictVars, pilotVars, rqVars,
                    choiceVars>>
  \/ /\ study = "calibration" /\ CalNext
     /\ UNCHANGED <<study, locVars, replayVars, artVars, armsVars, verdictVars, pilotVars, rqVars,
                    choiceVars>>
  \/ /\ study = "artefacts" /\ ArtNext
     /\ UNCHANGED <<study, locVars, replayVars, calVars, armsVars, verdictVars, pilotVars, rqVars,
                    choiceVars>>
  \/ /\ study = "arms" /\ ArmsNext
     /\ UNCHANGED <<study, locVars, replayVars, calVars, artVars, verdictVars, pilotVars, rqVars,
                    choiceVars>>
  \/ /\ study = "verdict" /\ VerdictNext
     /\ UNCHANGED <<study, locVars, replayVars, calVars, artVars, armsVars, pilotVars, rqVars,
                    choiceVars>>
  \/ /\ study = "pilot" /\ PilotNext
     /\ UNCHANGED <<study, locVars, replayVars, calVars, artVars, armsVars, verdictVars, rqVars,
                    choiceVars>>
  \/ /\ study = "gradient" /\ RqNext
     /\ UNCHANGED <<study, locVars, replayVars, calVars, artVars, armsVars, verdictVars, pilotVars,
                    choiceVars>>
  \/ /\ study = "labels" /\ ChoiceNext
     /\ UNCHANGED <<study, locVars, replayVars, calVars, artVars, armsVars, verdictVars, pilotVars,
                    rqVars>>

StudiesSpec ==
  StudiesInit /\ [][StudiesNext]_<<study, locVars, replayVars, calVars, artVars, armsVars,
                                   verdictVars, pilotVars, rqVars, choiceVars>>
-----------------------------------------------------------------------------
(* Every variable of the study taken up has its type.                      *)
StudiesTypeOK ==
  CASE study = "localisation" -> LocTypeOK
    [] study = "replay"       -> ReplayTypeOK
    [] study = "calibration"  -> CalTypeOK
    [] study = "artefacts"    -> ArtTypeOK
    [] study = "arms"         -> ArmsTypeOK
    [] study = "verdict"      -> VerdictTypeOK
    [] study = "pilot"        -> PilotTypeOK
    [] study = "gradient"     -> RqTypeOK
    [] study = "labels"       -> ChoiceTypeOK
=============================================================================
