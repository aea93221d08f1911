----------------------------- MODULE CausalArms -----------------------------
(***************************************************************************)
(* The four arms of the causal experiment (experiments/rq3b.py): one grid  *)
(* run under four gates in turn, each arm into the dataset its gate hashes *)
(* to, and an analysis once all four are there. A submission may be killed *)
(* anywhere, or die of a failed episode; the next one resumes what is      *)
(* stored. Ungated sweeps of the same grid (RQ1) share the fourth arm.     *)
(*                                                                         *)
(*   idle --> arms (gate built, grid run, arm after arm) --> analysed      *)
(*      \       \--> refused                            \--> idle (RQ1)    *)
(*       \--> refused                                                      *)
(***************************************************************************)
EXTENDS Integers, Sequences, FiniteSets

CONSTANTS
  Cells,          \* the cells of the grid
  GateSeeds,      \* salts of the control draws
  MaxSubmissions  \* bound on the submissions

ASSUME GateSeedsAssumption == GateSeeds # {}
ASSUME MaxSubmissionsAssumption == MaxSubmissions \in Nat

VARIABLES
  covered,      \* the statistics the calibration report has a threshold for
  stored,       \* dataset -> cell -> what its episode was run with, or Nothing
  armsPc,
  request,      \* [ungated, key, seed] of the submission under way
  arm,          \* which of its arms it is at
  gate,         \* the gate of the arm, once built
  submissions

storeVars == <<covered, stored>>
armsVars == <<covered, stored, armsPc, request, arm, gate, submissions>>
-----------------------------------------------------------------------------
GateModes == <<"active", "matched_random", "random_trigger", "off">>
StatisticKeys == {"cosine", "fail"}
(* A retired key is resolved when the arm's configuration is made.         *)
Survivor(key) == IF key = "info" THEN "fail" ELSE key
Requests == [ungated : BOOLEAN, key : {"cosine", "info", "fail"}, seed : GateSeeds]
NoRequest == [ungated |-> TRUE, key |-> "cosine", seed |-> CHOOSE s \in GateSeeds : TRUE]

(* rq3b_sweeps: no gate at all for the arm without one, so that it can be  *)
(* an ungated sweep's dataset.                                             *)
Ungated == <<>>
Config(mode, req) ==
  IF mode = "off" THEN Ungated ELSE <<mode, Survivor(req.key), req.seed>>
Configs == {Ungated} \cup {Config(GateModes[i], r) : i \in 1..4, r \in Requests}

HashOfModeAndKey(config) == IF config = Ungated THEN Ungated ELSE <<config[1], config[2]>>
(* sweep_hash, dataset_hash_for: everything the gate is configured by. The *)
(* threshold, sign and firing rate of the calibration are not part of it,  *)
(* nor told apart here.                                                    *)
DatasetOf(config) == config
ArmDatasets == {DatasetOf(c) : c \in Configs}

Arms == IF request.ungated THEN <<"off">> ELSE GateModes
Mode == Arms[arm]
ArmConfig == Config(Mode, request)
NoConfig == <<"nothing">>
Nothing == [config |-> NoConfig, decides |-> "nothing"]
Done == {c \in Cells : stored[DatasetOf(ArmConfig)][c] # Nothing}
-----------------------------------------------------------------------------
(* How a gate decides on a handoff (RuntimeGate.decide): "open" is a gate  *)
(* that lets everything through for want of something it needs.            *)
Unbuilt == [config |-> NoConfig, decides |-> "none"]
Decides(mode, fitted, calibrated) ==
  CASE mode = "off" -> "none"
    [] mode = "random_trigger" -> "at the set rate"
    [] mode = "matched_random" -> IF calibrated THEN "at the firing rate" ELSE "open"
    [] mode = "active" -> IF fitted /\ calibrated THEN "by score" ELSE "open"

Submit(req) ==
  /\ armsPc # "arms" /\ submissions < MaxSubmissions
  /\ submissions' = submissions + 1
  /\ request' = req
  /\ arm' = 1 /\ gate' = Unbuilt
  /\ LET hashes == {DatasetOf(Config(GateModes[i], req)) : i \in 1..4}
     IN  armsPc' = IF req.ungated \/ Cardinality(hashes) = 4 THEN "arms" ELSE "refused"
  /\ UNCHANGED storeVars

(* Only the active arm is given a fitted statistic.                        *)
BuiltGate ==
  [config  |-> ArmConfig,
   decides |-> Decides(Mode, Mode = "active", Survivor(request.key) \in covered)]

BuildRegardless ==
  /\ armsPc = "arms" /\ gate = Unbuilt
  /\ gate' = BuiltGate
  /\ UNCHANGED <<storeVars, armsPc, request, arm, submissions>>
(* build_gate: none for the ungated arm; a gated arm needs its statistic's *)
(* calibration, or it would fail open.                                     *)
BuildGate ==
  /\ armsPc = "arms" /\ gate = Unbuilt
  /\ IF Mode = "off" \/ Survivor(request.key) \in covered
     THEN gate' = BuiltGate /\ UNCHANGED armsPc
     ELSE armsPc' = "refused" /\ UNCHANGED gate
  /\ UNCHANGED <<storeVars, request, arm, submissions>>

(* run_grid: the cells not stored yet, in any order.                       *)
RunCell(cell) ==
  /\ armsPc = "arms" /\ gate # Unbuilt
  /\ cell \notin Done
  /\ stored' = [stored EXCEPT ![DatasetOf(ArmConfig)][cell] =
                 [config |-> gate.config, decides |-> gate.decides]]
  /\ UNCHANGED <<covered, armsPc, request, arm, gate, submissions>>

(* The arm's episodes are all there: the next arm, or the end.             *)
ArmDone ==
  /\ armsPc = "arms" /\ gate # Unbuilt
  /\ Done = Cells
  /\ IF arm < Len(Arms)
     THEN arm' = arm + 1 /\ gate' = Unbuilt /\ UNCHANGED armsPc
     ELSE /\ armsPc' = IF request.ungated THEN "idle" ELSE "analysed"
          /\ UNCHANGED <<arm, gate>>
  /\ UNCHANGED <<storeVars, request, submissions>>

(* A kill, or an episode's error, which run_grid lets through.             *)
Die ==
  /\ armsPc = "arms"
  /\ armsPc' = "idle"
  /\ UNCHANGED <<storeVars, request, arm, gate, submissions>>
-----------------------------------------------------------------------------
ArmsInit ==
  /\ covered \in SUBSET StatisticKeys
  /\ stored = [d \in ArmDatasets |-> [c \in Cells |-> Nothing]]
  /\ armsPc = "idle"
  /\ request = NoRequest /\ arm = 1 /\ gate = Unbuilt
  /\ submissions = 0

ArmsNext ==
  \/ \E req \in Requests : Submit(req)
  \/ BuildGate
  \/ \E cell \in Cells : RunCell(cell)
  \/ ArmDone \/ Die

ArmsSpec == ArmsInit /\ [][ArmsNext]_armsVars
-----------------------------------------------------------------------------
(***************************************************************************)
(* Properties.                                                             *)
(***************************************************************************)
Deciding == {"none", "at the set rate", "at the firing rate", "by score", "open"}

(* Every variable has its type.                                            *)
ArmsTypeOK ==
  /\ covered \in SUBSET StatisticKeys
  /\ DOMAIN stored = ArmDatasets
  /\ \A d \in ArmDatasets : stored[d] \in [Cells -> {Nothing} \cup
                     [config : Configs, decides : Deciding]]
  /\ armsPc \in {"idle", "arms", "refused", "analysed"}
  /\ request \in Requests /\ arm \in 1..Len(Arms)
  /\ gate = Unbuilt \/ (gate.config \in Configs /\ gate.decides \in Deciding)
  /\ submissions \in 0..MaxSubmissions

HowModeDecides(mode) == Decides(mode, TRUE, TRUE)

(* One arm, one dataset, over kills and resumed submissions of other keys, *)
(* other seeds and no gate: what the analysis compares is, for each arm,   *)
(* one episode of every cell run under that arm's own gate, deciding as    *)
(* the arm says and never failing open (rq3b.py 411, "a gate arm run       *)
(* without its threshold fails open and would be recorded as a gated       *)
(* arm"; runner.py 102, the gate's config must be the sweep's).            *)
OneArmOneDataset ==
  armsPc = "analysed" =>
    \A i \in DOMAIN GateModes, c \in Cells :
      LET config  == Config(GateModes[i], request)
          episode == stored[DatasetOf(config)][c]
      IN  /\ episode # Nothing
          /\ episode.config = config /\ episode.decides = HowModeDecides(GateModes[i])
=============================================================================
