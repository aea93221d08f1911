---------------------------- MODULE Studies_proofs ----------------------------
(***************************************************************************)
(* Proofs about the studies made from a dataset: the causal arms           *)
(* (CausalArms), their verdict (CausalVerdict), the pilot (PilotGates),    *)
(* the gradient (GradientAnalysis) and the choice of a label (LabelChoice),*)
(* for every value of their constants; and that every study keeps its      *)
(* types (MCStudies).                                                      *)
(***************************************************************************)
EXTENDS MCStudies, Localisation_proofs, Gate_proofs
-----------------------------------------------------------------------------
(***************************************************************************)
(* CausalArms.                                                             *)
(***************************************************************************)
(***************************************************************************)
(* A gate's configuration tells its mode, and its dataset tells both.      *)
(***************************************************************************)
Modes == {"active", "matched_random", "random_trigger", "off"}
ModeOf(config) == IF config = Ungated THEN "off" ELSE config[1]

LEMMA ModesOfArms ==
  /\ GateModes = <<"active", "matched_random", "random_trigger", "off">>
  /\ Len(GateModes) = 4 /\ DOMAIN GateModes = 1..4
  /\ \A i \in 1..4 : GateModes[i] \in Modes
BY DEF GateModes, Modes

LEMMA ConfigTellsMode ==
  ASSUME NEW mode \in Modes, NEW req
  PROVE  ModeOf(Config(mode, req)) = mode /\ Config(mode, req) # NoConfig
<1>1. CASE mode = "off"
  BY <1>1 DEF Config, Ungated, ModeOf, NoConfig
<1>2. CASE mode # "off"
  <2>1. Config(mode, req) = <<mode, Survivor(req.key), req.seed>>
    BY <1>2 DEF Config
  <2>2. /\ Len(<<mode, Survivor(req.key), req.seed>>) = 3
        /\ Len(Ungated) = 0 /\ Len(NoConfig) = 1
        /\ <<mode, Survivor(req.key), req.seed>>[1] = mode
    BY DEF Ungated, NoConfig
  <2>3. QED
    BY <2>1, <2>2 DEF ModeOf
<1>3. QED
  BY <1>1, <1>2

LEMMA ConfigsOfArms ==
  ASSUME NEW i \in 1..4, NEW req \in Requests
  PROVE  Config(GateModes[i], req) \in Configs /\ Config(GateModes[i], req) \in ArmDatasets
BY DEF Configs, ArmDatasets, DatasetOf

LEMMA ModesDecide ==
  ASSUME NEW mode \in Modes
  PROVE  HowModeDecides(mode) \in Deciding /\ HowModeDecides(mode) # "nothing"
BY DEF HowModeDecides, Decides, Deciding, Modes

(***************************************************************************)
(* The invariant.                                                          *)
(***************************************************************************)
(* What the places of a submission are, and where its arms come from.      *)
PlaceInv ==
  /\ armsPc \in {"idle", "arms", "refused", "analysed"}
  /\ request \in Requests
  /\ arm \in 1..Len(Arms)
  /\ DOMAIN stored = ArmDatasets
  /\ \A d \in ArmDatasets : DOMAIN stored[d] = Cells

(* A stored episode was run with the gate its dataset is named after.      *)
StoreInv ==
  \A d \in ArmDatasets, c \in Cells :
    stored[d][c] # Nothing =>
      stored[d][c] = [config |-> d, decides |-> HowModeDecides(ModeOf(d))]

(* A gate that was built is the one of the arm under way, and whole.       *)
GateInv ==
  armsPc = "arms" =>
    \/ gate = Unbuilt
    \/ gate = [config |-> ArmConfig, decides |-> HowModeDecides(Mode)]

(* The arms before the one under way are complete.                         *)
ArmComplete(mode, req) ==
  \A c \in Cells : stored[DatasetOf(Config(mode, req))][c] # Nothing
ProgressInv ==
  /\ armsPc = "arms" => \A k \in 1 .. arm - 1 : ArmComplete(Arms[k], request)
  /\ armsPc = "analysed" => \A k \in 1..4 : ArmComplete(GateModes[k], request)

ArmsInv == PlaceInv /\ StoreInv /\ GateInv /\ ProgressInv

LEMMA ArmsAreModes ==
  ASSUME PlaceInv
  PROVE  /\ Len(Arms) \in 1..4 /\ arm \in 1..4
         /\ \A k \in 1..Len(Arms) : \E i \in 1..4 : Arms[k] = GateModes[i]
         /\ Mode \in Modes
         /\ ArmConfig \in ArmDatasets
         /\ ModeOf(ArmConfig) = Mode /\ ArmConfig # NoConfig
<1>1. /\ Len(Arms) \in 1..4
      /\ \A k \in 1..Len(Arms) : \E i \in 1..4 : Arms[k] = GateModes[i]
  <2>1. CASE request.ungated
    <3>1. Arms = <<"off">>
      BY <2>1 DEF Arms
    <3>2. GateModes[4] = "off"
      BY ModesOfArms
    <3>3. QED
      BY <3>1, <3>2
  <2>2. CASE ~request.ungated
    BY <2>2, ModesOfArms DEF Arms
  <2>3. QED
    BY <2>1, <2>2
<1>2. PICK i \in 1..4 : Arms[arm] = GateModes[i]
  BY <1>1 DEF PlaceInv
<1>3. Mode \in Modes
  BY <1>2, ModesOfArms DEF Mode
<1>4. ArmConfig \in ArmDatasets
  BY <1>2, ConfigsOfArms DEF ArmConfig, Mode, PlaceInv
<1>5. ModeOf(ArmConfig) = Mode /\ ArmConfig # NoConfig
  BY <1>3, ConfigTellsMode DEF ArmConfig
<1>6. QED
  BY <1>1, <1>3, <1>4, <1>5 DEF PlaceInv
(***************************************************************************)
(* Every step keeps it.                                                    *)
(***************************************************************************)
LEMMA InitArms == ArmsInit => ArmsInv
<1> SUFFICES ASSUME ArmsInit PROVE ArmsInv
  OBVIOUS
<1>1. request \in Requests
  BY GateSeedsAssumption DEF ArmsInit, NoRequest, Requests
<1>2. Arms = <<"off">>
  BY DEF ArmsInit, NoRequest, Arms
<1>3. PlaceInv
  BY <1>1, <1>2 DEF ArmsInit, PlaceInv
<1>4. QED
  BY <1>3 DEF ArmsInit, ArmsInv, StoreInv, GateInv, ProgressInv

LEMMA SubmitKeeps ==
  ASSUME ArmsInv, NEW req \in Requests, Submit(req)
  PROVE  ArmsInv'
<1>1. /\ request' = req /\ arm' = 1 /\ gate' = Unbuilt
      /\ stored' = stored /\ armsPc' \in {"arms", "refused"}
  BY DEF Submit, storeVars
<1>2. Len(Arms)' >= 1 /\ Len(Arms)' \in Nat
  BY <1>1, ModesOfArms DEF Arms
<1>3. PlaceInv'
  BY <1>1, <1>2 DEF ArmsInv, PlaceInv
<1>4. StoreInv'
  BY <1>1 DEF ArmsInv, StoreInv
<1>5. QED
  BY <1>1, <1>3, <1>4 DEF ArmsInv, GateInv, ProgressInv

LEMMA BuildGateKeeps ==
  ASSUME ArmsInv, BuildGate
  PROVE  ArmsInv'
<1>1. /\ stored' = stored /\ request' = request /\ arm' = arm
      /\ armsPc' \in {"arms", "refused"} /\ armsPc = "arms"
  BY DEF BuildGate, storeVars
<1>2. Arms' = Arms /\ Mode' = Mode /\ ArmConfig' = ArmConfig
  BY <1>1 DEF Arms, Mode, ArmConfig
<1>3. PlaceInv' /\ StoreInv' /\ ProgressInv'
  BY <1>1, <1>2 DEF ArmsInv, PlaceInv, StoreInv, ProgressInv, ArmComplete
<1>4. CASE Mode = "off" \/ Survivor(request.key) \in covered
  <2>1. gate' = BuiltGate
    BY <1>4 DEF BuildGate
  <2>2. Mode \in Modes
    BY ArmsAreModes DEF ArmsInv
  <2>3. Decides(Mode, Mode = "active", Survivor(request.key) \in covered)
          = HowModeDecides(Mode)
    BY <1>4, <2>2 DEF Decides, HowModeDecides, Modes
  <2>4. QED
    BY <1>2, <1>3, <2>1, <2>3 DEF BuiltGate, GateInv, ArmsInv
<1>5. CASE ~(Mode = "off" \/ Survivor(request.key) \in covered)
  <2>1. armsPc' = "refused"
    BY <1>5 DEF BuildGate
  <2>2. QED
    BY <1>3, <2>1 DEF GateInv, ArmsInv
<1>6. QED
  BY <1>4, <1>5

LEMMA RunCellKeeps ==
  ASSUME ArmsInv, NEW cell \in Cells, RunCell(cell)
  PROVE  ArmsInv'
<1>1. /\ request' = request /\ arm' = arm /\ gate' = gate /\ armsPc' = armsPc
      /\ armsPc = "arms" /\ gate # Unbuilt
      /\ stored' = [stored EXCEPT ![ArmConfig][cell] =
                      [config |-> gate.config, decides |-> gate.decides]]
  BY DEF RunCell, DatasetOf
<1>2. Arms' = Arms /\ Mode' = Mode /\ ArmConfig' = ArmConfig
  BY <1>1 DEF Arms, Mode, ArmConfig
<1>3. gate = [config |-> ArmConfig, decides |-> HowModeDecides(Mode)]
  BY <1>1 DEF ArmsInv, GateInv
<1>4. ArmConfig \in ArmDatasets /\ ModeOf(ArmConfig) = Mode /\ Mode \in Modes
  BY ArmsAreModes DEF ArmsInv
<1> DEFINE new == [config |-> ArmConfig, decides |-> HowModeDecides(Mode)]
<1>5. [config |-> gate.config, decides |-> gate.decides] = new
  BY <1>3
<1>6. new # Nothing
  BY <1>4, ModesDecide DEF Nothing
<1>7. /\ DOMAIN stored' = ArmDatasets
      /\ \A d \in ArmDatasets : DOMAIN stored'[d] = Cells
      /\ \A d \in ArmDatasets, c \in Cells :
           stored'[d][c] = IF d = ArmConfig /\ c = cell THEN new ELSE stored[d][c]
  BY <1>1, <1>4, <1>5 DEF ArmsInv, PlaceInv
<1>8. PlaceInv'
  BY <1>1, <1>2, <1>7 DEF ArmsInv, PlaceInv
<1>9. StoreInv'
  BY <1>4, <1>7 DEF ArmsInv, StoreInv
<1>10. GateInv'
  BY <1>1, <1>2 DEF ArmsInv, GateInv
<1>11. ProgressInv'
  <2>1. \A k \in 1 .. arm - 1 : Config(Arms[k], request) \in ArmDatasets
    BY ArmsAreModes, ConfigsOfArms DEF ArmsInv, PlaceInv
  <2>2. \A k \in 1 .. arm - 1 : ArmComplete(Arms[k], request)
    BY <1>1 DEF ArmsInv, ProgressInv
  <2>3. \A k \in 1 .. arm - 1, c \in Cells : stored'[Config(Arms[k], request)][c] # Nothing
    BY <1>6, <1>7, <2>1, <2>2 DEF ArmComplete, DatasetOf
  <2>4. QED
    BY <1>1, <1>2, <2>3 DEF ProgressInv, ArmComplete, DatasetOf
<1>12. QED
  BY <1>8, <1>9, <1>10, <1>11 DEF ArmsInv

LEMMA ArmDoneKeeps ==
  ASSUME ArmsInv, ArmDone
  PROVE  ArmsInv'
<1>1. /\ request' = request /\ stored' = stored /\ armsPc = "arms" /\ Done = Cells
  BY DEF ArmDone, storeVars
<1>2. Arms' = Arms
  BY <1>1 DEF Arms
<1>3. StoreInv'
  BY <1>1 DEF ArmsInv, StoreInv
<1>4. \A k \in 1 .. arm : ArmComplete(Arms[k], request)
  <2>1. ArmComplete(Arms[arm], request)
    BY <1>1 DEF Done, ArmComplete, ArmConfig, Mode
  <2>2. QED
    BY <1>1, <2>1, ArmsAreModes DEF ArmsInv, ProgressInv, PlaceInv
<1>5. CASE arm < Len(Arms)
  <2>1. arm' = arm + 1 /\ gate' = Unbuilt /\ armsPc' = armsPc
    BY <1>5 DEF ArmDone
  <2>2. PlaceInv'
    BY <1>1, <1>2, <1>5, <2>1, ArmsAreModes DEF ArmsInv, PlaceInv
  <2>3. ProgressInv'
    BY <1>1, <1>2, <1>4, <2>1, ArmsAreModes DEF ArmsInv, ProgressInv, ArmComplete
  <2>4. QED
    BY <1>3, <2>1, <2>2, <2>3 DEF ArmsInv, GateInv
<1>6. CASE ~(arm < Len(Arms))
  <2>1. /\ armsPc' = IF request.ungated THEN "idle" ELSE "analysed"
        /\ arm' = arm /\ gate' = gate
    BY <1>6 DEF ArmDone
  <2>2. PlaceInv'
    BY <1>1, <1>2, <2>1 DEF ArmsInv, PlaceInv
  <2>3. ProgressInv'
    <3>1. CASE request.ungated
      BY <2>1, <3>1 DEF ProgressInv
    <3>2. CASE ~request.ungated
      <4>1. Arms = GateModes /\ arm = 4
        BY <1>6, <3>2, ModesOfArms, ArmsAreModes DEF ArmsInv, PlaceInv, Arms
      <4>2. \A k \in 1..4 : ArmComplete(GateModes[k], request)
        BY <1>4, <4>1
      <4>3. QED
        BY <1>1, <2>1, <3>2, <4>2 DEF ProgressInv, ArmComplete
    <3>3. QED
      BY <3>1, <3>2
  <2>4. QED
    BY <1>3, <2>1, <2>2, <2>3 DEF ArmsInv, GateInv
<1>7. QED
  BY <1>5, <1>6

LEMMA NextKeepsArms == ArmsInv /\ [ArmsNext]_armsVars => ArmsInv'
<1> SUFFICES ASSUME ArmsInv, [ArmsNext]_armsVars PROVE ArmsInv'
  OBVIOUS
<1>1. ASSUME NEW req \in Requests, Submit(req) PROVE ArmsInv'
  BY <1>1, SubmitKeeps
<1>2. CASE BuildGate
  BY <1>2, BuildGateKeeps
<1>3. ASSUME NEW cell \in Cells, RunCell(cell) PROVE ArmsInv'
  BY <1>3, RunCellKeeps
<1>4. CASE ArmDone
  BY <1>4, ArmDoneKeeps
<1>5. CASE Die
  BY <1>5 DEF Die, storeVars, ArmsInv, PlaceInv, StoreInv, GateInv, ProgressInv, Arms
<1>6. CASE UNCHANGED armsVars
  BY <1>6 DEF armsVars, ArmsInv, PlaceInv, StoreInv, GateInv, ProgressInv, ArmComplete,
              Arms, Mode, ArmConfig
<1>7. QED
  BY <1>1, <1>2, <1>3, <1>4, <1>5, <1>6 DEF ArmsNext

(* The strengthening: whatever was killed, an episode in a dataset is one  *)
(* of the gate the dataset is named after, and an arm that was passed is   *)
(* complete.                                                               *)
THEOREM ArmsInvariant == ArmsSpec => []ArmsInv
BY InitArms, NextKeepsArms, PTL DEF ArmsSpec

LEMMA ArmsImply == ArmsInv => OneArmOneDataset
<1> SUFFICES ASSUME ArmsInv, armsPc = "analysed", NEW i \in DOMAIN GateModes, NEW c \in Cells
             PROVE  LET config  == Config(GateModes[i], request)
                        episode == stored[DatasetOf(config)][c]
                    IN  /\ episode # Nothing
                        /\ episode.config = config
                        /\ episode.decides = HowModeDecides(GateModes[i])
  BY DEF OneArmOneDataset
<1> DEFINE config == Config(GateModes[i], request)
<1>1. i \in 1..4 /\ GateModes[i] \in Modes
  BY ModesOfArms
<1>2. config \in ArmDatasets /\ ModeOf(config) = GateModes[i]
  BY <1>1, ConfigsOfArms, ConfigTellsMode DEF ArmsInv, PlaceInv
<1>3. stored[config][c] # Nothing
  BY <1>1 DEF ArmsInv, ProgressInv, ArmComplete, DatasetOf
<1>4. stored[config][c] = [config |-> config, decides |-> HowModeDecides(GateModes[i])]
  BY <1>2, <1>3 DEF ArmsInv, StoreInv
<1>5. QED
  BY <1>3, <1>4 DEF DatasetOf

(* What the analysis of the causal experiment compares is, arm by arm, one *)
(* episode of every cell run under that arm's own gate, over any number of *)
(* killed, refused and resumed submissions (rq3b.py, run_grid).            *)
THEOREM OneDatasetPerArm == ArmsSpec => []OneArmOneDataset
BY ArmsInvariant, ArmsImply, PTL
-----------------------------------------------------------------------------
(***************************************************************************)
(* PilotGates.                                                             *)
(***************************************************************************)
(* What a report says of the cell it was read off, and of the attempt.     *)
ReportInv ==
  /\ pilotCell \in CellRuns
  /\ <<recommendation, cause>> = Recommended
  /\ pilotPc = "raised" <=> cause = "error"

(* The attempt tells how many cells were refuted before it.                *)
CountInv ==
  /\ attempt \in 1..2
  /\ pilotPc \in {"planning", "gating"} => refuted = attempt - 1
  /\ pilotPc \in {"reported", "raised"} =>
       refuted = IF cause = "failed" THEN attempt ELSE attempt - 1

PilotInv ==
  /\ pilotPc \in {"planning", "gating", "reported", "raised"}
  /\ pilotPc = "gating" => pilotCell \in CellRuns
  /\ pilotPc \in {"reported", "raised"} => ReportInv
  /\ CountInv

LEMMA PilotInitInv == PilotInit => PilotInv
BY DEF PilotInit, PilotInv, CountInv

(* A report's cause is a failed gate exactly when every gate could be      *)
(* assessed and one did not pass.                                          *)
LEMMA ReportCauses ==
  /\ Recommended = <<Recommended[1], Recommended[2]>>
  /\ Recommended[2] = "failed" <=> Evidence(pilotCell) /\ ~AllPass(pilotCell)
  /\ Recommended[2] = "failed" =>
       Recommended[1] = IF attempt <= 1 THEN "retune_once" ELSE "fallback"
  /\ Recommended[2] # "failed" => Recommended[1] # "fallback"
  /\ Recommended[1] = "proceed" =>
       Evidence(pilotCell) /\ AllPass(pilotCell) /\ ~(pilotCell.seeds < MinSeeds)
<1>1. CASE Raises(pilotCell)
  BY <1>1 DEF Recommended, Evidence
<1>2. CASE ~Raises(pilotCell) /\ ~Assessable(pilotCell)
  BY <1>2 DEF Recommended, Evidence
<1>3. CASE Evidence(pilotCell) /\ ~AllPass(pilotCell)
  BY <1>3 DEF Recommended, Evidence, OneRetune
<1>4. CASE Evidence(pilotCell) /\ AllPass(pilotCell)
  BY <1>4 DEF Recommended, Evidence
<1>5. QED
  BY <1>1, <1>2, <1>3, <1>4 DEF Evidence

LEMMA PilotNextInv == PilotInv /\ [PilotNext]_pilotVars => PilotInv'
<1> SUFFICES ASSUME PilotInv, [PilotNext]_pilotVars PROVE PilotInv'
  OBVIOUS
<1>1. CASE RunPilot
  BY <1>1 DEF RunPilot, PilotInv, CountInv
<1>2. CASE Gate
  <2>1. /\ pilotPc = "gating" /\ pilotCell \in CellRuns
        /\ attempt \in 1..2 /\ refuted = attempt - 1
    BY <1>2 DEF Gate, PilotInv, CountInv
  <2>2. /\ recommendation' = Recommended[1] /\ cause' = Recommended[2]
        /\ pilotPc' = IF cause' = "error" THEN "raised" ELSE "reported"
        /\ pilotCell' = pilotCell /\ attempt' = attempt
        /\ refuted' = refuted + IF Evidence(pilotCell) /\ ~AllPass(pilotCell) THEN 1 ELSE 0
    BY <1>2 DEF Gate, Recommend
  <2>3. refuted' = IF cause' = "failed" THEN attempt ELSE attempt - 1
    <3>1. CASE Evidence(pilotCell) /\ ~AllPass(pilotCell)
      <4>1. cause' = "failed" /\ refuted' = refuted + 1
        BY <2>2, <3>1, ReportCauses
      <4>2. QED
        BY <2>1, <4>1
    <3>2. CASE ~(Evidence(pilotCell) /\ ~AllPass(pilotCell))
      <4>1. cause' # "failed" /\ refuted' = refuted + 0
        BY <2>2, <3>2, ReportCauses
      <4>2. QED
        BY <2>1, <4>1
    <3>3. QED
      BY <3>1, <3>2
  <2>4. Recommended' = Recommended
    BY <2>2 DEF Recommended, OneRetune
  <2>5. <<Recommended[1], Recommended[2]>> = Recommended
    BY ReportCauses
  <2>6. ReportInv'
    BY <2>1, <2>2, <2>4, <2>5 DEF ReportInv
  <2>7. QED
    BY <2>1, <2>2, <2>3, <2>6 DEF PilotInv, CountInv
<1>3. CASE Again
  <2>1. /\ attempt \in 1..2 /\ pilotPc \in {"reported", "raised"} /\ ReportInv
        /\ refuted = IF cause = "failed" THEN attempt ELSE attempt - 1
    BY <1>3 DEF Again, PilotInv, CountInv
  <2>2. cause = Recommended[2] /\ recommendation = Recommended[1]
    BY <2>1 DEF ReportInv
  <2>3. cause = "failed" => attempt = 1
    <3>1. SUFFICES ASSUME cause = "failed", attempt # 1 PROVE FALSE
      OBVIOUS
    <3>2. recommendation = "fallback"
      <4>1. Recommended[1] = IF attempt <= 1 THEN "retune_once" ELSE "fallback"
        BY <2>2, <3>1, ReportCauses
      <4>2. QED
        BY <2>1, <2>2, <3>1, <4>1
    <3>3. pilotPc = "reported"
      BY <2>1, <3>1 DEF ReportInv
    <3>4. QED
      BY <1>3, <3>2, <3>3 DEF Again
  <2>4. /\ pilotPc' = "planning" /\ refuted' = refuted
        /\ attempt' = attempt + IF cause = "failed" THEN 1 ELSE 0
    BY <1>3 DEF Again
  <2>5. QED
    BY <2>1, <2>3, <2>4 DEF PilotInv, CountInv
<1>4. CASE UNCHANGED pilotVars
  BY <1>4 DEF pilotVars, PilotInv, ReportInv, CountInv, Recommended, OneRetune
<1>5. QED
  BY <1>1, <1>2, <1>3, <1>4 DEF PilotNext

(* The strengthening: the number of the attempt is the number of cells     *)
(* that were refuted before it, and one.                                   *)
THEOREM PilotInvariant == PilotSpec => []PilotInv
BY PilotInitInv, PilotNextInv, PTL DEF PilotSpec

LEMMA VerdictFollows == PilotInv => VerdictIsEarned
<1> SUFFICES ASSUME PilotInv PROVE VerdictIsEarned
  OBVIOUS
<1>1. refuted <= 2
  BY DEF PilotInv, CountInv
<1> SUFFICES ASSUME pilotPc = "reported"
             PROVE  /\ recommendation = "fallback" <=> refuted = 2
                    /\ recommendation = "fallback" => Assessable(pilotCell)
                    /\ recommendation = "proceed" =>
                         /\ Assessable(pilotCell) /\ pilotCell.labelled
                         /\ pilotCell.seeds >= MinSeeds
                         /\ pilotCell.group["C0easy"][1]
                              \in 1 .. 2 * pilotCell.group["C0easy"][2]
                         /\ Hardest(pilotCell)[1] > 0 /\ GapIsThere(pilotCell)
  BY <1>1 DEF VerdictIsEarned
<1>2. ReportInv /\ cause = Recommended[2] /\ recommendation = Recommended[1]
  BY DEF PilotInv, ReportInv
<1>3. recommendation = "fallback" <=> cause = "failed" /\ ~(attempt <= 1)
  BY <1>2, ReportCauses
<1>4. recommendation = "fallback" <=> refuted = 2
  BY <1>3 DEF PilotInv, CountInv
<1>5. recommendation = "fallback" => Assessable(pilotCell)
  BY <1>2, <1>3, ReportCauses DEF Evidence
<1>6. ASSUME recommendation = "proceed"
      PROVE  /\ Assessable(pilotCell) /\ pilotCell.labelled /\ pilotCell.seeds >= MinSeeds
             /\ pilotCell.group["C0easy"][1] \in 1 .. 2 * pilotCell.group["C0easy"][2]
             /\ Hardest(pilotCell)[1] > 0 /\ GapIsThere(pilotCell)
  <2>1. Evidence(pilotCell) /\ AllPass(pilotCell) /\ ~(pilotCell.seeds < MinSeeds)
    BY <1>2, <1>6, ReportCauses
  <2>2. /\ \A g \in Groups : pilotCell.group[g] \in Results
        /\ pilotCell.seeds \in Nat /\ MinSeeds \in Nat
    BY <1>2, PilotAssumption DEF ReportInv, CellRuns
  <2>3. \A g \in Groups : pilotCell.group[g][1] \in Nat /\ pilotCell.group[g][2] \in Nat
    BY <2>2, PilotAssumption
  <2>4. pilotCell.group["C0easy"][1] # 0 /\ Hardest(pilotCell)[1] # 0 /\ pilotCell.labelled
    BY <2>1 DEF Evidence, Raises
  <2>5. Hardest(pilotCell)[1] \in Nat
    BY <2>3 DEF Hardest, Groups
  <2>6. 2 * pilotCell.group["C0easy"][2] >= pilotCell.group["C0easy"][1]
    BY <2>1 DEF AllPass, Capable, HalfOf
  <2>7. pilotCell.group["C0easy"][1] \in 1 .. 2 * pilotCell.group["C0easy"][2]
    BY <2>3, <2>4, <2>6 DEF Groups
  <2>8. pilotCell.seeds >= MinSeeds /\ Hardest(pilotCell)[1] > 0
    <3>1. ~(pilotCell.seeds < MinSeeds)
      BY <2>1
    <3>2. QED
      BY <2>2, <2>4, <2>5, <3>1
  <2>9. Assessable(pilotCell) /\ GapIsThere(pilotCell)
    BY <2>1 DEF Evidence, AllPass, Signal
  <2>10. QED
    BY <2>4, <2>7, <2>8, <2>9
<1>7. QED
  BY <1>4, <1>5, <1>6

(* The fallback is the verdict of exactly the second refuted cell, and to  *)
(* proceed takes a cell whose gates could all fail and did not, whatever   *)
(* errors, unassessable cells and short runs came in between.              *)
THEOREM VerdictIsEarnedAlways == PilotSpec => []VerdictIsEarned
BY PilotInvariant, VerdictFollows, PTL
-----------------------------------------------------------------------------
(***************************************************************************)
(* CausalVerdict.                                                          *)
(***************************************************************************)
(* The contrasts with a p-value not below that of d, and what Holm's       *)
(* procedure makes of d alone.                                             *)
NotBelow(d) == {e \in Contrasts : pvalue[e] >= pvalue[d]}
Scaled(d) == pvalue[d] * Cardinality(NotBelow(d))

LEMMA SmallFinite == \A x, y, z : IsFiniteSet({x, y}) /\ IsFiniteSet({x, y, z})
<1> SUFFICES ASSUME NEW x, NEW y, NEW z PROVE IsFiniteSet({x, y}) /\ IsFiniteSet({x, y, z})
  OBVIOUS
<1>1. IsFiniteSet({x})
  BY FS_Singleton
<1>2. IsFiniteSet({x} \cup {y})
  BY <1>1, FS_AddElement
<1>3. IsFiniteSet(({x} \cup {y}) \cup {z})
  BY <1>2, FS_AddElement
<1>4. {x} \cup {y} = {x, y} /\ ({x} \cup {y}) \cup {z} = {x, y, z}
  OBVIOUS
<1> QED BY <1>2, <1>3, <1>4

LEMMA ContrastsFinite ==
  /\ IsFiniteSet(Contrasts) /\ IsFiniteSet(Controls)
  /\ \A k \in Controls : <<"success", k>> \in Contrasts
<1>1. IsFiniteSet(Controls) /\ IsFiniteSet({"success", "steps"})
  BY SmallFinite DEF Controls
<1>2. IsFiniteSet(Contrasts)
  BY <1>1, FS_Product DEF Contrasts
<1> QED BY <1>1, <1>2 DEF Contrasts

(* Holm's procedure is the closed test: a contrast is rejected by it       *)
(* exactly when Bonferroni rejects every set of contrasts it belongs to.   *)
THEOREM HolmIsClosed ==
  ASSUME pvalue \in [Contrasts -> Nat], NEW c \in Contrasts
  PROVE  Holm(c) \in Nat /\ (Holm(c) < Alpha <=> RejectedWithEvery(c))
<1> DEFINE Lower == {d \in Contrasts : pvalue[d] <= pvalue[c]}
           V == {Scaled(d) : d \in Lower}
<1>1. Holm(c) = Max(V)
  BY DEF Holm, Family, Scaled, NotBelow
<1>2. \A d \in Contrasts : /\ pvalue[d] \in Nat /\ IsFiniteSet(NotBelow(d))
                           /\ Cardinality(NotBelow(d)) \in Nat /\ Scaled(d) \in Nat
                           /\ NotBelow(d) \subseteq Contrasts /\ d \in NotBelow(d)
  <2> SUFFICES ASSUME NEW d \in Contrasts
               PROVE  /\ pvalue[d] \in Nat /\ IsFiniteSet(NotBelow(d))
                      /\ Cardinality(NotBelow(d)) \in Nat /\ Scaled(d) \in Nat
                      /\ NotBelow(d) \subseteq Contrasts /\ d \in NotBelow(d)
    OBVIOUS
  <2>1. pvalue[d] \in Nat /\ NotBelow(d) \subseteq Contrasts /\ d \in NotBelow(d)
    BY DEF NotBelow
  <2>2. IsFiniteSet(NotBelow(d)) /\ Cardinality(NotBelow(d)) \in Nat
    BY <2>1, ContrastsFinite, FS_Subset, FS_CardinalityType
  <2> QED BY <2>1, <2>2 DEF Scaled
<1>3. IsFiniteSet(V) /\ V \subseteq Nat /\ V # {}
  <2>1. IsFiniteSet(Lower) /\ c \in Lower
    BY <1>2, ContrastsFinite, FS_Subset
  <2>2. IsFiniteSet(V)
    <3> DEFINE f == [d \in Lower |-> Scaled(d)]
    <3>1. f \in Surjection(Lower, V)
      BY DEF Surjection
    <3> HIDE DEF f, V, Lower
    <3> QED BY <2>1, <3>1, FS_Surjection
  <2> QED BY <1>2, <2>1, <2>2
<1>4. Max(V) \in V /\ \A y \in V : y <= Max(V)
  <2> HIDE DEF V
  <2>1. V \subseteq Int
    BY <1>3
  <2> QED BY <1>3, <2>1, MaxMinExist
<1>5. Alpha \in Nat
  BY VerdictAssumption
<1>6. ASSUME Holm(c) < Alpha, NEW S \in SUBSET Contrasts, c \in S
      PROVE  \E d \in S : Cardinality(S) * pvalue[d] < Alpha
  <2> DEFINE T == {pvalue[d] : d \in S}
  <2>1. PICK d \in S : \A e \in S : pvalue[d] <= pvalue[e]
    <3>1. T \subseteq Nat /\ T # {}
      BY <1>6
    <3>2. PICK x \in T : \A y \in T : x <= y
      <4> HIDE DEF T
      <4> QED BY <3>1, LeastNatural
    <3> QED BY <3>2
  <2>2. d \in Lower
    BY <1>6, <2>1
  <2>3. S \subseteq NotBelow(d)
    BY <1>2, <2>1 DEF NotBelow
  <2>4. Cardinality(S) \in Nat /\ Cardinality(S) <= Cardinality(NotBelow(d))
    BY <1>2, <2>1, <2>3, FS_Subset, FS_CardinalityType
  <2>5. Cardinality(S) * pvalue[d] <= Cardinality(NotBelow(d)) * pvalue[d]
    <3> DEFINE a == Cardinality(S)
               b == Cardinality(NotBelow(d))
               p == pvalue[d]
    <3>1. a \in Nat /\ b \in Nat /\ p \in Nat /\ a <= b
      BY <1>2, <2>1, <2>4
    <3> HIDE DEF a, b, p
    <3>2. a * p <= b * p
      BY <3>1
    <3> QED BY <3>2 DEF a, b, p
  <2>6. Scaled(d) \in V /\ Scaled(d) <= Max(V)
    BY <1>4, <2>2
  <2>7. Scaled(d) = Cardinality(NotBelow(d)) * pvalue[d]
    BY <1>2, <2>1 DEF Scaled
  <2> HIDE DEF V, Lower
  <2>8. Cardinality(S) * pvalue[d] \in Nat /\ Scaled(d) \in Nat /\ Max(V) \in Nat
    <3>1. pvalue[d] \in Nat /\ Scaled(d) \in Nat
      BY <1>2, <2>1
    <3>2. Max(V) \in Nat
      BY <1>3, <1>4
    <3> QED BY <2>4, <3>1, <3>2
  <2> QED BY <1>1, <1>5, <1>6, <2>5, <2>6, <2>7, <2>8
<1>7. ASSUME RejectedWithEvery(c)
      PROVE  Holm(c) < Alpha
  <2>1. PICK d \in Lower : Max(V) = Scaled(d)
    BY <1>4
  <2> DEFINE S == NotBelow(d)
  <2>2. c \in S /\ S \in SUBSET Contrasts
    BY <1>2 DEF NotBelow
  <2>3. PICK e \in S : Cardinality(S) * pvalue[e] < Alpha
    BY <1>7, <2>2 DEF RejectedWithEvery
  <2>4. pvalue[e] >= pvalue[d] /\ e \in Contrasts
    BY <2>3 DEF NotBelow
  <2>5. Scaled(d) = pvalue[d] * Cardinality(S)
    BY DEF Scaled
  <2> DEFINE n == Cardinality(S)
             x == pvalue[d]
             y == pvalue[e]
  <2>6. n \in Nat /\ x \in Nat /\ y \in Nat /\ y >= x /\ n * y < Alpha /\ Scaled(d) = x * n
    BY <1>2, <2>3, <2>4, <2>5
  <2> HIDE DEF n, x, y
  <2>7. x * n <= n * y /\ x * n \in Nat /\ n * y \in Nat
    BY <2>6
  <2>8. Scaled(d) < Alpha
    BY <1>5, <2>6, <2>7
  <2> QED BY <1>1, <2>1, <2>8
<1>8. Holm(c) \in Nat
  <2> HIDE DEF V
  <2> QED BY <1>1, <1>3, <1>4
<1> QED BY <1>6, <1>7, <1>8 DEF RejectedWithEvery

(* The inputs do not change; what is corrected is Holm's, and what is      *)
(* concluded is read off it.                                               *)
VerdictInv ==
  /\ VerdictTypeOK
  /\ rates # "varied" => \A k \in Controls : ~favours[k]
  /\ verdictPc \in {"contrasts", "verdict", "concluded"} => empty = {}
  /\ verdictPc \in {"verdict", "concluded"} => \A c \in Contrasts : corrected[c] = Holm(c)
  /\ SupportedIsEarned

LEMMA VerdictInitInv == VerdictInit => VerdictInv
<1> SUFFICES ASSUME VerdictInit PROVE VerdictInv
  OBVIOUS
<1>1. VerdictTypeOK
  BY DEF VerdictInit, VerdictTypeOK
<1> QED BY <1>1 DEF VerdictInit, VerdictInv, SupportedIsEarned

(* Beaten, as the corrected p-values say, is shown, as the closed test says*)
LEMMA BeatenIsShown ==
  ASSUME VerdictInv, verdictPc = "verdict"
  PROVE  /\ Beaten = {k \in Controls : Shown(k)}
         /\ rates # "varied" => Beaten = {}
<1>1. /\ pvalue \in [Contrasts -> Nat] /\ favours \in [Controls -> BOOLEAN]
      /\ \A c \in Contrasts : corrected[c] = Holm(c)
      /\ rates # "varied" => \A k \in Controls : ~favours[k]
  BY VerdictAssumption DEF VerdictInv, VerdictTypeOK
<1>2. \A k \in Controls : corrected[<<"success", k>>] < Alpha
                            <=> RejectedWithEvery(<<"success", k>>)
  BY <1>1, ContrastsFinite, HolmIsClosed
<1> QED BY <1>1, <1>2 DEF Beaten, Shown

LEMMA VerdictNextInv == VerdictInv /\ [VerdictNext]_verdictVars => VerdictInv'
<1> SUFFICES ASSUME VerdictInv, [VerdictNext]_verdictVars PROVE VerdictInv'
  OBVIOUS
<1>1. VerdictTypeOK
  BY DEF VerdictInv
<1>2. UNCHANGED verdictInputs
  BY DEF VerdictNext, RequireArms, CorrectFamily, DrawVerdict, verdictVars, verdictInputs
<1>3. /\ \A c \in Contrasts : Holm(c)' = Holm(c)
      /\ \A k : Shown(k)' = Shown(k)
  BY <1>2 DEF verdictInputs, Holm, Family, Shown, RejectedWithEvery
<1>4. CASE RequireArms
  <2>1. VerdictTypeOK'
    BY <1>1, <1>4 DEF RequireArms, VerdictTypeOK, verdictInputs
  <2> QED BY <1>4, <2>1 DEF RequireArms, VerdictInv, verdictInputs, SupportedIsEarned
<1>5. CASE CorrectFamily
  <2>1. \A c \in Contrasts : Holm(c) \in Nat
    BY <1>1, HolmIsClosed, VerdictAssumption DEF VerdictTypeOK
  <2>2. VerdictTypeOK'
    BY <1>1, <1>5, <2>1 DEF CorrectFamily, VerdictTypeOK, verdictInputs
  <2> QED BY <1>3, <1>5, <2>2 DEF CorrectFamily, VerdictInv, verdictInputs, SupportedIsEarned
<1>6. CASE DrawVerdict
  <2>1. VerdictTypeOK'
    BY <1>1, <1>6 DEF DrawVerdict, VerdictTypeOK, verdictInputs
  <2>2. /\ verdictPc = "verdict" /\ verdictPc' = "concluded" /\ empty = {} /\ empty' = {}
        /\ rates' = rates /\ corrected' = corrected
    BY <1>6 DEF DrawVerdict, VerdictInv, verdictInputs
  <2> DEFINE S == {k \in Blind : Shown(k)}
  <2>3. Blind \cap Beaten = S /\ (rates # "varied" => S = {})
    BY <2>2, BeatenIsShown DEF Blind, Controls
  <2>4. Cardinality(S) = 1 <=> S # {} /\ ~(Blind \subseteq Beaten)
    <3>1. S \subseteq {"matched_random", "random_trigger"}
      BY DEF Blind
    <3>2. Blind \subseteq Beaten <=> S = {"matched_random", "random_trigger"}
      BY <2>3 DEF Blind
    <3> HIDE DEF S
    <3>3. \/ S = {} \/ S = {"matched_random"} \/ S = {"random_trigger"}
          \/ S = {"matched_random", "random_trigger"}
      BY <3>1
    <3>4. /\ Cardinality({}) = 0
          /\ Cardinality({"matched_random"}) = 1 /\ Cardinality({"random_trigger"}) = 1
          /\ Cardinality({"matched_random", "random_trigger"}) = 2
      BY FS_EmptySet, FS_Singleton, FS_AddElement
    <3> QED BY <3>2, <3>3, <3>4
  <2>5. (\A k \in Blind : Shown(k)) <=> Blind \subseteq Beaten
    BY <2>3
  <2>6. rates # "varied" => ~(Blind \subseteq Beaten)
    BY <2>3 DEF Blind
  <2>7. verdict' = CASE rates # "varied"           -> "untestable"
                     [] rates = "varied" /\ Blind \subseteq Beaten -> "supported"
                     [] rates = "varied" /\ ~(Blind \subseteq Beaten)
                        /\ Blind \cap Beaten # {}  -> "partial"
                     [] OTHER                      -> "not supported"
    BY <1>6 DEF DrawVerdict
  <2>8. S' = S
    BY <1>3
  <2>9. /\ verdict' = "untestable" <=> rates # "varied"
        /\ verdict' = "supported" <=> \A k \in Blind : Shown(k)
        /\ verdict' = "partial" <=> Cardinality(S) = 1
    <3> HIDE DEF S
    <3> QED BY <2>3, <2>4, <2>5, <2>6, <2>7
  <2>10. SupportedIsEarned'
    <3>1. (\A k \in Blind : Shown(k)') <=> \A k \in Blind : Shown(k)
      BY <1>3
    <3> QED BY <2>2, <2>8, <2>9, <3>1 DEF SupportedIsEarned
  <2> QED BY <1>3, <1>6, <2>1, <2>2, <2>10 DEF VerdictInv, verdictInputs, DrawVerdict
<1>7. CASE UNCHANGED verdictVars
  <2>1. VerdictTypeOK'
    BY <1>1, <1>7 DEF verdictVars, VerdictTypeOK
  <2>2. SupportedIsEarned'
    BY <1>7 DEF verdictVars, VerdictInv, SupportedIsEarned, Shown, RejectedWithEvery
  <2> QED BY <1>3, <1>7, <2>1, <2>2 DEF verdictVars, VerdictInv
<1> QED BY <1>4, <1>5, <1>6, <1>7 DEF VerdictNext

LEMMA VerdictInvariant == VerdictSpec => []VerdictInv
BY VerdictInitInv, VerdictNextInv, PTL DEF VerdictSpec

(* Whatever the p-values, H6 is called supported exactly when both         *)
(* score-blind controls are beaten on success with the error of the whole  *)
(* family of contrasts under the level, and partially so when one is:      *)
(* Holm's correction is the closed test (rq3b.py, analyse_rq3b, _verdict). *)
THEOREM SupportedIsEarnedAlways == VerdictSpec => []SupportedIsEarned
BY VerdictInvariant, PTL DEF VerdictInv
-----------------------------------------------------------------------------
(***************************************************************************)
(* GradientAnalysis.                                                       *)
(***************************************************************************)
(* Two elements, or one.                                                   *)
LEMMA TwoOrOne ==
  ASSUME NEW S, IsFiniteSet(S)
  PROVE  /\ Cardinality(S) \in Nat
         /\ \A a, b \in S : a # b => Cardinality(S) >= 2
         /\ \A a : S \subseteq {a} => Cardinality(S) < 2
<1>1. ASSUME NEW a \in S, NEW b \in S, a # b
      PROVE  Cardinality(S) >= 2
  <2>1. IsFiniteSet({a}) /\ Cardinality({a}) = 1
    BY FS_Singleton
  <2>2. Cardinality({a} \cup {b}) = 2
    BY <1>1, <2>1, FS_AddElement
  <2>3. {a} \cup {b} \subseteq S
    OBVIOUS
  <2>4. Cardinality({a} \cup {b}) <= Cardinality(S)
    BY <2>3, FS_Subset
  <2> QED BY <2>2, <2>4
<1>2. ASSUME NEW a, S \subseteq {a}
      PROVE  Cardinality(S) < 2
  <2>1. S = {} \/ S = {a}
    BY <1>2
  <2>2. Cardinality({}) = 0 /\ Cardinality({a}) = 1
    BY FS_EmptySet, FS_Singleton
  <2> QED BY <2>1, <2>2
<1> QED BY <1>1, <1>2, FS_CardinalityType

GridOK == grid \in [Conditions -> [Seeds -> {"absent", "fail", "success"}]]

LEMMA ThreeConditions ==
  /\ DOMAIN ConditionOrder = 1..3
  /\ ConditionOrder[1] = "C0" /\ ConditionOrder[2] = "C1" /\ ConditionOrder[3] = "C4"
  /\ Conditions = {"C0", "C1", "C4"} /\ IsFiniteSet(Conditions)
<1>1. /\ DOMAIN ConditionOrder = 1..3
      /\ ConditionOrder[1] = "C0" /\ ConditionOrder[2] = "C1" /\ ConditionOrder[3] = "C4"
  BY DEF ConditionOrder
<1>2. 1..3 = {1, 2, 3}
  OBVIOUS
<1>3. Conditions = {"C0", "C1", "C4"}
  BY <1>1, <1>2 DEF Conditions
<1>4. IsFiniteSet({"C0", "C1", "C4"})
  BY SmallFinite
<1> QED BY <1>1, <1>3, <1>4

(* Where C0 ran, it is the reference, a grid of one condition is C0 alone, *)
(* and of more the hardest one is another.                                 *)
LEMMA WhereC0Ran ==
  ASSUME "C0" \in PresentConditions
  PROVE  /\ Reference = "C0" /\ HardestPresent \in PresentConditions
         /\ SingleCondition <=> PresentConditions = {"C0"}
         /\ ~SingleCondition => HardestPresent # "C0"
<1> DEFINE I == {i \in DOMAIN ConditionOrder : ConditionOrder[i] \in PresentConditions}
<1>1. I \subseteq 1..3 /\ 1 \in I /\ IsFiniteSet(I) /\ I \subseteq Int
      /\ \A i \in I : ConditionOrder[i] \in PresentConditions
  <2>1. I \subseteq 1..3 /\ 1 \in I /\ \A i \in I : ConditionOrder[i] \in PresentConditions
    BY ThreeConditions
  <2>2. IsFiniteSet({1, 2, 3})
    BY SmallFinite
  <2>3. I \subseteq {1, 2, 3}
    BY <2>1
  <2> HIDE DEF I
  <2>4. IsFiniteSet(I)
    BY <2>2, <2>3, FS_Subset
  <2>5. I \subseteq Int
    BY <2>1
  <2> QED BY <2>1, <2>4, <2>5
<1>2. Reference = ConditionOrder[Min(I)] /\ HardestPresent = ConditionOrder[Max(I)]
  BY DEF Reference, HardestPresent
<1>3. /\ Max(I) \in I /\ \A y \in I : y <= Max(I)
      /\ Min(I) \in I /\ \A y \in I : Min(I) <= y
  <2> HIDE DEF I
  <2> QED BY <1>1, MaxMinExist
<1>4. PresentConditions \subseteq {"C0", "C1", "C4"} /\ IsFiniteSet(PresentConditions)
  BY ThreeConditions, FS_Subset DEF PresentConditions
<1>5. SingleCondition <=> PresentConditions = {"C0"}
  <2>1. CASE PresentConditions = {"C0"}
    <3>1. Cardinality(PresentConditions) < 2
      BY <1>4, <2>1, TwoOrOne
    <3> QED BY <2>1, <3>1 DEF SingleCondition
  <2>2. CASE PresentConditions # {"C0"}
    <3>1. PICK d \in PresentConditions : d # "C0"
      BY <2>2
    <3>2. Cardinality(PresentConditions) >= 2 /\ Cardinality(PresentConditions) \in Nat
      BY <1>4, <3>1, TwoOrOne
    <3>3. ~(Cardinality(PresentConditions) < 2)
      BY <3>2
    <3> QED BY <2>2, <3>3 DEF SingleCondition
  <2> QED BY <2>1, <2>2
<1>6. ASSUME PresentConditions # {"C0"}
      PROVE  HardestPresent # "C0"
  <2>1. PICK d \in PresentConditions : d # "C0"
    BY <1>6
  <2>2. 2 \in I \/ 3 \in I
    BY <1>4, <2>1, ThreeConditions
  <2> HIDE DEF I
  <2>3. Max(I) = 2 \/ Max(I) = 3
    <3>1. Max(I) \in 1..3
      BY <1>1, <1>3
    <3>2. 2 <= Max(I) \/ 3 <= Max(I)
      BY <1>3, <2>2
    <3> QED BY <3>1, <3>2
  <2> QED BY <1>2, <2>3, ThreeConditions
<1>7. Reference = "C0"
  <2> HIDE DEF I
  <2>1. Min(I) = 1
    <3>1. Min(I) \in 1..3 /\ Min(I) <= 1
      BY <1>1, <1>3
    <3> QED BY <3>1
  <2> QED BY <1>2, <2>1, ThreeConditions
<1>8. HardestPresent \in PresentConditions
  <2> HIDE DEF I
  <2> QED BY <1>1, <1>2, <1>3
<1> QED BY <1>5, <1>6, <1>7, <1>8

(* Both outcomes, where there are two.                                     *)
LEMMA BothOutcomes ==
  ASSUME GridOK
  PROVE  /\ Cardinality(SuccessClasses) \in Nat
         /\ Cardinality(SuccessClasses) >= 2 =>
              \E c, d \in Conditions, s, t \in Seeds :
                 grid[c][s] = "fail" /\ grid[d][t] = "success"
<1>1. SuccessClasses \subseteq {"fail", "success"}
  BY DEF SuccessClasses, GridOK
<1>2. IsFiniteSet(SuccessClasses)
  <2>1. IsFiniteSet({"fail", "success"})
    BY SmallFinite
  <2> QED BY <1>1, <2>1, FS_Subset
<1>3. Cardinality(SuccessClasses) \in Nat
  BY <1>2, TwoOrOne
<1>4. ASSUME Cardinality(SuccessClasses) >= 2
      PROVE  "fail" \in SuccessClasses /\ "success" \in SuccessClasses
  <2>1. ~(SuccessClasses \subseteq {"fail"}) /\ ~(SuccessClasses \subseteq {"success"})
    BY <1>2, <1>3, <1>4, TwoOrOne
  <2> QED BY <1>1, <2>1
<1> QED BY <1>3, <1>4 DEF SuccessClasses

(***************************************************************************)
(* The invariant: which analyses have been made, and over what.            *)
(***************************************************************************)
HandoffsMade == handoffModel = IF SingleCondition THEN {} ELSE Effects
MediationMade == mediation \in IF Mediable THEN Mediations ELSE {NotMediated}
BeforeContrasts == {"labels", "labelled", "scored", "handoffs", "models"}
RqInv ==
  /\ RqTypeOK /\ GridOK
  /\ rqPc \notin {"labels", "refused"} => PresentConditions # {}
  /\ rqPc \in {"labels", "labelled", "scored"} => handoffModel = {}
  /\ rqPc \in {"handoffs", "models", "contrasts"} => HandoffsMade
  /\ rqPc \in {"models", "contrasts"} => MediationMade
  /\ rqPc \in BeforeContrasts => contrasts = {}
  /\ rqPc = "contrasts" => "C0" \in PresentConditions /\ contrasts = Targets
  /\ NumbersHaveData

LEMMA RqInitInv == RqInit => RqInv
BY DEF RqInit, RqInv, RqTypeOK, GridOK, NumbersHaveData, NotMediated, BeforeContrasts

LEMMA GridUnchanged ==
  ASSUME UNCHANGED grid
  PROVE  /\ PresentConditions' = PresentConditions /\ SingleCondition' = SingleCondition
         /\ Effects' = Effects /\ Targets' = Targets /\ Mediable' = Mediable
         /\ Mediations' = Mediations
         /\ HardestPresent' = HardestPresent
         /\ RunSeeds' = RunSeeds
         /\ SawBothOutcomes' = SawBothOutcomes
         /\ \A c, s : Ran(c, s)' = Ran(c, s)
<1>1. PresentConditions' = PresentConditions /\ SuccessClasses' = SuccessClasses
  BY DEF PresentConditions, SuccessClasses, Ran
<1>2. Reference' = Reference /\ Targets' = Targets
  BY <1>1 DEF Reference, Targets
<1> QED BY <1>1, <1>2
        DEF SingleCondition, Effects, Mediable, Mediations, HardestPresent, RunSeeds, Ran,
            SawBothOutcomes

(* A mediation was made over data.                                         *)
LEMMA MediationHasData ==
  ASSUME GridOK, MediationMade
  PROVE  /\ mediation.effects \in {{}, Targets}
         /\ mediation.intervals \subseteq mediation.effects
         /\ SingleCondition => mediation.effects = {}
         /\ mediation.effects # {} \/ mediation.lengthControlled => SawBothOutcomes
<1>1. CASE Mediable
  <2>1. mediation \in Mediations
    BY <1>1 DEF MediationMade
  <2>2. ~SingleCondition /\ Cardinality(SuccessClasses) = 2
    BY <1>1 DEF Mediable
  <2>3. SawBothOutcomes
    BY <2>2, BothOutcomes DEF SawBothOutcomes
  <2> QED BY <2>1, <2>2, <2>3 DEF Mediations
<1>2. CASE ~Mediable
  BY <1>2 DEF MediationMade, NotMediated
<1> QED BY <1>1, <1>2

(* What a written report holds.                                            *)
LEMMA ReportHasData ==
  ASSUME RqInv, rqPc = "contrasts",
         NEW metric, NEW seeds, NEW dispersion,
         IF SingleCondition
         THEN /\ metric = "success_rate" /\ seeds = RunSeeds
              /\ dispersion => Cardinality(SuccessClasses) = 2
         ELSE /\ metric = "condition_gap" /\ ~dispersion
              /\ seeds = {s \in Seeds : Ran("C0", s) /\ Ran(HardestPresent, s)} /\ seeds # {}
  PROVE  /\ \A c \in handoffModel \cup mediation.effects \cup contrasts : Contrastable(c)
         /\ handoffModel = contrasts
         /\ mediation.effects \in {{}, contrasts}
         /\ mediation.effects # {} \/ mediation.lengthControlled => SawBothOutcomes
         /\ mediation.intervals \subseteq mediation.effects
         /\ seeds # {}
         /\ metric = "condition_gap" =>
              \E c \in contrasts : \A s \in seeds : Ran("C0", s) /\ Ran(c, s)
         /\ dispersion =>
              \E s, t \in seeds : s # t /\ {grid["C0"][s], grid["C0"][t]} = {"fail", "success"}
<1>1. /\ "C0" \in PresentConditions /\ contrasts = PresentConditions \ {"C0"}
      /\ contrasts = Targets /\ HandoffsMade /\ MediationMade /\ GridOK
  BY DEF RqInv, Targets
<1>2. /\ Reference = "C0" /\ HardestPresent \in PresentConditions
      /\ SingleCondition <=> PresentConditions = {"C0"}
      /\ ~SingleCondition => HardestPresent # "C0"
  BY <1>1, WhereC0Ran
<1>3. handoffModel = contrasts
  BY <1>1, <1>2 DEF HandoffsMade, Effects
<1>4. \A c \in contrasts : Contrastable(c)
  BY <1>1 DEF Contrastable, PresentConditions
<1>5. /\ mediation.effects \in {{}, contrasts}
      /\ mediation.intervals \subseteq mediation.effects
      /\ mediation.effects # {} \/ mediation.lengthControlled => SawBothOutcomes
  BY <1>1, MediationHasData
<1>6. CASE SingleCondition
  <2>1. PresentConditions = {"C0"}
    BY <1>2, <1>6
  <2>2. seeds # {}
    BY <1>1, <1>6 DEF RunSeeds, PresentConditions
  <2>3. ASSUME dispersion
        PROVE  \E s, t \in seeds : s # t /\ {grid["C0"][s], grid["C0"][t]} = {"fail", "success"}
    <3>1. PICK c \in Conditions, d \in Conditions, s \in Seeds, t \in Seeds :
            grid[c][s] = "fail" /\ grid[d][t] = "success"
      BY <1>1, <1>6, <2>3, BothOutcomes
    <3>2. c \in PresentConditions /\ d \in PresentConditions
      BY <3>1 DEF PresentConditions, Ran
    <3>3. s \in RunSeeds /\ t \in RunSeeds
      BY <3>1 DEF RunSeeds, Ran
    <3>4. grid["C0"][s] = "fail" /\ grid["C0"][t] = "success"
      BY <2>1, <3>1, <3>2
    <3> QED BY <1>6, <3>3, <3>4
  <2>4. metric # "condition_gap"
    BY <1>6
  <2> QED BY <1>3, <1>4, <1>5, <2>2, <2>3, <2>4
<1>7. CASE ~SingleCondition
  <2>1. HardestPresent \in contrasts
    BY <1>1, <1>2, <1>7
  <2>2. /\ seeds # {} /\ ~dispersion
        /\ \A s \in seeds : Ran("C0", s) /\ Ran(HardestPresent, s)
    BY <1>7
  <2> QED BY <1>3, <1>4, <1>5, <2>1, <2>2
<1> QED BY <1>6, <1>7

(* Where the analysis raises before its contrasts are made.                *)
LEMMA RaisedEarly ==
  ASSUME RqInv, rqPc' = "raised", rqPc # "raised",
         UNCHANGED <<grid, progress, handoffModel, contrasts>>,
         rqPc \in BeforeContrasts,
         \/ progress = "clustered" /\ handoffModel = {}
         \/ ~SingleCondition /\ (handoffModel = {} \/ SawBothOutcomes)
         \/ "C0" \notin PresentConditions /\ PresentConditions # {}
  PROVE  NumbersHaveData'
<1>1. /\ \A c, s : Ran(c, s)' = Ran(c, s)
      /\ SawBothOutcomes' = SawBothOutcomes
  BY GridUnchanged
<1>2. contrasts' = {}
  BY DEF RqInv, BeforeContrasts
<1>3. "C0" \notin PresentConditions => ~\E s \in Seeds : Ran("C0", s)
  BY ThreeConditions DEF PresentConditions
<1>4. ~SingleCondition \/ ("C0" \notin PresentConditions /\ PresentConditions # {}) =>
        \E c \in Conditions \ {"C0"}, s \in Seeds : Ran(c, s)
  <2>1. PresentConditions \subseteq Conditions /\ IsFiniteSet(PresentConditions)
    BY ThreeConditions, FS_Subset DEF PresentConditions
  <2>2. PresentConditions \subseteq {"C0"} => SingleCondition
    BY <2>1, TwoOrOne DEF SingleCondition
  <2>3. ~(PresentConditions \subseteq {"C0"}) =>
          \E c \in Conditions \ {"C0"}, s \in Seeds : Ran(c, s)
    BY DEF PresentConditions
  <2> QED BY <2>2, <2>3
<1>5. handoffModel' # {} => SawBothOutcomes' \/ ~\E s \in Seeds : Ran("C0", s)'
  BY <1>1, <1>3
<1>6. ASSUME progress' # "clustered"
      PROVE  \E c \in Conditions \ {"C0"}, s \in Seeds : Ran(c, s)'
  <2>1. progress # "clustered"
    BY <1>6
  <2>2. ~SingleCondition \/ ("C0" \notin PresentConditions /\ PresentConditions # {})
    BY <2>1
  <2>3. PICK c \in Conditions \ {"C0"}, s \in Seeds : Ran(c, s)
    BY <1>4, <2>2
  <2>4. Ran(c, s)'
    BY <1>1, <2>3
  <2> QED BY <2>3, <2>4
<1> QED BY <1>2, <1>5, <1>6 DEF NumbersHaveData

LEMMA RqNextInv == RqInv /\ [RqNext]_rqVars => RqInv'
<1> SUFFICES ASSUME RqInv, [RqNext]_rqVars PROVE RqInv'
  OBVIOUS
<1>1. RqTypeOK /\ GridOK
  BY DEF RqInv
<1>2. UNCHANGED <<grid, progress>>
  BY DEF RqNext, Check, FitProbes, FitHandoffs, FitMediation, Contrast, Sensitivity, rqVars,
         rqInputs
<1>3. /\ PresentConditions' = PresentConditions /\ SingleCondition' = SingleCondition
      /\ Effects' = Effects /\ Targets' = Targets /\ Mediable' = Mediable
      /\ Mediations' = Mediations /\ HardestPresent' = HardestPresent
      /\ SawBothOutcomes' = SawBothOutcomes
      /\ \A c, s : Ran(c, s)' = Ran(c, s)
  BY <1>2, GridUnchanged
<1>4. GridOK'
  BY <1>1, <1>2 DEF GridOK
<1>5. PresentConditions \subseteq Conditions /\ Targets \subseteq Conditions
      /\ Effects \subseteq Conditions /\ RunSeeds \subseteq Seeds
  BY DEF PresentConditions, Targets, Effects, RunSeeds
<1>6. CASE Check
  <2>1. /\ rqPc = "labels" /\ rqPc' \in {"labelled", "refused"}
        /\ rqPc' = "labelled" => PresentConditions # {}
        /\ UNCHANGED <<handoffModel, mediation, contrasts, sensitivity>>
    BY <1>6 DEF Check
  <2>2. RqTypeOK'
    BY <1>1, <1>2, <2>1 DEF RqTypeOK
  <2>3. NumbersHaveData'
    BY <2>1 DEF NumbersHaveData
  <2> QED BY <1>3, <1>4, <2>1, <2>2, <2>3 DEF RqInv, BeforeContrasts
<1>7. CASE FitProbes
  <2>1. /\ rqPc = "labelled" /\ UNCHANGED <<handoffModel, mediation, contrasts, sensitivity>>
        /\ rqPc' = "scored" \/ (rqPc' = "raised" /\ progress = "clustered")
        /\ handoffModel = {} /\ PresentConditions # {}
    BY <1>7 DEF FitProbes, RqInv
  <2>2. RqTypeOK'
    BY <1>1, <1>2, <2>1 DEF RqTypeOK
  <2>3. NumbersHaveData'
    <3>1. CASE rqPc' = "scored"
      BY <3>1 DEF NumbersHaveData
    <3>2. CASE rqPc' = "raised"
      BY <1>2, <2>1, <3>2, RaisedEarly DEF BeforeContrasts
    <3> QED BY <2>1, <3>1, <3>2
  <2> QED BY <1>3, <1>4, <2>1, <2>2, <2>3 DEF RqInv, BeforeContrasts
<1>8. CASE FitHandoffs
  <2>1. /\ rqPc = "scored" /\ UNCHANGED <<mediation, contrasts, sensitivity>>
        /\ \/ /\ rqPc' = "handoffs"
              /\ handoffModel' = IF SingleCondition THEN {} ELSE Effects
           \/ rqPc' = "raised" /\ ~SingleCondition /\ handoffModel' = handoffModel
        /\ handoffModel = {} /\ PresentConditions # {} /\ contrasts = {}
    BY <1>8 DEF FitHandoffs, RqInv, BeforeContrasts
  <2>2. RqTypeOK'
    BY <1>1, <1>2, <1>5, <2>1 DEF RqTypeOK
  <2>3. NumbersHaveData'
    <3>1. CASE rqPc' = "handoffs"
      BY <3>1 DEF NumbersHaveData
    <3>2. CASE rqPc' = "raised"
      BY <1>2, <2>1, <3>2, RaisedEarly DEF BeforeContrasts
    <3> QED BY <2>1, <3>1, <3>2
  <2>4. rqPc' = "handoffs" => HandoffsMade'
    BY <1>3, <2>1 DEF HandoffsMade
  <2> QED BY <1>3, <1>4, <2>1, <2>2, <2>3, <2>4 DEF RqInv, BeforeContrasts
<1>9. CASE FitMediation
  <2>1. /\ rqPc = "handoffs" /\ UNCHANGED <<handoffModel, contrasts, sensitivity>>
        /\ \/ /\ rqPc' = "models"
              /\ mediation' \in IF Mediable THEN Mediations ELSE {NotMediated}
           \/ rqPc' = "raised" /\ Mediable /\ mediation' = mediation
        /\ HandoffsMade /\ PresentConditions # {} /\ contrasts = {}
    BY <1>9 DEF FitMediation, RqInv, BeforeContrasts
  <2>2. RqTypeOK'
    <3>1. mediation' \in [effects : SUBSET Conditions, intervals : SUBSET Conditions,
                          lengthControlled : BOOLEAN]
      <4>1. mediation' \in Mediations \/ mediation' = NotMediated \/ mediation' = mediation
        BY <2>1
      <4>2. CASE mediation' \in Mediations
        BY <1>5, <4>2 DEF Mediations
      <4>3. CASE mediation' = NotMediated
        BY <4>3 DEF NotMediated
      <4>4. CASE mediation' = mediation
        BY <1>1, <4>4 DEF RqTypeOK
      <4> QED BY <4>1, <4>2, <4>3, <4>4
    <3> QED BY <1>1, <1>2, <2>1, <3>1 DEF RqTypeOK
  <2>3. NumbersHaveData'
    <3>1. CASE rqPc' = "models"
      BY <3>1 DEF NumbersHaveData
    <3>2. CASE rqPc' = "raised"
      <4>1. ~SingleCondition /\ Cardinality(SuccessClasses) = 2
        BY <2>1, <3>2 DEF Mediable
      <4>2. SawBothOutcomes
        BY <1>1, <4>1, BothOutcomes DEF SawBothOutcomes
      <4> QED BY <1>2, <2>1, <3>2, <4>1, <4>2, RaisedEarly DEF BeforeContrasts
    <3> QED BY <2>1, <3>1, <3>2
  <2>4. HandoffsMade' /\ (rqPc' = "models" => MediationMade')
    <3>1. NotMediated' = NotMediated
      BY DEF NotMediated
    <3> QED BY <1>3, <2>1, <3>1 DEF HandoffsMade, MediationMade
  <2> QED BY <1>3, <1>4, <2>1, <2>2, <2>3, <2>4 DEF RqInv, BeforeContrasts
<1>10. CASE Contrast
  <2>1. /\ rqPc = "models" /\ UNCHANGED <<handoffModel, mediation, sensitivity>>
        /\ HandoffsMade /\ MediationMade /\ PresentConditions # {} /\ contrasts = {}
        /\ IF "C0" \in PresentConditions
           THEN contrasts' = Targets /\ rqPc' = "contrasts"
           ELSE rqPc' = "raised" /\ UNCHANGED contrasts
    BY <1>10 DEF Contrast, RqInv, BeforeContrasts
  <2>2. HandoffsMade' /\ MediationMade'
    BY <1>3, <2>1 DEF HandoffsMade, MediationMade, NotMediated
  <2>3. RqTypeOK'
    BY <1>1, <1>2, <1>5, <2>1 DEF RqTypeOK
  <2>4. NumbersHaveData'
    <3>1. CASE rqPc' = "contrasts"
      BY <3>1 DEF NumbersHaveData
    <3>2. CASE rqPc' = "raised"
      BY <1>2, <2>1, <3>2, RaisedEarly DEF BeforeContrasts
    <3> QED BY <2>1, <3>1, <3>2
  <2> QED BY <1>3, <1>4, <2>1, <2>2, <2>3, <2>4 DEF RqInv, BeforeContrasts
<1>11. CASE Sensitivity
  <2> DEFINE paired == {s \in Seeds : Ran("C0", s) /\ Ran(HardestPresent, s)}
             metric == IF SingleCondition THEN "success_rate" ELSE "condition_gap"
             seeds == IF SingleCondition THEN RunSeeds ELSE paired
             dispersion == SingleCondition /\ ~FewSeeds /\ Cardinality(SuccessClasses) = 2
  <2>1. /\ rqPc = "contrasts" /\ UNCHANGED <<handoffModel, mediation, contrasts>>
        /\ sensitivity' = [metric |-> metric, seeds |-> seeds, dispersion |-> dispersion]
        /\ rqPc' = IF ~SingleCondition /\ paired = {} THEN "raised" ELSE "written"
    <3>1. CASE SingleCondition
      BY <1>11, <3>1 DEF Sensitivity
    <3>2. CASE ~SingleCondition
      BY <1>11, <3>2 DEF Sensitivity
    <3> QED BY <3>1, <3>2
  <2>2. RqTypeOK'
    <3>1. sensitivity' \in [metric : {"none", "success_rate", "condition_gap"},
                            seeds : SUBSET Seeds, dispersion : BOOLEAN]
      BY <1>5, <2>1
    <3>2. rqPc' \in {"raised", "written"}
      BY <2>1
    <3> QED BY <1>1, <1>2, <2>1, <3>1, <3>2 DEF RqTypeOK
  <2>3. "C0" \in PresentConditions /\ contrasts = PresentConditions \ {"C0"}
    BY <2>1 DEF RqInv, Targets
  <2>4. CASE rqPc' = "raised"
    <3>1. ~SingleCondition /\ ~\E s \in Seeds : Ran("C0", s) /\ Ran(HardestPresent, s)
      BY <2>1, <2>4
    <3>2. ~\E s \in Seeds : Ran("C0", s)' /\ Ran(HardestPresent, s)'
      <4>1. \A s : Ran(HardestPresent, s)' = Ran(HardestPresent, s)
        BY <1>2, <1>3 DEF Ran
      <4> QED BY <1>3, <3>1, <4>1
    <3>3. HardestPresent \in PresentConditions \ {"C0"}
      BY <2>3, <3>1, WhereC0Ran
    <3>4. contrasts' # {} /\ \E c \in Conditions \ {"C0"}, s \in Seeds : Ran(c, s)'
      BY <1>3, <2>1, <2>3, <3>3 DEF PresentConditions
    <3>5. NumbersHaveData'
      BY <2>4, <3>2, <3>4 DEF NumbersHaveData
    <3> QED BY <1>3, <1>4, <2>2, <2>3, <2>4, <3>5 DEF RqInv, BeforeContrasts
  <2>5. CASE rqPc' = "written"
    <3>1. IF SingleCondition
          THEN /\ metric = "success_rate" /\ seeds = RunSeeds
               /\ dispersion => Cardinality(SuccessClasses) = 2
          ELSE /\ metric = "condition_gap" /\ ~dispersion
               /\ seeds = {s \in Seeds : Ran("C0", s) /\ Ran(HardestPresent, s)} /\ seeds # {}
      BY <2>1, <2>5
    <3> HIDE DEF metric, seeds, dispersion, paired
    <3>2. /\ \A c \in handoffModel \cup mediation.effects \cup contrasts : Contrastable(c)
          /\ handoffModel = contrasts
          /\ mediation.effects \in {{}, contrasts}
          /\ mediation.effects # {} \/ mediation.lengthControlled => SawBothOutcomes
          /\ mediation.intervals \subseteq mediation.effects
          /\ seeds # {}
          /\ metric = "condition_gap" =>
               \E c \in contrasts : \A s \in seeds : Ran("C0", s) /\ Ran(c, s)
          /\ dispersion =>
               \E s, t \in seeds : s # t /\ {grid["C0"][s], grid["C0"][t]} = {"fail", "success"}
      BY <2>1, <3>1, ReportHasData
    <3>3. /\ sensitivity'.metric = metric /\ sensitivity'.seeds = seeds
          /\ sensitivity'.dispersion = dispersion
      BY <2>1
    <3>4. \A c : Contrastable(c)' = Contrastable(c)
      BY <1>3 DEF Contrastable
    <3>5. NumbersHaveData'
      BY <1>2, <1>3, <2>1, <2>5, <3>2, <3>3, <3>4 DEF NumbersHaveData
    <3> QED BY <1>3, <1>4, <2>2, <2>3, <2>5, <3>5 DEF RqInv, BeforeContrasts
  <2> QED BY <2>1, <2>4, <2>5
<1>12. CASE UNCHANGED rqVars
  <2>1. RqTypeOK'
    BY <1>1, <1>12 DEF rqVars, RqTypeOK
  <2>2. HandoffsMade' = HandoffsMade /\ MediationMade' = MediationMade
    BY <1>3, <1>12 DEF rqVars, HandoffsMade, MediationMade, NotMediated
  <2>3. NumbersHaveData'
    BY <1>3, <1>12 DEF rqVars, RqInv, NumbersHaveData, Contrastable, Ran
  <2> QED BY <1>3, <1>4, <1>12, <2>1, <2>2, <2>3 DEF rqVars, RqInv, BeforeContrasts
<1> QED BY <1>6, <1>7, <1>8, <1>9, <1>10, <1>11, <1>12 DEF RqNext

LEMMA RqInvariant == RqSpec => []RqInv
BY RqInitInv, RqNextInv, PTL DEF RqSpec

(* Whatever grid of seeds was run, and wherever a probe or a fit raises,   *)
(* every number of a written report has data behind it; a report is lost   *)
(* after its contrasts only if no seed ran both ends, after the handoff    *)
(* model only for want of C0 or in a mediation of both outcomes, and never *)
(* on a grid of C0 alone whose training sides hold both values (rq1.py,    *)
(* analyse_rq1).                                                           *)
THEOREM NumbersAlwaysHaveData == RqSpec => []NumbersHaveData
BY RqInvariant, PTL DEF RqInv
-----------------------------------------------------------------------------
(***************************************************************************)
(* LabelChoice. The order of the ranking keys.                             *)
(***************************************************************************)
IsKey(a) == a[1] \in Int /\ a[2] \in Int /\ a[3] \in Int

LEMMA ExceedsIs ==
  ASSUME NEW a, NEW b, IsKey(a), IsKey(b)
  PROVE  Exceeds(a, b) <=> \/ a[1] > b[1]
                           \/ a[1] = b[1] /\ a[2] > b[2]
                           \/ a[1] = b[1] /\ a[2] = b[2] /\ a[3] > b[3]
<1>1. 1..3 = {1, 2, 3} /\ 1 .. 1 - 1 = {} /\ 1 .. 2 - 1 = {1} /\ 1 .. 3 - 1 = {1, 2}
  OBVIOUS
<1> DEFINE At(i) == a[i] > b[i] /\ \A j \in 1 .. i - 1 : a[j] = b[j]
<1>2. Exceeds(a, b) <=> At(1) \/ At(2) \/ At(3)
  <2>1. Exceeds(a, b) <=> \E i \in {1, 2, 3} : At(i)
    BY <1>1 DEF Exceeds
  <2> HIDE DEF At
  <2> QED BY <2>1
<1>3. At(1) <=> a[1] > b[1]
  BY <1>1
<1>4. At(2) <=> a[1] = b[1] /\ a[2] > b[2]
  BY <1>1
<1>5. At(3) <=> a[1] = b[1] /\ a[2] = b[2] /\ a[3] > b[3]
  BY <1>1
<1> HIDE DEF At
<1> QED BY <1>2, <1>3, <1>4, <1>5

(* i stands before j: its key exceeds, or they share it and i comes first. *)
StandsBefore(K, i, j) == IF j < i THEN Exceeds(K[i], K[j]) ELSE ~Exceeds(K[j], K[i])

LEMMA StandingOrder ==
  ASSUME NEW A, A \subseteq Int, NEW K, \A i \in A : IsKey(K[i]),
         NEW i \in A, NEW j \in A, NEW k \in A
  PROVE  /\ i # j => ~(StandsBefore(K, i, j) /\ StandsBefore(K, j, i))
         /\ i # j => StandsBefore(K, i, j) \/ StandsBefore(K, j, i)
         /\ i # j /\ j # k /\ i # k /\ StandsBefore(K, i, j) /\ StandsBefore(K, j, k)
              => StandsBefore(K, i, k)
         /\ StandsBefore(K, i, j) => ~Exceeds(K[j], K[i])
<1> DEFINE Over(a, b) == \/ a[1] > b[1]
                         \/ a[1] = b[1] /\ a[2] > b[2]
                         \/ a[1] = b[1] /\ a[2] = b[2] /\ a[3] > b[3]
<1>1. i \in Int /\ j \in Int /\ k \in Int /\ IsKey(K[i]) /\ IsKey(K[j]) /\ IsKey(K[k])
  OBVIOUS
<1>2. \A x, y \in {i, j, k} : Exceeds(K[x], K[y]) <=> Over(K[x], K[y])
  BY <1>1, ExceedsIs
<1>3. \A x, y \in {i, j, k} :
        StandsBefore(K, x, y) <=> IF y < x THEN Over(K[x], K[y]) ELSE ~Over(K[y], K[x])
  BY <1>2 DEF StandsBefore
<1>4. i # j => ~(StandsBefore(K, i, j) /\ StandsBefore(K, j, i))
  BY <1>1, <1>3 DEF IsKey
<1>5. i # j => StandsBefore(K, i, j) \/ StandsBefore(K, j, i)
  BY <1>1, <1>3 DEF IsKey
<1>6. i # j /\ j # k /\ i # k /\ StandsBefore(K, i, j) /\ StandsBefore(K, j, k)
        => StandsBefore(K, i, k)
  BY <1>1, <1>3 DEF IsKey
<1>7. StandsBefore(K, i, j) => ~Exceeds(K[j], K[i])
  BY <1>1, <1>2, <1>3 DEF IsKey
<1> QED BY <1>4, <1>5, <1>6, <1>7

(* Of some, one stands before all the others.                              *)
LEMMA OneStandsFirst ==
  ASSUME NEW A, IsFiniteSet(A), A \subseteq Int, A # {}, NEW K, \A i \in A : IsKey(K[i])
  PROVE  \E i \in A : /\ \A j \in A \ {i} : StandsBefore(K, i, j)
                      /\ \A k \in A \ {i} : ~\A j \in A \ {k} : StandsBefore(K, k, j)
<1> DEFINE Leader(s, i) == i \in s /\ \A j \in s \ {i} : StandsBefore(K, i, j)
           P == {s \in SUBSET A : s # {} => \E i \in s : Leader(s, i)}
<1>1. ASSUME NEW s \in SUBSET A, \A x \in s : s \ {x} \in P
      PROVE  s \in P
  <2> SUFFICES ASSUME s # {} PROVE \E i \in s : Leader(s, i)
    OBVIOUS
  <2>1. PICK a \in s : TRUE
    OBVIOUS
  <2>2. CASE s \ {a} = {}
    <3>1. Leader(s, a)
      BY <2>1, <2>2
    <3> QED BY <2>1, <3>1
  <2>3. CASE s \ {a} # {}
    <3>1. PICK i \in s \ {a} : Leader(s \ {a}, i)
      BY <1>1, <2>1, <2>3
    <3>2. i \in A /\ a \in A /\ i # a
      BY <2>1, <3>1
    <3>3. CASE StandsBefore(K, i, a)
      <4>1. Leader(s, i)
        BY <3>1, <3>3
      <4> QED BY <3>1, <4>1
    <3>4. CASE StandsBefore(K, a, i)
      <4>1. ASSUME NEW j \in s \ {a}, j # i
            PROVE  StandsBefore(K, a, j)
        <5>1. StandsBefore(K, i, j) /\ j \in A /\ j # a
          BY <3>1, <4>1
        <5> QED BY <3>2, <3>4, <4>1, <5>1, StandingOrder
      <4>2. Leader(s, a)
        BY <2>1, <3>4, <4>1
      <4> QED BY <2>1, <4>2
    <3> QED BY <3>2, <3>3, <3>4, StandingOrder
  <2> QED BY <2>2, <2>3
<1>2. A \in P
  <2> HIDE DEF P
  <2> QED BY <1>1, SubsetInduction
<1>3. PICK i \in A : Leader(A, i)
  BY <1>2
<1>4. ASSUME NEW k \in A \ {i}, \A j \in A \ {k} : StandsBefore(K, k, j)
      PROVE  FALSE
  <2>1. StandsBefore(K, i, k) /\ StandsBefore(K, k, i)
    BY <1>3, <1>4
  <2> QED BY <1>4, <2>1, StandingOrder
<1> QED BY <1>3, <1>4

(* A lead beyond the band is a lead in bands.                              *)
LEMMA BandsFollow ==
  ASSUME NEW x \in Int, NEW y \in Int
  PROVE  InBands(x) \in Int /\ (Leads(x, y) => InBands(x) > InBands(y))
<1>1. TieBand = 5 /\ TieBand \div 2 = 2
  BY DEF TieBand
<1>2. InBands(x) = (x + 2) \div 5 /\ InBands(y) = (y + 2) \div 5
  BY <1>1 DEF InBands
<1> QED BY <1>1, <1>2 DEF Leads
(* An admissible label has a row of scores, and its key is one of integers.*)
LEMMA AdmissibleRow ==
  ASSUME ChoiceTypeOK, NEW k \in Candidates, Admissible(k)
  PROVE  /\ rows[k].encoderRho \in Int /\ rows[k].twinRho \in Int /\ rows[k].mean \in Int
         /\ IsKey(RankKey(rows[k]))
<1>1. rows[k].status = "ok"
  BY DEF Admissible
<1>2. rows[k] \in {Unscored, [status |-> "unavailable"], [status |-> "degenerate"]}
                    \cup OkRows(k)
  BY DEF ChoiceTypeOK
<1>3. rows[k] \in OkRows(k)
  BY <1>1, <1>2 DEF Unscored
<1>4. EncoderRho \subseteq Int /\ TwinRho(k) \subseteq Int
  BY RhosAssumption DEF EncoderRho, TwinRho
<1>5. rows[k].encoderRho \in Int /\ rows[k].twinRho \in Int /\ rows[k].mean \in Int
  <2> DEFINE r == rows[k]
  <2>1. r \in [status : {"ok"}, mean : 0..2, encoderRho : EncoderRho, twinRho : TwinRho(k)]
    BY <1>3 DEF OkRows
  <2> HIDE DEF r
  <2>2. r.encoderRho \in EncoderRho /\ r.twinRho \in TwinRho(k) /\ r.mean \in 0..2
    BY <2>1
  <2>3. r.encoderRho \in Int /\ r.twinRho \in Int /\ r.mean \in Int
    <3>1. r.encoderRho \in Int /\ r.twinRho \in Int
      BY <1>4, <2>2, Zenon
    <3>2. 0..2 \subseteq Int
      OBVIOUS
    <3> QED BY <2>2, <3>1, <3>2, Zenon
  <2> QED BY <2>3 DEF r
<1>6. InBands(rows[k].encoderRho) \in Int /\ InBands(rows[k].twinRho) \in Int
  BY <1>5, BandsFollow
<1> QED BY <1>5, <1>6 DEF IsKey, RankKey

(* A key that none exceeds is not led in either correlation.               *)
LEMMA UnexceededIsUnled ==
  ASSUME ChoiceTypeOK, NEW k \in Candidates, Admissible(k), NEW w \in Candidates, Admissible(w),
         ~Exceeds(RankKey(rows[k]), RankKey(rows[w]))
  PROVE  /\ ~Leads(rows[k].encoderRho, rows[w].encoderRho)
         /\ rows[k].encoderRho = rows[w].encoderRho => ~Leads(rows[k].twinRho, rows[w].twinRho)
<1> DEFINE a == RankKey(rows[k])
           b == RankKey(rows[w])
<1>1. /\ rows[k].encoderRho \in Int /\ rows[k].twinRho \in Int /\ IsKey(a)
      /\ rows[w].encoderRho \in Int /\ rows[w].twinRho \in Int /\ IsKey(b)
  BY AdmissibleRow
<1>2. /\ a[1] = InBands(rows[k].encoderRho) /\ b[1] = InBands(rows[w].encoderRho)
      /\ a[2] = InBands(rows[k].twinRho) /\ b[2] = InBands(rows[w].twinRho)
  BY DEF RankKey
<1>3. ~Exceeds(a, b)
  OBVIOUS
<1> HIDE DEF a, b
<1>4. ~(a[1] > b[1]) /\ ~(a[1] = b[1] /\ a[2] > b[2])
  BY <1>1, <1>3, ExceedsIs
<1>5. ~Leads(rows[k].encoderRho, rows[w].encoderRho)
  BY <1>1, <1>2, <1>4, BandsFollow
<1>6. Leads(rows[k].twinRho, rows[w].twinRho) => a[2] > b[2]
  BY <1>1, <1>2, BandsFollow
<1> QED BY <1>2, <1>4, <1>5, <1>6

(* The ranking names one admissible label that no other exceeds, if there  *)
(* is an admissible label, and none otherwise.                             *)
LEMMA RankedIsOne ==
  ASSUME ChoiceTypeOK
  PROVE  /\ (\A k \in Candidates : ~Admissible(k)) => Ranked = {}
         /\ (\E k \in Candidates : Admissible(k)) =>
              \E w \in Candidates :
                /\ Ranked = {w} /\ Admissible(w)
                /\ \A k \in Candidates :
                     Admissible(k) => ~Exceeds(RankKey(rows[k]), RankKey(rows[w]))
<1> DEFINE A == {i \in DOMAIN LabelOrder : Admissible(LabelOrder[i])}
           K == [i \in A |-> RankKey(rows[LabelOrder[i]])]
           First == {i \in A : \A j \in A \ {i} : StandsBefore(K, i, j)}
<1>1. DOMAIN LabelOrder = 1..Len(LabelOrder) /\ Len(LabelOrder) \in Nat
  BY LabelsAssumption
<1>2. IsFiniteSet(A) /\ A \subseteq Int
  <2>1. IsFiniteSet(1..Len(LabelOrder))
    BY <1>1, FS_Interval
  <2>2. A \subseteq 1..Len(LabelOrder)
    BY <1>1
  <2> QED BY <2>1, <2>2, FS_Subset
<1>3. \A i \in A : LabelOrder[i] \in Candidates /\ Admissible(LabelOrder[i])
  BY DEF Candidates
<1>4. \A i \in A : IsKey(K[i])
  BY <1>3, AdmissibleRow
<1>5. Ranked = {LabelOrder[i] : i \in First}
  <2>1. \A i, j \in A : K[i] = RankKey(rows[LabelOrder[i]]) /\ K[j] = RankKey(rows[LabelOrder[j]])
    OBVIOUS
  <2>2. First = {i \in DOMAIN LabelOrder :
                  /\ Admissible(LabelOrder[i])
                  /\ \A j \in DOMAIN LabelOrder :
                       Admissible(LabelOrder[j]) /\ j # i =>
                         IF j < i THEN Exceeds(RankKey(rows[LabelOrder[i]]), RankKey(rows[LabelOrder[j]]))
                         ELSE ~Exceeds(RankKey(rows[LabelOrder[j]]), RankKey(rows[LabelOrder[i]]))}
    BY <2>1, Zenon DEF StandsBefore
  <2> QED BY <2>2, Zenon DEF Ranked
<1>6. ASSUME \A k \in Candidates : ~Admissible(k)
      PROVE  Ranked = {}
  <2>1. A = {}
    BY <1>3, <1>6
  <2> QED BY <1>5, <2>1
<1>7. ASSUME NEW k \in Candidates, Admissible(k)
      PROVE  A # {}
  <2>1. PICK i \in DOMAIN LabelOrder : k = LabelOrder[i]
    BY DEF Candidates
  <2> QED BY <1>7, <2>1
<1>8. ASSUME A # {}
      PROVE  \E i \in A : First = {i}
  <2> HIDE DEF A, K
  <2>1. PICK i \in A : /\ \A j \in A \ {i} : StandsBefore(K, i, j)
                       /\ \A k \in A \ {i} : ~\A j \in A \ {k} : StandsBefore(K, k, j)
    BY <1>2, <1>4, <1>8, OneStandsFirst
  <2> QED BY <2>1
<1>9. ASSUME A # {}
      PROVE  \E w \in Candidates :
                /\ Ranked = {w} /\ Admissible(w)
                /\ \A k \in Candidates :
                     Admissible(k) => ~Exceeds(RankKey(rows[k]), RankKey(rows[w]))
  <2>1. PICK i \in A : First = {i}
    BY <1>8, <1>9
  <2>2. LabelOrder[i] \in Candidates /\ Admissible(LabelOrder[i]) /\ Ranked = {LabelOrder[i]}
    BY <1>3, <1>5, <2>1
  <2>3. ASSUME NEW k \in Candidates, Admissible(k)
        PROVE  ~Exceeds(RankKey(rows[k]), RankKey(rows[LabelOrder[i]]))
    <3>1. PICK j \in A : k = LabelOrder[j]
      BY <2>3 DEF Candidates
    <3>2. K[i] = RankKey(rows[LabelOrder[i]]) /\ K[j] = RankKey(rows[k])
      BY <3>1
    <3>3. i # j => StandsBefore(K, i, j)
      BY <2>1, <3>1
    <3>4. ~Exceeds(K[j], K[i])
      <4>1. CASE i = j
        <5>1. IsKey(K[i])
          BY <1>4
        <5> HIDE DEF K
        <5>2. \A b : IsKey(b) => ~Exceeds(b, b)
          <6> SUFFICES ASSUME NEW b, IsKey(b) PROVE ~Exceeds(b, b)
            OBVIOUS
          <6> QED BY ExceedsIs DEF IsKey
        <5> QED BY <4>1, <5>1, <5>2
      <4>2. CASE i # j
        <5> HIDE DEF A, K
        <5> QED BY <1>2, <1>4, <3>3, <4>2, StandingOrder
      <4> QED BY <4>1, <4>2
    <3> QED BY <3>2, <3>4
  <2> QED BY <2>2, <2>3
<1> HIDE DEF A
<1> QED BY <1>6, <1>7, <1>9
(* While a label is left there is a first one, and it is a candidate.      *)
LEMMA NextIsCandidate ==
  ASSUME ~AllCompared
  PROVE  NextLabel \in Candidates
<1> DEFINE T == {i \in DOMAIN LabelOrder : rows[LabelOrder[i]] = Unscored}
           Next1(i) == /\ rows[LabelOrder[i]] = Unscored
                       /\ \A j \in 1 .. i - 1 : rows[LabelOrder[j]] # Unscored
<1>1. DOMAIN LabelOrder = 1..Len(LabelOrder) /\ Len(LabelOrder) \in Nat
  BY LabelsAssumption
<1>2. T \subseteq Nat /\ T # {}
  BY <1>1 DEF AllCompared, Candidates
<1>3. PICK i \in T : \A y \in T : i <= y
  <2> HIDE DEF T
  <2> QED BY <1>2, LeastNatural
<1>4. i \in DOMAIN LabelOrder /\ Next1(i)
  <2>1. \A j \in 1 .. i - 1 : j \in DOMAIN LabelOrder /\ ~(i <= j)
    BY <1>1, <1>3
  <2> QED BY <1>3, <2>1
<1> DEFINE n == CHOOSE x \in DOMAIN LabelOrder : Next1(x)
<1>5. n \in DOMAIN LabelOrder
  <2> HIDE DEF Next1
  <2> QED BY <1>4
<1>6. NextLabel = LabelOrder[n]
  BY DEF NextLabel
<1> HIDE DEF n
<1> QED BY <1>5, <1>6 DEF Candidates

(* Past the check of the records the primary label is on every handoff and *)
(* not constant; past the comparison every label has its row; and a row    *)
(* without scores has its reason in the records.                           *)
ChoiceInv ==
  /\ ChoiceTypeOK
  /\ choicePc \notin {"records", "refused"} =>
       recorded[PrimaryY].coverage = "all" /\ recorded[PrimaryY].spread # "constant"
  /\ choicePc \in {"proxies", "ranking", "recommended"} => AllCompared
  /\ \A k \in Candidates :
       /\ rows[k].status = "unavailable" => recorded[k].coverage = "none"
       /\ rows[k].status = "degenerate" => recorded[k].spread = "constant"
  /\ RecommendationIsEarned

LEMMA ChoiceInitInv == ChoiceInit => ChoiceInv
<1> SUFFICES ASSUME ChoiceInit PROVE ChoiceInv
  OBVIOUS
<1> USE DEF ChoiceInit
<1>1. ChoiceTypeOK
  BY DEF ChoiceTypeOK
<1>2. \A k \in Candidates : rows[k].status = "waiting"
  BY DEF Unscored
<1>3. RecommendationIsEarned
  BY DEF RecommendationIsEarned
<1> QED BY <1>1, <1>2, <1>3 DEF ChoiceInv

(* The rows of a comparison decide what is recommended.                    *)
LEMMA RankedIsEarned ==
  ASSUME ChoiceTypeOK
  PROVE  /\ Ranked \subseteq Candidates
         /\ Cardinality(Ranked) = IF \E k \in Candidates : Admissible(k) THEN 1 ELSE 0
         /\ \A w \in Ranked :
              /\ Admissible(w)
              /\ \A k \in Candidates : Admissible(k) =>
                   /\ ~Leads(rows[k].encoderRho, rows[w].encoderRho)
                   /\ rows[k].encoderRho = rows[w].encoderRho =>
                        ~Leads(rows[k].twinRho, rows[w].twinRho)
<1>1. CASE \E k \in Candidates : Admissible(k)
  <2>1. PICK w \in Candidates :
           /\ Ranked = {w} /\ Admissible(w)
           /\ \A k \in Candidates :
                Admissible(k) => ~Exceeds(RankKey(rows[k]), RankKey(rows[w]))
    BY <1>1, RankedIsOne
  <2>2. Cardinality(Ranked) = 1
    BY <2>1, FS_Singleton
  <2>3. \A k \in Candidates : Admissible(k) =>
          /\ ~Leads(rows[k].encoderRho, rows[w].encoderRho)
          /\ rows[k].encoderRho = rows[w].encoderRho =>
               ~Leads(rows[k].twinRho, rows[w].twinRho)
    BY <2>1, UnexceededIsUnled
  <2> QED BY <1>1, <2>1, <2>2, <2>3
<1>2. CASE \A k \in Candidates : ~Admissible(k)
  <2>1. Ranked = {}
    BY <1>2, RankedIsOne
  <2> QED BY <1>2, <2>1, FS_EmptySet
<1> QED BY <1>1, <1>2

LEMMA ChoiceNextInv == ChoiceInv /\ [ChoiceNext]_choiceVars => ChoiceInv'
<1> SUFFICES ASSUME ChoiceInv, [ChoiceNext]_choiceVars PROVE ChoiceInv'
  OBVIOUS
<1>0. PrimaryY \in Candidates
  BY LabelsAssumption
<1> USE DEF ChoiceInv
(* A step that leaves records, rows and recommendation alone, and does not *)
(* enter a phase that promises more.                                       *)
<1>1. ASSUME UNCHANGED <<recordVars, rows>>,
             recommended' \subseteq Candidates, flagged' \in BOOLEAN,
             choicePc' \in {"records", "twins", "labels", "proxies", "ranking", "recommended",
                           "refused", "raised"},
             choicePc' \notin {"records", "refused"} =>
               recorded[PrimaryY].coverage = "all" /\ recorded[PrimaryY].spread # "constant",
             choicePc' \in {"proxies", "ranking", "recommended"} => AllCompared,
             RecommendationIsEarned'
      PROVE  ChoiceInv'
  <2>1. ChoiceTypeOK'
    BY <1>1 DEF ChoiceTypeOK, recordVars, OkRows, EncoderRho
  <2>2. AllCompared' <=> AllCompared
    BY <1>1 DEF AllCompared
  <2> QED BY <1>1, <2>1, <2>2 DEF recordVars
<1>2. CASE CheckPrimary
  <2>1. RecommendationIsEarned'
    BY <1>2 DEF CheckPrimary, RecommendationIsEarned
  <2> QED BY <1>1, <1>2, <2>1 DEF CheckPrimary, ChoiceTypeOK
<1>3. CASE Twins
  <2>1. RecommendationIsEarned'
    BY <1>0, <1>3 DEF Twins, RecommendationIsEarned, CannotFold, FoldWithOneValue,
                     OneEpisodeOnly, recordVars
  <2> QED BY <1>1, <1>3, <2>1 DEF Twins, ChoiceTypeOK
<1>4. CASE CompareLabel
  <2> DEFINE k == NextLabel
  <2>1. k \in Candidates
    BY <1>4, NextIsCandidate DEF CompareLabel
  <2> HIDE DEF k
  <2>2. ASSUME NEW row, rows' = [rows EXCEPT ![k] = row],
               UNCHANGED <<recordVars, choicePc, recommended, flagged>>,
               row \in {[status |-> "unavailable"], [status |-> "degenerate"]} \cup OkRows(k),
               row.status = "unavailable" => recorded[k].coverage = "none",
               row.status = "degenerate" => recorded[k].spread = "constant"
        PROVE  ChoiceInv'
    <3>1. choicePc = "labels"
      BY <1>4 DEF CompareLabel
    <3>2. DOMAIN rows' = Candidates
      BY <2>2 DEF ChoiceTypeOK
    <3>3. \A l \in Candidates : rows'[l] = IF l = k THEN row ELSE rows[l]
      BY <2>2 DEF ChoiceTypeOK
    <3>4. \A l \in Candidates : OkRows(l)' = OkRows(l)
      BY <2>2 DEF OkRows, EncoderRho, recordVars
    <3>5. ChoiceTypeOK'
      <4>1. \A l \in Candidates :
              rows'[l] \in {Unscored, [status |-> "unavailable"], [status |-> "degenerate"]}
                             \cup OkRows(l)'
        BY <2>2, <3>3, <3>4 DEF ChoiceTypeOK
      <4> QED BY <2>2, <3>2, <4>1 DEF ChoiceTypeOK, recordVars
    <3>6. RecommendationIsEarned'
      BY <2>2, <3>1 DEF RecommendationIsEarned
    <3> QED BY <2>1, <2>2, <3>1, <3>3, <3>5, <3>6 DEF recordVars
  <2>3. \/ /\ recorded[k].coverage = "none"
           /\ rows' = [rows EXCEPT ![k] = [status |-> "unavailable"]] /\ UNCHANGED choicePc
        \/ /\ recorded[k].coverage # "none" /\ recorded[k].spread = "constant"
           /\ rows' = [rows EXCEPT ![k] = [status |-> "degenerate"]] /\ UNCHANGED choicePc
        \/ \E row \in OkRows(k) : rows' = [rows EXCEPT ![k] = row] /\ UNCHANGED choicePc
        \/ CannotFold(k) /\ choicePc' = "raised" /\ UNCHANGED rows
    BY <1>4, Zenon DEF CompareLabel, k
  <2>4. choicePc = "labels" /\ UNCHANGED <<recordVars, recommended, flagged>>
    BY <1>4 DEF CompareLabel
  <2>5. CASE recorded[k].coverage = "none"
             /\ rows' = [rows EXCEPT ![k] = [status |-> "unavailable"]] /\ UNCHANGED choicePc
    BY <2>2, <2>4, <2>5
  <2>6. CASE /\ recorded[k].coverage # "none" /\ recorded[k].spread = "constant"
             /\ rows' = [rows EXCEPT ![k] = [status |-> "degenerate"]] /\ UNCHANGED choicePc
    BY <2>2, <2>4, <2>6
  <2>7. ASSUME NEW row \in OkRows(k), rows' = [rows EXCEPT ![k] = row], UNCHANGED choicePc
        PROVE  ChoiceInv'
    <3>1. row.status = "ok"
      BY <2>7 DEF OkRows
    <3> QED BY <2>2, <2>4, <2>7, <3>1
  <2>8. CASE CannotFold(k) /\ choicePc' = "raised" /\ UNCHANGED rows
    <3>1. RecommendationIsEarned'
      BY <2>1, <2>4, <2>8 DEF RecommendationIsEarned, CannotFold, FoldWithOneValue,
                             OneEpisodeOnly, recordVars
    <3> QED BY <1>1, <2>4, <2>8, <3>1 DEF ChoiceTypeOK
  <2> QED BY <2>3, <2>5, <2>6, <2>7, <2>8
<1>5. CASE Compared
  <2>1. RecommendationIsEarned'
    BY <1>5 DEF Compared, RecommendationIsEarned
  <2> QED BY <1>1, <1>5, <2>1 DEF Compared, ChoiceTypeOK
<1>6. CASE TrackProxies
  <2>1. RecommendationIsEarned'
    BY <1>6 DEF TrackProxies, RecommendationIsEarned, recordVars
  <2> QED BY <1>1, <1>6, <2>1 DEF TrackProxies, ChoiceTypeOK
<1>7. CASE RecommendLabel
  <2>1. /\ choicePc = "ranking" /\ choicePc' = "recommended" /\ UNCHANGED <<recordVars, rows>>
        /\ recommended' = Ranked /\ flagged' = Unstable
    BY <1>7 DEF RecommendLabel
  <2>2. flagged' \in BOOLEAN /\ (flagged' => secondRan)
    BY <2>1 DEF Unstable
  <2>3. rows[PrimaryY].status = "ok"
    <3>1. /\ rows[PrimaryY] # Unscored /\ rows[PrimaryY] # [status |-> "unavailable"]
          /\ rows[PrimaryY] # [status |-> "degenerate"]
      BY <1>0, <2>1 DEF AllCompared
    <3>2. rows[PrimaryY] \in OkRows(PrimaryY)
      BY <1>0, <3>1 DEF ChoiceTypeOK
    <3> QED BY <3>2 DEF OkRows
  <2>4. \A k : Admissible(k)' <=> Admissible(k)
    BY <2>1 DEF Admissible, recordVars
  <2>5. RecommendationIsEarned'
    <3> DEFINE Some == \E k \in Candidates : Admissible(k)
               Best(w) == /\ Admissible(w)
                          /\ \A k \in Candidates : Admissible(k) =>
                               /\ ~Leads(rows[k].encoderRho, rows[w].encoderRho)
                               /\ rows[k].encoderRho = rows[w].encoderRho =>
                                    ~Leads(rows[k].twinRho, rows[w].twinRho)
    <3>1. Cardinality(recommended') = (IF Some THEN 1 ELSE 0) /\ \A w \in recommended' : Best(w)
      BY <2>1, RankedIsEarned
    <3>2. Some' <=> Some
      BY <2>4
    <3>3. \A w : Best(w)' <=> Best(w)
      BY <2>1, <2>4
    <3> QED BY <2>1, <2>2, <2>3, <3>1, <3>2, <3>3 DEF RecommendationIsEarned, recordVars
  <2>6. recommended' \subseteq Candidates
    BY <2>1, RankedIsEarned
  <2> QED BY <1>1, <2>1, <2>2, <2>5, <2>6
<1>8. CASE UNCHANGED choiceVars
  <2>1. RecommendationIsEarned'
    BY <1>8 DEF RecommendationIsEarned, CannotFold, FoldWithOneValue, OneEpisodeOnly,
                Admissible, choiceVars
  <2> QED BY <1>1, <1>8, <2>1 DEF choiceVars, recordVars, ChoiceTypeOK
<1> QED BY <1>2, <1>3, <1>4, <1>5, <1>6, <1>7, <1>8 DEF ChoiceNext

LEMMA ChoiceInvariant == ChoiceSpec => []ChoiceInv
BY ChoiceInitInv, ChoiceNextInv, PTL DEF ChoiceSpec

(* Whatever the probes score, the label the rule of rq2.py recommends is   *)
(* one that no admissible label leads by more than the band on the         *)
(* agreement of the encoders or of the twins, and there is one if and only *)
(* if a label is admissible.                                               *)
THEOREM RecommendationAlwaysEarned == ChoiceSpec => []RecommendationIsEarned
BY ChoiceInvariant, PTL DEF ChoiceInv
-----------------------------------------------------------------------------
(***************************************************************************)
(* The types of the artefacts, of the arms and of the pilot, beside the    *)
(* invariants proved above.                                                *)
(***************************************************************************)
(* A transfer that was configured has a key with a file.                   *)
ArtTypes == ArtTypeOK /\ (transferPc = "configured" => transferKey \in Keys)

LEMMA ArtTypesInit == ArtInit => ArtTypes
<1> SUFFICES ASSUME ArtInit PROVE ArtTypes
  OBVIOUS
<1>1. "fail" \in Keys
  BY DEF Keys
<1>2. writing \in 0..Len(WriteOrder) /\ begun \in 0..MaxCalibrations
  BY Order, MaxCalibrationsAssumption DEF ArtInit
<1>3. files \in [Files -> Datasets \cup {Absent, Torn}]
  BY DEF ArtInit
<1> QED BY <1>1, <1>2, <1>3, Zenon DEF ArtInit, ArtTypes, ArtTypeOK

LEMMA ArtTypesNext == ArtTypes /\ ArtInv /\ [ArtNext]_artVars => ArtTypes'
<1> SUFFICES ASSUME ArtTypes, ArtInv, [ArtNext]_artVars PROVE ArtTypes'
  OBVIOUS
<1> USE DEF ArtTypes, ArtTypeOK
<1>0. Len(WriteOrder) = 5 /\ MaxCalibrations \in Nat
  BY Order, MaxCalibrationsAssumption
<1>1. ASSUME NEW d \in Datasets, BeginCalibration(d) PROVE ArtTypes'
  <2>1. begun' \in 0..MaxCalibrations /\ writing' \in 0..Len(WriteOrder)
    BY <1>0, <1>1 DEF BeginCalibration
  <2> QED BY <1>1, <2>1, Zenon DEF BeginCalibration, reader
<1>2. CASE Open
  BY <1>2 DEF Open, reader
<1>3. CASE Fill
  <2>1. source \in Datasets /\ writing + 1 \in 0..5
    BY <1>0, <1>3 DEF Fill, Calibrating, ArtInv, WriterInv, OpenedInv
  <2> QED BY <1>0, <1>3, <2>1 DEF Fill, reader
<1>4. CASE EndCalibration
  BY <1>4 DEF EndCalibration, reader
<1>5. ASSUME NEW asked \in KeysAsked, Configure(asked) PROVE ArtTypes'
  <2>1. Resolved(asked) \in Keys \cup {"unheard"}
    BY DEF KeysAsked, Keys, Resolved
  <2>2. files[ReportFile] \in Datasets \cup {Absent, Torn}
    BY NamesDiffer
  <2>3. Complete \in BOOLEAN
    BY DEF Complete
  <2> QED BY <1>5, <2>1, <2>2, <2>3 DEF Configure
<1>6. CASE ApplyTransfer
  <2>1. files[Statistic(transferKey)] \in Datasets \cup {Absent, Torn}
    BY <1>6, NamesDiffer DEF ApplyTransfer
  <2> QED BY <1>6, <2>1 DEF ApplyTransfer
<1>7. CASE UNCHANGED artVars
  BY <1>7 DEF artVars
<1> QED BY <1>1, <1>2, <1>3, <1>4, <1>5, <1>6, <1>7 DEF ArtNext

LEMMA ArtTyped == ArtSpec => []ArtTypeOK
<1>1. ArtSpec => []ArtTypes
  BY ArtTypesInit, ArtTypesNext, ArtefactsInvariant, PTL DEF ArtSpec
<1> QED BY <1>1, PTL DEF ArtTypes

ArmsTypes ==
  /\ covered \in SUBSET StatisticKeys
  /\ \A d \in ArmDatasets :
       stored[d] \in [Cells -> {Nothing} \cup [config : Configs, decides : Deciding]]
  /\ gate = Unbuilt \/ (gate.config \in Configs /\ gate.decides \in Deciding)
  /\ submissions \in 0..MaxSubmissions

LEMMA ArmsTypesNext == ArmsTypes /\ ArmsInv /\ [ArmsNext]_armsVars => ArmsTypes'
<1> SUFFICES ASSUME ArmsTypes, ArmsInv, [ArmsNext]_armsVars PROVE ArmsTypes'
  OBVIOUS
<1> USE DEF ArmsTypes
<1>1. ASSUME NEW req \in Requests, Submit(req) PROVE ArmsTypes'
  <2>1. submissions' \in 0..MaxSubmissions
    BY <1>1, MaxSubmissionsAssumption DEF Submit
  <2> QED BY <1>1, <2>1, Zenon DEF Submit, storeVars
<1>2. CASE BuildGate
  <2>1. BuiltGate.config \in Configs /\ BuiltGate.decides \in Deciding
    <3>1. ArmConfig \in ArmDatasets /\ Mode \in Modes
      BY ArmsAreModes DEF ArmsInv
    <3>2. BuiltGate.decides \in Deciding
      BY <3>1, Zenon DEF BuiltGate, Decides, Deciding, Modes
    <3>3. ArmDatasets = Configs
      BY DEF ArmDatasets, DatasetOf
    <3>4. BuiltGate.config = ArmConfig
      BY DEF BuiltGate
    <3> QED BY <3>1, <3>2, <3>3, <3>4
  <2> QED BY <1>2, <2>1 DEF BuildGate, storeVars
<1>3. ASSUME NEW cell \in Cells, RunCell(cell) PROVE ArmsTypes'
  <2> DEFINE D == DatasetOf(ArmConfig)
             episode == [config |-> gate.config, decides |-> gate.decides]
             Held == {Nothing} \cup [config : Configs, decides : Deciding]
  <2>1. stored' = [stored EXCEPT ![D][cell] = episode] /\ DOMAIN stored = ArmDatasets
    BY <1>3 DEF RunCell, ArmsInv, PlaceInv
  <2>2. episode \in Held
    BY <1>3 DEF RunCell
  <2>3. \A d \in ArmDatasets : stored[d] \in [Cells -> Held]
    OBVIOUS
  <2> HIDE DEF D, episode, Held
  <2>4. \A d \in ArmDatasets : stored'[d] \in [Cells -> Held]
    <3>1. \A d \in ArmDatasets :
            stored'[d] = IF d = D THEN [stored[d] EXCEPT ![cell] = episode] ELSE stored[d]
      BY <2>1
    <3> QED BY <2>2, <2>3, <3>1
  <2> QED BY <1>3, <2>4 DEF RunCell, Held
<1>4. CASE ArmDone
  BY <1>4 DEF ArmDone, storeVars
<1>5. CASE Die
  BY <1>5 DEF Die, storeVars
<1>6. CASE UNCHANGED armsVars
  BY <1>6 DEF armsVars
<1> QED BY <1>1, <1>2, <1>3, <1>4, <1>5, <1>6 DEF ArmsNext

LEMMA ArmsTypesFollow == ArmsTypes /\ ArmsInv => ArmsTypeOK
BY DEF ArmsTypes, ArmsTypeOK, ArmsInv, PlaceInv

LEMMA ArmsTyped == ArmsSpec => []ArmsTypeOK
<1>1. ArmsInit => ArmsTypes
  BY MaxSubmissionsAssumption DEF ArmsInit, ArmsTypes
<1> QED BY <1>1, ArmsTypesNext, ArmsTypesFollow, ArmsInvariant, PTL DEF ArmsSpec

(* A pilot that is refuted was run.                                        *)
PilotTypes ==
  /\ PilotTypeOK
  /\ refuted <= pilots
  /\ pilotPc = "gating" => refuted < pilots

LEMMA NoCellTyped ==
  /\ NoCell.group \in [Groups -> Results] /\ NoCell.seeds \in SeedCounts
  /\ NoCell.progress \in Progress /\ NoCell.oracle \in OracleReadings
<1>1. (CHOOSE r \in Results : TRUE) \in Results
  BY PilotAssumption
<1> QED BY <1>1, PilotAssumption DEF NoCell, Progress, OracleReadings

LEMMA PilotTypesNext == PilotTypes /\ PilotInv /\ [PilotNext]_pilotVars => PilotTypes'
<1> SUFFICES ASSUME PilotTypes, PilotInv, [PilotNext]_pilotVars PROVE PilotTypes'
  OBVIOUS
<1>0. /\ MaxPilots \in Nat /\ pilots \in 0..MaxPilots /\ refuted \in 0..MaxPilots
      /\ refuted <= pilots /\ (pilotPc = "gating" => refuted < pilots)
  BY PilotAssumption, Zenon DEF PilotTypes, PilotTypeOK
<1>1. CASE RunPilot
  <2>1. PICK c \in CellRuns : pilotCell' = c
    BY <1>1 DEF RunPilot
  <2>2. /\ pilotCell'.group \in [Groups -> Results] /\ pilotCell'.seeds \in SeedCounts
        /\ pilotCell'.progress \in Progress /\ pilotCell'.oracle \in OracleReadings
    BY <2>1 DEF CellRuns
  <2>3. pilots' \in 0..MaxPilots /\ refuted' <= pilots' /\ refuted' < pilots'
    BY <1>0, <1>1 DEF RunPilot
  <2> QED BY <1>1, <2>2, <2>3, Zenon DEF RunPilot, PilotTypes, PilotTypeOK
<1>2. CASE Gate
  <2>1. /\ Recommended[1] \in {"none", "proceed", "retune_once", "fallback"}
        /\ Recommended[2] \in {"none", "error", "unassessable", "failed", "few seeds", "passed"}
    BY DEF Recommended
  <2>2. /\ pilotPc = "gating" /\ refuted < pilots
        /\ recommendation' = Recommended[1] /\ cause' = Recommended[2]
        /\ pilotPc' \in {"raised", "reported"}
        /\ refuted' = refuted \/ refuted' = refuted + 1
        /\ UNCHANGED <<pilotCell, attempt, pilots>>
    <3>1. /\ pilotPc = "gating"
          /\ recommendation' = Recommended[1] /\ cause' = Recommended[2]
          /\ pilotPc' = IF cause' = "error" THEN "raised" ELSE "reported"
          /\ UNCHANGED <<pilotCell, attempt, pilots>>
      BY <1>2 DEF Gate, Recommend
    <3>2. refuted' = refuted + IF Evidence(pilotCell) /\ ~AllPass(pilotCell) THEN 1 ELSE 0
      BY <1>2 DEF Gate, Recommend
    <3>3. refuted' = refuted \/ refuted' = refuted + 1
      BY <1>0, <3>2
    <3> QED BY <1>0, <3>1, <3>3
  <2>3. refuted' \in 0..MaxPilots /\ refuted' <= pilots'
    BY <1>0, <2>2
  <2>4. pilotPc' \in {"planning", "gating", "reported", "raised"} /\ pilotPc' # "gating"
    BY <2>2
  <2> QED BY <2>1, <2>2, <2>3, <2>4, Zenon DEF PilotTypes, PilotTypeOK
<1>3. CASE Again
  <2>1. attempt' \in 1..2
    BY <1>3, PilotNextInv DEF PilotInv, CountInv, PilotNext
  <2> QED BY <1>3, <2>1, NoCellTyped, Zenon DEF Again, PilotTypes, PilotTypeOK
<1>4. CASE UNCHANGED pilotVars
  BY <1>4, Zenon DEF pilotVars, PilotTypes, PilotTypeOK
<1> QED BY <1>1, <1>2, <1>3, <1>4 DEF PilotNext

LEMMA PilotTyped == PilotSpec => []PilotTypeOK
<1>1. PilotInit => PilotTypes
  BY PilotAssumption, NoCellTyped DEF PilotInit, PilotTypes, PilotTypeOK
<1>2. PilotTypes => PilotTypeOK
  BY DEF PilotTypes
<1> QED BY <1>1, <1>2, PilotTypesNext, PilotInvariant, PTL DEF PilotSpec
-----------------------------------------------------------------------------
(***************************************************************************)
(* The studies side by side.                                               *)
(***************************************************************************)
(* What is taken up runs as it would by itself, and the others stutter:    *)
(* the theorems on each study hold of its part of StudiesSpec.             *)
LEMMA EachRunsAlone ==
  StudiesSpec => /\ LocSpec /\ ReplaySpec /\ CalSpec /\ ArtSpec /\ ArmsSpec
                 /\ VerdictSpec /\ PilotSpec /\ RqSpec /\ ChoiceSpec
<1> DEFINE all == <<study, locVars, replayVars, calVars, artVars, armsVars, verdictVars,
                    pilotVars, rqVars, choiceVars>>
<1>1. StudiesInit => /\ LocInit /\ ReplayInit /\ CalInit /\ ArtInit /\ ArmsInit
                     /\ VerdictInit /\ PilotInit /\ RqInit /\ ChoiceInit
  BY DEF StudiesInit
<1>2. [StudiesNext]_all =>
        /\ [LocNext]_locVars /\ [ReplayNext]_replayVars /\ [CalNext]_calVars
        /\ [ArtNext]_artVars /\ [ArmsNext]_armsVars /\ [VerdictNext]_verdictVars
        /\ [PilotNext]_pilotVars /\ [RqNext]_rqVars /\ [ChoiceNext]_choiceVars
  BY DEF StudiesNext
<1> QED
  BY <1>1, <1>2, PTL DEF StudiesSpec, LocSpec, ReplaySpec, CalSpec, ArtSpec, ArmsSpec,
                         VerdictSpec, PilotSpec, RqSpec, ChoiceSpec

(* Whichever study is taken up, each of its variables has its type.        *)
THEOREM StudiesTyped == StudiesSpec => []StudiesTypeOK
<1>1. VerdictSpec => []VerdictTypeOK
  BY VerdictInvariant, PTL DEF VerdictInv
<1>2. RqSpec => []RqTypeOK
  BY RqInvariant, PTL DEF RqInv
<1>3. ChoiceSpec => []ChoiceTypeOK
  BY ChoiceInvariant, PTL DEF ChoiceInv
<1>4. StudiesSpec => [](study \in Studies)
  <2>1. StudiesInit => study \in Studies
    BY DEF StudiesInit
  <2>2. study \in Studies /\ [StudiesNext]_<<study, locVars, replayVars, calVars, artVars, armsVars,
                                 verdictVars, pilotVars, rqVars, choiceVars>>
          => (study \in Studies)'
    BY DEF StudiesNext
  <2> QED BY <2>1, <2>2, PTL DEF StudiesSpec
<1>5. /\ study \in Studies
      /\ LocTypeOK /\ ReplayTypeOK /\ CalTypeOK /\ ArtTypeOK /\ ArmsTypeOK
      /\ VerdictTypeOK /\ PilotTypeOK /\ RqTypeOK /\ ChoiceTypeOK
      => StudiesTypeOK
  BY DEF Studies, StudiesTypeOK
<1> QED
  BY <1>1, <1>2, <1>3, <1>4, <1>5, EachRunsAlone, LocTyped, ReplayTyped, CalTyped, ArtTyped,
     ArmsTyped, PilotTyped, PTL

(* The run's specification keeps what the studies keep: the theorems above *)
(* hold of the very specification that is model-checked.                   *)
THEOREM StudiesKeepTheirPromises ==
  StudiesSpec => [](/\ TruthfulJudgeIsRight /\ HitIsEarned /\ SampleFits /\ BudgetIsKept
                    /\ ThresholdIsTight /\ AcceptedTransferIsCoherent /\ OneArmOneDataset
                    /\ SupportedIsEarned /\ VerdictIsEarned /\ NumbersHaveData
                    /\ RecommendationIsEarned)
BY EachRunsAlone, TruthfulJudgeStaysRight, HitsAreEarned, SampleAlwaysFits, BudgetAlwaysKept,
   ThresholdAlwaysTight, TransferIsCoherent, OneDatasetPerArm, SupportedIsEarnedAlways,
   VerdictIsEarnedAlways, NumbersAlwaysHaveData, RecommendationAlwaysEarned, PTL
=============================================================================
