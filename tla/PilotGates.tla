----------------------------- MODULE PilotGates -----------------------------
(***************************************************************************)
(* The go/no-go of the pilot (experiments/pilot.py): a small cell is run,  *)
(* three gates are read off it, and the report recommends to proceed, to   *)
(* retune once, or to take the fallback.                                   *)
(*                                                                         *)
(*   planning --> gating --> reported --> planning (cell mended or grown,  *)
(*                     \--> raised --/    or the one retune)               *)
(*                                                                         *)
(* What the run of a cell gives is external, any of a few results. The     *)
(* reader of the report is modelled as the report instructs: a failed gate *)
(* makes the next run the second attempt (cli.py --attempt), an error, a   *)
(* gate that could not be assessed and a lack of seeds make it the same    *)
(* attempt again.                                                          *)
(***************************************************************************)
EXTENDS Integers

CONSTANTS
  Results,     \* <<episodes, successes>> a group of the cell may come out at
  SeedCounts,       \* how many seeds a cell may be run with
  MinSeeds,    \* seeds needed to proceed
  MaxPilots    \* bound on the pilots run

ASSUME PilotAssumption ==
  /\ Results # {} /\ \A r \in Results : r[1] \in Nat /\ r[2] \in 0..r[1]
  /\ SeedCounts \subseteq Nat /\ MinSeeds \in SeedCounts /\ MaxPilots \in Nat

VARIABLES
  pilotCell,       \* what the run of the cell gave
  pilotPc,
  attempt,
  recommendation,
  cause,           \* why: failed gates, unassessable gates, few seeds, an error
  pilots,          \* pilots run so far
  refuted          \* bookkeeping: pilots whose gates could all be assessed and
                   \* did not all pass

pilotVars == <<pilotCell, pilotPc, attempt, recommendation, cause, pilots, refuted>>
-----------------------------------------------------------------------------
(* The clean channel at either difficulty, then the degraded conditions in *)
(* order.                                                                  *)
Groups == {"C0easy", "C0hard", "C1", "C4"}
Progress == {"one class", "right way", "wrong way"}  \* the CPVI gap, if any
OracleReadings == {"constant", "read", "habit"}       \* B against the oracle
CellRuns ==
  [group    : [Groups -> Results],
   seeds    : SeedCounts,
   labelled : BOOLEAN,
   progress : Progress,
   grounded : BOOLEAN,
   oracle   : OracleReadings]

Clean(c) == [i \in 1..2 |-> c.group["C0easy"][i] + c.group["C0hard"][i]]
(* _hardest_condition: of those present.                                   *)
Hardest(c) == IF c.group["C4"][1] > 0 THEN c.group["C4"] ELSE c.group["C1"]

(* Errors of g1_capability and g2_signal, before any verdict.              *)
Raises(c) == ~c.labelled \/ c.group["C0easy"][1] = 0 \/ Hardest(c)[1] = 0

HalfOf(r) == 2 * r[2] >= r[1]
CleanSucceeds(c) == HalfOf(Clean(c))
(* g1_capability: half of the easy clean episodes, and of those alone.     *)
Capable(c) == HalfOf(c.group["C0easy"])

(* g2_signal: the clean success rate over the hardest condition's by a     *)
(* tenth, and CPVI not the wrong way; not assessable with one class.       *)
TenthAbove(a, b) == 10 * (a[2] * b[1] - b[2] * a[1]) >= a[1] * b[1]
GapIsThere(c) == TenthAbove(Clean(c), Hardest(c))
SignalAssessable(c) == c.progress # "one class"
Signal(c) == GapIsThere(c) /\ c.progress = "right way"

(* g3_correctness: beyond B's own habits; a constant oracle tells nothing. *)
OracleAssessable(c) == c.oracle # "constant"
Correct(c) == c.oracle = "read"

Assessable(c) == SignalAssessable(c) /\ OracleAssessable(c)
Evidence(c) == ~Raises(c) /\ Assessable(c)
AllPass(c) == Capable(c) /\ Signal(c) /\ c.grounded /\ Correct(c)
-----------------------------------------------------------------------------
(* The cell is run; its seeds and shape are the experimenter's.            *)
RunPilot ==
  /\ pilotPc = "planning" /\ pilots < MaxPilots
  /\ \E c \in CellRuns : pilotCell' = c
  /\ pilots' = pilots + 1
  /\ pilotPc' = "gating"
  /\ UNCHANGED <<attempt, recommendation, cause, refuted>>

Recommend(r, why) ==
  /\ recommendation' = r
  /\ cause' = why
  /\ pilotPc' = IF why = "error" THEN "raised" ELSE "reported"
  /\ refuted' = refuted + IF Evidence(pilotCell) /\ ~AllPass(pilotCell) THEN 1 ELSE 0
  /\ UNCHANGED <<pilotCell, attempt, pilots>>

TwoRetunes == attempt <= 2
(* A failed gate is retuned once, and only once.                           *)
OneRetune == attempt <= 1

FailedFirst ==
  IF Raises(pilotCell) THEN <<"none", "error">>
  ELSE IF ~Assessable(pilotCell) \/ ~AllPass(pilotCell)
       THEN <<IF OneRetune THEN "retune_once" ELSE "fallback", "failed">>
  ELSE IF pilotCell.seeds < MinSeeds THEN <<"retune_once", "few seeds">>
  ELSE <<"proceed", "passed">>
(* _recommendation: a gate that could not be assessed comes before the     *)
(* failed ones, and the lack of seeds last.                                *)
Recommended ==
  IF Raises(pilotCell) THEN <<"none", "error">>
  ELSE IF ~Assessable(pilotCell) THEN <<"retune_once", "unassessable">>
  ELSE IF ~AllPass(pilotCell)
       THEN <<IF OneRetune THEN "retune_once" ELSE "fallback", "failed">>
  ELSE IF pilotCell.seeds < MinSeeds THEN <<"retune_once", "few seeds">>
  ELSE <<"proceed", "passed">>

Gate ==
  /\ pilotPc = "gating"
  /\ Recommend(Recommended[1], Recommended[2])

(* What a pilot starts from, and has made nothing of yet.                  *)
NoCell ==
  [group    |-> [g \in Groups |-> CHOOSE r \in Results : TRUE],
   seeds    |-> MinSeeds, labelled |-> FALSE, progress |-> "one class",
   grounded |-> FALSE, oracle |-> "constant"]

(* The next run, while the report asks for one.                            *)
Again ==
  /\ pilotPc = "raised" \/ (pilotPc = "reported" /\ recommendation = "retune_once")
  /\ attempt' = attempt + IF cause = "failed" THEN 1 ELSE 0
  /\ pilotPc' = "planning"
  /\ pilotCell' = NoCell
  /\ recommendation' = "none" /\ cause' = "none"
  /\ UNCHANGED <<pilots, refuted>>
-----------------------------------------------------------------------------
PilotInit ==
  /\ pilotCell = NoCell
  /\ pilotPc = "planning"
  /\ attempt = 1
  /\ recommendation = "none" /\ cause = "none"
  /\ pilots = 0 /\ refuted = 0

PilotNext == RunPilot \/ Gate \/ Again

PilotSpec == PilotInit /\ [][PilotNext]_pilotVars
-----------------------------------------------------------------------------
(***************************************************************************)
(* Properties.                                                             *)
(***************************************************************************)
(* Every variable has its type.                                            *)
PilotTypeOK ==
  /\ pilotCell.group \in [Groups -> Results] /\ pilotCell.seeds \in SeedCounts
  /\ pilotCell.progress \in Progress /\ pilotCell.oracle \in OracleReadings
  /\ pilotPc \in {"planning", "gating", "reported", "raised"}
  /\ attempt \in 1..2
  /\ recommendation \in {"none", "proceed", "retune_once", "fallback"}
  /\ cause \in {"none", "error", "unassessable", "failed", "few seeds", "passed"}
  /\ pilots \in 0..MaxPilots /\ refuted \in 0..MaxPilots

(* The fallback is taken after two cells that could be assessed and failed *)
(* a gate, and never on a cell that yields no evidence (pilot.py 81-83);   *)
(* there is no third attempt, however many cells could not be assessed,    *)
(* raised an error or lacked seeds in between; and proceeding needs a cell *)
(* where every gate could fail and none did, its clean easy episodes and   *)
(* its seeds enough on their own.                                          *)
VerdictIsEarned ==
  /\ refuted <= 2
  /\ pilotPc = "reported" =>
       /\ recommendation = "fallback" <=> refuted = 2
       /\ recommendation = "fallback" => Assessable(pilotCell)
       /\ recommendation = "proceed" =>
            /\ Assessable(pilotCell) /\ pilotCell.labelled /\ pilotCell.seeds >= MinSeeds
            /\ pilotCell.group["C0easy"][1] \in 1 .. 2 * pilotCell.group["C0easy"][2]
            /\ Hardest(pilotCell)[1] > 0 /\ GapIsThere(pilotCell)
=============================================================================
