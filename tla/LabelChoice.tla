----------------------------- MODULE LabelChoice -----------------------------
(***************************************************************************)
(* The label the gate should target (experiments/rq2.py): every candidate  *)
(* outcome label is scored on the stored handoffs, the runtime statistics  *)
(* are tracked against the primary one, and a rule fixed beforehand        *)
(* recommends a label and flags an encoder whose scores disagree with the  *)
(* second one's.                                                           *)
(*                                                                         *)
(*   records --> twins --> labels (one by one) --> proxies --> recommended *)
(*         \--> refused  \------------\----------\--> raised               *)
(*                                                                         *)
(* The probes are external: what a label's scores come out at is any of a  *)
(* few values. Correlations are in hundredths. The dataset has at least    *)
(* two episodes.                                                           *)
(***************************************************************************)
EXTENDS Integers, Sequences, FiniteSets

CONSTANTS
  LabelOrder,   \* the candidate labels in the order they are scored
  Rhos          \* the correlations that may come out, in hundredths

PrimaryY == "y_binary_progress"
TerminalSuccess == "y_terminal_success"
Displacement == "y_continuous_displacement"   \* the one continuous label
Candidates == {LabelOrder[i] : i \in DOMAIN LabelOrder}

ASSUME LabelsAssumption ==
  LabelOrder \in Seq(STRING) /\ {PrimaryY, TerminalSuccess} \subseteq Candidates
ASSUME RhosAssumption == Rhos \subseteq -100..100 /\ 0 \in Rhos

VARIABLES
  recorded,     \* label -> how the stored handoffs carry it
  secondRan,    \* the second encoder's scores are there
  choicePc,
  rows,         \* label -> its row of the comparison, once scored
  recommended,  \* the label recommended, in a set, if any
  flagged       \* the report flags the encoder

recordVars == <<recorded, secondRan>>
choiceVars == <<recorded, secondRan, choicePc, rows, recommended, flagged>>
-----------------------------------------------------------------------------
(* How much of the handoffs carry a label (below and above the coverage a  *)
(* headline needs), and how it is spread: constant, with its rarest value  *)
(* too rare, in few episodes only (one of its values, or all that carries  *)
(* it), or over all of them.                                               *)
Coverages == {"none", "few", "most", "all"}
Spreads == {"constant", "rare", "clustered", "balanced"}
Recordings ==
  {r \in [coverage : Coverages, spread : Spreads] :
     r.coverage = "none" => r.spread = "constant"}
Discrete(label) == label # Displacement

(* A cross-fit raises on a discrete label if a training side has one value *)
(* only, the episodes with the other being all held out, and on any label  *)
(* that a single episode carries, which leaves none to train on.           *)
FoldWithOneValue(label) ==
  Discrete(label) /\ recorded[label].spread \in {"rare", "clustered"}
OneEpisodeOnly(label) ==
  recorded[label].coverage \in {"few", "most"} /\ recorded[label].spread = "clustered"
CannotFold(label) == FoldWithOneValue(label) \/ OneEpisodeOnly(label)

Unscored == [status |-> "waiting"]
EncoderRho == IF secondRan THEN Rhos ELSE {0}
TwinRho(label) == IF Discrete(label) THEN Rhos ELSE {-100}
(* An ok row. The interval of the corrected mean lies above zero if the    *)
(* mean is large enough, 1 or 2. An encoder correlation that was not       *)
(* computed ranks as 0, a twin that does not exist as -1.                  *)
OkRows(label) ==
  [status : {"ok"}, mean : 0..2, encoderRho : EncoderRho, twinRho : TwinRho(label)]

(* Every handoff must carry the primary label, in both its classes.        *)
CheckPrimary ==
  /\ choicePc = "records"
  /\ choicePc' = IF recorded[PrimaryY].coverage = "all" /\ recorded[PrimaryY].spread # "constant"
                 THEN "twins" ELSE "refused"
  /\ UNCHANGED <<recordVars, rows, recommended, flagged>>

(* twin_reports: the first cross-fit of the primary label.                 *)
Twins ==
  /\ choicePc = "twins"
  /\ \/ choicePc' = "labels"
     \/ CannotFold(PrimaryY) /\ choicePc' = "raised"
  /\ UNCHANGED <<recordVars, rows, recommended, flagged>>

(* compare_labels: a label nobody recorded and a constant one keep a row   *)
(* with the reason; the others are fitted.                                 *)
NextLabel ==
  LabelOrder[CHOOSE i \in DOMAIN LabelOrder :
               /\ rows[LabelOrder[i]] = Unscored
               /\ \A j \in 1 .. i - 1 : rows[LabelOrder[j]] # Unscored]
AllCompared == \A k \in Candidates : rows[k] # Unscored

CompareLabel ==
  /\ choicePc = "labels" /\ ~AllCompared
  /\ LET k == NextLabel
         Keep(row) == rows' = [rows EXCEPT ![k] = row] /\ UNCHANGED choicePc
     IN  CASE recorded[k].coverage = "none" -> Keep([status |-> "unavailable"])
           [] recorded[k].coverage # "none" /\ recorded[k].spread = "constant" ->
                Keep([status |-> "degenerate"])
           [] OTHER -> \/ \E row \in OkRows(k) : Keep(row)
                       \/ /\ CannotFold(k)
                          /\ choicePc' = "raised" /\ UNCHANGED rows
  /\ UNCHANGED <<recordVars, recommended, flagged>>

Compared ==
  /\ choicePc = "labels" /\ AllCompared
  /\ choicePc' = "proxies"
  /\ UNCHANGED <<recordVars, rows, recommended, flagged>>

(* proxy_tracking: failure_label wants the terminal success of every       *)
(* handoff, scored or not.                                                 *)
TrackProxies ==
  /\ choicePc = "proxies"
  /\ choicePc' = IF recorded[TerminalSuccess].coverage = "all" THEN "ranking" ELSE "raised"
  /\ UNCHANGED <<recordVars, rows, recommended, flagged>>
-----------------------------------------------------------------------------
(* Covered, its rarest value not too rare, and its corrected mean above 0. *)
Admissible(label) ==
  /\ rows[label].status = "ok" /\ rows[label].mean > 0
  /\ recorded[label].coverage \in {"most", "all"}
  /\ Discrete(label) => recorded[label].spread # "rare"

TieBand == 5
(* round(rho / _TIE_BAND): the nearest multiple of the band.               *)
InBands(rho) == (rho + TieBand \div 2) \div TieBand

EffectFirst(row) == <<row.mean, InBands(row.encoderRho), InBands(row.twinRho)>>
(* _rank_labels: both correlations before the size of the effect.          *)
RankKey(row) == <<InBands(row.encoderRho), InBands(row.twinRho), row.mean>>
Exceeds(a, b) ==
  \E i \in 1..3 : a[i] > b[i] /\ \A j \in 1 .. i - 1 : a[j] = b[j]

(* The highest rank, the first in order of those that share it.            *)
Ranked ==
  {LabelOrder[i] : i \in
     {i \in DOMAIN LabelOrder :
        LET Key(n) == RankKey(rows[LabelOrder[n]])
        IN  /\ Admissible(LabelOrder[i])
            /\ \A j \in DOMAIN LabelOrder :
                 Admissible(LabelOrder[j]) /\ j # i =>
                   IF j < i THEN Exceeds(Key(i), Key(j)) ELSE ~Exceeds(Key(j), Key(i))}}

(* The second encoder is judged on the primary label, and its verdict is   *)
(* a flag: the encoder itself stays.                                       *)
Unstable == secondRan /\ rows[PrimaryY].encoderRho < 50

RecommendLabel ==
  /\ choicePc = "ranking"
  /\ recommended' = Ranked
  /\ flagged' = Unstable
  /\ choicePc' = "recommended"
  /\ UNCHANGED <<recordVars, rows>>
-----------------------------------------------------------------------------
ChoiceInit ==
  /\ recorded \in [Candidates -> Recordings]
  /\ Displacement \in Candidates =>
       \/ recorded[Displacement].spread \in {"constant", "balanced"}
       \/ OneEpisodeOnly(Displacement)
  /\ secondRan \in BOOLEAN
  /\ choicePc = "records"
  /\ rows = [k \in Candidates |-> Unscored]
  /\ recommended = {} /\ flagged = FALSE

ChoiceNext == CheckPrimary \/ Twins \/ CompareLabel \/ Compared \/ TrackProxies \/ RecommendLabel

ChoiceSpec == ChoiceInit /\ [][ChoiceNext]_choiceVars
-----------------------------------------------------------------------------
(***************************************************************************)
(* Properties.                                                             *)
(***************************************************************************)
(* Every variable has its type.                                            *)
ChoiceTypeOK ==
  /\ recorded \in [Candidates -> Recordings] /\ secondRan \in BOOLEAN
  /\ choicePc \in {"records", "twins", "labels", "proxies", "ranking", "recommended",
                   "refused", "raised"}
  /\ DOMAIN rows = Candidates
  /\ \A k \in Candidates :
       rows[k] \in {Unscored, [status |-> "unavailable"], [status |-> "degenerate"]}
                     \cup OkRows(k)
  /\ recommended \subseteq Candidates
  /\ flagged \in BOOLEAN

Leads(x, y) == x - y > TieBand

(* A label is recommended if and only if one is admissible, and only one;  *)
(* it is fully measured on nearly every handoff, and no admissible label   *)
(* leads it by more than the band on the agreement of the encoders, nor,   *)
(* where these agree, on its twin's, whatever the sizes of the effects     *)
(* (rq2.py 509-515, "Effect size is deliberately last"). Nothing is        *)
(* flagged without a second encoder. Once the primary label is accepted,   *)
(* the analysis is lost only to a discrete label with a one-valued fold,   *)
(* to a label in one episode only, or to a handoff without its terminal    *)
(* success.                                                                *)
RecommendationIsEarned ==
  /\ choicePc = "recommended" =>
       /\ Cardinality(recommended) = IF \E k \in Candidates : Admissible(k) THEN 1 ELSE 0
       /\ \A w \in recommended :
            /\ Admissible(w)
            /\ \A k \in Candidates : Admissible(k) =>
                 /\ ~Leads(rows[k].encoderRho, rows[w].encoderRho)
                 /\ rows[k].encoderRho = rows[w].encoderRho =>
                      ~Leads(rows[k].twinRho, rows[w].twinRho)
       /\ rows[PrimaryY].status = "ok"
       /\ flagged => secondRan
  /\ choicePc = "raised" =>
       \/ \E k \in Candidates : CannotFold(k)
       \/ recorded[TerminalSuccess].coverage # "all"
=============================================================================
