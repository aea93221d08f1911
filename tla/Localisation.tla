---------------------------- MODULE Localisation ----------------------------
(***************************************************************************)
(* Failure localisation on real logs (experiments/rq3a.py with the judge   *)
(* of rq3a_run.py): one method gives every handoff of every trace a risk,  *)
(* and evaluate compares the ranking with the corpus's annotation.         *)
(*                                                                         *)
(*   walking (the judges, one question a step) --> evaluating --> reported *)
(*   offline (baselines, transfer, refit) ------------^                    *)
(*                                                                         *)
(* A trace is its number of handoffs, numbered from 0, and where the       *)
(* annotated step is: one of them, a step that is no handoff, or nowhere.  *)
(* Two agents speak in turn. The judge model is external: it gives any     *)
(* answer to any question, none, or an error that ends the analysis.       *)
(***************************************************************************)
EXTENDS Integers, FiniteSets, FiniteSetsExt, Functions

CONSTANTS
  Traces,       \* the traces of a corpus
  MaxHandoffs,  \* bound on the handoffs of a trace that is judged
  MaxScored,    \* bound on the handoffs of a trace that is scored offline
  Unanswered    \* None: an answer, a pick or an annotation that is not there

ASSUME HandoffsAssumption == MaxHandoffs \in Nat \ {0} /\ MaxScored \in 1..MaxHandoffs
ASSUME TracesAssumption ==
  IsFiniteSet(Traces) /\ Unanswered \notin Traces /\ Unanswered \notin Int

VARIABLES
  method,     \* the method whose row of the table is made
  corpus,     \* trace -> [handoffs, culprit, failed]
  locPc,
  pending,    \* the traces the method has not come to yet
  walk,       \* the trace being judged, and the segment that is left
  calls,      \* model calls so far
  abstained,  \* the traces a judge declined to rank
  risk,       \* trace -> handoff -> risk, for the traces with scores
  status,     \* ok, unavailable, not_applicable
  honest      \* bookkeeping: every answer of the judge so far was the truth

locVars == <<method, corpus, locPc, pending, walk, calls, abstained, risk, status, honest>>

Judges == {"all_at_once", "binary_search", "step_by_step"}
Methods == Judges \cup {"baseline", "transfer", "refit"}
OffBoundary == -1
Steps(t) == 0 .. corpus[t].handoffs - 1
Annotated(t) == corpus[t].culprit \in Steps(t)

NoWalk == [trace |-> Unanswered, lo |-> 0, hi |-> 0]
BeginShort(t) == [trace |-> t, lo |-> 0, hi |-> corpus[t].handoffs - 2]
(* A trace is taken up with its whole length open.                         *)
Begin(t) == [trace |-> t, lo |-> 0, hi |-> corpus[t].handoffs - 1]

TypesOfTrace(bound) ==
  {c \in [handoffs : 1..bound, culprit : (-1 .. bound - 1) \cup {Unanswered},
          failed : {TRUE, FALSE, Unanswered}] :
     c.culprit = Unanswered \/ c.culprit < c.handoffs}

(* The number of halvings that leave one of n.                             *)
CeilLog2(n) == CHOOSE k \in 0..n : 2^k >= n /\ \A l \in 0 .. k - 1 : 2^l < n
AtLeastTwo(n) == IF n < 2 THEN 2 ELSE n
(* projected_judge_calls, by procedure: what must fit in the job's time.   *)
ProjectedCalls ==
  LET Of(t) == CASE method = "all_at_once"   -> 1
                 [] method = "binary_search" -> CeilLog2(AtLeastTwo(corpus[t].handoffs))
                 [] OTHER                    -> corpus[t].handoffs
  IN  MapThenSumSet(Of, Traces)
-----------------------------------------------------------------------------
(* The judges.                                                             *)

(* One-hot at the pick; all-zero when there is none.                       *)
Pointed(t, pick) == [i \in Steps(t) |-> IF i = pick THEN 1 ELSE 0]

(* The trace is done: its risks are kept and the walk ends.                *)
Conclude(t, pick) ==
  /\ risk' = [u \in DOMAIN risk \cup {t} |-> IF u = t THEN Pointed(t, pick) ELSE risk[u]]
  /\ walk' = NoWalk

TakeUp(t) ==
  /\ locPc = "walking" /\ walk = NoWalk
  /\ t \in pending
  /\ pending' = pending \ {t}
  /\ walk' = Begin(t)
  /\ UNCHANGED <<method, corpus, locPc, calls, abstained, risk, status, honest>>

Asked == calls' = calls + 1
Truth(answer, truth) == honest' = (honest /\ answer = truth)

(* A procedure that gets no answer, or one out of range, abstains.         *)
Abstain ==
  /\ walk # NoWalk
  /\ \/ method = "all_at_once"
     \/ method = "binary_search" /\ walk.lo < walk.hi
     \/ method = "step_by_step" /\ walk.lo <= walk.hi
  /\ Asked
  /\ Conclude(walk.trace, Unanswered)
  /\ abstained' = abstained \cup {walk.trace}
  /\ honest' = FALSE
  /\ UNCHANGED <<method, corpus, locPc, pending, status>>

SelectStep(pick) ==
  /\ walk # NoWalk /\ method = "all_at_once"
  /\ pick \in Steps(walk.trace)
  /\ Asked
  /\ Truth(pick, corpus[walk.trace].culprit)
  /\ Conclude(walk.trace, pick)
  /\ UNCHANGED <<method, corpus, locPc, pending, abstained, status>>

Middle(lo, hi) == (lo + hi) \div 2

(* Does the lower half, its middle included, hold the decisive step?       *)
ContainsError(answer) ==
  /\ walk # NoWalk /\ method = "binary_search" /\ walk.lo < walk.hi
  /\ LET mid == Middle(walk.lo, walk.hi)
     IN  /\ Truth(answer, corpus[walk.trace].culprit \in walk.lo .. mid)
         /\ walk' = IF answer THEN [walk EXCEPT !.hi = mid] ELSE [walk EXCEPT !.lo = mid + 1]
  /\ Asked
  /\ UNCHANGED <<method, corpus, locPc, pending, abstained, risk, status>>

OneLeft ==
  /\ walk # NoWalk /\ method = "binary_search" /\ walk.lo = walk.hi
  /\ Conclude(walk.trace, walk.lo)
  /\ UNCHANGED <<method, corpus, locPc, pending, calls, abstained, status, honest>>

(* Is this step, in the context of those before it, the decisive one? The  *)
(* first yes is the pick.                                                  *)
IsError(answer) ==
  /\ walk # NoWalk /\ method = "step_by_step" /\ walk.lo <= walk.hi
  /\ Truth(answer, corpus[walk.trace].culprit = walk.lo)
  /\ Asked
  /\ IF answer
     THEN Conclude(walk.trace, walk.lo)
     ELSE walk' = [walk EXCEPT !.lo = @ + 1] /\ UNCHANGED risk
  /\ UNCHANGED <<method, corpus, locPc, pending, abstained, status>>

(* Every step was denied: no pick, and not counted as an abstention.       *)
NoneFound ==
  /\ walk # NoWalk /\ method = "step_by_step" /\ walk.lo > walk.hi
  /\ Conclude(walk.trace, Unanswered)
  /\ UNCHANGED <<method, corpus, locPc, pending, calls, abstained, status, honest>>

(* The endpoint fails, or answers with no JSON: ServingError leaves every  *)
(* procedure, and no row of any method is written.                         *)
JudgeFails ==
  /\ walk # NoWalk
  /\ locPc' = "raised"
  /\ UNCHANGED <<method, corpus, pending, walk, calls, abstained, risk, status, honest>>

AllWalked ==
  /\ locPc = "walking" /\ walk = NoWalk /\ pending = {}
  /\ locPc' = "evaluating"
  /\ UNCHANGED <<method, corpus, pending, walk, calls, abstained, risk, status, honest>>
-----------------------------------------------------------------------------
(* The methods that ask nobody.                                            *)

AnyScores(traces) ==
  {r \in [traces -> UNION {[0 .. n - 1 -> {0, 1}] : n \in 1..MaxScored}] :
     \A t \in traces : DOMAIN r[t] = Steps(t)}

Produce(s, r) ==
  /\ status' = s /\ risk' = r
  /\ locPc' = "evaluating" /\ pending' = {}
  /\ UNCHANGED <<method, corpus, walk, calls, abstained, honest>>

NoScores == [t \in {} |-> {}]

(* schema_validity and mean_cosine score every handoff.                    *)
Baseline ==
  /\ locPc = "offline" /\ method = "baseline"
  /\ \E r \in AnyScores(Traces) : Produce("ok", r)

(* No frozen statistic, none of that key, or no calibrated sign: the row   *)
(* stays, unavailable. Else every handoff has a score.                     *)
Transfer ==
  /\ locPc = "offline" /\ method = "transfer"
  /\ \/ Produce("unavailable", NoScores)
     \/ \E r \in AnyScores(Traces) : Produce("ok", r)

(* The corpus's own outcome, on each step of the traces that have one.     *)
Labelled == {t \in Traces : corpus[t].failed # Unanswered}
RefitStatus ==
  CASE Labelled = {} -> "unavailable"
    [] Cardinality({corpus[t].failed : t \in Labelled}) < 2 -> "not_applicable"
    [] OTHER -> "ok"

Refit ==
  /\ locPc = "offline" /\ method = "refit"
  /\ IF RefitStatus = "ok"
     THEN \E r \in AnyScores(Labelled) : Produce("ok", r)
     ELSE Produce(RefitStatus, NoScores)
-----------------------------------------------------------------------------
(* evaluate. Ranks are doubled, to stay integers.                          *)

BestRank2(r, i) == 2 * (1 + Cardinality({j \in DOMAIN r : r[j] > r[i]}))
(* Descending risk, the average rank for ties.                             *)
Rank2(r, i) == 1 + 2 * Cardinality({j \in DOMAIN r : r[j] > r[i]})
                 + Cardinality({j \in DOMAIN r : r[j] = r[i]})

Evaluated == IF status # "ok" THEN {} ELSE {t \in DOMAIN risk : Annotated(t)}

(* The counters beside: traces whose annotated step was not scored, those  *)
(* without an annotation or that the method skipped, and those it scored.  *)
OffBoundaries == {t \in Traces : corpus[t].culprit = OffBoundary}
NotEvaluable == {t \in Traces : \/ corpus[t].culprit = Unanswered
                                \/ Annotated(t) /\ t \notin DOMAIN risk}
Scored == DOMAIN risk

StepHits == {t \in Evaluated : Rank2(risk[t], corpus[t].culprit) = 2}
(* argmin of the ranks: among equals, the first of the trace.              *)
TopStep(t) ==
  CHOOSE i \in Steps(t) : /\ \A j \in Steps(t) : Rank2(risk[t], i) <= Rank2(risk[t], j)
                          /\ \A j \in 0 .. i - 1 : Rank2(risk[t], i) < Rank2(risk[t], j)
Speaker(i) == i % 2
AgentHits == {t \in Evaluated : Speaker(TopStep(t)) = Speaker(corpus[t].culprit)}

(* The row of the method, if any trace could be evaluated.                 *)
Report ==
  /\ locPc = "evaluating"
  /\ locPc' = "reported"
  /\ status' = IF status = "ok" /\ Evaluated = {} THEN "not_applicable" ELSE status
  /\ UNCHANGED <<method, corpus, pending, walk, calls, abstained, risk, honest>>
-----------------------------------------------------------------------------
LocInit ==
  /\ method \in Methods
  /\ \E bound \in {IF method \in Judges THEN MaxHandoffs ELSE MaxScored} :
       corpus \in [Traces -> TypesOfTrace(bound)]
  /\ method # "refit" => \A t \in Traces : corpus[t].failed = Unanswered
  /\ locPc = IF method \in Judges THEN "walking" ELSE "offline"
  /\ pending = Traces
  /\ walk = NoWalk
  /\ calls = 0
  /\ abstained = {}
  /\ risk = NoScores
  /\ status = "ok"
  /\ honest = TRUE

Walk ==
  /\ locPc = "walking"
  /\ \/ \E t \in Traces : TakeUp(t)
     \/ \E pick \in 0 .. MaxHandoffs - 1 : SelectStep(pick)
     \/ \E answer \in BOOLEAN : ContainsError(answer) \/ IsError(answer)
     \/ Abstain \/ OneLeft \/ NoneFound \/ JudgeFails \/ AllWalked

LocNext == Walk \/ Baseline \/ Transfer \/ Refit \/ Report
LocSpec == LocInit /\ [][LocNext]_locVars
-----------------------------------------------------------------------------
(***************************************************************************)
(* Properties.                                                             *)
(***************************************************************************)
(* Every variable has its type.                                            *)
LocTypeOK ==
  /\ method \in Methods
  /\ corpus \in [Traces -> TypesOfTrace(MaxHandoffs)]
  /\ locPc \in {"walking", "offline", "evaluating", "reported", "raised"}
  /\ pending \subseteq Traces /\ abstained \subseteq Traces
  /\ walk = NoWalk \/ /\ walk.trace \in Traces
                      /\ walk.lo \in 0..MaxHandoffs /\ walk.hi \in Steps(walk.trace)
  /\ calls \in Nat
  /\ DOMAIN risk \subseteq Traces
  /\ \A t \in DOMAIN risk : risk[t] \in [Steps(t) -> {0, 1}]
  /\ status \in {"ok", "unavailable", "not_applicable"}
  /\ honest \in BOOLEAN

(* A judge never makes more calls than projected_judge_calls says must fit *)
(* in the job's wall clock (rq3a_run.py 131).                              *)
CallsWithinProjection == calls <= ProjectedCalls

(* The procedures keep to the projected number of calls, and each is right *)
(* about a judge that is: while every answer has been true, each trace it  *)
(* has concluded points at the annotated handoff, wherever that is.        *)
TruthfulJudgeIsRight ==
  method \in Judges =>
    /\ CallsWithinProjection
    /\ honest => \A t \in DOMAIN risk :
                   Annotated(t) => risk[t] = Pointed(t, corpus[t].culprit)

(* The counters of a row, scored = evaluated + off_boundary +              *)
(* not_evaluable (rq3a.py 614-616), close for a method that scored every   *)
(* trace, and for no other: the traces refit skips are counted as not      *)
(* evaluable without being counted as scored.                              *)
CountersCloseUnlessSkipped ==
  locPc = "reported" /\ status = "ok" =>
    (Cardinality(Scored) =
       Cardinality(Evaluated) + Cardinality(OffBoundaries) + Cardinality(NotEvaluable)
     <=> Scored = Traces)

(* No method wins by input order (rq3a.py 64): a step counts as hit only   *)
(* if the method suspects it more than every other step of its trace, and  *)
(* then its agent counts as hit too. A judge that abstained on a trace of  *)
(* more than one handoff hits no step of it.                               *)
HitIsEarned ==
  /\ \A t \in StepHits : /\ \A i \in Steps(t) \ {corpus[t].culprit} :
                              risk[t][i] < risk[t][corpus[t].culprit]
                         /\ t \in AgentHits
                         /\ t \in abstained => corpus[t].handoffs = 1
  /\ CountersCloseUnlessSkipped
=============================================================================
