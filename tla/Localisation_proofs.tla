------------------------- MODULE Localisation_proofs -------------------------
(***************************************************************************)
(* Proofs about Replay and Localisation: the sample fits and the budget is *)
(* kept, a truthful judge is right within its projected calls, and a hit   *)
(* is earned.                                                              *)
(***************************************************************************)
EXTENDS Localisation, Replay, SumLemmas, SequenceTheorems
-----------------------------------------------------------------------------
(* Replay: the sums of stratified_sample.                                  *)

LEMMA TotalIsSum == Total = SumOf(available, Strata)
<1>1. IsFiniteSet(Strata)
  BY StrataAssumption
<1> QED BY <1>1, MappedSum DEF Total

LEMMA FloorsAreSum ==
  ASSUME NEW f, f = [k \in Strata |-> Floor(k)]
  PROVE  Leftover = Size - SumOf(f, Strata)
<1> DEFINE Sums(g) == g = [s \in SUBSET Strata |->
                             IF s = {} THEN 0 ELSE Floor(Pick(s)) + g[s \ {Pick(s)}]]
           h == CHOOSE g : Sums(g)
<1>0. IsFiniteSet(Strata)
  BY StrataAssumption
<1>1. Leftover = Size - h[Strata]
  BY DEF Leftover, MapThenSumSet, MapThenFoldSet, Pick
<1>2. PICK g : Adds(g, f, Strata)
  BY <1>0, AddsExists
<1>3. \A s \in SUBSET Strata : s # {} => f[Pick(s)] = Floor(Pick(s))
  BY DEF Pick
<1> HIDE DEF Floor
<1>4. Sums(g)
  BY <1>2, <1>3 DEF Adds
<1>5. Sums(h)
  <2> HIDE DEF Sums
  <2> QED BY <1>4
<1>6. Adds(h, f, Strata)
  <2> HIDE DEF h
  <2> QED BY <1>3, <1>5 DEF Adds
<1> QED BY <1>0, <1>1, <1>6, SumIsRunning

(* A stratum is at most the total.                                         *)
LEMMA TotalBounds ==
  ASSUME available \in [Strata -> 0..MaxStratum]
  PROVE  Total \in Nat /\ \A k \in Strata : available[k] \in Nat /\ available[k] <= Total
<1>1. IsFiniteSet(Strata) /\ MaxStratum \in Nat
  BY StrataAssumption, ReplayBoundsAssumption
<1>2. \A k \in Strata : available[k] \in Int /\ available[k] >= 0
  BY <1>1
<1>3. SumOf(available, Strata) \in Int /\ SumOf(available, Strata) >= 0
  BY <1>1, <1>2, SumType
<1>4. ASSUME NEW k \in Strata
      PROVE  available[k] <= SumOf(available, Strata)
  <2>1. SumOf(available, Strata) = available[k] + SumOf(available, Strata \ {k})
    BY <1>1, <1>2, SumStep
  <2>2. IsFiniteSet(Strata \ {k})
    BY <1>1, FS_RemoveElement
  <2>3. SumOf(available, Strata \ {k}) \in Int /\ SumOf(available, Strata \ {k}) >= 0
    BY <1>2, <2>2, SumType
  <2> QED BY <1>2, <2>1, <2>3
<1> QED BY <1>2, <1>3, <1>4, TotalIsSum

(* The quota of a stratum, Size * available / Total, in whole and in part. *)
IsQuota(T, S, a, q, r) ==
  /\ T \in Nat \ {0} /\ S \in 0..T /\ a \in 0..T
  /\ q \in Nat /\ r \in 0 .. T - 1
  /\ S * a = T * q + r

LEMMA Quotas ==
  ASSUME available \in [Strata -> 0..MaxStratum], wanted \in Nat,
         \E k \in Strata : available[k] > 0
  PROVE  /\ Total \in Nat \ {0} /\ Size \in 0..Total
         /\ \A k \in Strata : IsQuota(Total, Size, available[k], Floor(k), Remainder(k))
<1>1. Total \in Nat \ {0} /\ \A k \in Strata : available[k] \in 0..Total
  BY TotalBounds
<1>2. Size \in 0..Total
  BY <1>1 DEF Size, Least
<1>3. ASSUME NEW k \in Strata
      PROVE  IsQuota(Total, Size, available[k], Floor(k), Remainder(k))
  <2> DEFINE n == Size * available[k]
  <2>1. n \in Nat
    BY <1>1, <1>2
  <2>2. Floor(k) = n \div Total /\ Remainder(k) = n % Total
    BY DEF Floor, Remainder
  <2>3. n = Size * available[k]
    OBVIOUS
  <2> HIDE DEF n
  <2>4. /\ n \div Total \in Nat /\ n % Total \in 0 .. Total - 1
        /\ n = Total * (n \div Total) + (n % Total)
    BY <1>1, <2>1, Division
  <2> QED BY <1>1, <1>2, <2>2, <2>3, <2>4 DEF IsQuota
<1> QED BY <1>1, <1>2, <1>3

(* The products the quotas are compared by.                                *)
LEMMA QuotaOrder ==
  ASSUME NEW T, NEW S, NEW a, NEW q, NEW r, IsQuota(T, S, a, q, r)
  PROVE  /\ q <= a
         /\ S = T => q = a /\ r = 0
         /\ S < T /\ a > 0 => q < a
         /\ S = 0 => q = 0
<1> USE DEF IsQuota
<1>1. S * a <= T * a
  OBVIOUS
<1>2. T * q <= T * a
  BY <1>1
<1>3. q <= a
  <2> SUFFICES ASSUME q >= a + 1 PROVE FALSE
    OBVIOUS
  <2>1. T * q >= T * (a + 1)
    OBVIOUS
  <2>2. T * (a + 1) = T * a + T
    OBVIOUS
  <2> QED BY <1>2, <2>1, <2>2
<1>4. ASSUME S = T
      PROVE  q = a /\ r = 0
  <2>1. T * a = T * q + r
    BY <1>4
  <2>2. CASE q = a
    <3>1. T * q = T * a /\ T * a \in Nat
      BY <2>2
    <3> QED BY <2>1, <2>2, <3>1
  <2>3. CASE q < a
    <3>1. T * a >= T * (q + 1)
      BY <2>3
    <3>2. T * (q + 1) = T * q + T /\ T * q \in Nat
      OBVIOUS
    <3> QED BY <2>1, <3>1, <3>2
  <2> QED BY <1>3, <2>2, <2>3
<1>5. ASSUME S < T, a > 0
      PROVE  q < a
  <2>1. S * a <= (T - 1) * a
    BY <1>5
  <2>2. (T - 1) * a = T * a - a /\ T * a \in Nat
    OBVIOUS
  <2>3. T * q < T * a
    <3>1. T * q \in Nat /\ S * a \in Nat
      OBVIOUS
    <3> QED BY <1>5, <2>1, <2>2, <3>1
  <2> QED BY <1>3, <2>3
<1>6. ASSUME S = 0
      PROVE  q = 0
  <2>1. T * q + r = 0
    BY <1>6
  <2>2. T * q >= q
    OBVIOUS
  <2>3. T * q \in Nat
    OBVIOUS
  <2> QED BY <2>1, <2>2, <2>3
<1> QED BY <1>3, <1>4, <1>5, <1>6

(* A larger stratum has no smaller quota, and of two equal quotas the      *)
(* larger remainder.                                                       *)
LEMMA QuotasFollow ==
  ASSUME NEW T, NEW S, NEW a, NEW q, NEW r, IsQuota(T, S, a, q, r),
         NEW b, NEW p, NEW s, IsQuota(T, S, b, p, s), a < b
  PROVE  /\ q <= p
         /\ q = p /\ S > 0 => r < s
<1> USE DEF IsQuota
<1>1. S * b = S * a + S * (b - a) /\ S * a \in Nat /\ S * (b - a) \in Nat
      /\ T * q \in Nat /\ T * p \in Nat
  OBVIOUS
<1>2. q <= p
  <2> SUFFICES ASSUME q >= p + 1 PROVE FALSE
    OBVIOUS
  <2>1. T * q >= T * (p + 1)
    OBVIOUS
  <2>2. T * (p + 1) = T * p + T
    OBVIOUS
  <2> QED BY <1>1, <2>1, <2>2
<1>3. ASSUME q = p, S > 0
      PROVE  r < s
  <2>1. S * (b - a) > 0
    BY <1>3
  <2>2. T * q = T * p
    BY <1>3
  <2> QED BY <1>1, <2>1, <2>2
<1> QED BY <1>2, <1>3

(* What Draw takes fits, given the quotas: the leftover is handed out one  *)
(* apiece to strata that have one more to give.                            *)
LEMMA DrawFits ==
  ASSUME available \in [Strata -> 0..MaxStratum], wanted \in Nat,
         \E k \in Strata : available[k] > 0,
         NEW extra \in kSubset(Leftover, {k \in Strata : available[k] > 0}),
         LargestRemainders(extra),
         NEW after, after = [k \in Strata |-> Floor(k) + IF k \in extra THEN 1 ELSE 0]
  PROVE  /\ after \in [Strata -> Nat]
         /\ SumOf(after, Strata) = Size
         /\ \A k \in Strata : after[k] <= available[k]
         /\ \A k, l \in Strata : available[k] < available[l] => after[k] <= after[l]
<1> DEFINE whole == [k \in Strata |-> Floor(k)]
           one == [k \in Strata |-> IF k \in extra THEN 1 ELSE 0]
<1>1. IsFiniteSet(Strata) /\ extra \in SUBSET {k \in Strata : available[k] > 0}
      /\ Cardinality(extra) = Leftover
  BY StrataAssumption DEF kSubset
<1>2. /\ Total \in Nat \ {0} /\ Size \in 0..Total
      /\ \A k \in Strata : IsQuota(Total, Size, available[k], Floor(k), Remainder(k))
  BY Quotas
<1>0. \A k \in Strata : /\ available[k] \in Nat /\ Floor(k) \in Nat /\ Remainder(k) \in Nat
  BY <1>2 DEF IsQuota
<1>3. \A k \in Strata : /\ Floor(k) <= available[k]
                        /\ Size = Total => Floor(k) = available[k] /\ Remainder(k) = 0
                        /\ Size < Total /\ available[k] > 0 => Floor(k) < available[k]
                        /\ Size = 0 => Floor(k) = 0
  BY <1>2, QuotaOrder
<1>4. Leftover = Size - SumOf(whole, Strata) /\ SumOf(whole, Strata) \in Nat
  <2>1. \A k \in Strata : whole[k] \in Int /\ whole[k] >= 0
    BY <1>0
  <2>2. SumOf(whole, Strata) \in Int /\ SumOf(whole, Strata) >= 0
    <3> HIDE DEF whole
    <3> QED BY <1>1, <2>1, SumType
  <2>3. Leftover = Size - SumOf(whole, Strata)
    BY FloorsAreSum
  <2> QED BY <2>2, <2>3
<1>5. SumOf(one, Strata) = Cardinality(extra)
  <2>1. extra \in SUBSET Strata /\ \A k \in Strata : one[k] = IF k \in extra THEN 1 ELSE 0
    BY <1>1
  <2> HIDE DEF one
  <2> QED BY <1>1, <2>1, SumCounts
<1>6. SumOf(after, Strata) = SumOf(whole, Strata) + SumOf(one, Strata)
  <2>1. \A k \in Strata : /\ whole[k] \in Int /\ one[k] \in Int
                          /\ after[k] = whole[k] + one[k]
    BY <1>0
  <2> HIDE DEF whole, one
  <2> QED BY <1>1, <2>1, SumPlus
<1>7. SumOf(after, Strata) = Size
  BY <1>1, <1>2, <1>4, <1>5, <1>6
<1>8. Size = Total => extra = {}
  <2> SUFFICES ASSUME Size = Total PROVE extra = {}
    OBVIOUS
  <2>1. \A k \in Strata : whole[k] \in Int /\ available[k] \in Int /\ whole[k] = available[k]
    BY <1>0, <1>3
  <2>2. SumOf(whole, Strata) = SumOf(available, Strata)
    <3> HIDE DEF whole
    <3> QED BY <1>1, <2>1, SumSame
  <2>3. Cardinality(extra) = 0
    BY <1>1, <1>2, <1>4, <2>2, TotalIsSum
  <2>4. IsFiniteSet(extra)
    BY <1>1, FS_Subset
  <2> QED BY <2>3, <2>4, FS_EmptySet
<1>9. \A k \in Strata : after[k] <= available[k]
  BY <1>0, <1>1, <1>2, <1>3, <1>8
<1>10. ASSUME NEW k \in Strata, NEW l \in Strata, available[k] < available[l]
       PROVE  after[k] <= after[l]
  <2>1. /\ Floor(k) <= Floor(l)
        /\ Floor(k) = Floor(l) /\ Size > 0 => Remainder(k) < Remainder(l)
    BY <1>2, <1>10, QuotasFollow
  <2>2. CASE Floor(k) < Floor(l)
    BY <1>0, <2>2
  <2>3. CASE Floor(k) = Floor(l) /\ k \in extra /\ l \notin extra
    <3>1. Remainder(k) >= Remainder(l)
      BY <2>3 DEF LargestRemainders
    <3>2. Size > 0
      <4>1. IsFiniteSet(extra) /\ extra # {}
        BY <1>1, <2>3, FS_Subset
      <4>2. Cardinality(extra) \in Nat \ {0}
        BY <4>1, FS_EmptySet, FS_CardinalityType
      <4> HIDE DEF whole
      <4> QED BY <1>1, <1>2, <1>4, <4>2
    <3>3. Remainder(k) < Remainder(l)
      BY <2>1, <2>3, <3>2
    <3> QED BY <1>0, <3>1, <3>3
  <2>4. CASE Floor(k) = Floor(l) /\ ~(k \in extra /\ l \notin extra)
    BY <1>0, <2>4
  <2> QED BY <1>0, <2>1, <2>2, <2>3, <2>4
<1> QED BY <1>0, <1>7, <1>9, <1>10
-----------------------------------------------------------------------------

(* Before its replays a run has spent nothing; after the forecast it is    *)
(* one that the forecast permitted.                                        *)
ReplayPhases ==
  /\ replayPc = "sampling" => \E k \in Strata : available[k] > 0
  /\ replayPc \notin {"replaying", "labelled"} =>
       spent = 0 /\ done = 0 /\ labels = <<>> /\ cheap /\ ~stopped
  /\ replayPc \in {"replaying", "labelled"} => Permitted

(* The meter of a run whose replays were all as cheap as they can be.      *)
CheapMeter ==
  cheap /\ ~stopped => spent = plan.lo * (Len(labels) * plan.replays + done)

(* Once the budget has stopped a step, it stops every later one.           *)
StopLasts == stopped => ~MayCall /\ done = 0

(* The strengthening of BudgetIsKept that every step preserves.            *)
ReplayInv == ReplayTypeOK /\ ReplayPhases /\ CheapMeter /\ StopLasts /\ BudgetIsKept /\ SampleFits


LEMMA NoPlanIsPlan == NoPlan \in Plans
<1>1. MaxReplaySteps * MaxReplays * MaxCost \in Nat
  BY ReplayBoundsAssumption
<1>2. /\ 0 \in 0..MaxReplaySteps /\ 1 \in 1..MaxReplays /\ 1 \in 1..MaxCost
      /\ 1 \in 1 .. MaxReplaySteps * MaxReplays * MaxCost + 1
  BY <1>1, ReplayBoundsAssumption
<1> QED BY <1>2 DEF NoPlan, Plans

LEMMA PlanNumbers ==
  ASSUME plan \in Plans
  PROVE  /\ plan.steps \in Nat /\ plan.replays \in 1..MaxReplays /\ plan.cap \in Nat \ {0}
         /\ plan.lo \in Nat \ {0} /\ plan.hi \in Nat \ {0} /\ plan.lo <= plan.hi
  BY ReplayBoundsAssumption DEF Plans

LEMMA ReplayInitTyped == ReplayInit => ReplayTypeOK
<1> SUFFICES ASSUME ReplayInit PROVE ReplayTypeOK
  OBVIOUS
<1> USE DEF ReplayInit
<1>1. plan \in Plans
  BY NoPlanIsPlan
<1>2. available \in [Strata -> 0..MaxStratum] /\ wanted \in Nat
  <2>1. CASE replayPc = "sampling"
    BY <2>1, StrataAssumption, ReplayBoundsAssumption, FS_CardinalityType
  <2>2. CASE replayPc = "forecasting"
    BY <2>2, ReplayBoundsAssumption
  <2> QED BY <2>1, <2>2
<1>3. allocated \in [Strata -> Nat]
  OBVIOUS
<1>4. labels \in Seq(LabelType) /\ Len(labels) = 0
  OBVIOUS
<1>5. done \in 0 .. plan.replays /\ failures \in 0..done /\ Len(labels) <= plan.steps
  BY <1>1, <1>4, PlanNumbers
<1> QED BY <1>1, <1>2, <1>3, <1>4, <1>5 DEF ReplayTypeOK

(* Every variable of Replay has its type.                                  *)
LEMMA ReplayStepTyped ==
  ASSUME ReplayTypeOK, ReplayPhases, [ReplayNext]_replayVars
  PROVE  ReplayTypeOK'
<1> USE DEF ReplayTypeOK, drawVars
<1>0. /\ plan.steps \in Nat /\ plan.replays \in 1..MaxReplays /\ plan.cap \in Nat \ {0}
      /\ plan.lo \in Nat \ {0} /\ plan.hi \in Nat \ {0} /\ plan.lo <= plan.hi
      /\ MaxReplays \in Nat /\ Len(labels) \in Nat
  BY PlanNumbers, ReplayBoundsAssumption
<1>1. CASE Draw
  <2>1. PICK extra \in kSubset(Leftover, {k \in Strata : available[k] > 0}) :
          /\ LargestRemainders(extra)
          /\ allocated' = [k \in Strata |-> Floor(k) + IF k \in extra THEN 1 ELSE 0]
    BY <1>1 DEF Draw
  <2>2. \E k \in Strata : available[k] > 0
    BY <1>1 DEF Draw, ReplayPhases
  <2>3. allocated' \in [Strata -> Nat]
    BY <2>1, <2>2, DrawFits
  <2> QED BY <1>1, <2>3 DEF Draw
<1>2. CASE Forecast
  BY <1>2 DEF Forecast
<1>3. ASSUME NEW failed \in BOOLEAN, NEW cost \in 1..MaxCost, Attempt(failed, cost)
      PROVE  ReplayTypeOK'
  BY <1>0, <1>3 DEF Attempt, Replayable, Here
<1>4. CASE TimePasses
  BY <1>4 DEF TimePasses
<1>5. ASSUME NextStep, Here <= plan.steps
      PROVE  /\ labels' \in Seq(LabelType) /\ Len(labels') <= plan.steps
             /\ done' = 0 /\ failures' = 0
  <2>1. Label \in LabelType
    <3>1. done \in 0..MaxReplays
      BY <1>0
    <3>2. (IF done = 0 THEN {} ELSE {2 * failures > done}) \in {{}, {TRUE}, {FALSE}}
      <4>1. (2 * failures > done) \in BOOLEAN
        OBVIOUS
      <4> QED BY <4>1
    <3>3. (done < plan.replays) \in BOOLEAN
      OBVIOUS
    <3> QED BY <3>1, <3>2, <3>3 DEF Label, LabelType
  <2> HIDE DEF Label
  <2> QED BY <1>0, <1>5, <2>1 DEF NextStep, Here
<1>6. CASE StepDone
  BY <1>0, <1>5, <1>6 DEF StepDone
<1>7. CASE BudgetStops
  BY <1>0, <1>5, <1>7 DEF BudgetStops, Replayable
<1>8. CASE Finish
  BY <1>8 DEF Finish
<1>9. CASE UNCHANGED replayVars
  BY <1>9 DEF replayVars
<1> QED BY <1>1, <1>2, <1>3, <1>4, <1>6, <1>7, <1>8, <1>9 DEF ReplayNext

LEMMA ReplayInitInv == ReplayInit => ReplayInv
<1> SUFFICES ASSUME ReplayInit PROVE ReplayInv
  OBVIOUS
<1>1. ReplayTypeOK
  BY ReplayInitTyped
<1>2. ReplayPhases /\ StopLasts /\ SampleFits
  BY DEF ReplayInit, ReplayPhases, StopLasts, SampleFits
<1>3. CheapMeter
  <2>1. /\ plan.lo \in Nat /\ plan.replays \in Nat /\ Len(labels) = 0 /\ done = 0 /\ spent = 0
    BY <1>1, PlanNumbers DEF ReplayInit, ReplayTypeOK
  <2> QED BY <2>1 DEF CheapMeter
<1>4. BudgetIsKept
  <2>1. /\ plan.cap \in Nat \ {0} /\ plan.hi \in Nat \ {0} /\ spent = 0
        /\ labels = <<>> /\ ~stopped
    BY <1>1, PlanNumbers DEF ReplayInit, ReplayTypeOK
  <2> QED BY <2>1 DEF BudgetIsKept, OverspendIsOneReplay, StopIsVisible
<1> QED BY <1>1, <1>2, <1>3, <1>4 DEF ReplayInv

LEMMA ReplayStepPhases ==
  ASSUME ReplayInv, [ReplayNext]_replayVars
  PROVE  ReplayPhases'
<1> USE DEF ReplayInv, ReplayPhases, Permitted
<1>1. CASE Draw
  BY <1>1 DEF Draw
<1>2. CASE Forecast
  BY <1>2 DEF Forecast, drawVars
<1>3. ASSUME NEW failed \in BOOLEAN, NEW cost \in 1..MaxCost, Attempt(failed, cost)
      PROVE  ReplayPhases'
  BY <1>3 DEF Attempt, Replayable, drawVars
<1>4. CASE TimePasses
  BY <1>4 DEF TimePasses, drawVars
<1>5. CASE StepDone
  BY <1>5 DEF StepDone, drawVars
<1>6. CASE BudgetStops
  BY <1>6 DEF BudgetStops, Replayable, drawVars
<1>7. CASE Finish
  BY <1>7 DEF Finish, drawVars
<1>8. CASE UNCHANGED replayVars
  BY <1>8 DEF replayVars
<1> QED BY <1>1, <1>2, <1>3, <1>4, <1>5, <1>6, <1>7, <1>8 DEF ReplayNext

(* What the meter shows of a cheap run, in the products the forecast uses. *)
LEMMA CheapRunFits ==
  ASSUME NEW lo \in Nat \ {0}, NEW replays \in Nat \ {0}, NEW steps \in Nat, NEW cap \in Nat,
         NEW whole \in Nat, NEW here \in Nat,
         whole + 1 <= steps, here < replays, steps * replays * lo <= cap
  PROVE  lo * (whole * replays + here) < cap
<1> DEFINE used == whole * replays + here
           all == steps * replays
<1>1. whole * replays \in Nat /\ used \in Nat /\ all \in Nat
  OBVIOUS
<1>2. used < all
  <2>1. (whole + 1) * replays <= steps * replays
    OBVIOUS
  <2>2. (whole + 1) * replays = whole * replays + replays
    OBVIOUS
  <2> QED BY <1>1, <2>1, <2>2
<1>3. all * lo <= cap
  OBVIOUS
<1> HIDE DEF used, all
<1>4. lo * used < lo * all
  BY <1>1, <1>2
<1>5. lo * all = all * lo /\ lo * used \in Nat /\ lo * all \in Nat
  BY <1>1
<1>6. lo * used < cap
  BY <1>3, <1>4, <1>5
<1> QED BY <1>6 DEF used

(* A step whose replays are all there: the product grows by a row.         *)
LEMMA StepDoneMeter ==
  ASSUME NEW replays \in Nat, NEW whole \in Nat
  PROVE  whole * replays + replays = (whole + 1) * replays + 0
  OBVIOUS

LEMMA ReplayStepMeter ==
  ASSUME ReplayInv, [ReplayNext]_replayVars
  PROVE  CheapMeter' /\ StopLasts' /\ OverspendIsOneReplay' /\ (cheap /\ ~overtime => ~stopped)'
<1> DEFINE Goal == CheapMeter /\ StopLasts /\ OverspendIsOneReplay
                     /\ (cheap /\ ~overtime => ~stopped)
<1>0. /\ plan.steps \in Nat /\ plan.replays \in Nat \ {0} /\ plan.cap \in Nat \ {0}
      /\ plan.lo \in Nat \ {0} /\ plan.hi \in Nat \ {0} /\ plan.lo <= plan.hi
      /\ Len(labels) \in Nat /\ spent \in Nat /\ done \in Nat
      /\ labels \in Seq(LabelType)
  BY PlanNumbers DEF ReplayInv, ReplayTypeOK
<1>00. Goal
  BY DEF ReplayInv, BudgetIsKept
<1> USE DEF CheapMeter, StopLasts, OverspendIsOneReplay, MayCall
<1>1. CASE Draw
  BY <1>00, <1>1 DEF Draw
<1>2. CASE Forecast
  BY <1>00, <1>2 DEF Forecast
<1>3. ASSUME NEW failed \in BOOLEAN, NEW cost \in 1..MaxCost, Attempt(failed, cost)
      PROVE  Goal'
  <2> USE DEF Attempt, Replayable
  <2>1. /\ cost \in Nat /\ plan.lo <= cost /\ cost <= plan.hi
        /\ spent < plan.cap /\ ~stopped
        /\ spent' = spent + cost /\ done' = done + 1
        /\ UNCHANGED <<plan, labels, stopped, overtime>>
    BY <1>00, <1>0, <1>3
  <2>2. OverspendIsOneReplay'
    BY <1>0, <2>1
  <2>3. CheapMeter'
    <3> SUFFICES ASSUME cheap' PROVE spent' = plan.lo * (Len(labels) * plan.replays + (done + 1))
      BY <2>1
    <3>1. cheap /\ cost = plan.lo
      BY <1>3
    <3>2. spent = plan.lo * (Len(labels) * plan.replays + done)
      BY <1>00, <2>1, <3>1
    <3> DEFINE whole == Len(labels) * plan.replays
    <3>3. whole \in Nat
      BY <1>0
    <3> HIDE DEF whole
    <3>4. plan.lo * (whole + (done + 1)) = plan.lo * (whole + done) + plan.lo
      BY <1>0, <3>3
    <3> QED BY <2>1, <3>1, <3>2, <3>4 DEF whole
  <2> QED BY <2>1, <2>2, <2>3
<1>4. CASE TimePasses
  BY <1>00, <1>4 DEF TimePasses
<1>5. CASE StepDone
  <2> USE DEF StepDone, NextStep
  <2>1. ~stopped /\ Len(labels') = Len(labels) + 1
    BY <1>00, <1>0, <1>5
  <2>2. Len(labels) * plan.replays + done = Len(labels') * plan.replays + done'
    BY <1>0, <1>5, <2>1, StepDoneMeter
  <2> QED BY <1>00, <1>5, <2>1, <2>2
<1>6. CASE BudgetStops
  <2> USE DEF BudgetStops, NextStep, Replayable, Here
  <2>1. ASSUME cheap, ~overtime PROVE FALSE
    <3>1. spent = plan.lo * (Len(labels) * plan.replays + done)
      BY <1>00, <2>1
    <3>2. plan.steps * plan.replays * plan.lo <= plan.cap
      BY <1>6 DEF ReplayInv, ReplayPhases, Permitted
    <3>3. Len(labels) + 1 <= plan.steps /\ done < plan.replays
      BY <1>6
    <3>4. spent < plan.cap
      BY <1>0, <3>1, <3>2, <3>3, CheapRunFits
    <3> QED BY <1>6, <2>1, <3>4
  <2> QED BY <1>00, <1>6, <2>1
<1>7. CASE Finish
  BY <1>00, <1>7 DEF Finish
<1>8. CASE UNCHANGED replayVars
  BY <1>00, <1>8 DEF replayVars
<1> QED BY <1>1, <1>2, <1>3, <1>4, <1>5, <1>6, <1>7, <1>8 DEF ReplayNext

LEMMA ReplayStepVisible ==
  ASSUME ReplayInv, [ReplayNext]_replayVars
  PROVE  StopIsVisible'
<1>0. /\ plan.replays \in Nat \ {0} /\ done \in 0 .. plan.replays /\ stopped \in BOOLEAN
      /\ labels \in Seq(LabelType) /\ Len(labels) \in Nat
      /\ \A i \in DOMAIN labels : labels[i] \in LabelType
  BY PlanNumbers DEF ReplayInv, ReplayTypeOK
<1>00. StopIsVisible /\ StopLasts
  BY DEF ReplayInv, BudgetIsKept
<1>1. CASE UNCHANGED <<labels, stopped, plan>>
  BY <1>00, <1>1 DEF StopIsVisible
<1>2. ASSUME NextStep, UNCHANGED plan
      PROVE  /\ Len(labels') = Len(labels) + 1
             /\ \A i \in 1 .. Len(labels) : labels'[i] = labels[i]
             /\ labels'[Len(labels) + 1] = Label
             /\ DOMAIN labels = 1 .. Len(labels) /\ DOMAIN labels' = 1 .. Len(labels) + 1
  BY <1>0, <1>2 DEF NextStep
<1>3. CASE StepDone
  <2>1. ~stopped /\ ~stopped' /\ Label.exhausted = FALSE /\ Label.replays = plan.replays
        /\ UNCHANGED plan
    BY <1>0, <1>00, <1>3 DEF StepDone, StopLasts, Label
  <2>2. \A i \in 1 .. Len(labels) : ~labels[i].exhausted /\ labels[i].replays = plan.replays
    <3>1. \A i \in DOMAIN labels : ~labels[i].exhausted /\ labels[i].replays = plan.replays
      BY <1>00, <2>1 DEF StopIsVisible
    <3> QED BY <1>0, <3>1
  <2>3. NextStep
    BY <1>3 DEF StepDone
  <2>4. \A i \in DOMAIN labels' : ~labels'[i].exhausted /\ labels'[i].replays = plan'.replays
    BY <1>0, <1>2, <2>1, <2>2, <2>3
  <2> QED BY <2>1, <2>4 DEF StopIsVisible
<1>4. CASE BudgetStops
  <2> DEFINE n == Len(labels) + 1
             cut == {i \in DOMAIN labels : labels[i].exhausted}
             cut2 == {i \in DOMAIN labels' : labels'[i].exhausted}
  <2>1. NextStep /\ UNCHANGED plan /\ stopped' = TRUE /\ Label.exhausted
        /\ Label.replays = done
    BY <1>4 DEF BudgetStops, Replayable, Label
  <2>2. /\ n \in Nat /\ labels'[n] = Label /\ DOMAIN labels = 1 .. n - 1 /\ DOMAIN labels' = 1 .. n
        /\ \A i \in 1 .. n - 1 : labels'[i] = labels[i]
    BY <1>0, <1>2, <2>1
  <2>3. cut2 = cut \cup {n} /\ cut \subseteq 1 .. n - 1
    BY <2>1, <2>2
  <2>4. cut # {} => Label.replays = 0 /\ Label.failed = {}
    BY <1>00, <2>1 DEF StopIsVisible, StopLasts, Label
  <2>5. ASSUME NEW i \in cut2, NEW j \in i + 1 .. n
        PROVE  j \in cut2 /\ labels'[j].replays = 0 /\ labels'[j].failed = {}
    <3>1. i \in cut
      BY <2>2, <2>3
    <3>2. CASE j = n
      BY <2>2, <2>3, <2>4, <3>1, <3>2
    <3>3. CASE j # n
      <4>1. j \in i + 1 .. Len(labels) /\ j \in 1 .. n - 1
        BY <1>0, <2>2, <2>3, <3>1, <3>3
      <4>2. j \in cut /\ labels[j].replays = 0 /\ labels[j].failed = {}
        BY <1>00, <3>1, <4>1 DEF StopIsVisible
      <4> QED BY <2>2, <2>3, <4>1, <4>2
    <3> QED BY <3>2, <3>3
  <2>6. ASSUME NEW i \in DOMAIN labels' \ cut2
        PROVE  labels'[i].replays = plan'.replays
    <3>1. i \in DOMAIN labels \ cut
      BY <2>2, <2>3
    <3>2. labels[i].replays = plan.replays
      BY <1>00, <3>1 DEF StopIsVisible
    <3> QED BY <2>1, <2>2, <3>1, <3>2
  <2>7. Len(labels') = n
    BY <1>2, <2>1
  <2>8. n \in cut2
    BY <2>3
  <2> QED BY <2>1, <2>5, <2>6, <2>7, <2>8 DEF StopIsVisible
<1> QED
  BY <1>1, <1>3, <1>4 DEF ReplayNext, Draw, Forecast, Attempt, TimePasses, Finish, replayVars,
                          drawVars

LEMMA ReplayStepFits ==
  ASSUME ReplayInv, [ReplayNext]_replayVars
  PROVE  SampleFits'
<1>1. CASE Draw
  <2>1. PICK extra \in kSubset(Leftover, {k \in Strata : available[k] > 0}) :
          /\ LargestRemainders(extra)
          /\ allocated' = [k \in Strata |-> Floor(k) + IF k \in extra THEN 1 ELSE 0]
    BY <1>1 DEF Draw
  <2>2. \E k \in Strata : available[k] > 0
    BY <1>1 DEF Draw, ReplayInv, ReplayPhases
  <2>3. available \in [Strata -> 0..MaxStratum] /\ wanted \in Nat
    BY DEF ReplayInv, ReplayTypeOK
  <2>4. /\ SumOf(allocated', Strata) = Size
        /\ \A k \in Strata : allocated'[k] <= available[k]
        /\ \A k, l \in Strata : available[k] < available[l] => allocated'[k] <= allocated'[l]
    BY <2>1, <2>2, <2>3, DrawFits
  <2>5. UNCHANGED <<available, wanted>>
    BY <1>1 DEF Draw
  <2>6. Size' = Size
    BY <2>5 DEF Size, Total, MapThenSumSet, MapThenFoldSet
  <2>7. (MapThenSumSet(LAMBDA k : allocated[k], Strata))' = Size'
    <3>1. IsFiniteSet(Strata)
      BY StrataAssumption
    <3>2. (MapThenSumSet(LAMBDA k : allocated[k], Strata))' = SumOf(allocated', Strata)
      BY <3>1, MappedSum DEF MapThenSumSet, MapThenFoldSet
    <3> QED BY <2>4, <2>6, <3>2 DEF MapThenSumSet, MapThenFoldSet
  <2> QED BY <2>4, <2>5, <2>7 DEF SampleFits, MapThenSumSet, MapThenFoldSet
<1>2. CASE replayPc' # "sampled"
  BY <1>2 DEF SampleFits
<1>3. CASE replayPc' = "sampled" /\ ~Draw
  <2>1. UNCHANGED <<available, wanted, allocated, replayPc>>
    BY <1>3 DEF ReplayNext, Forecast, Attempt, TimePasses, StepDone, BudgetStops, Finish, Replayable,
                replayVars, drawVars
  <2> QED BY <2>1 DEF ReplayInv, SampleFits, Size, Total, MapThenSumSet, MapThenFoldSet
<1> QED BY <1>1, <1>2, <1>3

LEMMA ReplayInvariant == ReplaySpec => []ReplayInv
<1>1. ReplayInv /\ [ReplayNext]_replayVars => ReplayInv'
  BY ReplayStepTyped, ReplayStepPhases, ReplayStepMeter, ReplayStepVisible, ReplayStepFits
     DEF ReplayInv, BudgetIsKept
<1> QED BY <1>1, ReplayInitInv, PTL DEF ReplaySpec

(* Every variable of a replay has its type, and what it keeps in hand never*)
(* exceeds its plan (rq3a_replay.py, label_by_replay).                     *)
THEOREM ReplayTyped == ReplaySpec => []ReplayTypeOK
  BY ReplayInvariant, PTL DEF ReplayInv

(* Whatever the strata hold, a stratified sample has exactly the size asked*)
(* for, no stratum gives more than it has, and a larger one never gives    *)
(* fewer than a smaller one (rq3a_replay.py, stratified_sample).           *)
THEOREM SampleAlwaysFits == ReplaySpec => []SampleFits
  BY ReplayInvariant, PTL DEF ReplayInv

(* For every plan the forecast permits, the meter overshoots its cap by    *)
(* less than one replay, the cheapest run is never stopped, and a stop is  *)
(* visible at exactly the steps it cut (rq3a_replay.py, project and        *)
(* label_by_replay).                                                       *)
THEOREM BudgetAlwaysKept == ReplaySpec => []BudgetIsKept
  BY ReplayInvariant, PTL DEF ReplayInv
-----------------------------------------------------------------------------
(* Localisation: halving. A power of two counts the subsets of a set, and  *)
(* one more element doubles them.                                          *)
LEMMA PowerDoubles ==
  ASSUME NEW k \in Nat
  PROVE  2^k \in Nat /\ 2^(k + 1) = 2 * 2^k
<1> DEFINE A == SUBSET (1..k)
           B == {s \cup {k + 1} : s \in A}
           With == [s \in A |-> s \cup {k + 1}]
<1>1. /\ IsFiniteSet(1..k) /\ Cardinality(1..k) = k
      /\ IsFiniteSet(1 .. k + 1) /\ Cardinality(1 .. k + 1) = k + 1
  BY FS_Interval
<1>2. /\ IsFiniteSet(A) /\ Cardinality(A) = 2^k
      /\ Cardinality(SUBSET (1 .. k + 1)) = 2^(k + 1)
  <2>1. IsFiniteSet(SUBSET (1..k)) /\ Cardinality(SUBSET (1..k)) = 2^Cardinality(1..k)
    BY <1>1, FS_SUBSET
  <2>2. Cardinality(SUBSET (1 .. k + 1)) = 2^Cardinality(1 .. k + 1)
    BY <1>1, FS_SUBSET
  <2> QED BY <1>1, <2>1, <2>2
<1>3. IsFiniteSet(B) /\ Cardinality(B) = Cardinality(A)
  <2>1. With \in Bijection(A, B)
    <3>1. With \in [A -> B]
      OBVIOUS
    <3>2. \A s, t \in A : With[s] = With[t] => s = t
      <4> TAKE s, t \in A
      <4>1. k + 1 \notin s /\ k + 1 \notin t
        OBVIOUS
      <4> QED BY <4>1
    <3>3. \A b \in B : \E s \in A : With[s] = b
      OBVIOUS
    <3> QED BY <3>1, <3>2, <3>3 DEF Bijection, Injection, Surjection, IsInjective
  <2> QED BY <1>2, <2>1, FS_Bijection DEF ExistsBijection
<1>4. SUBSET (1 .. k + 1) = A \cup B /\ A \cap B = {}
  <2>1. ASSUME NEW s \in SUBSET (1 .. k + 1)
        PROVE  s \in A \cup B
    <3>1. CASE k + 1 \in s
      <4>1. s \ {k + 1} \in A /\ s = (s \ {k + 1}) \cup {k + 1}
        BY <3>1
      <4> QED BY <4>1
    <3>2. CASE k + 1 \notin s
      BY <3>2
    <3> QED BY <3>1, <3>2
  <2>2. A \cup B \subseteq SUBSET (1 .. k + 1)
    <3>1. 1..k \subseteq 1 .. k + 1 /\ k + 1 \in 1 .. k + 1
      OBVIOUS
    <3> QED BY <3>1
  <2>3. \A b \in B : k + 1 \in b
    OBVIOUS
  <2>4. \A a \in A : k + 1 \notin a
    OBVIOUS
  <2> HIDE DEF A, B
  <2> QED BY <2>1, <2>2, <2>3, <2>4
<1>5. Cardinality(A) \in Nat
  BY <1>2, FS_CardinalityType
<1> HIDE DEF A, B
<1>6. Cardinality(A \cup B) = Cardinality(A) + Cardinality(B)
  BY <1>2, <1>3, <1>4, <1>5, FS_Union, FS_EmptySet
<1>7. 2^(k + 1) = Cardinality(A) + Cardinality(A)
  BY <1>2, <1>3, <1>4, <1>6
<1>8. Cardinality(A) + Cardinality(A) = 2 * Cardinality(A)
  BY <1>5
<1>9. Cardinality(A) = 2^k
  BY <1>2
<1> QED BY <1>5, <1>7, <1>8, <1>9

LEMMA PowerStarts == 2^0 = 1
<1>1. Cardinality(SUBSET {}) = 2^Cardinality({})
  BY FS_EmptySet, FS_SUBSET
<1>2. SUBSET {} = {{}}
  OBVIOUS
<1>3. Cardinality({{}}) = 1
  BY FS_Singleton
<1> QED BY <1>1, <1>2, <1>3, FS_EmptySet

LEMMA PowerExceeds ==
  ASSUME NEW n \in Nat
  PROVE  n < 2^n
<1> DEFINE P == {k \in Nat : k < 2^k}
<1>1. 0 \in P
  BY PowerStarts
<1>2. ASSUME NEW k \in Nat, k \in P
      PROVE  k + 1 \in P
  BY <1>2, PowerDoubles
<1>3. Nat \subseteq P
  <2> HIDE DEF P
  <2> QED BY <1>1, <1>2, NatSetInduction
<1> QED BY <1>3

(* CeilLog2 is the least power that suffices.                              *)
LEMMA CeilLog2Least ==
  ASSUME NEW n \in Nat
  PROVE  /\ CeilLog2(n) \in Nat /\ 2^CeilLog2(n) >= n
         /\ \A k \in Nat : 2^k >= n => CeilLog2(n) <= k
<1> DEFINE T == {k \in Nat : 2^k >= n}
           Is(k) == 2^k >= n /\ \A l \in 0 .. k - 1 : 2^l < n
<1>1. \A k \in Nat : 2^k \in Nat
  BY PowerDoubles
<1>2. n \in T
  BY <1>1, PowerExceeds
<1>3. PICK x \in T : \A y \in T : x <= y
  <2>1. T \subseteq Nat /\ T # {}
    BY <1>2
  <2> HIDE DEF T
  <2> QED BY <2>1, LeastNatural
<1>4. x \in 0..n /\ Is(x)
  <2>1. x \in Nat /\ 2^x >= n /\ x <= n
    BY <1>2, <1>3
  <2>2. \A l \in 0 .. x - 1 : ~(2^l >= n)
    BY <1>3
  <2> QED BY <1>1, <2>1, <2>2
<1>5. CeilLog2(n) = CHOOSE k \in 0..n : Is(k)
  BY DEF CeilLog2
<1>6. CeilLog2(n) \in 0..n /\ Is(CeilLog2(n))
  <2> HIDE DEF Is
  <2> QED BY <1>4, <1>5
<1>7. ASSUME NEW k \in Nat, 2^k >= n
      PROVE  CeilLog2(n) <= k
  <2>1. k \notin 0 .. CeilLog2(n) - 1
    BY <1>1, <1>6, <1>7
  <2> QED BY <1>6, <2>1
<1> QED BY <1>6, <1>7

(* A segment that is no longer takes no more halvings; one of two or more  *)
(* takes one, and either half takes one less.                              *)
LEMMA CeilLog2Halves ==
  ASSUME NEW n \in Nat, NEW m \in Nat
  PROVE  /\ m <= n => CeilLog2(m) <= CeilLog2(n)
         /\ n >= 2 => CeilLog2(n) >= 1
         /\ n >= 2 /\ 2 * m <= n + 1 => CeilLog2(m) + 1 <= CeilLog2(n)
<1> DEFINE c == CeilLog2(n)
<1>0. /\ c \in Nat /\ 2^c >= n /\ \A k \in Nat : 2^k >= m => CeilLog2(m) <= k
      /\ CeilLog2(m) \in Nat
  BY CeilLog2Least
<1> HIDE DEF c
<1>1. \A k \in Nat : 2^k \in Nat
  BY PowerDoubles
<1>2. m <= n => CeilLog2(m) <= c
  BY <1>0, <1>1
<1>3. n >= 2 => c >= 1
  <2>1. c = 0 => 2^c = 1
    BY PowerStarts
  <2> QED BY <1>0, <2>1
<1>4. ASSUME n >= 2, 2 * m <= n + 1
      PROVE  CeilLog2(m) + 1 <= c
  <2> DEFINE h == c - 1
  <2>1. h \in Nat /\ c = h + 1
    BY <1>0, <1>3, <1>4
  <2> HIDE DEF h
  <2>2. 2^c = 2 * 2^h /\ 2^h \in Nat
    BY <2>1, PowerDoubles
  <2>3. 2^h >= m
    BY <1>0, <1>4, <2>2
  <2>4. CeilLog2(m) <= h
    BY <1>0, <2>1, <2>3
  <2> QED BY <1>0, <2>1, <2>4
<1> QED BY <1>2, <1>3, <1>4 DEF c
-----------------------------------------------------------------------------

(* A judge works through the corpus: what it has concluded is what is      *)
(* neither pending nor at hand. The other methods have nothing at hand.    *)
LocPhases ==
  /\ locPc \in {"walking", "raised"} => method \in Judges
  /\ method \in Judges =>
       /\ locPc # "offline"
       /\ locPc # "reported" => status = "ok"
       /\ walk # NoWalk => walk.trace \notin pending
       /\ DOMAIN risk = (Traces \ pending) \ (IF walk = NoWalk THEN {} ELSE {walk.trace})
  /\ method \notin Judges => abstained = {} /\ walk = NoWalk
  /\ locPc \notin {"walking", "raised"} => walk = NoWalk

(* The segment at hand is one the procedure can have left.                 *)
SegmentOpen ==
  walk # NoWalk =>
    /\ method = "binary_search" => walk.lo <= walk.hi
    /\ method = "step_by_step" => walk.lo <= walk.hi + 1

(* A judge that has been truthful still has the annotated step before it,  *)
(* and has pointed at that of every trace it is done with.                 *)
TruthKept ==
  method \in Judges /\ honest =>
    /\ walk # NoWalk /\ Annotated(walk.trace) =>
         corpus[walk.trace].culprit \in walk.lo .. walk.hi
    /\ \A t \in DOMAIN risk : Annotated(t) => risk[t] = Pointed(t, corpus[t].culprit)

(* An abstention leaves its trace without a pick.                          *)
AbstainedFlat ==
  \A t \in abstained : t \in DOMAIN risk /\ risk[t] = Pointed(t, Unanswered)

(* The calls projected for a trace, and those the procedure may still make *)
(* on what is left of the one at hand.                                     *)
Allowed(t) ==
  CASE method = "all_at_once"   -> 1
    [] method = "binary_search" -> CeilLog2(AtLeastTwo(corpus[t].handoffs))
    [] OTHER                    -> corpus[t].handoffs
Left ==
  CASE method = "all_at_once"   -> 1
    [] method = "binary_search" -> CeilLog2(walk.hi - walk.lo + 1)
    [] OTHER                    -> walk.hi - walk.lo + 1
(* Trace by trace, the calls that may have been made by now.               *)
Used ==
  [t \in Traces |-> IF t \in pending THEN 0
                    ELSE IF walk # NoWalk /\ t = walk.trace THEN Allowed(t) - Left
                    ELSE Allowed(t)]
CallsKept == method \in Judges => calls <= SumOf(Used, Traces)

(* A walk is a segment of a trace, or none.                                *)
WalkShape == walk \in [trace : Traces \cup {Unanswered}, lo : Int, hi : Int]

(* The strengthening of TruthfulJudgeIsRight and HitIsEarned that every    *)
(* step preserves.                                                         *)
LocInv ==
  LocTypeOK /\ WalkShape /\ LocPhases /\ SegmentOpen /\ TruthKept /\ AbstainedFlat /\ CallsKept

LEMMA CorpusFacts ==
  ASSUME corpus \in [Traces -> TypesOfTrace(MaxHandoffs)], NEW t \in Traces
  PROVE  /\ corpus[t].handoffs \in 1..MaxHandoffs /\ MaxHandoffs \in Nat
         /\ corpus[t].culprit \in Int \cup {Unanswered}
         /\ Annotated(t) \/ corpus[t].culprit = OffBoundary \/ corpus[t].culprit = Unanswered
         /\ ~(OffBoundary \in Steps(t)) /\ ~(Unanswered \in Steps(t))
<1>1. /\ corpus[t].handoffs \in 1..MaxHandoffs /\ MaxHandoffs \in Nat
      /\ corpus[t].culprit \in (-1 .. MaxHandoffs - 1) \cup {Unanswered}
      /\ corpus[t].culprit = Unanswered \/ corpus[t].culprit < corpus[t].handoffs
  BY HandoffsAssumption DEF TypesOfTrace
<1>2. Unanswered \notin Int
  BY TracesAssumption
<1> QED BY <1>1, <1>2 DEF Annotated, OffBoundary, Steps

LEMMA WalkFacts ==
  ASSUME LocInv, walk # NoWalk
  PROVE  /\ walk.trace \in Traces /\ walk.trace \notin pending /\ walk.trace \notin DOMAIN risk
         /\ walk.lo \in 0..MaxHandoffs /\ walk.hi \in Nat
         /\ walk.hi < corpus[walk.trace].handoffs
         /\ method \in Judges /\ locPc \in {"walking", "raised"}
<1>1. walk.trace \in Traces /\ walk.lo \in 0..MaxHandoffs /\ walk.hi \in Steps(walk.trace)
  BY DEF LocInv, LocTypeOK
<1>2. corpus[walk.trace].handoffs \in 1..MaxHandoffs
  BY <1>1, CorpusFacts DEF LocInv, LocTypeOK
<1>3. method \in Judges
  BY DEF LocInv, LocPhases
<1> QED BY <1>1, <1>2, <1>3 DEF LocInv, LocPhases, LocTypeOK, Steps

(* What a concluded trace leaves.                                          *)
LEMMA Concluded ==
  ASSUME LocInv, walk # NoWalk, NEW pick, Conclude(walk.trace, pick)
  PROVE  /\ walk' = NoWalk /\ DOMAIN risk' = DOMAIN risk \cup {walk.trace}
         /\ risk'[walk.trace] = Pointed(walk.trace, pick)
         /\ Pointed(walk.trace, pick) \in [Steps(walk.trace) -> {0, 1}]
         /\ \A t \in DOMAIN risk : risk'[t] = risk[t]
<1>1. walk.trace \notin DOMAIN risk
  BY WalkFacts
<1>2. Pointed(walk.trace, pick) \in [Steps(walk.trace) -> {0, 1}]
  BY DEF Pointed
<1> QED BY <1>1, <1>2 DEF Conclude

LEMMA LocInitInv == LocInit => LocInv
<1> SUFFICES ASSUME LocInit PROVE LocInv
  OBVIOUS
<1> USE DEF LocInit
<1>1. corpus \in [Traces -> TypesOfTrace(MaxHandoffs)]
  <2>1. TypesOfTrace(MaxScored) \subseteq TypesOfTrace(MaxHandoffs)
    <3>1. /\ 1..MaxScored \subseteq 1..MaxHandoffs
          /\ -1 .. MaxScored - 1 \subseteq -1 .. MaxHandoffs - 1
      BY HandoffsAssumption
    <3> QED BY <3>1 DEF TypesOfTrace
  <2> QED BY <2>1
<1>2. DOMAIN risk = {}
  BY DEF NoScores
<1>3. LocTypeOK
  BY <1>1, <1>2 DEF LocTypeOK
<1>4. WalkShape
  BY DEF WalkShape, NoWalk
<1>5. LocPhases /\ SegmentOpen /\ TruthKept /\ AbstainedFlat
  BY <1>2 DEF LocPhases, SegmentOpen, TruthKept, AbstainedFlat, Methods, Judges
<1>6. CallsKept
  <2>1. \A t \in Traces : Used[t] \in Int /\ Used[t] >= 0
    BY DEF Used
  <2>2. SumOf(Used, Traces) >= 0
    BY <2>1, TracesAssumption, SumType
  <2> QED BY <2>2 DEF CallsKept
<1> QED BY <1>3, <1>4, <1>5, <1>6 DEF LocInv

(* The offline methods score their traces and conclude at once.            *)
LEMMA Produced ==
  ASSUME LocInv, Baseline \/ Transfer \/ Refit
  PROVE  /\ method \notin Judges /\ locPc' = "evaluating" /\ pending' = {}
         /\ status' \in {"ok", "unavailable", "not_applicable"}
         /\ DOMAIN risk' \subseteq Traces
         /\ \A t \in DOMAIN risk' : risk'[t] \in [Steps(t) -> {0, 1}]
         /\ UNCHANGED <<method, corpus, walk, calls, abstained, honest>>
<1>1. PICK s, r :
        /\ s \in {"ok", "unavailable", "not_applicable"} /\ Produce(s, r)
        /\ r = NoScores \/ \E traces \in SUBSET Traces : r \in AnyScores(traces)
  BY DEF Baseline, Transfer, Refit, Labelled, RefitStatus
<1>2. method \notin Judges
  BY DEF Baseline, Transfer, Refit, Judges
<1>3. DOMAIN r \subseteq Traces /\ \A t \in DOMAIN r : r[t] \in [Steps(t) -> {0, 1}]
  <2>1. CASE r = NoScores
    BY <2>1 DEF NoScores
  <2>2. CASE \E traces \in SUBSET Traces : r \in AnyScores(traces)
    <3>1. PICK traces \in SUBSET Traces : r \in AnyScores(traces)
      BY <2>2
    <3>2. /\ DOMAIN r = traces
          /\ \A t \in traces : /\ DOMAIN r[t] = Steps(t)
                               /\ \E n \in 1..MaxScored : r[t] \in [0 .. n - 1 -> {0, 1}]
      BY <3>1 DEF AnyScores
    <3> QED BY <3>2
  <2> QED BY <1>1, <2>1, <2>2
<1> QED BY <1>1, <1>2, <1>3 DEF Produce

LEMMA LocStepTyped ==
  ASSUME LocInv, [LocNext]_locVars
  PROVE  LocTypeOK' /\ WalkShape'
<1> DEFINE Rest == /\ UNCHANGED <<method, corpus>>
                   /\ locPc' \in {"walking", "offline", "evaluating", "reported", "raised"}
                   /\ pending' \subseteq Traces /\ abstained' \subseteq Traces
                   /\ calls' \in Nat
                   /\ status' \in {"ok", "unavailable", "not_applicable"} /\ honest' \in BOOLEAN
           WalkOK == \/ walk' = NoWalk
                     \/ /\ walk'.trace \in Traces /\ walk' \in [trace : Traces, lo : Int, hi : Int]
                        /\ walk'.lo \in 0..MaxHandoffs /\ walk'.hi \in Steps(walk'.trace)
           RiskOK == /\ DOMAIN risk' \subseteq Traces
                     /\ \A t \in DOMAIN risk' : risk'[t] \in [Steps(t) -> {0, 1}]
<1>0. LocTypeOK /\ WalkShape
  BY DEF LocInv
<1>1. ASSUME Rest, WalkOK, RiskOK
      PROVE  LocTypeOK' /\ WalkShape'
  <2>1. \A t \in Traces : Steps(t)' = Steps(t)
    BY <1>1 DEF Steps
  <2>2. walk' = NoWalk \/ /\ walk'.trace \in Traces
                          /\ walk'.lo \in 0..MaxHandoffs /\ walk'.hi \in 0 .. corpus'[walk'.trace].handoffs - 1
    BY <1>1 DEF Steps
  <2>3. \A t \in DOMAIN risk' : risk'[t] \in [0 .. corpus'[t].handoffs - 1 -> {0, 1}]
    BY <1>1 DEF Steps
  <2>4. LocTypeOK'
    BY <1>0, <1>1, <2>2, <2>3 DEF LocTypeOK, Steps
  <2>5. WalkShape'
    BY <1>1 DEF WalkShape, NoWalk
  <2> QED BY <2>4, <2>5
<1>2. walk' = walk => WalkOK
  <2> SUFFICES ASSUME walk' = walk, walk # NoWalk PROVE WalkOK
    OBVIOUS
  <2>1. walk.trace \in Traces /\ walk.lo \in 0..MaxHandoffs /\ walk.hi \in Steps(walk.trace)
    BY <1>0 DEF LocTypeOK
  <2>2. walk \in [trace : Traces, lo : Int, hi : Int]
    BY <1>0, <2>1 DEF WalkShape
  <2> QED BY <2>1, <2>2
<1>3. risk' = risk => RiskOK
  BY <1>0 DEF LocTypeOK
<1>4. ASSUME walk # NoWalk, NEW pick, Conclude(walk.trace, pick)
      PROVE  WalkOK /\ RiskOK
  <2>1. /\ walk' = NoWalk /\ DOMAIN risk' = DOMAIN risk \cup {walk.trace}
        /\ risk'[walk.trace] \in [Steps(walk.trace) -> {0, 1}]
        /\ \A t \in DOMAIN risk : risk'[t] = risk[t]
    BY <1>4, Concluded
  <2>2. walk.trace \in Traces
    BY <1>4, WalkFacts
  <2> QED BY <1>0, <2>1, <2>2 DEF LocTypeOK
<1> HIDE DEF WalkOK, RiskOK
<1>5. ASSUME NEW t \in Traces, TakeUp(t)
      PROVE  Rest /\ WalkOK /\ RiskOK
  <2>1. corpus[t].handoffs \in 1..MaxHandoffs /\ MaxHandoffs \in Nat
    BY <1>0, CorpusFacts DEF LocTypeOK
  <2>2. walk' = Begin(t) /\ UNCHANGED risk
    BY <1>5 DEF TakeUp
  <2>3. WalkOK
    BY <2>1, <2>2 DEF WalkOK, Begin, Steps
  <2> QED BY <1>0, <1>3, <1>5, <2>2, <2>3 DEF TakeUp, LocTypeOK
<1>6. ASSUME NEW pick \in 0 .. MaxHandoffs - 1, SelectStep(pick)
      PROVE  Rest /\ WalkOK /\ RiskOK
  <2>1. WalkOK /\ RiskOK
    BY <1>4, <1>6 DEF SelectStep
  <2> QED BY <1>0, <1>6, <2>1 DEF SelectStep, Asked, Truth, LocTypeOK
<1>7. ASSUME NEW answer \in BOOLEAN, ContainsError(answer)
      PROVE  Rest /\ WalkOK /\ RiskOK
  <2>1. walk # NoWalk /\ walk.lo < walk.hi /\ UNCHANGED risk
    BY <1>7 DEF ContainsError
  <2>2. /\ walk.trace \in Traces /\ walk.lo \in 0..MaxHandoffs /\ walk.hi \in Nat
        /\ walk.hi < corpus[walk.trace].handoffs /\ walk.hi <= MaxHandoffs
        /\ corpus[walk.trace].handoffs \in Nat
    BY <1>0, <2>1, WalkFacts, CorpusFacts DEF LocTypeOK
  <2> DEFINE mid == Middle(walk.lo, walk.hi)
  <2>3. mid \in Nat /\ walk.lo <= mid /\ mid < walk.hi
    BY <2>1, <2>2 DEF Middle
  <2>4. walk' = IF answer THEN [walk EXCEPT !.hi = mid] ELSE [walk EXCEPT !.lo = mid + 1]
    BY <1>7 DEF ContainsError
  <2> HIDE DEF mid
  <2>5. walk \in [trace : Traces, lo : Int, hi : Int]
    BY <1>0, <2>2 DEF WalkShape
  <2>6. WalkOK
    <3>1. /\ walk'.trace = walk.trace /\ walk' \in [trace : Traces, lo : Int, hi : Int]
          /\ walk'.lo \in {walk.lo, mid + 1} /\ walk'.hi \in {walk.hi, mid}
      BY <2>3, <2>4, <2>5
    <3>2. /\ mid + 1 \in 0..MaxHandoffs /\ walk.hi \in Steps(walk.trace)
          /\ mid \in Steps(walk.trace)
      BY <2>2, <2>3, HandoffsAssumption DEF Steps
    <3> QED BY <2>2, <3>1, <3>2 DEF WalkOK
  <2> QED BY <1>0, <1>3, <1>7, <2>1, <2>6 DEF ContainsError, Asked, Truth, LocTypeOK
<1>8. ASSUME NEW answer \in BOOLEAN, IsError(answer)
      PROVE  Rest /\ WalkOK /\ RiskOK
  <2>1. walk # NoWalk /\ walk.lo <= walk.hi
    BY <1>8 DEF IsError
  <2>2. WalkOK /\ RiskOK
    <3>1. CASE answer
      BY <1>4, <1>8, <2>1, <3>1 DEF IsError
    <3>2. CASE ~answer
      <4>1. walk' = [walk EXCEPT !.lo = @ + 1] /\ UNCHANGED risk
        BY <1>8, <3>2 DEF IsError
      <4>2. /\ walk.trace \in Traces /\ walk.lo \in 0..MaxHandoffs /\ walk.hi \in Nat
            /\ walk.hi < corpus[walk.trace].handoffs /\ walk.hi < MaxHandoffs
            /\ MaxHandoffs \in Nat /\ corpus[walk.trace].handoffs \in Nat
        BY <1>0, <2>1, WalkFacts, CorpusFacts DEF LocTypeOK
      <4>3. walk \in [trace : Traces, lo : Int, hi : Int]
        BY <1>0, <4>2 DEF WalkShape
      <4>4. WalkOK
        BY <2>1, <4>1, <4>2, <4>3 DEF WalkOK, Steps
      <4> QED BY <1>3, <4>1, <4>4
    <3> QED BY <3>1, <3>2
  <2> QED BY <1>0, <1>8, <2>2 DEF IsError, Asked, Truth, LocTypeOK
<1>9. ASSUME Abstain
      PROVE  Rest /\ WalkOK /\ RiskOK
  <2>1. walk.trace \in Traces
    BY <1>9, WalkFacts DEF Abstain
  <2>2. WalkOK /\ RiskOK
    BY <1>4, <1>9 DEF Abstain
  <2>3. Rest
    <3>1. /\ locPc \in {"walking", "offline", "evaluating", "reported", "raised"}
          /\ pending \subseteq Traces /\ abstained \subseteq Traces /\ calls \in Nat
          /\ status \in {"ok", "unavailable", "not_applicable"}
      BY <1>0 DEF LocTypeOK
    <3>2. /\ calls' = calls + 1 /\ abstained' = abstained \cup {walk.trace}
          /\ UNCHANGED <<method, corpus, locPc, pending, status>>
      BY <1>9 DEF Abstain, Asked
    <3>3. honest' \in BOOLEAN
      BY <1>9 DEF Abstain
    <3>4. abstained' \subseteq Traces /\ calls' \in Nat
      BY <2>1, <3>1, <3>2
    <3> QED BY <3>1, <3>2, <3>3, <3>4
  <2> QED BY <2>2, <2>3
<1>10. ASSUME OneLeft
       PROVE  Rest /\ WalkOK /\ RiskOK
  BY <1>0, <1>4, <1>10 DEF OneLeft, LocTypeOK
<1>11. ASSUME NoneFound
       PROVE  Rest /\ WalkOK /\ RiskOK
  BY <1>0, <1>4, <1>11 DEF NoneFound, LocTypeOK
<1>12. ASSUME JudgeFails \/ AllWalked \/ Report
       PROVE  Rest /\ WalkOK /\ RiskOK
  BY <1>0, <1>2, <1>3, <1>12 DEF JudgeFails, AllWalked, Report, LocTypeOK
<1>13. ASSUME Baseline \/ Transfer \/ Refit
       PROVE  Rest /\ WalkOK /\ RiskOK
  BY <1>0, <1>2, <1>13, Produced DEF LocTypeOK, RiskOK
<1>14. ASSUME UNCHANGED locVars
       PROVE  Rest /\ WalkOK /\ RiskOK
  BY <1>0, <1>2, <1>3, <1>14 DEF locVars, LocTypeOK
<1> QED
  BY <1>1, <1>5, <1>6, <1>7, <1>8, <1>9, <1>10, <1>11, <1>12, <1>13, <1>14 DEF LocNext, Walk

LEMMA LocStepPhases ==
  ASSUME LocInv, [LocNext]_locVars
  PROVE  LocPhases' /\ AbstainedFlat'
<1>0. LocTypeOK /\ LocPhases /\ AbstainedFlat
  BY DEF LocInv
<1> DEFINE AtHand == IF walk = NoWalk THEN {} ELSE {walk.trace}
           Walking == /\ locPc = "walking" /\ locPc' \in {"walking", "raised"}
                      /\ UNCHANGED <<method, corpus, status>>
<1>1. ASSUME walk # NoWalk, NEW pick, Conclude(walk.trace, pick), Walking, UNCHANGED pending,
             \/ UNCHANGED abstained
             \/ abstained' = abstained \cup {walk.trace} /\ pick = Unanswered
      PROVE  LocPhases' /\ AbstainedFlat'
  <2>1. /\ walk' = NoWalk /\ DOMAIN risk' = DOMAIN risk \cup {walk.trace}
        /\ risk'[walk.trace] = Pointed(walk.trace, pick)
        /\ \A t \in DOMAIN risk : risk'[t] = risk[t]
    BY <1>1, Concluded
  <2>2. /\ walk.trace \in Traces /\ walk.trace \notin pending /\ walk.trace \notin DOMAIN risk
        /\ method \in Judges
    BY <1>1, WalkFacts
  <2>3. DOMAIN risk' = Traces \ pending
    BY <1>0, <1>1, <2>1, <2>2 DEF LocPhases
  <2>4. LocPhases'
    BY <1>0, <1>1, <2>1, <2>2, <2>3 DEF LocPhases
  <2>5. AbstainedFlat'
    BY <1>0, <1>1, <2>1 DEF AbstainedFlat, Pointed, Steps
  <2> QED BY <2>4, <2>5
<1>2. ASSUME UNCHANGED <<corpus, risk, abstained>>
      PROVE  AbstainedFlat'
  BY <1>0, <1>2 DEF AbstainedFlat, Pointed, Steps
<1>3. ASSUME NEW t \in Traces, TakeUp(t)
      PROVE  LocPhases'
  <2>1. Begin(t) # NoWalk /\ Begin(t).trace = t
    BY TracesAssumption DEF Begin, NoWalk
  <2> QED BY <1>0, <1>3, <2>1 DEF TakeUp, LocPhases
<1>4. ASSUME walk # NoWalk, walk' # NoWalk, walk'.trace = walk.trace, Walking,
             UNCHANGED <<pending, risk, abstained>>
      PROVE  LocPhases' /\ AbstainedFlat'
  BY <1>0, <1>2, <1>4 DEF LocPhases
<1>5. ASSUME walk # NoWalk, NEW lo, NEW hi,
             walk' = [walk EXCEPT !.lo = lo] \/ walk' = [walk EXCEPT !.hi = hi]
      PROVE  walk' # NoWalk /\ walk'.trace = walk.trace
  <2>1. walk.trace \in Traces /\ walk \in [trace : Traces \cup {Unanswered}, lo : Int, hi : Int]
    BY <1>5, WalkFacts DEF LocInv, WalkShape
  <2>2. walk'.trace = walk.trace
    BY <1>5, <2>1
  <2> QED BY <2>1, <2>2, TracesAssumption DEF NoWalk
<1>6. CASE \E t \in Traces : TakeUp(t)
  BY <1>2, <1>3, <1>6 DEF TakeUp
<1>7. ASSUME NEW pick \in 0 .. MaxHandoffs - 1, SelectStep(pick), locPc = "walking"
      PROVE  LocPhases' /\ AbstainedFlat'
  BY <1>1, <1>7 DEF SelectStep
<1>8. ASSUME NEW answer \in BOOLEAN, ContainsError(answer), locPc = "walking"
      PROVE  LocPhases' /\ AbstainedFlat'
  BY <1>4, <1>5, <1>8 DEF ContainsError
<1>9. ASSUME NEW answer \in BOOLEAN, IsError(answer), locPc = "walking"
      PROVE  LocPhases' /\ AbstainedFlat'
  <2>1. CASE answer
    BY <1>1, <1>9, <2>1 DEF IsError
  <2>2. CASE ~answer
    BY <1>4, <1>5, <1>9, <2>2 DEF IsError
  <2> QED BY <2>1, <2>2
<1>10. CASE locPc = "walking" /\ Abstain
  <2>1. /\ walk # NoWalk /\ Conclude(walk.trace, Unanswered) /\ Walking /\ UNCHANGED pending
        /\ abstained' = abstained \cup {walk.trace}
    BY <1>10 DEF Abstain
  <2> QED BY <1>1, <2>1
<1>11. CASE locPc = "walking" /\ OneLeft
  BY <1>1, <1>11 DEF OneLeft
<1>12. CASE locPc = "walking" /\ NoneFound
  BY <1>1, <1>12 DEF NoneFound
<1>13. CASE JudgeFails \/ AllWalked \/ Report
  BY <1>0, <1>2, <1>13 DEF JudgeFails, AllWalked, Report, LocPhases
<1>14. CASE Baseline \/ Transfer \/ Refit
  <2>1. method \notin Judges /\ locPc' = "evaluating" /\ UNCHANGED <<method, corpus, walk, abstained>>
    BY <1>14, Produced
  <2>2. abstained = {} /\ walk = NoWalk
    BY <1>0, <2>1 DEF LocPhases
  <2> QED BY <2>1, <2>2 DEF LocPhases, AbstainedFlat
<1>15. CASE UNCHANGED locVars
  BY <1>0, <1>2, <1>15 DEF locVars, LocPhases
<1> QED
  BY <1>6, <1>7, <1>8, <1>9, <1>10, <1>11, <1>12, <1>13, <1>14, <1>15 DEF LocNext, Walk

LEMMA LocStepTruth ==
  ASSUME LocInv, [LocNext]_locVars
  PROVE  SegmentOpen' /\ TruthKept'
<1>0. LocTypeOK /\ LocPhases /\ SegmentOpen /\ TruthKept
  BY DEF LocInv
<1> DEFINE Mine(w) == Annotated(w.trace) => corpus[w.trace].culprit \in w.lo .. w.hi
           Open(w) == /\ method = "binary_search" => w.lo <= w.hi
                      /\ method = "step_by_step" => w.lo <= w.hi + 1
(* The trace is concluded, with the right pick if the judge is honest.     *)
<1>1. ASSUME walk # NoWalk, NEW pick, Conclude(walk.trace, pick), UNCHANGED <<method, corpus>>,
             honest' => honest /\ (Annotated(walk.trace) => pick = corpus[walk.trace].culprit)
      PROVE  SegmentOpen' /\ TruthKept'
  <2>1. /\ walk' = NoWalk /\ DOMAIN risk' = DOMAIN risk \cup {walk.trace}
        /\ risk'[walk.trace] = Pointed(walk.trace, pick)
        /\ \A t \in DOMAIN risk : risk'[t] = risk[t]
    BY <1>1, Concluded
  <2>2. SegmentOpen'
    BY <2>1 DEF SegmentOpen
  <2>3. ASSUME method \in Judges, honest', NEW t \in DOMAIN risk', Annotated(t)'
        PROVE  risk'[t] = Pointed(t, corpus[t].culprit)
    <3>1. Annotated(t) /\ honest
      BY <1>1, <2>3 DEF Annotated, Steps
    <3>2. CASE t = walk.trace
      BY <1>1, <2>1, <2>3, <3>1, <3>2
    <3>3. CASE t # walk.trace
      BY <1>0, <2>1, <2>3, <3>1, <3>3 DEF TruthKept
    <3> QED BY <3>2, <3>3
  <2>4. \A t : Pointed(t, corpus[t].culprit)' = Pointed(t, corpus[t].culprit)
    BY <1>1 DEF Pointed, Steps
  <2>5. TruthKept'
    BY <1>1, <2>1, <2>3, <2>4 DEF TruthKept
  <2> QED BY <2>2, <2>5
(* The walk goes on, with the annotated step still ahead.                  *)
<1>2. ASSUME UNCHANGED <<method, corpus, risk>>, Open(walk'), honest' => honest /\ Mine(walk')
      PROVE  SegmentOpen' /\ TruthKept'
  <2>1. SegmentOpen'
    BY <1>2 DEF SegmentOpen
  <2>2. TruthKept'
    BY <1>0, <1>2 DEF TruthKept, Annotated, Pointed, Steps
  <2> QED BY <2>1, <2>2
<1>3. ASSUME UNCHANGED <<method, corpus, risk, walk, honest>>
      PROVE  SegmentOpen' /\ TruthKept'
  BY <1>0, <1>3 DEF SegmentOpen, TruthKept, Annotated, Pointed, Steps
<1>4. ASSUME NEW t \in Traces, TakeUp(t)
      PROVE  SegmentOpen' /\ TruthKept'
  <2>1. corpus[t].handoffs \in 1..MaxHandoffs /\ MaxHandoffs \in Nat
    BY <1>0, CorpusFacts DEF LocTypeOK
  <2>2. walk' = Begin(t) /\ UNCHANGED <<method, corpus, risk, honest>>
    BY <1>4 DEF TakeUp
  <2>3. Open(walk') /\ Mine(walk')
    BY <2>1, <2>2 DEF Begin, Annotated, Steps
  <2> QED BY <1>2, <2>2, <2>3
<1>5. ASSUME NEW pick \in 0 .. MaxHandoffs - 1, SelectStep(pick)
      PROVE  SegmentOpen' /\ TruthKept'
  BY <1>1, <1>5 DEF SelectStep, Truth
<1>6. ASSUME walk # NoWalk
      PROVE  /\ walk \in [trace : Traces \cup {Unanswered}, lo : Int, hi : Int]
             /\ walk.lo \in Nat /\ walk.hi \in Nat /\ walk.trace \in Traces
             /\ method \in Judges /\ Open(walk) /\ (honest => Mine(walk))
             /\ Annotated(walk.trace) => corpus[walk.trace].culprit \in Int
  <2>1. /\ walk.lo \in 0..MaxHandoffs /\ walk.hi \in Nat /\ walk.trace \in Traces
        /\ method \in Judges
    BY <1>6, WalkFacts
  <2>2. Annotated(walk.trace) => corpus[walk.trace].culprit \in Int
    BY DEF Annotated, Steps
  <2> QED BY <1>0, <1>6, <2>1, <2>2 DEF LocInv, WalkShape, SegmentOpen, TruthKept
<1>7. ASSUME NEW answer \in BOOLEAN, ContainsError(answer)
      PROVE  SegmentOpen' /\ TruthKept'
  <2> DEFINE mid == Middle(walk.lo, walk.hi)
             culprit == corpus[walk.trace].culprit
  <2>1. /\ walk # NoWalk /\ method = "binary_search" /\ walk.lo < walk.hi
        /\ honest' = (honest /\ answer = (culprit \in walk.lo .. mid))
        /\ walk' = IF answer THEN [walk EXCEPT !.hi = mid] ELSE [walk EXCEPT !.lo = mid + 1]
        /\ UNCHANGED <<method, corpus, risk>>
    BY <1>7 DEF ContainsError, Truth
  <2>2. mid \in Nat /\ walk.lo <= mid /\ mid < walk.hi
    BY <1>6, <2>1 DEF Middle
  <2> HIDE DEF mid
  <2>3. /\ walk'.trace = walk.trace
        /\ answer => walk'.lo = walk.lo /\ walk'.hi = mid
        /\ ~answer => walk'.lo = mid + 1 /\ walk'.hi = walk.hi
    BY <1>6, <2>1
  <2>4. Open(walk')
    BY <1>6, <2>1, <2>2, <2>3
  <2>5. ASSUME honest', Annotated(walk.trace) PROVE culprit \in walk'.lo .. walk'.hi
    <3>1. honest /\ answer = (culprit \in walk.lo .. mid) /\ culprit \in walk.lo .. walk.hi
          /\ culprit \in Int
      BY <1>6, <2>1, <2>5
    <3> HIDE DEF culprit
    <3>2. CASE answer
      BY <2>3, <3>1, <3>2
    <3>3. CASE ~answer
      <4>1. ~(culprit \in walk.lo .. mid)
        BY <3>1, <3>3
      <4>2. walk.lo \in Nat /\ walk.hi \in Nat
        BY <1>6, <2>1
      <4>3. culprit \in mid + 1 .. walk.hi
        BY <2>2, <3>1, <4>1, <4>2
      <4> QED BY <2>3, <3>3, <4>3
    <3> QED BY <3>2, <3>3
  <2>6. honest' => honest /\ Mine(walk')
    BY <2>1, <2>3, <2>5
  <2> QED BY <1>2, <2>1, <2>4, <2>6
<1>8. ASSUME NEW answer \in BOOLEAN, IsError(answer)
      PROVE  SegmentOpen' /\ TruthKept'
  <2> DEFINE culprit == corpus[walk.trace].culprit
  <2>1. /\ walk # NoWalk /\ method = "step_by_step" /\ walk.lo <= walk.hi
        /\ honest' = (honest /\ answer = (culprit = walk.lo))
        /\ UNCHANGED <<method, corpus>>
    BY <1>8 DEF IsError, Truth
  <2>2. CASE answer
    BY <1>1, <1>8, <2>1, <2>2 DEF IsError
  <2>3. CASE ~answer
    <3>1. walk' = [walk EXCEPT !.lo = @ + 1] /\ UNCHANGED risk
      BY <1>8, <2>3 DEF IsError
    <3>2. walk'.trace = walk.trace /\ walk'.lo = walk.lo + 1 /\ walk'.hi = walk.hi
      BY <1>6, <2>1, <3>1
    <3>3. Open(walk')
      BY <1>6, <2>1, <3>2
    <3>4. honest' => honest /\ culprit # walk.lo
      BY <2>1, <2>3
    <3>5. honest' => honest /\ Mine(walk')
      BY <1>6, <2>1, <3>2, <3>4
    <3> QED BY <1>2, <2>1, <3>1, <3>3, <3>5
  <2> QED BY <2>2, <2>3
<1>9. CASE Abstain
  BY <1>1, <1>9 DEF Abstain
<1>10. CASE OneLeft
  <2>1. walk # NoWalk /\ walk.lo = walk.hi /\ UNCHANGED <<method, corpus, honest>>
        /\ Conclude(walk.trace, walk.lo)
    BY <1>10 DEF OneLeft
  <2>2. honest /\ Annotated(walk.trace) => walk.lo = corpus[walk.trace].culprit
    BY <1>6, <2>1
  <2> QED BY <1>1, <2>1, <2>2
<1>11. CASE NoneFound
  <2>1. walk # NoWalk /\ walk.lo > walk.hi /\ UNCHANGED <<method, corpus, honest>>
        /\ Conclude(walk.trace, Unanswered)
    BY <1>11 DEF NoneFound
  <2>2. honest => ~Annotated(walk.trace)
    BY <1>6, <2>1
  <2> QED BY <1>1, <2>1, <2>2
<1>12. CASE JudgeFails \/ AllWalked \/ Report
  BY <1>3, <1>12 DEF JudgeFails, AllWalked, Report
<1>13. CASE Baseline \/ Transfer \/ Refit
  <2>1. method \notin Judges /\ UNCHANGED <<method, walk>>
    BY <1>13, Produced
  <2>2. walk = NoWalk
    BY <1>0, <2>1 DEF LocPhases
  <2> QED BY <2>1, <2>2 DEF SegmentOpen, TruthKept
<1>14. CASE UNCHANGED locVars
  BY <1>3, <1>14 DEF locVars
<1> QED
  BY <1>4, <1>5, <1>7, <1>8, <1>9, <1>10, <1>11, <1>12, <1>13, <1>14 DEF LocNext, Walk

(* What a trace is allowed, and what is left of it, are numbers of calls.  *)
LEMMA AllowedTyped ==
  ASSUME LocTypeOK, NEW t \in Traces
  PROVE  /\ Allowed(t) \in Nat
         /\ method = "all_at_once" => Allowed(t) = 1
         /\ method = "binary_search" =>
              CeilLog2(corpus[t].handoffs) <= Allowed(t) /\ CeilLog2(corpus[t].handoffs) \in Nat
         /\ method = "step_by_step" => Allowed(t) = corpus[t].handoffs
<1> DEFINE n == corpus[t].handoffs
<1>1. n \in Nat
  BY CorpusFacts DEF LocTypeOK
<1> HIDE DEF n
<1>2. AtLeastTwo(n) \in Nat /\ n <= AtLeastTwo(n)
  BY <1>1 DEF AtLeastTwo
<1>3. /\ CeilLog2(AtLeastTwo(n)) \in Nat /\ CeilLog2(n) \in Nat
      /\ CeilLog2(n) <= CeilLog2(AtLeastTwo(n))
  BY <1>1, <1>2, CeilLog2Least, CeilLog2Halves
<1>4. Allowed(t) = CASE method = "all_at_once"   -> 1
                     [] method = "binary_search" -> CeilLog2(AtLeastTwo(n))
                     [] OTHER                    -> n
  BY DEF Allowed, n
<1>5. /\ Allowed(t) \in Nat
      /\ method = "all_at_once" => Allowed(t) = 1
      /\ method = "binary_search" => CeilLog2(n) <= Allowed(t) /\ CeilLog2(n) \in Nat
      /\ method = "step_by_step" => Allowed(t) = n
  BY <1>1, <1>3, <1>4
<1> QED BY <1>5 DEF n

LEMMA LeftTyped ==
  ASSUME LocInv, walk # NoWalk
  PROVE  /\ Left \in Nat
         /\ method = "all_at_once" => Left = 1
         /\ method = "binary_search" /\ walk.lo < walk.hi => Left >= 1
         /\ method = "step_by_step" /\ walk.lo <= walk.hi => Left >= 1
<1> DEFINE n == walk.hi - walk.lo + 1
<1>1. /\ walk.lo \in Nat /\ walk.hi \in Nat /\ method \in Judges
      /\ method = "binary_search" => walk.lo <= walk.hi
      /\ method = "step_by_step" => walk.lo <= walk.hi + 1
  BY WalkFacts DEF LocInv, SegmentOpen
<1>2. method # "all_at_once" => n \in Nat
  BY <1>1 DEF Judges
<1>3. Left = CASE method = "all_at_once"   -> 1
               [] method = "binary_search" -> CeilLog2(n)
               [] OTHER                    -> n
  BY DEF Left
<1>4. method = "binary_search" /\ walk.lo < walk.hi => n >= 2
  BY <1>1
<1>5. method = "step_by_step" /\ walk.lo <= walk.hi => n >= 1
  BY <1>1
<1> HIDE DEF n
<1>6. n \in Nat => CeilLog2(n) \in Nat /\ (n >= 2 => CeilLog2(n) >= 1)
  BY CeilLog2Least, CeilLog2Halves
<1> QED BY <1>2, <1>3, <1>4, <1>5, <1>6

LEMMA LocStepCalls ==
  ASSUME LocInv, [LocNext]_locVars
  PROVE  CallsKept'
<1>0. LocTypeOK /\ LocPhases /\ CallsKept /\ calls \in Nat /\ pending \subseteq Traces
      /\ IsFiniteSet(Traces)
  BY TracesAssumption DEF LocInv, LocTypeOK
<1>1. \A t \in Traces : Allowed(t) \in Nat
  BY <1>0, AllowedTyped
<1>2. walk # NoWalk => walk.trace \in Traces /\ walk.trace \notin pending /\ Left \in Nat
  BY WalkFacts, LeftTyped
<1>3. \A t \in Traces : Used[t] = IF t \in pending THEN 0
                                  ELSE IF walk # NoWalk /\ t = walk.trace THEN Allowed(t) - Left
                                  ELSE Allowed(t)
  BY DEF Used
<1>4. \A t \in Traces : Used[t] \in Int
  BY <1>1, <1>2, <1>3
<1>5. UNCHANGED <<method, corpus>> =>
        \A t \in Traces : Used'[t] = IF t \in pending' THEN 0
                                     ELSE IF walk' # NoWalk /\ t = walk'.trace
                                          THEN Allowed(t) - Left' ELSE Allowed(t)
  BY DEF Used, Allowed
<1> DEFINE used == Used'
<1>6. ASSUME UNCHANGED method, calls' = calls,
             \A t \in Traces : Used'[t] \in Int /\ Used[t] <= Used'[t]
      PROVE  CallsKept'
  <2> SUFFICES ASSUME method \in Judges PROVE calls <= SumOf(used, Traces)
    BY <1>6 DEF CallsKept
  <2>1. \A t \in Traces : Used[t] \in Int /\ used[t] \in Int /\ Used[t] <= used[t]
    BY <1>4, <1>6
  <2> HIDE DEF used
  <2>2. /\ SumOf(Used, Traces) <= SumOf(used, Traces)
        /\ SumOf(Used, Traces) \in Int /\ SumOf(used, Traces) \in Int
    BY <1>0, <2>1, SumLess, SumType
  <2> QED BY <1>0, <2>2 DEF CallsKept
<1>7. ASSUME UNCHANGED method, calls' = calls + 1, NEW a \in Traces, Used[a] + 1 <= Used'[a],
             \A t \in Traces : Used'[t] \in Int /\ Used[t] <= Used'[t]
      PROVE  CallsKept'
  <2> SUFFICES ASSUME method \in Judges PROVE calls + 1 <= SumOf(used, Traces)
    BY <1>7 DEF CallsKept
  <2>1. /\ \A t \in Traces : Used[t] \in Int /\ used[t] \in Int /\ Used[t] <= used[t]
        /\ Used[a] + 1 <= used[a]
    BY <1>4, <1>7
  <2> HIDE DEF used
  <2>2. SumOf(Used, Traces) + 1 <= SumOf(used, Traces)
    BY <1>0, <2>1, SumGrows
  <2>3. SumOf(Used, Traces) \in Int /\ SumOf(used, Traces) \in Int
    BY <1>0, <2>1, SumType
  <2> QED BY <1>0, <2>2, <2>3 DEF CallsKept
(* A concluded trace has used what it was allowed; if a call concluded it, *)
(* one was left.                                                           *)
<1>8. ASSUME walk # NoWalk, walk' = NoWalk, UNCHANGED <<method, corpus, pending>>,
             calls' = calls \/ (Asked /\ Left >= 1)
      PROVE  CallsKept'
  <2>1. \A t \in Traces : Used'[t] \in Int /\ Used[t] <= Used'[t]
    BY <1>1, <1>2, <1>3, <1>5, <1>8
  <2>2. CASE calls' = calls
    BY <1>6, <1>8, <2>1, <2>2
  <2>3. CASE Asked /\ Left >= 1
    <3>1. Used[walk.trace] + 1 <= Used'[walk.trace]
      BY <1>1, <1>2, <1>3, <1>5, <1>8, <2>3
    <3> QED BY <1>2, <1>7, <1>8, <2>1, <2>3, <3>1 DEF Asked
  <2> QED BY <1>8, <2>2, <2>3
(* A call that leaves the trace open leaves it fewer calls.                *)
<1>9. ASSUME walk # NoWalk, walk' # NoWalk, walk'.trace = walk.trace, Asked,
             UNCHANGED <<method, corpus, pending>>, Left' \in Nat, Left' + 1 <= Left
      PROVE  CallsKept'
  <2>1. \A t \in Traces : Used'[t] \in Int /\ Used[t] <= Used'[t]
    BY <1>1, <1>2, <1>3, <1>5, <1>9
  <2>2. Used[walk.trace] + 1 <= Used'[walk.trace]
    BY <1>1, <1>2, <1>3, <1>5, <1>9
  <2> QED BY <1>2, <1>7, <1>9, <2>1, <2>2 DEF Asked
<1>10. ASSUME UNCHANGED <<method, corpus, pending, walk, calls>>
       PROVE  CallsKept'
  <2>1. Used' = Used
    BY <1>10 DEF Used, Allowed, Left
  <2> QED BY <1>0, <1>10, <2>1 DEF CallsKept
<1>11. ASSUME NEW t \in Traces, TakeUp(t)
       PROVE  CallsKept'
  <2>1. /\ walk = NoWalk /\ t \in pending /\ pending' = pending \ {t} /\ walk' = Begin(t)
        /\ UNCHANGED <<method, corpus, calls>> /\ method \in Judges
    BY <1>0, <1>11 DEF TakeUp, LocPhases
  <2>2. corpus[t].handoffs \in Nat
    BY <1>0, CorpusFacts DEF LocTypeOK
  <2>3. walk'.hi - walk'.lo + 1 = corpus[t].handoffs /\ walk'.trace = t
    BY <2>1, <2>2 DEF Begin
  <2>4. Left' = CASE method = "all_at_once"   -> 1
                  [] method = "binary_search" -> CeilLog2(corpus[t].handoffs)
                  [] OTHER                    -> corpus[t].handoffs
    BY <2>1, <2>3 DEF Left
  <2>5. Left' \in Nat /\ Left' <= Allowed(t)
    BY <1>0, <2>1, <2>2, <2>4, AllowedTyped DEF Judges
  <2>6. \A u \in Traces : Used'[u] \in Int /\ Used[u] <= Used'[u]
    BY <1>1, <1>3, <1>5, <2>1, <2>3, <2>5
  <2> QED BY <1>6, <2>1, <2>6
<1>12. ASSUME NEW pick \in 0 .. MaxHandoffs - 1, SelectStep(pick)
       PROVE  CallsKept'
  BY <1>8, <1>12, LeftTyped DEF SelectStep, Conclude
<1>13. ASSUME walk # NoWalk
       PROVE  /\ walk \in [trace : Traces \cup {Unanswered}, lo : Int, hi : Int]
              /\ walk.lo \in Nat /\ walk.hi \in Nat /\ walk.trace # Unanswered
  BY <1>13, WalkFacts, TracesAssumption DEF LocInv, WalkShape
<1>14. ASSUME NEW answer \in BOOLEAN, ContainsError(answer)
       PROVE  CallsKept'
  <2> DEFINE mid == Middle(walk.lo, walk.hi)
             n == walk.hi - walk.lo + 1
             m == walk'.hi - walk'.lo + 1
  <2>1. /\ walk # NoWalk /\ method = "binary_search" /\ walk.lo < walk.hi
        /\ walk' = IF answer THEN [walk EXCEPT !.hi = mid] ELSE [walk EXCEPT !.lo = mid + 1]
        /\ UNCHANGED <<method, corpus, pending>> /\ Asked
    BY <1>14 DEF ContainsError
  <2>2. mid \in Nat /\ walk.lo <= mid /\ mid < walk.hi
        /\ 2 * mid <= walk.lo + walk.hi /\ walk.lo + walk.hi <= 2 * mid + 1
    BY <1>13, <2>1 DEF Middle
  <2> HIDE DEF mid
  <2>3. /\ walk'.trace = walk.trace
        /\ answer => walk'.lo = walk.lo /\ walk'.hi = mid
        /\ ~answer => walk'.lo = mid + 1 /\ walk'.hi = walk.hi
    BY <1>13, <2>1
  <2>4. n \in Nat /\ m \in Nat /\ n >= 2 /\ 2 * m <= n + 1
    BY <1>13, <2>1, <2>2, <2>3
  <2>5. Left = CeilLog2(n) /\ Left' = CeilLog2(m)
    BY <2>1 DEF Left
  <2> HIDE DEF n, m
  <2>6. Left' \in Nat /\ Left' + 1 <= Left
    BY <2>4, <2>5, CeilLog2Least, CeilLog2Halves
  <2>7. walk' # NoWalk
    BY <1>13, <2>1, <2>3 DEF NoWalk
  <2> QED BY <1>9, <2>1, <2>3, <2>6, <2>7
<1>15. ASSUME NEW answer \in BOOLEAN, IsError(answer)
       PROVE  CallsKept'
  <2>1. /\ walk # NoWalk /\ method = "step_by_step" /\ walk.lo <= walk.hi /\ Asked
        /\ UNCHANGED <<method, corpus, pending>>
    BY <1>15 DEF IsError
  <2>2. CASE answer
    BY <1>8, <1>15, <2>1, <2>2, LeftTyped DEF IsError, Conclude
  <2>3. CASE ~answer
    <3>1. walk' = [walk EXCEPT !.lo = @ + 1]
      BY <1>15, <2>3 DEF IsError
    <3>2. walk'.trace = walk.trace /\ walk'.lo = walk.lo + 1 /\ walk'.hi = walk.hi
      BY <1>13, <2>1, <3>1
    <3>3. Left = walk.hi - walk.lo + 1 /\ Left' = walk.hi - (walk.lo + 1) + 1
      BY <2>1, <3>2 DEF Left
    <3>4. Left' \in Nat /\ Left' + 1 <= Left
      BY <1>13, <2>1, <3>3
    <3>5. walk' # NoWalk
      BY <1>13, <2>1, <3>2 DEF NoWalk
    <3> QED BY <1>9, <2>1, <3>2, <3>4, <3>5
  <2> QED BY <2>2, <2>3
<1>16. CASE Abstain
  <2>1. /\ walk # NoWalk /\ walk' = NoWalk /\ Asked /\ UNCHANGED <<method, corpus, pending>>
    BY <1>16 DEF Abstain, Conclude
  <2>2. Left >= 1
    BY <1>16, LeftTyped DEF Abstain
  <2> QED BY <1>8, <2>1, <2>2
<1>17. CASE OneLeft \/ NoneFound
  <2>1. walk # NoWalk /\ walk' = NoWalk /\ UNCHANGED <<method, corpus, pending>>
        /\ calls' = calls
    BY <1>17 DEF OneLeft, NoneFound, Conclude
  <2> QED BY <1>8, <2>1
<1>18. CASE JudgeFails \/ AllWalked \/ Report
  BY <1>10, <1>18 DEF JudgeFails, AllWalked, Report
<1>19. CASE Baseline \/ Transfer \/ Refit
  BY <1>19, Produced DEF CallsKept
<1>20. CASE UNCHANGED locVars
  BY <1>10, <1>20 DEF locVars
<1> QED
  BY <1>11, <1>12, <1>14, <1>15, <1>16, <1>17, <1>18, <1>19, <1>20 DEF LocNext, Walk

LEMMA LocInvariant == LocSpec => []LocInv
<1>1. LocInv /\ [LocNext]_locVars => LocInv'
  BY LocStepTyped, LocStepPhases, LocStepTruth, LocStepCalls DEF LocInv
<1> QED BY <1>1, LocInitInv, PTL DEF LocSpec

(* Every variable of an analysis has its type, and a walk stays within its *)
(* trace (rq3a.py and the judge of rq3a_run.py).                           *)
THEOREM LocTyped == LocSpec => []LocTypeOK
  BY LocInvariant, PTL DEF LocInv
-----------------------------------------------------------------------------
(* The projection is the sum of what each trace is allowed.                *)
LEMMA ProjectionIsSum ==
  ASSUME NEW f, f = [t \in Traces |-> Allowed(t)]
  PROVE  ProjectedCalls = SumOf(f, Traces)
<1> DEFINE Of(t) == CASE method = "all_at_once"   -> 1
                      [] method = "binary_search" -> CeilLog2(AtLeastTwo(corpus[t].handoffs))
                      [] OTHER                    -> corpus[t].handoffs
           Sums(g) == g = [s \in SUBSET Traces |->
                             IF s = {} THEN 0 ELSE Of(Pick(s)) + g[s \ {Pick(s)}]]
           h == CHOOSE g : Sums(g)
<1>0. IsFiniteSet(Traces)
  BY TracesAssumption
<1>1. ProjectedCalls = h[Traces]
  BY DEF ProjectedCalls, MapThenSumSet, MapThenFoldSet, Pick
<1>2. PICK g : Adds(g, f, Traces)
  BY <1>0, AddsExists
<1>3. \A s \in SUBSET Traces : s # {} => f[Pick(s)] = Of(Pick(s))
  BY DEF Pick, Allowed
<1> HIDE DEF Of
<1>4. Sums(g)
  BY <1>2, <1>3 DEF Adds
<1>5. Sums(h)
  <2> HIDE DEF Sums
  <2> QED BY <1>4
<1>6. Adds(h, f, Traces)
  <2> HIDE DEF h
  <2> QED BY <1>3, <1>5 DEF Adds
<1> QED BY <1>0, <1>1, <1>6, SumIsRunning

LEMMA WithinProjection ==
  ASSUME LocInv, method \in Judges
  PROVE  CallsWithinProjection
<1> DEFINE f == [t \in Traces |-> Allowed(t)]
<1>1. IsFiniteSet(Traces) /\ calls \in Nat /\ calls <= SumOf(Used, Traces)
  BY TracesAssumption DEF LocInv, LocTypeOK, CallsKept
<1>2. \A t \in Traces : Allowed(t) \in Nat
  BY AllowedTyped DEF LocInv
<1>3. walk # NoWalk => Left \in Nat
  BY LeftTyped
<1>4. \A t \in Traces : Used[t] \in Int /\ f[t] \in Int /\ Used[t] <= f[t]
  BY <1>2, <1>3 DEF Used
<1>5. ProjectedCalls = SumOf(f, Traces)
  BY ProjectionIsSum
<1> HIDE DEF f
<1>6. /\ SumOf(Used, Traces) <= SumOf(f, Traces)
      /\ SumOf(Used, Traces) \in Int /\ SumOf(f, Traces) \in Int
  BY <1>1, <1>4, SumLess, SumType
<1> QED BY <1>1, <1>5, <1>6 DEF CallsWithinProjection

(* Whatever corpus a judge walks through, it makes no more calls than      *)
(* projected_judge_calls says must fit in the job's wall clock, and while  *)
(* its answers are true each procedure points at the annotated handoff of  *)
(* every trace it has concluded (rq3a.py, the three judge procedures).     *)
THEOREM TruthfulJudgeStaysRight == LocSpec => []TruthfulJudgeIsRight
<1>1. LocInv => TruthfulJudgeIsRight
  BY WithinProjection DEF TruthfulJudgeIsRight, LocInv, TruthKept
<1> QED BY <1>1, LocInvariant, PTL
-----------------------------------------------------------------------------
(* A doubled rank of 2: nothing is suspected more, and nothing as much.    *)
LEMMA RankParts ==
  ASSUME NEW S, IsFiniteSet(S), NEW r \in [S -> {0, 1}], NEW i \in S
  PROVE  /\ Rank2(r, i) \in Nat
         /\ Rank2(r, i) = 2 <=> \A j \in S \ {i} : r[j] < r[i]
         /\ \A j \in S : r[j] > r[i] => Rank2(r, i) >= 4
<1> DEFINE G == {j \in S : r[j] > r[i]}
           E == {j \in S : r[j] = r[i]}
<1>1. IsFiniteSet(G) /\ IsFiniteSet(E) /\ i \in E
  BY FS_Subset
<1>2. Rank2(r, i) = 1 + 2 * Cardinality(G) + Cardinality(E)
  BY DEF Rank2
<1>3. E # {i} => Cardinality(E) >= 2
  <2> SUFFICES ASSUME E # {i} PROVE Cardinality(E) >= 2
    OBVIOUS
  <2>1. PICK j \in E : j # i
    BY <1>1
  <2>2. /\ Cardinality(E \ {i}) = Cardinality(E) - 1 /\ IsFiniteSet(E \ {i})
        /\ Cardinality(E) \in Nat
    BY <1>1, FS_RemoveElement, FS_CardinalityType
  <2>3. Cardinality(E \ {i}) # 0
    BY <2>1, <2>2, FS_EmptySet
  <2>4. Cardinality(E \ {i}) \in Nat
    BY <2>2, FS_CardinalityType
  <2> HIDE DEF E
  <2> QED BY <2>2, <2>3, <2>4
<1>4. Cardinality(G) \in Nat /\ Cardinality(E) \in Nat /\ Cardinality(E) >= 1
  <2>1. Cardinality(E) # 0
    BY <1>1, FS_EmptySet
  <2>2. Cardinality(G) \in Nat /\ Cardinality(E) \in Nat
    BY <1>1, FS_CardinalityType
  <2> HIDE DEF G, E
  <2> QED BY <2>1, <2>2
<1>5. (G = {} <=> Cardinality(G) = 0) /\ (E = {i} => Cardinality(E) = 1)
  BY <1>1, FS_EmptySet, FS_Singleton
<1>6. (\A j \in S \ {i} : r[j] < r[i]) <=> G = {} /\ E = {i}
  <2>1. \A j \in S : r[j] \in {0, 1}
    OBVIOUS
  <2> QED BY <2>1
<1>7. \A j \in S : r[j] > r[i] => G # {}
  OBVIOUS
<1> HIDE DEF G, E
<1>8. Rank2(r, i) \in Nat
  BY <1>2, <1>4
<1>9. Rank2(r, i) = 2 <=> G = {} /\ E = {i}
  <2>1. Rank2(r, i) = 2 <=> Cardinality(G) = 0 /\ Cardinality(E) = 1
    BY <1>2, <1>4
  <2>2. Cardinality(E) = 1 <=> E = {i}
    BY <1>3, <1>4, <1>5
  <2> QED BY <1>5, <2>1, <2>2
<1>10. G # {} => Rank2(r, i) >= 4
  BY <1>2, <1>4, <1>5
<1> QED BY <1>6, <1>7, <1>8, <1>9, <1>10

LEMMA HitStandsOut ==
  ASSUME LocInv, NEW t \in StepHits
  PROVE  /\ \A i \in Steps(t) \ {corpus[t].culprit} : risk[t][i] < risk[t][corpus[t].culprit]
         /\ t \in AgentHits
         /\ t \in abstained => corpus[t].handoffs = 1
<1> DEFINE c == corpus[t].culprit
           S == Steps(t)
           r == risk[t]
<1>1. t \in Traces /\ t \in DOMAIN risk /\ c \in S /\ r \in [S -> {0, 1}] /\ Rank2(r, c) = 2
      /\ t \in Evaluated
  BY DEF StepHits, Evaluated, Annotated, LocInv, LocTypeOK
<1>2. corpus[t].handoffs \in Nat \ {0} /\ IsFiniteSet(S) /\ S \subseteq Int
  <2>1. corpus[t].handoffs \in Nat \ {0}
    BY <1>1, CorpusFacts DEF LocInv, LocTypeOK
  <2> QED BY <2>1, FS_Interval DEF Steps
<1>3. \A j \in S \ {c} : r[j] < r[c]
  <2> HIDE DEF c, S, r
  <2> QED BY <1>1, <1>2, RankParts
<1>4. \A j \in S \ {c} : Rank2(r, j) >= 4 /\ Rank2(r, j) \in Nat
  <2>1. \A j \in S : r[j] \in {0, 1}
    BY <1>1
  <2> HIDE DEF c, S, r
  <2>2. \A j \in S \ {c} : r[c] > r[j]
    BY <1>1, <1>3, <2>1
  <2> QED BY <1>1, <1>2, <2>2, RankParts
<1>5. TopStep(t) = c
  <2> DEFINE First(i) == /\ \A j \in S : Rank2(r, i) <= Rank2(r, j)
                         /\ \A j \in 0 .. i - 1 : Rank2(r, i) < Rank2(r, j)
  <2>1. TopStep(t) = CHOOSE i \in S : First(i)
    BY DEF TopStep
  <2>2. First(c)
    <3>1. \A j \in 0 .. c - 1 : j \in S \ {c}
      BY <1>1, <1>2 DEF Steps
    <3> HIDE DEF c, S, r
    <3> QED BY <1>1, <1>4, <3>1
  <2>3. \A i \in S : First(i) => i = c
    <3> HIDE DEF c, S, r
    <3> QED BY <1>1, <1>4
  <2> HIDE DEF First, c, S, r
  <2> QED BY <1>1, <2>1, <2>2, <2>3
<1>6. t \in AgentHits
  BY <1>1, <1>5 DEF AgentHits
<1>7. ASSUME t \in abstained
      PROVE  corpus[t].handoffs = 1
  <2>1. r = Pointed(t, Unanswered)
    BY <1>7 DEF LocInv, AbstainedFlat
  <2>2. Unanswered \notin S
    BY <1>1, CorpusFacts DEF LocInv, LocTypeOK
  <2>3. \A j \in S : r[j] = 0
    BY <2>1, <2>2 DEF Pointed
  <2>4. S = {c}
    <3> HIDE DEF c, S, r
    <3> QED BY <1>1, <1>3, <2>3
  <2> QED BY <1>2, <2>4 DEF Steps
<1> QED BY <1>3, <1>6, <1>7

(* Evaluated, off the boundaries, not evaluable: each trace is just one.   *)
LEMMA CountersClose ==
  ASSUME LocInv
  PROVE  CountersCloseUnlessSkipped
<1> SUFFICES ASSUME locPc = "reported", status = "ok"
             PROVE  Cardinality(Scored) =
                      Cardinality(Evaluated) + Cardinality(OffBoundaries)
                        + Cardinality(NotEvaluable)
                    <=> Scored = Traces
  BY DEF CountersCloseUnlessSkipped
<1>1. IsFiniteSet(Traces) /\ Scored \subseteq Traces
  BY TracesAssumption DEF LocInv, LocTypeOK, Scored
<1>2. \A t \in Traces : /\ Annotated(t) => corpus[t].culprit \in Int
                        /\ ~(Annotated(t) /\ corpus[t].culprit = OffBoundary)
                        /\ Annotated(t) \/ corpus[t].culprit = OffBoundary
                             \/ corpus[t].culprit = Unanswered
  BY CorpusFacts DEF LocInv, LocTypeOK, Annotated, Steps
<1>3. Unanswered \notin Int /\ OffBoundary \in Int
  BY TracesAssumption DEF OffBoundary
<1>4. /\ Evaluated \subseteq Traces /\ OffBoundaries \subseteq Traces
      /\ NotEvaluable \subseteq Traces
      /\ Evaluated = {t \in Scored : Annotated(t)}
  BY <1>1 DEF Evaluated, OffBoundaries, NotEvaluable, Scored
<1>5. /\ Evaluated \cap OffBoundaries = {}
      /\ (Evaluated \cup OffBoundaries) \cap NotEvaluable = {}
      /\ (Evaluated \cup OffBoundaries) \cup NotEvaluable = Traces
  BY <1>1, <1>2, <1>3, <1>4 DEF OffBoundaries, NotEvaluable, Scored
<1>6. IsFiniteSet(Evaluated) /\ IsFiniteSet(OffBoundaries) /\ IsFiniteSet(NotEvaluable)
      /\ IsFiniteSet(Evaluated \cup OffBoundaries)
  BY <1>1, <1>4, FS_Subset, FS_Union
<1>7. /\ Cardinality(Evaluated) \in Nat /\ Cardinality(OffBoundaries) \in Nat
      /\ Cardinality(NotEvaluable) \in Nat
  BY <1>6, FS_CardinalityType
<1>8. \A A, B : IsFiniteSet(A) /\ IsFiniteSet(B) /\ A \cap B = {} =>
                 Cardinality(A \cup B) = Cardinality(A) + Cardinality(B)
  <2> SUFFICES ASSUME NEW A, NEW B, IsFiniteSet(A), IsFiniteSet(B), A \cap B = {}
               PROVE  Cardinality(A \cup B) = Cardinality(A) + Cardinality(B)
    OBVIOUS
  <2>1. Cardinality(A \cup B) = Cardinality(A) + Cardinality(B) - Cardinality(A \cap B)
    BY FS_Union
  <2>2. Cardinality(A) \in Nat /\ Cardinality(B) \in Nat
        /\ Cardinality(A \cap B) = 0
    BY FS_CardinalityType, FS_EmptySet
  <2> QED BY <2>1, <2>2
<1>9. Cardinality(Traces) =
        Cardinality(Evaluated) + Cardinality(OffBoundaries) + Cardinality(NotEvaluable)
  BY <1>5, <1>6, <1>8
<1>10. Cardinality(Scored) = Cardinality(Traces) <=> Scored = Traces
  BY <1>1, FS_Subset
<1> QED BY <1>9, <1>10

(* For any corpus and any risks, a step counts as hit only if it is        *)
(* suspected more than every other step of its trace, its agent is then hit*)
(* too, an abstention earns no hit but on a trace of one handoff, and a    *)
(* row's counters close exactly when every trace was scored (rq3a.py,      *)
(* evaluate).                                                              *)
THEOREM HitsAreEarned == LocSpec => []HitIsEarned
<1>1. LocInv => HitIsEarned
  BY HitStandsOut, CountersClose DEF HitIsEarned
<1> QED BY <1>1, LocInvariant, PTL
=============================================================================
