-------------------------- MODULE EpisodeLoop_proofs --------------------------
(***************************************************************************)
(* Proofs about EpisodeLoop, for any step budget, retry budget, distance,  *)
(* wordings and horizons: its types, and what the records say of the       *)
(* channel, of the gate and of the steps taken, and the labels of the      *)
(* steps.                                                                  *)
(***************************************************************************)
EXTENDS EpisodeLoop, SumLemmas, TLAPS

(***************************************************************************)
(* Types. While a handoff is under way there is a message and a delivery.  *)
(***************************************************************************)
Speaking == node \in {"gate", "agent_B", "apply"}
LocalsInv == Speaking => raw \in Message /\ delivered \in Delivery
TypeInv == TypeOK /\ LocalsInv

LEMMA DeliveryType ==
  ASSUME TypeOK, NEW m \in Message
  PROVE  Deliver(m) \in Delivery
<1>1. \A x \in Message : \A form \in {"whole", "capped", "dropped"} :
        In(form, x) \in Delivery
  BY DEF In, Delivery
<1>2. DelayedByOne(m) \in Delivery
  <2>1. CASE buffered = NoMessage
    BY <2>1 DEF DelayedByOne, Delivery
  <2>2. CASE buffered # NoMessage
    BY <2>2, <1>1 DEF DelayedByOne, TypeOK
  <2> QED
    BY <2>1, <2>2
<1> QED
  BY <1>1, <1>2 DEF Deliver

LEMMA RecordType ==
  ASSUME TypeInv, node = "apply", NEW post \in 0..Far
  PROVE  HandoffRecord(post) \in Record
<1>1. /\ step \in 0..(Budget - 1) /\ raw \in Message /\ delivered \in Delivery
      /\ retries \in 0..MaxRetries /\ message_blocked \in Delivery \cup {NoMessage}
      /\ action \in MacroActions /\ distance \in 0..Far
  BY BudgetAssumption DEF TypeInv, TypeOK, LocalsInv, Speaking
<1>2. Observation \in {"scene", "window"}
  BY DEF Observation
<1> QED
  BY <1>1, <1>2 DEF HandoffRecord, Record

LEMMA LabelType ==
  ASSUME NEW rs \in Seq(Record), NEW h \in Horizons
  PROVE  LabelEpisode(rs, h) \in Seq(Label)
<1> DEFINE n == Len(rs)
<1>1. n \in Nat /\ h \in Nat \ {0}
  BY HorizonsAssumption
<1>2. ASSUME NEW i \in 1..n
      PROVE  LabelEpisode(rs, h)[i] \in Label
  <2>1. WindowEnd(i, n, h) \in 1..n
    BY <1>1 DEF WindowEnd
  <2>2. rs[i] \in Record /\ rs[WindowEnd(i, n, h)] \in Record
    BY <2>1, <1>1
  <2> DEFINE net == rs[i].pre - rs[WindowEnd(i, n, h)].post
  <2>3. rs[i].pre \in 0..Far /\ rs[WindowEnd(i, n, h)].post \in 0..Far
    BY <2>2 DEF Record
  <2>4. net \in Int
    BY <2>3, FarAssumption
  <2>5. /\ (net > 0) \in BOOLEAN
        /\ SuccessFrom(rs, i) \in BOOLEAN
        /\ Truncated(i, n, h) \in BOOLEAN
    BY DEF SuccessFrom, Truncated
  <2>6. LabelEpisode(rs, h)[i] =
          [y_continuous_displacement |-> net,
           y_binary_progress |-> net > 0,
           y_terminal_success |-> SuccessFrom(rs, i),
           y_window_truncated |-> Truncated(i, n, h)]
    BY DEF LabelEpisode
  <2> HIDE DEF net
  <2> QED
    BY <2>4, <2>5, <2>6 DEF Label
<1>3. LabelEpisode(rs, h) = [i \in 1..n |-> LabelEpisode(rs, h)[i]]
  BY DEF LabelEpisode
<1> HIDE DEF n
<1> QED
  BY <1>1, <1>2, <1>3

LEMMA InitType == Init => TypeInv
<1> SUFFICES ASSUME Init PROVE TypeInv
  OBVIOUS
<1>1. /\ node = "agent_A" /\ step = 0 /\ retries = 0 /\ k = 0
      /\ raw = NoMessage /\ delivered = NoMessage /\ buffered = NoMessage
      /\ message_blocked = NoMessage /\ action = "WAIT"
      /\ records = <<>> /\ labels = <<>> /\ distance \in 1..Far
      /\ cell \in Cell
  BY DEF Init
<1>2. records \in Seq(Record) /\ labels \in Seq(Label)
  BY <1>1
<1>3. step \in 0..Budget /\ step < Budget /\ distance \in 0..Far /\ retries \in 0..MaxRetries
  BY <1>1, BudgetAssumption, RetriesAssumption, FarAssumption
<1> QED
  BY <1>1, <1>2, <1>3 DEF TypeInv, TypeOK, LocalsInv, Speaking, Nodes, Over, MacroActions

LEMMA NextType == TypeInv /\ [Next]_vars => TypeInv'
<1> SUFFICES ASSUME TypeInv, [Next]_vars PROVE TypeInv'
  OBVIOUS
<1>0. TypeOK /\ LocalsInv
  BY DEF TypeInv
<1>1. ASSUME NEW m \in Message, Emit(m) PROVE TypeInv'
  <2>1. Deliver(m) \in Delivery
    BY <1>0, DeliveryType
  <2> QED
    BY <1>0, <1>1, <2>1 DEF Emit, TypeInv, TypeOK, LocalsInv, Speaking, Nodes
<1>2. ASSUME GatePasses \/ GateGivesUp PROVE TypeInv'
  <2>1. node = "gate" /\ raw \in Message /\ delivered \in Delivery
    BY <1>0, <1>2 DEF GatePasses, GateGivesUp, LocalsInv, Speaking
  <2>2. FirstRejected \in Delivery /\ NewBuffer \in Message \cup {NoMessage}
    BY <1>0, <2>1 DEF TypeOK, FirstRejected, NewBuffer
  <2>3. /\ message_blocked' \in Delivery \cup {NoMessage}
        /\ buffered' \in Message \cup {NoMessage}
    BY <1>0, <1>2, <2>2 DEF GatePasses, GateGivesUp, AgentAReturns, TypeOK
  <2> QED
    BY <1>0, <1>2, <2>1, <2>3
    DEF GatePasses, GateGivesUp, AgentAReturns, TypeInv, TypeOK, LocalsInv, Speaking, Nodes
<1>3. ASSUME GateRetries PROVE TypeInv'
  <2>1. node = "gate" /\ delivered \in Delivery
    BY <1>0, <1>3 DEF GateRetries, LocalsInv, Speaking
  <2>2. message_blocked' \in Delivery \cup {NoMessage}
    BY <1>0, <1>3, <2>1 DEF GateRetries, TypeOK, FirstRejected
  <2>3. retries' \in 0..MaxRetries
    BY <1>0, <1>3, RetriesAssumption DEF GateRetries, TypeOK, RetryLeft, NextCount
  <2> QED
    BY <1>0, <1>3, <2>1, <2>2, <2>3
    DEF GateRetries, TypeInv, TypeOK, LocalsInv, Speaking, Nodes
<1>4. ASSUME NEW answer \in MacroActions \cup {"invalid"}, AgentB(answer) PROVE TypeInv'
  BY <1>0, <1>4
  DEF AgentB, handoff, TypeInv, TypeOK, LocalsInv, Speaking, Nodes, MacroActions
<1>5. ASSUME ServingFails \/ GateFails PROVE TypeInv'
  BY <1>0, <1>5
  DEF ServingFails, GateFails, handoff, TypeInv, TypeOK, LocalsInv, Speaking, Nodes, Over
<1>6. ASSUME NEW post \in 0..Far, Apply(post) PROVE TypeInv'
  <2>1. node = "apply" /\ step < Budget
    BY <1>0, <1>6 DEF Apply, TypeOK
  <2>2. HandoffRecord(post) \in Record
    BY <2>1, RecordType
  <2>3. records' \in Seq(Record)
    BY <1>0, <1>6, <2>2 DEF Apply, TypeOK
  <2>4. step' \in 0..Budget /\ (node' = "agent_A" => step' < Budget)
    BY <1>0, <1>6, <2>1, BudgetAssumption DEF Apply, TypeOK, Done
  <2>5. node' \in {"label", "agent_A"} /\ retries' = 0
    BY <1>6 DEF Apply
  <2> QED
    BY <1>0, <1>6, <2>3, <2>4, <2>5, RetriesAssumption
    DEF Apply, TypeInv, TypeOK, LocalsInv, Speaking, Nodes, MacroActions
<1>7. ASSUME NEW h \in Horizons, FillLabels(h) PROVE TypeInv'
  <2>1. labels' \in Seq(Label)
    BY <1>0, <1>7, LabelType DEF FillLabels, TypeOK
  <2> QED
    BY <1>0, <1>7, <2>1
    DEF FillLabels, handoff, TypeInv, TypeOK, LocalsInv, Speaking, Nodes, Over
<1>8. CASE UNCHANGED vars
  BY <1>0, <1>8 DEF vars, TypeInv, TypeOK, LocalsInv, Speaking
<1> QED
  BY <1>1, <1>2, <1>3, <1>4, <1>5, <1>6, <1>7, <1>8 DEF Next

(* Every variable keeps its type: in particular no handoff has more than   *)
(* MaxRetries re-prompts and no episode more than Budget steps.            *)
THEOREM EpisodeTypes == Spec => []TypeOK
<1>1. TypeInv => TypeOK
  BY DEF TypeInv
<1> QED
  BY <1>1, InitType, NextType, PTL DEF Spec

(***************************************************************************)
(* The steps: the records are one per step taken and joined end to end,    *)
(* and the last one, while the episode goes on, ended where the load is,   *)
(* short of the goal.                                                      *)
(***************************************************************************)
Running == node \in {"agent_A", "gate", "agent_B", "apply"}

StepsInv ==
  /\ Len(records) = step
  /\ \A i \in 1..Len(records) : records[i].step = i - 1
  /\ \A i \in 1..(Len(records) - 1) :
       ~records[i].success /\ records[i].post = records[i + 1].pre
  /\ Running /\ records # <<>> =>
       ~records[Len(records)].success /\ records[Len(records)].post = distance
  /\ node \in {"label", "returned"} =>
       step >= 1 /\ (records[Len(records)].success \/ step = Budget)

(* One more record leaves the others where they are.                       *)
LEMMA AppendRecord ==
  ASSUME NEW S, NEW s \in Seq(S), NEW e \in S
  PROVE  /\ Append(s, e) \in Seq(S)
         /\ Len(Append(s, e)) = Len(s) + 1
         /\ Append(s, e)[Len(s) + 1] = e
         /\ \A i \in 1..Len(s) : Append(s, e)[i] = s[i]
OBVIOUS

LEMMA ApplySteps ==
  ASSUME TypeInv, StepsInv, NEW post \in 0..Far, Apply(post)
  PROVE  StepsInv'
<1> DEFINE r == HandoffRecord(post)
           n == Len(records)
<1>1. /\ node = "apply" /\ step < Budget /\ step \in 0..Budget /\ n = step
      /\ records \in Seq(Record) /\ n \in Nat
  BY DEF Apply, TypeInv, TypeOK, StepsInv
<1>2. r \in Record
  BY <1>1, RecordType
<1>3. r.step = step /\ r.pre = distance /\ r.post = post /\ r.success = (post = 0)
  BY DEF HandoffRecord
<1>4. records' = Append(records, r) /\ step' = step + 1 /\ distance' = post
  BY DEF Apply
<1>5. node' = IF post = 0 \/ step + 1 >= Budget THEN "label" ELSE "agent_A"
  BY DEF Apply, Done
<1> HIDE DEF r, n
<1>6. /\ Len(records') = n + 1 /\ records'[n + 1] = r
      /\ \A i \in 1..n : records'[i] = records[i]
  BY <1>1, <1>2, <1>4, AppendRecord DEF n
<1>7. Len(records') = step'
  BY <1>1, <1>4, <1>6
<1>8. \A i \in 1..Len(records') : records'[i].step = i - 1
  <2>1. \A i \in 1..n : records[i].step = i - 1
    BY DEF StepsInv, n
  <2>2. ASSUME NEW i \in 1..(n + 1) PROVE records'[i].step = i - 1
    <3>1. CASE i = n + 1
      BY <3>1, <1>1, <1>3, <1>6
    <3>2. CASE i # n + 1
      BY <3>2, <2>1, <1>1, <1>6
    <3> QED
      BY <3>1, <3>2
  <2> QED
    BY <2>2, <1>6
<1>9. \A i \in 1..(Len(records') - 1) :
        ~records'[i].success /\ records'[i].post = records'[i + 1].pre
  <2>1. \A i \in 1..(n - 1) : ~records[i].success /\ records[i].post = records[i + 1].pre
    BY DEF StepsInv, n
  <2>2. n > 0 => ~records[n].success /\ records[n].post = distance
    BY <1>1 DEF StepsInv, n, Running
  <2>3. ASSUME NEW i \in 1..n
        PROVE  ~records'[i].success /\ records'[i].post = records'[i + 1].pre
    <3>1. CASE i = n
      BY <3>1, <2>2, <1>1, <1>3, <1>6
    <3>2. CASE i # n
      <4>1. i \in 1..(n - 1) /\ i + 1 \in 1..n
        BY <3>2, <1>1
      <4> QED
        BY <4>1, <2>1, <1>6
    <3> QED
      BY <3>1, <3>2
  <2> QED
    BY <2>3, <1>1, <1>6
<1>10. Running' /\ records' # <<>> =>
         ~records'[Len(records')].success /\ records'[Len(records')].post = distance'
  <2>1. Running' => ~r.success
    BY <1>3, <1>5 DEF Running
  <2> QED
    BY <2>1, <1>3, <1>4, <1>6
<1>11. node' \in {"label", "returned"} =>
         step' >= 1 /\ (records'[Len(records')].success \/ step' = Budget)
  <2>1. node' \in {"label", "returned"} => r.success \/ step + 1 >= Budget
    BY <1>3, <1>5
  <2> QED
    BY <2>1, <1>1, <1>4, <1>6, BudgetAssumption
<1> QED
  BY <1>7, <1>8, <1>9, <1>10, <1>11 DEF StepsInv

LEMMA InitSteps == Init => StepsInv
<1> SUFFICES ASSUME Init PROVE StepsInv
  OBVIOUS
<1>1. records = <<>> /\ step = 0 /\ node = "agent_A"
  BY DEF Init
<1> QED
  BY <1>1 DEF StepsInv, Running

LEMMA NextSteps == TypeInv /\ StepsInv /\ [Next]_vars => StepsInv'
<1> SUFFICES ASSUME TypeInv, StepsInv, [Next]_vars PROVE StepsInv'
  OBVIOUS
<1>1. ASSUME NEW post \in 0..Far, Apply(post) PROVE StepsInv'
  BY <1>1, ApplySteps
<1>2. ASSUME UNCHANGED <<records, step, distance>>,
             node' = node \/ (Running /\ Running') \/ node' = "raised"
      PROVE  StepsInv'
  BY <1>2 DEF StepsInv, Running
<1>3. ASSUME \/ \E m \in Message : Emit(m)
             \/ GatePasses \/ GateRetries \/ GateGivesUp \/ GateFails
             \/ \E answer \in MacroActions \cup {"invalid"} : AgentB(answer)
             \/ ServingFails \/ UNCHANGED vars
      PROVE  StepsInv'
  <2>1. UNCHANGED <<records, step, distance>>
    BY <1>3 DEF Emit, GatePasses, GateRetries, GateGivesUp, GateFails, AgentAReturns,
                AgentB, ServingFails, vars
  <2>2. node' = node \/ (Running /\ Running') \/ node' = "raised"
    BY <1>3 DEF Emit, GatePasses, GateRetries, GateGivesUp, GateFails, AgentAReturns,
                AgentB, ServingFails, vars, Running
  <2> QED
    BY <2>1, <2>2, <1>2
<1>4. ASSUME NEW h \in Horizons, FillLabels(h) PROVE StepsInv'
  BY <1>4 DEF FillLabels, StepsInv, Running
<1> QED
  BY <1>1, <1>3, <1>4 DEF Next

(* An episode that returns has one record per step, joined end to end, and *)
(* stopped at the first that reached the goal or at the budget.            *)
THEOREM RecordsAreSteps == Spec => []OneRecordPerStep
<1>1. TypeInv /\ StepsInv => OneRecordPerStep
  BY BudgetAssumption DEF TypeInv, TypeOK, StepsInv, OneRecordPerStep
<1> QED
  BY <1>1, InitType, NextType, InitSteps, NextSteps, PTL DEF Spec

(***************************************************************************)
(* The delay of C2: what B is to read at this step is what A said at the   *)
(* last one, however often the gate makes A speak.                         *)
(***************************************************************************)
LastSaid == records[Len(records)].message_raw
Due == IF records = <<>> THEN Sentinel ELSE In("whole", LastSaid)

DelayInv ==
  /\ DelayIsOneStep
  /\ cell.condition = "C2" =>
       /\ node \in {"agent_A", "gate"} =>
            buffered = IF records = <<>> THEN NoMessage ELSE LastSaid
       /\ Speaking => delivered = Due
       /\ node \in {"agent_B", "apply"} => buffered = raw

LEMMA LastSaidIsMessage ==
  ASSUME TypeInv, records # <<>>
  PROVE  LastSaid \in Message
<1>1. records \in Seq(Record) /\ Len(records) \in 1..Len(records)
  BY DEF TypeInv, TypeOK
<1>2. records[Len(records)] \in Record
  BY <1>1
<1> QED
  BY <1>2 DEF LastSaid, Record

LEMMA ApplyDelay ==
  ASSUME TypeInv, DelayInv, NEW post \in 0..Far, Apply(post)
  PROVE  DelayInv'
<1> DEFINE r == HandoffRecord(post)
           n == Len(records)
<1>1. node = "apply" /\ records \in Seq(Record) /\ n \in Nat /\ cell' = cell
  BY DEF Apply, TypeInv, TypeOK
<1>2. r \in Record /\ r.message_raw = raw /\ r.message_delivered = delivered
  BY <1>1, RecordType DEF HandoffRecord
<1>3. records' = Append(records, r) /\ buffered' = buffered
  BY DEF Apply
<1>4. node' \in {"label", "agent_A"}
  BY DEF Apply
<1> HIDE DEF r, n
<1>5. /\ Len(records') = n + 1 /\ records'[n + 1] = r
      /\ \A i \in 1..n : records'[i] = records[i]
  BY <1>1, <1>2, <1>3, AppendRecord DEF n
<1> SUFFICES ASSUME cell.condition = "C2" PROVE DelayInv'
  BY <1>1 DEF DelayInv, DelayIsOneStep
<1>6. buffered = raw /\ delivered = Due
  BY <1>1 DEF DelayInv, Speaking
<1>7. buffered' = LastSaid' /\ records' # <<>>
  BY <1>1, <1>2, <1>3, <1>5, <1>6 DEF LastSaid
<1>8. ASSUME NEW i \in 1..Len(records')
      PROVE  records'[i].message_delivered =
               IF i = 1 THEN Sentinel ELSE In("whole", records'[i - 1].message_raw)
  <2>1. CASE i = n + 1
    <3>1. records'[i].message_delivered = Due
      BY <2>1, <1>2, <1>5, <1>6
    <3>2. CASE n = 0
      BY <3>1, <3>2, <2>1, <1>1 DEF Due, n
    <3>3. CASE n # 0
      <4>1. Due = In("whole", records[n].message_raw) /\ i - 1 = n /\ n \in 1..n /\ i # 1
        BY <3>3, <2>1, <1>1 DEF Due, LastSaid, n
      <4> QED
        BY <4>1, <3>1, <1>5
    <3> QED
      BY <3>2, <3>3
  <2>2. CASE i # n + 1
    <3>1. i \in 1..n /\ (i # 1 => i - 1 \in 1..n)
      BY <2>2, <1>1, <1>5
    <3>2. records[i].message_delivered =
            IF i = 1 THEN Sentinel ELSE In("whole", records[i - 1].message_raw)
      BY <3>1 DEF DelayInv, DelayIsOneStep, n
    <3> QED
      BY <3>1, <3>2, <1>5
  <2> QED
    BY <2>1, <2>2
<1> QED
  BY <1>4, <1>7, <1>8 DEF DelayInv, DelayIsOneStep, Speaking

LEMMA EmitDelay ==
  ASSUME TypeInv, DelayInv, NEW m \in Message, Emit(m)
  PROVE  DelayInv'
<1>1. node = "agent_A" /\ node' = "gate" /\ delivered' = Deliver(m)
      /\ UNCHANGED <<cell, buffered, records>>
  BY DEF Emit
<1>2. cell.condition = "C2" => delivered' = Due
  <2> SUFFICES ASSUME cell.condition = "C2" PROVE DelayedByOne(m) = Due
    BY <1>1 DEF Deliver
  <2>1. records # <<>> => LastSaid # NoMessage
    BY LastSaidIsMessage, NoneAssumption
  <2> QED
    BY <2>1, <1>1 DEF DelayedByOne, Due, DelayInv
<1> QED
  BY <1>1, <1>2 DEF DelayInv, DelayIsOneStep, Due, LastSaid, Speaking

LEMMA InitDelay == Init => DelayInv
<1> SUFFICES ASSUME Init PROVE DelayInv
  OBVIOUS
<1>1. records = <<>> /\ node = "agent_A" /\ buffered = NoMessage
  BY DEF Init
<1> QED
  BY <1>1 DEF DelayInv, DelayIsOneStep, Speaking

LEMMA NextDelay == TypeInv /\ DelayInv /\ [Next]_vars => DelayInv'
<1> SUFFICES ASSUME TypeInv, DelayInv, [Next]_vars PROVE DelayInv'
  OBVIOUS
<1>1. ASSUME NEW m \in Message, Emit(m) PROVE DelayInv'
  BY <1>1, EmitDelay
<1>2. ASSUME GatePasses \/ GateGivesUp PROVE DelayInv'
  BY <1>2 DEF GatePasses, GateGivesUp, AgentAReturns, NewBuffer, DelayInv,
              DelayIsOneStep, Due, LastSaid, Speaking
<1>3. ASSUME GateRetries PROVE DelayInv'
  BY <1>3 DEF GateRetries, DelayInv, DelayIsOneStep, Due, LastSaid, Speaking
<1>4. ASSUME NEW answer \in MacroActions \cup {"invalid"}, AgentB(answer) PROVE DelayInv'
  BY <1>4 DEF AgentB, handoff, DelayInv, DelayIsOneStep, Due, LastSaid, Speaking
<1>5. ASSUME ServingFails \/ GateFails PROVE DelayInv'
  BY <1>5 DEF ServingFails, GateFails, handoff, DelayInv, DelayIsOneStep, Due,
              LastSaid, Speaking
<1>6. ASSUME NEW post \in 0..Far, Apply(post) PROVE DelayInv'
  BY <1>6, ApplyDelay
<1>7. ASSUME NEW h \in Horizons, FillLabels(h) PROVE DelayInv'
  BY <1>7 DEF FillLabels, handoff, DelayInv, DelayIsOneStep, Due, LastSaid, Speaking
<1>8. CASE UNCHANGED vars
  BY <1>8 DEF vars, DelayInv, DelayIsOneStep, Due, LastSaid, Speaking
<1> QED
  BY <1>1, <1>2, <1>3, <1>4, <1>5, <1>6, <1>7, <1>8 DEF Next

(* Under C2 B reads at each step exactly what A finally said at the step   *)
(* before, and the sentinel at the first.                                  *)
THEOREM DelayedOneStep == Spec => []DelayIsOneStep
<1>1. DelayInv => DelayIsOneStep
  BY DEF DelayInv
<1> QED
  BY <1>1, InitType, NextType, InitDelay, NextDelay, PTL DEF Spec

(***************************************************************************)
(* The gate. Where it sees nothing that a re-prompt changes (the controls, *)
(* and C2 over steady vectors) its answer to this handoff is fixed: once   *)
(* it blocked it always does, and the loop ends at the retry budget only.  *)
(***************************************************************************)
CanFire == ScoresPair \/ DrawsStep
Fixed == DrawsStep \/ (cell.condition = "C2" /\ cell.steady)
FixedQuestion == IF ScoresPair THEN Due ELSE NoMessage
Blocked == message_blocked # NoMessage

(* What the loop knows of the handoff under way.                           *)
LoopInv ==
  /\ Speaking => (raw.feedback <=> retries > 0) /\ raw.step = step
  /\ Speaking /\ cell.condition # "C2" => delivered.message = raw
  /\ retries > 0 => Blocked
  /\ node \in {"agent_A", "gate"} /\ Blocked => retries > 0
  /\ Blocked => CanFire
  /\ node \in {"agent_A", "gate"} /\ Blocked /\ Fixed =>
       FixedQuestion \in DOMAIN verdicts /\ verdicts[FixedQuestion] = TRUE
  /\ node \in {"agent_B", "apply"} /\ Blocked /\ Fixed => retries = MaxRetries

(* What is kept of the first rejection, until the handoff is recorded.     *)
FirstInv ==
  Running /\ Blocked =>
    IF cell.condition = "C2" THEN message_blocked = Due
    ELSE message_blocked.message.step = step /\ ~message_blocked.message.feedback

GateInv == LoopInv /\ FirstInv /\ RetriesExplained /\ BlockedIsUngated

LEMMA InitGate == Init => GateInv
<1> SUFFICES ASSUME Init PROVE GateInv
  OBVIOUS
<1>1. /\ records = <<>> /\ node = "agent_A" /\ retries = 0 /\ message_blocked = NoMessage
  BY DEF Init
<1> QED
  BY <1>1 DEF GateInv, LoopInv, FirstInv, RetriesExplained, BlockedIsUngated,
              Speaking, Blocked

(* A record of a handoff that ended as LoopInv and FirstInv say.           *)
LEMMA ApplyGate ==
  ASSUME TypeInv, DelayInv, GateInv, NEW post \in 0..Far, Apply(post)
  PROVE  GateInv'
<1> DEFINE r == HandoffRecord(post)
           n == Len(records)
<1>1. /\ node = "apply" /\ records \in Seq(Record) /\ n \in Nat /\ cell' = cell
      /\ raw \in Message /\ delivered \in Delivery /\ retries \in 0..MaxRetries
  BY DEF Apply, TypeInv, TypeOK, LocalsInv, Speaking
<1>2. r \in Record
  BY <1>1, RecordType
<1>3. /\ r.step = step /\ r.message_raw = raw /\ r.message_delivered = delivered
      /\ r.gate_blocked = (message_blocked # NoMessage) /\ r.gate_retries = retries
      /\ r.message_blocked = message_blocked
  BY DEF HandoffRecord
<1>4. /\ records' = Append(records, r) /\ retries' = 0 /\ message_blocked' = NoMessage
      /\ node' \in {"label", "agent_A"}
  BY DEF Apply
<1> HIDE DEF r, n
<1>5. /\ Len(records') = n + 1 /\ records'[n + 1] = r
      /\ \A i \in 1..n : records'[i] = records[i]
  BY <1>1, <1>2, <1>4, AppendRecord DEF n
<1>6. LoopInv' /\ FirstInv'
  BY <1>4 DEF LoopInv, FirstInv, Speaking, Blocked
<1>7. RetriesExplained'
  <2>1. /\ r.gate_blocked <=> r.message_blocked # NoMessage
        /\ r.gate_retries > 0 => r.gate_blocked /\ r.message_raw.feedback
        /\ ~(ScoresPair \/ DrawsStep) => ~r.gate_blocked
        /\ r.gate_blocked /\ (DrawsStep \/ (cell.condition = "C2" /\ cell.steady))
             => r.gate_retries = MaxRetries
    BY <1>1, <1>3 DEF GateInv, LoopInv, Speaking, Blocked, CanFire, Fixed
  <2>2. UNCHANGED <<ScoresPair, DrawsStep>>
    BY <1>1 DEF ScoresPair, DrawsStep
  <2>3. ASSUME NEW i \in 1..(n + 1)
        PROVE  /\ records'[i].gate_blocked <=> records'[i].message_blocked # NoMessage
               /\ records'[i].gate_retries > 0 =>
                    records'[i].gate_blocked /\ records'[i].message_raw.feedback
               /\ ~(ScoresPair \/ DrawsStep) => ~records'[i].gate_blocked
               /\ records'[i].gate_blocked /\ (DrawsStep \/ (cell.condition = "C2" /\ cell.steady))
                    => records'[i].gate_retries = MaxRetries
    <3>1. CASE i = n + 1
      BY <3>1, <2>1, <1>5
    <3>2. CASE i # n + 1
      <4>1. i \in 1..n /\ records'[i] = records[i]
        BY <3>2, <1>1, <1>5
      <4> QED
        BY <4>1 DEF GateInv, RetriesExplained, n
    <3> QED
      BY <3>1, <3>2
  <2> QED
    BY <2>2, <2>3, <1>1, <1>5 DEF RetriesExplained
<1>8. BlockedIsUngated'
  <2>1. r.gate_blocked =>
          IF cell.condition = "C2" THEN r.message_blocked = r.message_delivered
          ELSE /\ r.message_blocked.message.step = r.step
               /\ ~r.message_blocked.message.feedback
    BY <1>1, <1>3 DEF GateInv, FirstInv, DelayInv, Blocked, Speaking, Running
  <2>2. ASSUME NEW i \in 1..(n + 1)
        PROVE  records'[i].gate_blocked =>
                 IF cell.condition = "C2"
                 THEN records'[i].message_blocked = records'[i].message_delivered
                 ELSE /\ records'[i].message_blocked.message.step = records'[i].step
                      /\ ~records'[i].message_blocked.message.feedback
    <3>1. CASE i = n + 1
      BY <3>1, <2>1, <1>5
    <3>2. CASE i # n + 1
      <4>1. i \in 1..n /\ records'[i] = records[i]
        BY <3>2, <1>1, <1>5
      <4> QED
        BY <4>1 DEF GateInv, BlockedIsUngated, n
    <3> QED
      BY <3>1, <3>2
  <2> QED
    BY <2>2, <1>1, <1>5 DEF BlockedIsUngated
<1> QED
  BY <1>6, <1>7, <1>8 DEF GateInv

(* The records are what they were: so are the properties of them.          *)
LEMMA SameRecords ==
  ASSUME UNCHANGED <<cell, records>>
  PROVE  /\ RetriesExplained' = RetriesExplained
         /\ BlockedIsUngated' = BlockedIsUngated
         /\ Due' = Due /\ Fixed' = Fixed /\ CanFire' = CanFire
         /\ FixedQuestion' = FixedQuestion
BY DEF RetriesExplained, BlockedIsUngated, ScoresPair, DrawsStep, Due, LastSaid,
       Fixed, CanFire, FixedQuestion

(* A says something new: the loop's bookkeeping is as it was.              *)
LEMMA EmitGate ==
  ASSUME TypeInv, GateInv, NEW m \in Message, Emit(m)
  PROVE  GateInv'
<1>1. /\ node = "agent_A" /\ node' = "gate" /\ raw' = m /\ delivered' = Deliver(m)
      /\ m.step = step /\ m.feedback = (retries > 0)
      /\ UNCHANGED <<cell, step, retries, message_blocked, verdicts, records>>
  BY DEF Emit
<1>2. cell.condition # "C2" => \E form \in {"whole", "capped", "dropped"} : delivered' = In(form, m)
  BY <1>1 DEF Deliver
<1>3. \A form : In(form, m).message = m
  BY DEF In
<1>4. cell.condition # "C2" => delivered'.message = m
  BY <1>2, <1>3
<1>5. LoopInv'
  <2>1. (raw'.feedback <=> retries' > 0) /\ raw'.step = step'
    BY <1>1
  <2>2. cell'.condition # "C2" => delivered'.message = raw'
    BY <1>1, <1>4
  <2>3. /\ retries' > 0 => Blocked'
        /\ Blocked' => retries' > 0 /\ CanFire'
        /\ Blocked' /\ Fixed' =>
             FixedQuestion' \in DOMAIN verdicts' /\ verdicts'[FixedQuestion'] = TRUE
    BY <1>1, SameRecords DEF GateInv, LoopInv, Blocked
  <2> QED
    BY <1>1, <2>1, <2>2, <2>3 DEF LoopInv
<1>6. FirstInv'
  BY <1>1, SameRecords DEF GateInv, FirstInv, Blocked, Running
<1> QED
  BY <1>1, <1>5, <1>6, SameRecords DEF GateInv

(* The gate blocks: the first rejection is kept.                           *)
LEMMA RejectionKept ==
  ASSUME TypeInv, DelayInv, GateInv, node = "gate"
  PROVE  /\ FirstRejected # NoMessage
         /\ IF cell.condition = "C2" THEN FirstRejected = Due
            ELSE FirstRejected.message.step = step /\ ~FirstRejected.message.feedback
<1>1. /\ delivered \in Delivery /\ delivered # NoMessage
      /\ retries \in Nat /\ Running /\ Speaking
  BY NoneAssumption, RetriesAssumption
  DEF TypeInv, TypeOK, LocalsInv, Speaking, Running
<1>2. CASE Blocked
  BY <1>1, <1>2 DEF FirstRejected, Blocked, GateInv, FirstInv
<1>3. CASE ~Blocked
  <2>1. FirstRejected = delivered
    BY <1>3 DEF FirstRejected, Blocked
  <2>2. ~raw.feedback /\ raw.step = step
    BY <1>1, <1>3 DEF GateInv, LoopInv
  <2>3. cell.condition # "C2" => delivered.message = raw
    BY <1>1 DEF GateInv, LoopInv
  <2>4. cell.condition = "C2" => delivered = Due
    BY <1>1 DEF DelayInv
  <2> QED
    BY <1>1, <2>1, <2>2, <2>3, <2>4
<1> QED
  BY <1>2, <1>3

(* Where the answer is fixed, the question asked now is the fixed one.     *)
LEMMA SameQuestion ==
  ASSUME DelayInv, node = "gate", Fixed
  PROVE  Question = FixedQuestion
<1>1. ScoresPair => ~DrawsStep
  BY DEF ScoresPair, DrawsStep
<1>2. ScoresPair => delivered = Due
  BY <1>1 DEF Fixed, DelayInv, Speaking
<1> QED
  BY <1>2 DEF Question, FixedQuestion

LEMMA PassGate ==
  ASSUME TypeInv, DelayInv, GateInv, GatePasses
  PROVE  GateInv'
<1>1. /\ node = "gate" /\ node' = "agent_B" /\ MayAnswer(FALSE)
      /\ UNCHANGED <<cell, step, raw, delivered, retries, message_blocked, records>>
  BY DEF GatePasses, AgentAReturns
<1>2. ~(Blocked /\ Fixed)
  <2> SUFFICES ASSUME Blocked, Fixed PROVE FALSE
    OBVIOUS
  <2>1. Question \in DOMAIN verdicts /\ verdicts[Question] = TRUE /\ CanFire
    BY <1>1, SameQuestion DEF GateInv, LoopInv
  <2>2. cell.steady
    BY DEF Fixed, DrawsStep, TypeInv, TypeOK, Cell
  <2> QED
    BY <2>1, <2>2, <1>1 DEF MayAnswer, CanFire
<1>3. LoopInv'
  BY <1>1, <1>2, SameRecords DEF GateInv, LoopInv, Blocked, Speaking
<1>4. FirstInv'
  BY <1>1, SameRecords DEF GateInv, FirstInv, Blocked, Running
<1> QED
  BY <1>1, <1>3, <1>4, SameRecords DEF GateInv

LEMMA BlockGate ==
  ASSUME TypeInv, DelayInv, GateInv, GateRetries \/ GateGivesUp
  PROVE  GateInv'
<1>1. /\ node = "gate" /\ MayAnswer(TRUE) /\ Remember(TRUE)
      /\ message_blocked' = FirstRejected
      /\ UNCHANGED <<cell, step, raw, delivered, records>>
      /\ \/ node' = "agent_A" /\ retries' = retries + 1
         \/ node' = "agent_B" /\ retries' = retries /\ ~RetryLeft
  BY DEF GateRetries, GateGivesUp, AgentAReturns, NextCount
<1>2. /\ FirstRejected # NoMessage
      /\ IF cell.condition = "C2" THEN FirstRejected = Due
         ELSE FirstRejected.message.step = step /\ ~FirstRejected.message.feedback
  BY <1>1, RejectionKept
<1>3. CanFire
  BY <1>1 DEF MayAnswer, CanFire
<1>4. Fixed => FixedQuestion \in DOMAIN verdicts' /\ verdicts'[FixedQuestion] = TRUE
  BY <1>1, SameQuestion DEF Remember
<1>5. retries \in 0..MaxRetries /\ (~RetryLeft => retries = MaxRetries)
  BY RetriesAssumption DEF TypeInv, TypeOK, RetryLeft
<1>6. LoopInv'
  <2>1. Speaking' => (raw'.feedback <=> retries' > 0) /\ raw'.step = step'
    BY <1>1 DEF GateInv, LoopInv, Speaking
  <2>2. Speaking' /\ cell'.condition # "C2" => delivered'.message = raw'
    BY <1>1 DEF GateInv, LoopInv, Speaking
  <2>3. Blocked'
    BY <1>1, <1>2 DEF Blocked
  <2>4. node' \in {"agent_A", "gate"} => retries' > 0
    BY <1>1, <1>5, RetriesAssumption
  <2> QED
    BY <1>1, <1>3, <1>4, <1>5, <2>1, <2>2, <2>3, <2>4, SameRecords DEF LoopInv
<1>7. FirstInv'
  BY <1>1, <1>2, SameRecords DEF FirstInv
<1> QED
  BY <1>1, <1>6, <1>7, SameRecords DEF GateInv

LEMMA NextGate == TypeInv /\ DelayInv /\ GateInv /\ [Next]_vars => GateInv'
<1> SUFFICES ASSUME TypeInv, DelayInv, GateInv, [Next]_vars PROVE GateInv'
  OBVIOUS
<1>1. ASSUME NEW m \in Message, Emit(m) PROVE GateInv'
  BY <1>1, EmitGate
<1>2. ASSUME GatePasses \/ GateRetries \/ GateGivesUp PROVE GateInv'
  BY <1>2, PassGate, BlockGate
<1>3. ASSUME \/ \E answer \in MacroActions \cup {"invalid"} : AgentB(answer)
             \/ ServingFails \/ GateFails \/ \E h \in Horizons : FillLabels(h)
             \/ UNCHANGED vars
      PROVE  GateInv'
  <2>1. UNCHANGED <<cell, step, handoff, records>>
    BY <1>3 DEF AgentB, ServingFails, GateFails, FillLabels, vars, handoff
  <2>2. \/ node' = node \/ node' \in {"raised", "returned"}
        \/ node = "agent_B" /\ node' = "apply"
    BY <1>3 DEF AgentB, ServingFails, GateFails, FillLabels, vars
  <2>3. LoopInv'
    BY <2>1, <2>2, SameRecords DEF GateInv, LoopInv, Blocked, Speaking, handoff
  <2>4. FirstInv'
    BY <2>1, <2>2, SameRecords DEF GateInv, FirstInv, Blocked, Running, handoff
  <2> QED
    BY <2>1, <2>3, <2>4, SameRecords DEF GateInv
<1>4. ASSUME NEW post \in 0..Far, Apply(post) PROVE GateInv'
  BY <1>4, ApplyGate
<1> QED
  BY <1>1, <1>2, <1>3, <1>4 DEF Next

LEMMA GateInvariant == Spec => [](TypeInv /\ DelayInv /\ GateInv)
BY InitType, NextType, InitDelay, NextDelay, InitGate, NextGate, PTL DEF Spec

(* The gate fields of a record tell one story: re-prompts only after a     *)
(* block, blocks only where a gate can fire, and where a re-prompt cannot  *)
(* change the answer a block costs the whole retry budget.                 *)
THEOREM GateFieldsAgree == Spec => []RetriesExplained
<1>1. GateInv => RetriesExplained
  BY DEF GateInv
<1> QED
  BY <1>1, GateInvariant, PTL

(* message_blocked is what B would have read without the gate.             *)
THEOREM BlockedIsFirst == Spec => []BlockedIsUngated
<1>1. GateInv => BlockedIsUngated
  BY DEF GateInv
<1> QED
  BY <1>1, GateInvariant, PTL

(* B reads what the gate accepted, unless the retry budget is spent.       *)
THEOREM AcceptedOrSpent == Spec => []OnlyAcceptedOrSpent
<1>1. Init => OnlyAcceptedOrSpent
  BY DEF Init, OnlyAcceptedOrSpent
<1>2. TypeInv /\ OnlyAcceptedOrSpent /\ [Next]_vars => OnlyAcceptedOrSpent'
  <2> SUFFICES ASSUME TypeInv, OnlyAcceptedOrSpent, [Next]_vars PROVE OnlyAcceptedOrSpent'
    OBVIOUS
  <2>1. CASE GatePasses
    BY <2>1 DEF GatePasses, AgentAReturns, Remember, Question, OnlyAcceptedOrSpent, ScoresPair
  <2>2. CASE GateGivesUp
    BY <2>2, RetriesAssumption
    DEF GateGivesUp, AgentAReturns, RetryLeft, OnlyAcceptedOrSpent, TypeInv, TypeOK
  <2>3. ASSUME NEW answer \in MacroActions \cup {"invalid"}, AgentB(answer)
        PROVE  OnlyAcceptedOrSpent'
    BY <2>3 DEF AgentB, handoff, OnlyAcceptedOrSpent, ScoresPair
  <2>4. ASSUME node' \in {"gate", "agent_A", "raised", "label", "returned"}
        PROVE  OnlyAcceptedOrSpent'
    BY <2>4 DEF OnlyAcceptedOrSpent
  <2>5. CASE UNCHANGED vars
    BY <2>5 DEF vars, OnlyAcceptedOrSpent, ScoresPair
  <2> QED
    BY <2>1, <2>2, <2>3, <2>4, <2>5
    DEF Next, Emit, GateRetries, GateFails, ServingFails, Apply, FillLabels
<1> QED
  BY <1>1, <1>2, InitType, NextType, PTL DEF Spec
(***************************************************************************)
(* Labels. Progress adds up: the steps join end to end, so that the sum    *)
(* over a window is the distance from where it starts to where it ends.    *)
(***************************************************************************)
(* The running sum of D, from 0 on.                                        *)
Cumulates(g, D) == g = [n \in Nat |-> IF n = 0 THEN 0 ELSE g[n - 1] + D[n]]

LEMMA CumulatesExists ==
  ASSUME NEW D
  PROVE  \E g : Cumulates(g, D)
<1> DEFINE UpTo(n, f) == /\ DOMAIN f = 0..n /\ f[0] = 0
                         /\ \A i \in 1..n : f[i] = f[i - 1] + D[i]
           P == {n \in Nat : \E f : UpTo(n, f)}
<1>1. Nat \subseteq P
  <2>1. 0 \in P
    <3>1. UpTo(0, [i \in 0..0 |-> 0])
      OBVIOUS
    <3> HIDE DEF UpTo
    <3> QED BY <3>1
  <2>2. ASSUME NEW n \in Nat, n \in P
        PROVE  n + 1 \in P
    <3>1. PICK f : UpTo(n, f)
      BY <2>2
    <3> DEFINE h == [i \in 0 .. n + 1 |-> IF i = n + 1 THEN f[n] + D[n + 1] ELSE f[i]]
    <3>2. UpTo(n + 1, h)
      BY <3>1
    <3> HIDE DEF UpTo, h
    <3> QED BY <3>2
  <2> HIDE DEF P
  <2> QED BY <2>1, <2>2, NatSetInduction
<1>2. \A n \in Nat : \E f : UpTo(n, f)
  BY <1>1
<1> DEFINE F(n) == CHOOSE f : UpTo(n, f)
           g == [n \in Nat |-> F(n)[n]]
<1>3. \A n \in Nat : UpTo(n, F(n))
  <2> HIDE DEF UpTo
  <2> QED BY <1>2
<1> HIDE DEF F
(* Two that run up to a number agree as far as both go.                    *)
<1>4. ASSUME NEW m \in Nat
      PROVE  F(m + 1)[m] = F(m)[m]
  <2> DEFINE Q == {n \in Nat : n <= m => F(m + 1)[n] = F(m)[n]}
  <2>0. UpTo(m, F(m)) /\ UpTo(m + 1, F(m + 1))
    BY <1>3
  <2>1. 0 \in Q
    BY <2>0
  <2>2. ASSUME NEW n \in Nat, n \in Q
        PROVE  n + 1 \in Q
    <3> SUFFICES ASSUME n + 1 <= m PROVE F(m + 1)[n + 1] = F(m)[n + 1]
      OBVIOUS
    <3>1. n + 1 \in 1..m /\ n + 1 \in 1 .. m + 1 /\ (n + 1) - 1 = n
      OBVIOUS
    <3>2. F(m + 1)[n + 1] = F(m + 1)[n] + D[n + 1]
      BY <2>0, <3>1
    <3>3. F(m)[n + 1] = F(m)[n] + D[n + 1]
      BY <2>0, <3>1
    <3>4. F(m + 1)[n] = F(m)[n]
      BY <2>2
    <3> QED BY <3>2, <3>3, <3>4
  <2>3. Nat \subseteq Q
    <3> HIDE DEF Q
    <3> QED BY <2>1, <2>2, NatSetInduction
  <2> QED BY <2>3
<1>5. ASSUME NEW n \in Nat
      PROVE  g[n] = IF n = 0 THEN 0 ELSE g[n - 1] + D[n]
  <2>1. CASE n = 0
    BY <1>3, <2>1
  <2>2. CASE n # 0
    <3>1. n - 1 \in Nat /\ (n - 1) + 1 = n /\ n \in 1..n
      BY <2>2
    <3>2. F(n)[n] = F(n)[n - 1] + D[n]
      BY <1>3, <3>1
    <3>3. F(n)[n - 1] = F(n - 1)[n - 1]
      BY <1>4, <3>1
    <3>4. g[n] = F(n)[n] /\ g[n - 1] = F(n - 1)[n - 1]
      BY <3>1
    <3> QED BY <2>2, <3>2, <3>3, <3>4
  <2> QED BY <2>1, <2>2
<1>6. g = [n \in Nat |-> g[n]]
  OBVIOUS
<1>7. Cumulates(g, D)
  <2> HIDE DEF g
  <2> QED BY <1>5, <1>6, Zenon DEF Cumulates
<1> HIDE DEF g
<1> QED BY <1>7

LEMMA ProgressRuns ==
  /\ Progress[0] = 0
  /\ \A n \in Nat \ {0} : Progress[n] = Progress[n - 1] + (records[n].pre - records[n].post)
<1> DEFINE D == [n \in Nat |-> records[n].pre - records[n].post]
           Adds1(g) == g = [n \in Nat |-> IF n = 0 THEN 0
                                          ELSE g[n - 1] + (records[n].pre - records[n].post)]
<1>1. \A g : Cumulates(g, D) => Adds1(g)
  BY DEF Cumulates
<1>2. \E g : Adds1(g)
  <2> HIDE DEF D, Adds1
  <2> QED BY <1>1, CumulatesExists
<1>3. Progress = CHOOSE g : Adds1(g)
  BY DEF Progress
<1>4. Adds1(Progress)
  <2> HIDE DEF Adds1
  <2> QED BY <1>2, <1>3
<1>5. \A n \in Nat : Progress[n] = IF n = 0 THEN 0
                    ELSE Progress[n - 1] + (records[n].pre - records[n].post)
  <2> DEFINE g == Progress
  <2>1. g = [n \in Nat |-> IF n = 0 THEN 0 ELSE g[n - 1] + (records[n].pre - records[n].post)]
    BY <1>4
  <2> HIDE DEF g
  <2>2. \A n \in Nat : g[n] = IF n = 0 THEN 0
                              ELSE g[n - 1] + (records[n].pre - records[n].post)
    BY <2>1
  <2> QED BY <2>2 DEF g
<1> QED BY <1>5
(* Records joined end to end: the progress to a record is the distance     *)
(* from the first one's start to its end.                                  *)
LEMMA ProgressTelescopes ==
  ASSUME records \in Seq(Record),
         \A i \in 1 .. Len(records) - 1 : records[i].post = records[i + 1].pre,
         NEW n \in 1..Len(records)
  PROVE  Progress[n] = records[1].pre - records[n].post
<1> DEFINE P == {m \in Nat : m \in 1..Len(records) =>
                               Progress[m] = records[1].pre - records[m].post}
<1>1. \A m \in 1..Len(records) : records[m].pre \in Int /\ records[m].post \in Int
  <2>1. \A m \in 1..Len(records) : records[m] \in Record
    OBVIOUS
  <2>2. \A r \in Record : r.pre \in 0..Far /\ r.post \in 0..Far
    BY DEF Record
  <2>3. 0..Far \subseteq Int
    BY FarAssumption
  <2> QED BY <2>1, <2>2, <2>3
<1>2. Len(records) \in Nat
  OBVIOUS
<1>3. 0 \in P
  OBVIOUS
<1>4. ASSUME NEW m \in Nat, m \in P
      PROVE  m + 1 \in P
  <2> SUFFICES ASSUME m + 1 \in 1..Len(records)
               PROVE  Progress[m + 1] = records[1].pre - records[m + 1].post
    OBVIOUS
  <2>1. Progress[m + 1] = Progress[m] + (records[m + 1].pre - records[m + 1].post)
    <3>1. m + 1 \in Nat \ {0} /\ (m + 1) - 1 = m
      OBVIOUS
    <3> QED BY <3>1, ProgressRuns
  <2>2. CASE m = 0
    <3>1. Progress[m] = 0 /\ m + 1 = 1
      BY <2>2, ProgressRuns
    <3> QED BY <1>1, <2>1, <2>2, <3>1
  <2>3. CASE m # 0
    <3>1. m \in 1..Len(records) /\ m \in 1 .. Len(records) - 1
      BY <1>2, <2>3
    <3>2. Progress[m] = records[1].pre - records[m].post
      BY <1>4, <3>1
    <3>3. records[m].post = records[m + 1].pre
      BY <3>1
    <3>4. /\ records[1].pre \in Int /\ records[m].post \in Int
          /\ records[m + 1].pre \in Int /\ records[m + 1].post \in Int
      BY <1>1, <1>2, <3>1
    <3> QED BY <2>1, <3>2, <3>3, <3>4
  <2> QED BY <2>2, <2>3
<1>5. Nat \subseteq P
  <2> HIDE DEF P
  <2> QED BY <1>3, <1>4, NatSetInduction
<1> QED BY <1>2, <1>5

(* The last record of the window in the words of the property.             *)
LEMMA WindowEndIs ==
  ASSUME NEW n \in Nat, NEW i \in 1..n, NEW h \in Nat \ {0}
  PROVE  /\ WindowEnd(i, n, h) \in i..n
         /\ (CHOOSE j \in i..n : \A m \in i..n : m < i + h => m <= j /\ j < i + h)
               = WindowEnd(i, n, h)
<1> DEFINE Last(j) == \A m \in i..n : m < i + h => m <= j /\ j < i + h
           w == WindowEnd(i, n, h)
<1>1. w \in i..n /\ Last(w)
  BY DEF WindowEnd
<1>2. ASSUME NEW j \in i..n, Last(j)
      PROVE  j = w
  <2>1. w < i + h /\ (w = n \/ w = i + h - 1)
    BY DEF WindowEnd
  <2>2. w <= j
    BY <1>1, <1>2, <2>1
  <2>3. i < i + h /\ i \in i..n
    OBVIOUS
  <2>4. j < i + h /\ j <= n
    BY <1>2, <2>3
  <2> HIDE DEF w
  <2> QED BY <1>1, <2>1, <2>2, <2>4
<1> HIDE DEF w, Last
<1>3. (CHOOSE j \in i..n : Last(j)) = w
  BY <1>1, <1>2
<1> QED BY <1>1, <1>3 DEF w, Last

(* Once the episode has returned its labels are those of its records.      *)
LabelInv == node = "returned" => k \in Horizons /\ labels = LabelEpisode(records, k)

LEMMA LabelStep == LabelInv /\ [Next]_vars => LabelInv'
<1> SUFFICES ASSUME LabelInv, [Next]_vars PROVE LabelInv'
  OBVIOUS
<1>1. ASSUME NEW h \in Horizons, FillLabels(h) PROVE LabelInv'
  <2>1. k' = h /\ labels' = LabelEpisode(records, h) /\ records' = records
    BY <1>1 DEF FillLabels
  <2>2. LabelEpisode(records, k)' = LabelEpisode(records', k')
    BY DEF LabelEpisode, SuccessFrom
  <2> QED BY <2>1, <2>2 DEF LabelInv
<1>2. CASE UNCHANGED vars
  <2>1. k' = k /\ labels' = labels /\ records' = records /\ node' = node
    BY <1>2 DEF vars
  <2>2. LabelEpisode(records, k)' = LabelEpisode(records', k')
    BY DEF LabelEpisode, SuccessFrom
  <2> QED BY <2>1, <2>2 DEF LabelInv
<1>3. CASE node' # "returned"
  BY <1>3 DEF LabelInv
<1> QED
  BY <1>1, <1>2, <1>3
  DEF Next, Emit, GatePasses, GateRetries, GateGivesUp, AgentAReturns, GateFails, AgentB,
      ServingFails, Apply

LEMMA LabelsFollow == TypeOK /\ OneRecordPerStep /\ LabelInv => LabelsMeanWhatTheySay
<1> SUFFICES ASSUME TypeOK, OneRecordPerStep, LabelInv, node = "returned"
             PROVE  /\ Len(labels) = Len(records)
                    /\ \A i \in 1..Len(labels) :
                         LET last == CHOOSE j \in i..Len(records) :
                               \A m \in i..Len(records) : m < i + k => m <= j /\ j < i + k IN
                         /\ labels[i].y_continuous_displacement = Progress[last] - Progress[i - 1]
                         /\ labels[i].y_terminal_success = records[Len(records)].success
                         /\ labels[i].y_window_truncated <=> Len(records) - i < k - 1
  BY DEF LabelsMeanWhatTheySay
<1> DEFINE n == Len(records)
<1>1. /\ records \in Seq(Record) /\ n \in Nat /\ n \in 1..Budget
      /\ \A i \in 1 .. n - 1 : ~records[i].success /\ records[i].post = records[i + 1].pre
  BY DEF TypeOK, OneRecordPerStep
<1>2. k \in Nat \ {0} /\ labels = LabelEpisode(records, k)
  BY HorizonsAssumption DEF LabelInv
<1>3. Len(labels) = n
  <2>1. DOMAIN labels = 1..n
    BY <1>2 DEF LabelEpisode
  <2>2. labels \in Seq(Label)
    BY DEF TypeOK
  <2> QED BY <1>1, <2>1, <2>2
<1>4. ASSUME NEW i \in 1..n
      PROVE  /\ labels[i].y_continuous_displacement =
                  records[i].pre - records[WindowEnd(i, n, k)].post
             /\ labels[i].y_terminal_success = SuccessFrom(records, i)
             /\ labels[i].y_window_truncated = Truncated(i, n, k)
  BY <1>2 DEF LabelEpisode
<1>5. \A i \in 1..n : /\ records[i].pre \in Int /\ records[i].post \in Int
                      /\ records[i].success \in BOOLEAN
  <2>1. \A i \in 1..n : records[i] \in Record
    BY <1>1
  <2>2. \A r \in Record : r.pre \in 0..Far /\ r.post \in 0..Far /\ r.success \in BOOLEAN
    BY DEF Record
  <2>3. 0..Far \subseteq Int
    BY FarAssumption
  <2> QED BY <2>1, <2>2, <2>3
<1> HIDE DEF n
<1>6. ASSUME NEW i \in 1..n
      PROVE  Progress[WindowEnd(i, n, k)] - Progress[i - 1] =
               records[i].pre - records[WindowEnd(i, n, k)].post
  <2> DEFINE w == WindowEnd(i, n, k)
  <2>1. w \in 1..n
    <3>1. w \in i..n
      BY <1>1, <1>2, WindowEndIs
    <3> HIDE DEF w
    <3> QED BY <1>1, <3>1
  <2> HIDE DEF w
  <2>2. \A j \in 1..n : Progress[j] = records[1].pre - records[j].post
    BY <1>1, ProgressTelescopes DEF n
  <2>3. Progress[i - 1] = records[1].pre - records[i].pre
    <3>1. CASE i = 1
      <4>1. Progress[i - 1] = 0
        BY <3>1, ProgressRuns
      <4> QED BY <1>5, <3>1, <4>1
    <3>2. CASE i # 1
      <4>1. i - 1 \in 1..n /\ i - 1 \in 1 .. n - 1 /\ (i - 1) + 1 = i
        BY <1>1, <3>2
      <4> QED BY <1>1, <2>2, <4>1
    <3> QED BY <3>1, <3>2
  <2>4. 1 \in 1..n
    BY <1>1
  <2>5. Progress[w] = records[1].pre - records[w].post
    BY <2>1, <2>2
  <2> QED BY <1>5, <2>1, <2>3, <2>4, <2>5 DEF w
<1>7. ASSUME NEW i \in 1..n
      PROVE  labels[i].y_terminal_success = records[n].success
  <2>1. SuccessFrom(records, i) <=> \E j \in i..n : records[j].success
    BY DEF SuccessFrom, n
  <2>2. \A j \in i..n : j # n => ~records[j].success
    BY <1>1
  <2>3. n \in i..n /\ n \in 1..n
    BY <1>1
  <2>4. SuccessFrom(records, i) <=> records[n].success
    BY <2>1, <2>2, <2>3
  <2>5. records[n].success \in BOOLEAN /\ SuccessFrom(records, i) \in BOOLEAN
    BY <1>5, <2>3 DEF SuccessFrom
  <2> QED BY <1>4, <2>4, <2>5
<1>8. ASSUME NEW i \in 1..n
      PROVE  labels[i].y_window_truncated <=> n - i < k - 1
  <2>1. labels[i].y_window_truncated = Truncated(i, n, k)
    BY <1>4
  <2>2. Truncated(i, n, k) <=> n - i < k - 1
    BY <1>1, <1>2 DEF Truncated
  <2> QED BY <2>1, <2>2
<1>9. ASSUME NEW i \in 1..n
      PROVE  (CHOOSE j \in i..n : \A m \in i..n : m < i + k => m <= j /\ j < i + k)
               = WindowEnd(i, n, k)
  BY <1>1, <1>2, WindowEndIs
<1>10. ASSUME NEW i \in 1..n
       PROVE  LET last == CHOOSE j \in i..n :
                            \A m \in i..n : m < i + k => m <= j /\ j < i + k
              IN  /\ labels[i].y_continuous_displacement = Progress[last] - Progress[i - 1]
                  /\ labels[i].y_terminal_success = records[n].success
                  /\ labels[i].y_window_truncated <=> n - i < k - 1
  <2> DEFINE last == CHOOSE j \in i..n : \A m \in i..n : m < i + k => m <= j /\ j < i + k
  <2>1. last = WindowEnd(i, n, k)
    BY <1>9
  <2> HIDE DEF last
  <2>2. labels[i].y_continuous_displacement = Progress[last] - Progress[i - 1]
    BY <1>4, <1>6, <2>1, Zenon
  <2>3. /\ labels[i].y_terminal_success = records[n].success
        /\ labels[i].y_window_truncated <=> n - i < k - 1
    BY <1>7, <1>8
  <2> QED BY <2>2, <2>3, Zenon DEF last
<1> QED BY <1>3, <1>10 DEF n

(* The labels of every returned episode are what their words say: the      *)
(* displacement of a handoff is the progress summed over its window, its   *)
(* terminal success the episode's (outcomes.py, label_episode).            *)
THEOREM LabelsAlwaysMean == Spec => []LabelsMeanWhatTheySay
<1>1. Init => LabelInv
  BY DEF Init, LabelInv
<1> QED BY <1>1, LabelStep, LabelsFollow, EpisodeTypes, RecordsAreSteps, PTL DEF Spec
(***************************************************************************)
(* How long an episode can be. Each handoff goes through at most           *)
(* MaxRetries + 1 turns of A and of the gate, one of B and one push.       *)
(***************************************************************************)
Span == 2 * MaxRetries + 4
Place ==
  CASE node = "agent_A" -> 2 * retries
    [] node = "gate"    -> 2 * retries + 1
    [] node = "agent_B" -> 2 * MaxRetries + 2
    [] node = "apply"   -> 2 * MaxRetries + 3
    [] OTHER            -> 0
(* How far the episode is, and how far it can get.                         *)
Advance == IF node \in Over THEN Budget * Span + 1 ELSE step * Span + Place
Longest == Budget * Span + 1

LEMMA Multiples ==
  ASSUME NEW a \in Nat, NEW b \in Nat, NEW c \in Nat
  PROVE  /\ a * c \in Nat /\ (a + 1) * c = a * c + c
         /\ a <= b => a * c <= b * c
         /\ a < b => a * c + c <= b * c
<1>1. \A x, y \in Nat : x * y \in Nat
  OBVIOUS
<1>2. (a + 1) * c = a * c + c
  OBVIOUS
<1>3. ASSUME a <= b PROVE a * c <= b * c
  <2>1. b - a \in Nat /\ a + (b - a) = b
    BY <1>3
  <2>2. (a + (b - a)) * c = a * c + (b - a) * c
    BY <2>1
  <2>3. (b - a) * c \in Nat /\ a * c \in Nat
    BY <1>1, <2>1
  <2>4. b * c = a * c + (b - a) * c
    BY <2>1, <2>2
  <2> QED BY <2>3, <2>4
<1>4. ASSUME a < b PROVE a * c + c <= b * c
  <2>1. b - (a + 1) \in Nat /\ (a + 1) + (b - (a + 1)) = b
    BY <1>4
  <2>2. ((a + 1) + (b - (a + 1))) * c = (a + 1) * c + (b - (a + 1)) * c
    BY <2>1
  <2>3. (b - (a + 1)) * c \in Nat /\ a * c \in Nat
    BY <1>1, <2>1
  <2>4. b * c = (a + 1) * c + (b - (a + 1)) * c
    BY <2>1, <2>2
  <2> QED BY <1>2, <2>3, <2>4
<1> QED BY <1>1, <1>2, <1>3, <1>4

LEMMA AdvanceBounded == TypeOK => Advance \in 0..Longest /\ (node \notin Over => Advance < Longest)
<1> SUFFICES ASSUME TypeOK PROVE Advance \in 0..Longest /\ (node \notin Over => Advance < Longest)
  OBVIOUS
<1>1. /\ Span \in Nat /\ Budget \in Nat /\ step \in Nat /\ step <= Budget
      /\ retries \in Nat /\ retries <= MaxRetries /\ MaxRetries \in Nat
      /\ Span = 2 * MaxRetries + 4
      /\ node \in {"agent_A", "gate", "agent_B", "apply"} => step < Budget
  BY BudgetAssumption, RetriesAssumption DEF TypeOK, Span
<1>2. /\ step * Span \in Nat /\ Budget * Span \in Nat /\ step * Span <= Budget * Span
      /\ step < Budget => step * Span + Span <= Budget * Span
  BY <1>1, Multiples
<1>3. /\ Place \in Nat /\ Place < Span
      /\ node \notin {"agent_A", "gate", "agent_B", "apply"} => Place = 0
  BY <1>1 DEF Place
<1> DEFINE x == step * Span
           y == Budget * Span
<1>4. x \in Nat /\ y \in Nat /\ x <= y /\ (step < Budget => x + Span <= y)
  BY <1>2
<1>5. Advance = (IF node \in Over THEN y + 1 ELSE x + Place) /\ Longest = y + 1
  BY DEF Advance, Longest
<1> HIDE DEF x, y
<1> QED BY <1>1, <1>3, <1>4, <1>5

(* Every step brings the episode further, and there is a furthest: from    *)
(* any start, whatever the endpoints and the gate answer, run_episode is   *)
(* over after Longest steps at the most.                                   *)
THEOREM EveryStepAdvances ==
  Spec => [](Advance \in 0..Longest) /\ [][Advance' > Advance]_vars
<1>1. TypeInv /\ [Next]_vars => [Advance' > Advance]_vars
  <2> SUFFICES ASSUME TypeInv, TypeInv', Next PROVE Advance' > Advance
    BY NextType
  <2>0. /\ Span \in Nat /\ step \in Nat /\ retries \in Nat /\ retries <= MaxRetries
        /\ MaxRetries \in Nat /\ Span = 2 * MaxRetries + 4
        /\ step * Span \in Nat /\ (step + 1) * Span = step * Span + Span
    <3>1. /\ Span \in Nat /\ step \in Nat /\ retries \in Nat /\ retries <= MaxRetries
          /\ MaxRetries \in Nat /\ Span = 2 * MaxRetries + 4
      BY BudgetAssumption, RetriesAssumption DEF TypeInv, TypeOK, Span
    <3> QED BY <3>1, Multiples
  <2>1. CASE node \notin Over /\ node' \in Over
    <3>1. Advance' = Longest
      BY <2>1 DEF Advance, Longest
    <3>2. Advance < Longest /\ Advance \in 0..Longest
      BY <2>1, AdvanceBounded DEF TypeInv
    <3>3. Longest \in Nat
      BY BudgetAssumption, <2>0 DEF Longest
    <3> QED BY <3>1, <3>2, <3>3
  <2>2. ASSUME node \notin Over, node' \notin Over, step' = step, Place' > Place
        PROVE  Advance' > Advance
    <3> DEFINE x == step * Span
    <3>1. Advance = x + Place /\ Advance' = x + Place' /\ x \in Nat
      BY <2>0, <2>2 DEF Advance, Span
    <3>2. Place \in Int /\ Place' \in Int
      <4>1. retries' \in Int
        BY RetriesAssumption DEF TypeInv, TypeOK
      <4> QED BY <2>0, <4>1 DEF Place
    <3> HIDE DEF x
    <3>3. x + Place' > x + Place
      <4>1. \A a, b, c \in Int : a > b => c + a > c + b
        OBVIOUS
      <4>2. x \in Int
        BY <3>1
      <4> QED BY <2>2, <3>2, <4>1, <4>2
    <3> QED BY <3>1, <3>3
  <2>3. ASSUME NEW m \in Message, Emit(m) PROVE Advance' > Advance
    <3>1. Place' > Place
      BY <2>0, <2>3 DEF Emit, Place
    <3> QED BY <2>2, <2>3, <3>1 DEF Emit, Over
  <2>4. ASSUME node = "gate", AgentAReturns PROVE Advance' > Advance
    <3>1. Place' > Place
      BY <2>0, <2>4 DEF AgentAReturns, Place
    <3> QED BY <2>2, <2>4, <3>1 DEF AgentAReturns, Over
  <2>5. CASE GateRetries
    <3>1. Place' > Place
      BY <2>0, <2>5 DEF GateRetries, NextCount, Place
    <3> QED BY <2>2, <2>5, <3>1 DEF GateRetries, Over
  <2>6. ASSUME NEW answer, AgentB(answer) PROVE Advance' > Advance
    <3>1. Place' > Place
      BY <2>0, <2>6 DEF AgentB, Place
    <3> QED BY <2>2, <2>6, <3>1 DEF AgentB, Over
  <2>7. ASSUME NEW post \in 0..Far, Apply(post) PROVE Advance' > Advance
    <3> DEFINE x == step * Span
    <3>1. /\ node = "apply" /\ node' \in {"label", "agent_A"} /\ step' = step + 1 /\ retries' = 0
      BY <2>7 DEF Apply
    <3>2. Place = 2 * MaxRetries + 3 /\ Place' = 0
      BY <2>0, <3>1 DEF Place
    <3>3. Advance = x + Place /\ Advance' = (step + 1) * Span + Place'
      BY <3>1 DEF Advance, Over, Span
    <3>4. x \in Nat /\ (step + 1) * Span = x + Span
      BY <2>0
    <3> HIDE DEF x
    <3> QED BY <2>0, <3>2, <3>3, <3>4
  <2>8. CASE GateFails \/ ServingFails
    BY <2>1, <2>8 DEF GateFails, ServingFails, Over
  <2>9. ASSUME NEW h, FillLabels(h) PROVE Advance' > Advance
    BY <2>1, <2>9 DEF FillLabels, Over
  <2> QED BY <2>3, <2>4, <2>5, <2>6, <2>7, <2>8, <2>9 DEF Next, GatePasses, GateGivesUp
<1>2. TypeInv => TypeOK
  BY DEF TypeInv
<1> QED BY <1>1, <1>2, InitType, NextType, AdvanceBounded, PTL DEF Spec
=============================================================================
