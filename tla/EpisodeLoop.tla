----------------------------- MODULE EpisodeLoop -----------------------------
(***************************************************************************)
(* One episode of the two-agent negotiation loop (agents/graph.py): the    *)
(* graph agent_A -> agent_B -> apply over one cell of the grid, with the   *)
(* degradation ladder C0-C4 on A's message (agents/channel.py), the        *)
(* runtime gate and its bounded re-prompts (gate/integration.py,           *)
(* gate/controls.py), and the labels filled in when the episode is over    *)
(* (sim/outcomes.py). EpisodeRunner shares nothing between episodes but    *)
(* its clients and its gate, so one episode is modelled alone.             *)
(*                                                                         *)
(*   agent_A <-> gate --> agent_B --> apply --> agent_A or label           *)
(*                                                                         *)
(* The load's pose is its geodesic distance to the goal in whole steps     *)
(* (0 is the goal region). A message is the step it was written at,        *)
(* whether the prompt carried the gate's feedback, and a wording. What     *)
(* the prompts, the scene and the records say in words, and the contact,   *)
(* stuck and chamber fields, which nothing reads, are left out.            *)
(*                                                                         *)
(* A small definition that carries a decision of the code is preceded by   *)
(* the regression of it that the properties are tried against.             *)
(***************************************************************************)
EXTENDS Integers, Sequences, FiniteSets

CONSTANTS
  Conditions,   \* the channel conditions of the grid
  Modes,        \* the gate arms; "none" is a runner without a gate
  Budget,       \* the step budget of the cell's difficulty
  MaxRetries,   \* GateConfig.max_retries
  Wordings,     \* the answers an endpoint may give to one prompt
  Far,          \* the largest distance to the goal
  Horizons,     \* the label horizons k that OutcomeConfig may have
  NoMessage,    \* None where a message or a delivery may be
  Sentinel      \* "(no message yet)", what C2 delivers at step 0

ASSUME ConditionsAssumption == Conditions \subseteq {"C0", "C1", "C2", "C3", "C4"}
ASSUME ModesAssumption ==
  Modes \subseteq {"none", "off", "active", "matched_random", "random_trigger"}
ASSUME BudgetAssumption == Budget \in Nat \ {0}
ASSUME RetriesAssumption == MaxRetries \in Nat
ASSUME FarAssumption == Far \in Nat \ {0}
ASSUME HorizonsAssumption == Horizons \subseteq Nat \ {0}

VARIABLES
  cell,         \* condition, gate arm, whether the gate has its artefacts, and
                \* whether the other episodes leave its texts' vectors as they are
  node,         \* where the episode is
  step,         \* state["step"]
  distance,     \* the load's distance to the goal
  buffered,     \* state["buffered"], the message of the step before (C2)
  raw,          \* A's latest message
  delivered,    \* ... as it leaves the channel
  retries,      \* re-prompts so far at this handoff
  message_blocked, \* the first rejected message of this handoff
  verdicts,     \* what the gate answered to the pairs scored at this step
  action,       \* B's action
  records,      \* the handoff records
  k,            \* OutcomeConfig.k, read by label_episode only
  labels        \* the Y labels of the records

vars == <<cell, node, step, distance, buffered, raw, delivered, retries,
          message_blocked, verdicts, action, records, k, labels>>
handoff == <<raw, delivered, retries, message_blocked, verdicts>>

(***************************************************************************)
(* Types.                                                                  *)
(***************************************************************************)
Nodes == {"agent_A", "gate", "agent_B", "apply", "label", "returned", "raised"}
Over == {"returned", "raised"}
MacroActions == {"E", "W", "WAIT"}    \* N, S and the rotations act as a blocked E

Message == [step : 0..(Budget - 1), feedback : BOOLEAN, wording : Wordings]

(* What B reads: a message in one of three forms, or the C2 sentinel.      *)
Delivery == [message : Message, form : {"whole", "capped", "dropped"}] \cup {Sentinel}

Record == [step : 0..(Budget - 1), message_raw : Message, message_delivered : Delivery,
           observation : {"scene", "window"}, gate_blocked : BOOLEAN,
           gate_retries : 0..MaxRetries, message_blocked : Delivery \cup {NoMessage},
           action : MacroActions, pre : 0..Far, post : 0..Far, success : BOOLEAN]
Label == [y_continuous_displacement : Int, y_binary_progress : BOOLEAN,
          y_terminal_success : BOOLEAN, y_window_truncated : BOOLEAN]

(* The episodes of a sweep share the embedding cache: while they overlap,  *)
(* the vector of a text an active gate reads may be saved over.            *)
Cell == {c \in [condition : Conditions, mode : Modes, artefacts : BOOLEAN, steady : BOOLEAN] :
           c.mode # "active" => c.steady}

ASSUME NoneAssumption == NoMessage \notin Message \cup Delivery

(***************************************************************************)
(* The channel. C1 caps and C4 drops tokens of A's message; C3 leaves it   *)
(* whole and narrows B's observation; C2 delivers the buffer instead.      *)
(***************************************************************************)
In(form, m) == [message |-> m, form |-> form]

DelayedUnlessFirst(m) == IF buffered = NoMessage THEN In("whole", m) ELSE In("whole", buffered)
DelayedByOne(m) == IF buffered = NoMessage THEN Sentinel ELSE In("whole", buffered)

Deliver(m) ==
  CASE cell.condition = "C1" -> In("capped", m)
    [] cell.condition = "C2" -> DelayedByOne(m)
    [] cell.condition = "C4" -> In("dropped", m)
    [] OTHER -> In("whole", m)

(* ChannelResult.new_buffer: what the next step will deliver under C2.     *)
NewBuffer == IF cell.condition = "C2" THEN raw ELSE NoMessage

Observation == IF cell.condition = "C3" THEN "window" ELSE "scene"

(***************************************************************************)
(* The gate. The active gate is a function of the vectors of the pair B    *)
(* will see, the controls of the episode's seed and the step alone; a gate *)
(* without its artefacts fails open.                                       *)
(***************************************************************************)
ScoresPair == cell.mode = "active" /\ cell.artefacts
DrawsStep == \/ cell.mode = "random_trigger"
             \/ cell.mode = "matched_random" /\ cell.artefacts

Question == IF ScoresPair THEN delivered ELSE NoMessage

(* RuntimeGate.decide: the same answer to the same question, while the     *)
(* vectors stay what they are.                                             *)
MayAnswer(blocked) ==
  IF ScoresPair \/ DrawsStep
  THEN cell.steady /\ Question \in DOMAIN verdicts => verdicts[Question] = blocked
  ELSE blocked = FALSE
Remember(blocked) ==
  verdicts' = [q \in DOMAIN verdicts \cup {Question} |->
                 IF q = Question THEN blocked ELSE verdicts[q]]

RetryForever == TRUE
RetryOnce == retries < 1
(* The bounded retry: GateConfig.max_retries.                              *)
RetryLeft == retries < MaxRetries

LastRejected == delivered
(* blocked_text keeps the first rejection.                                 *)
FirstRejected == IF message_blocked = NoMessage THEN delivered ELSE message_blocked

SameCount == retries
NextCount == retries + 1

(***************************************************************************)
(* The labels of an episode's records, for the horizon h.                  *)
(***************************************************************************)
WindowOneTooLong(i, n, h) == IF i + h <= n THEN i + h ELSE n
(* Position of the last record of the window that starts at record i.      *)
WindowEnd(i, n, h) == IF i + h - 1 <= n THEN i + h - 1 ELSE n

Truncated(i, n, h) == i + h - 1 > n

SuccessFrom(rs, i) == \E j \in i..Len(rs) : rs[j].success

LabelEpisode(rs, h) ==
  [i \in 1..Len(rs) |->
     LET net == rs[i].pre - rs[WindowEnd(i, Len(rs), h)].post IN
     [y_continuous_displacement |-> net,
      y_binary_progress |-> net > 0,
      y_terminal_success |-> SuccessFrom(rs, i),
      y_window_truncated |-> Truncated(i, Len(rs), h)]]
-----------------------------------------------------------------------------
Init ==
  /\ cell \in Cell
  /\ node = "agent_A"
  /\ step = 0
  /\ distance \in 1..Far
  /\ buffered = NoMessage
  /\ raw = NoMessage
  /\ delivered = NoMessage
  /\ retries = 0
  /\ message_blocked = NoMessage
  /\ verdicts = [q \in {} |-> FALSE]
  /\ action = "WAIT"
  /\ records = <<>>
  /\ k = 0
  /\ labels = <<>>

(***************************************************************************)
(* agent_A: speak, ask the gate, and speak again while it blocks.          *)
(***************************************************************************)
Emit(m) ==
  /\ node = "agent_A"
  /\ m.step = step
  /\ m.feedback = (retries > 0)
  /\ raw' = m
  /\ delivered' = Deliver(m)
  /\ node' = "gate"
  /\ UNCHANGED <<cell, step, distance, buffered, retries, message_blocked,
                 verdicts, action, records, k, labels>>

(* The node returns: the state gets the new buffer, B's turn is next.      *)
AgentAReturns ==
  /\ buffered' = NewBuffer
  /\ node' = "agent_B"
  /\ UNCHANGED <<cell, step, distance, raw, delivered, retries, action, records,
                 k, labels>>

GatePasses ==
  /\ node = "gate"
  /\ MayAnswer(FALSE)
  /\ Remember(FALSE)
  /\ AgentAReturns
  /\ UNCHANGED message_blocked

GateRetries ==
  /\ node = "gate"
  /\ MayAnswer(TRUE)
  /\ RetryLeft
  /\ Remember(TRUE)
  /\ message_blocked' = FirstRejected
  /\ retries' = NextCount
  /\ node' = "agent_A"
  /\ UNCHANGED <<cell, step, distance, buffered, raw, delivered, action, records,
                 k, labels>>

(* The budget is spent: A goes on with the message that is still blocked.  *)
GateGivesUp ==
  /\ node = "gate"
  /\ MayAnswer(TRUE)
  /\ ~RetryLeft
  /\ Remember(TRUE)
  /\ message_blocked' = FirstRejected
  /\ AgentAReturns

(* Scoring a pair embeds its texts, and a vector that cannot be loaded     *)
(* raises out of decide, and so out of run_episode.                        *)
GateFails ==
  /\ node = "gate" /\ ScoresPair
  /\ node' = "raised"
  /\ UNCHANGED <<cell, step, distance, buffered, handoff, action, records, k, labels>>

(***************************************************************************)
(* agent_B: an answer that is no macro action becomes WAIT.                *)
(***************************************************************************)
AgentB(answer) ==
  /\ node = "agent_B"
  /\ action' = IF answer \in MacroActions THEN answer ELSE "WAIT"
  /\ node' = "apply"
  /\ UNCHANGED <<cell, step, distance, buffered, handoff, records, k, labels>>

(* A ServingError of either agent leaves run_episode: no records at all.   *)
ServingFails ==
  /\ node \in {"agent_A", "agent_B"}
  /\ node' = "raised"
  /\ UNCHANGED <<cell, step, distance, buffered, handoff, action, records, k, labels>>

(***************************************************************************)
(* apply: push the load, record the handoff, stop at the goal or when the  *)
(* budget is spent. A push may be blocked by a wall; WAIT does not move.   *)
(***************************************************************************)
Reach(a) ==
  0..Far \cap (CASE a = "E" -> {distance, distance - 1}
                 [] a = "W" -> {distance, distance + 1}
                 [] OTHER -> {distance})

HandoffRecord(post) ==
  [step |-> step, message_raw |-> raw, message_delivered |-> delivered,
   observation |-> Observation, gate_blocked |-> message_blocked # NoMessage,
   gate_retries |-> retries, message_blocked |-> message_blocked,
   action |-> action, pre |-> distance, post |-> post, success |-> post = 0]

BudgetOnly(success) == step + 1 >= Budget
Done(success) == success \/ step + 1 >= Budget

(* The locals of the next agent_A call start afresh.                       *)
Apply(post) ==
  /\ node = "apply"
  /\ post \in Reach(action)
  /\ distance' = post
  /\ records' = Append(records, HandoffRecord(post))
  /\ step' = step + 1
  /\ node' = IF Done(post = 0) THEN "label" ELSE "agent_A"
  /\ raw' = NoMessage
  /\ delivered' = NoMessage
  /\ retries' = 0
  /\ message_blocked' = NoMessage
  /\ verdicts' = [q \in {} |-> FALSE]
  /\ action' = "WAIT"
  /\ UNCHANGED <<cell, buffered, k, labels>>

(* label_episode; the horizon is configuration nothing read before.        *)
FillLabels(h) ==
  /\ node = "label"
  /\ k' = h
  /\ labels' = LabelEpisode(records, h)
  /\ node' = "returned"
  /\ UNCHANGED <<cell, step, distance, buffered, handoff, action, records>>

Next ==
  \/ \E m \in Message : Emit(m)
  \/ GatePasses \/ GateRetries \/ GateGivesUp \/ GateFails
  \/ \E answer \in MacroActions \cup {"invalid"} : AgentB(answer)
  \/ ServingFails
  \/ \E post \in 0..Far : Apply(post)
  \/ \E h \in Horizons : FillLabels(h)

Spec == Init /\ [][Next]_vars

(* One thread runs the graph; every call returns or raises (the client has *)
(* a timeout).                                                             *)
FairSpec == Spec /\ WF_vars(Next)
-----------------------------------------------------------------------------
(***************************************************************************)
(* Properties.                                                             *)
(***************************************************************************)
(* Every variable has its type; the retry budget and the step budget are   *)
(* never exceeded.                                                         *)
TypeOK ==
  /\ cell \in Cell
  /\ node \in Nodes
  /\ step \in 0..Budget /\ (node \in {"agent_A", "gate", "agent_B", "apply"} => step < Budget)
  /\ distance \in 0..Far
  /\ buffered \in Message \cup {NoMessage}
  /\ raw \in Message \cup {NoMessage}
  /\ delivered \in Delivery \cup {NoMessage}
  /\ retries \in 0..MaxRetries
  /\ message_blocked \in Delivery \cup {NoMessage}
  /\ action \in MacroActions
  /\ records \in Seq(Record)
  /\ k \in Horizons \cup {0}
  /\ labels \in Seq(Label)

(* Under C2 B reads at each step exactly what A said at the step before,   *)
(* in its final wording: a re-prompted answer replaces the rejected one in *)
(* the buffer, and nothing is delivered twice or skipped (channel.py       *)
(* "delays delivery by exactly one step").                                 *)
DelayIsOneStep ==
  cell.condition = "C2" =>
    \A i \in 1..Len(records) :
      records[i].message_delivered =
        IF i = 1 THEN Sentinel ELSE In("whole", records[i - 1].message_raw)

(* The audit trail of a block: message_blocked is what B would have read   *)
(* without the gate, that is A's first answer at this handoff; under C2,   *)
(* where no retry reaches B in time, it is what B read all the same.       *)
BlockedIsUngated ==
  \A i \in 1..Len(records) :
    LET r == records[i] IN
    r.gate_blocked =>
      IF cell.condition = "C2"
      THEN r.message_blocked = r.message_delivered
      ELSE /\ r.message_blocked.message.step = r.step
           /\ ~r.message_blocked.message.feedback

(* The record's three gate fields tell one story: without a gate that can  *)
(* fire they are the ungated defaults; a re-prompt happens only after a    *)
(* block; and where a retry cannot change the gate's mind (the controls,   *)
(* which never see the message, and C2 over vectors that stay what they    *)
(* are) a block uses the whole budget.                                     *)
RetriesExplained ==
  \A i \in 1..Len(records) :
    LET r == records[i] IN
    /\ r.gate_blocked <=> r.message_blocked # NoMessage
    /\ r.gate_retries > 0 => r.gate_blocked /\ r.message_raw.feedback
    /\ ~(ScoresPair \/ DrawsStep) => ~r.gate_blocked
    /\ r.gate_blocked /\ (DrawsStep \/ (cell.condition = "C2" /\ cell.steady))
         => r.gate_retries = MaxRetries

(* B never acts on a message the gate rejected while retries were left:    *)
(* what it reads was accepted when the gate saw it last, or the budget is  *)
(* spent.                                                                  *)
OnlyAcceptedOrSpent ==
  node \in {"agent_B", "apply"} /\ ScoresPair /\ retries < MaxRetries
    => /\ delivered \in DOMAIN verdicts
       /\ ~verdicts[delivered]

(* An episode that returns has one record per step it took, all joined end *)
(* to end, and stopped at the first that reached the goal or at the budget *)
(* (never empty, which write_handoffs would refuse).                       *)
OneRecordPerStep ==
  node \in {"label", "returned"} =>
    /\ Len(records) \in 1..Budget
    /\ \A i \in 1..Len(records) : records[i].step = i - 1
    /\ \A i \in 1..(Len(records) - 1) :
         ~records[i].success /\ records[i].post = records[i + 1].pre
    /\ records[Len(records)].success \/ Len(records) = Budget

(* The labels against their definition in words: the displacement of a     *)
(* handoff is the sum of the next k steps' progress, or of those there are;*)
(* every record of an episode carries the episode's terminal success; and  *)
(* only the last k - 1 windows are truncated.                              *)
Progress[n \in Nat] ==
  IF n = 0 THEN 0 ELSE Progress[n - 1] + (records[n].pre - records[n].post)
LabelsMeanWhatTheySay ==
  node = "returned" =>
    /\ Len(labels) = Len(records)
    /\ \A i \in 1..Len(labels) :
         LET last == CHOOSE j \in i..Len(records) :
                       \A m \in i..Len(records) : m < i + k => m <= j /\ j < i + k IN
         /\ labels[i].y_continuous_displacement = Progress[last] - Progress[i - 1]
         /\ labels[i].y_terminal_success = records[Len(records)].success
         /\ labels[i].y_window_truncated <=> Len(records) - i < k - 1

(* Every episode ends, by returning its records or by raising: the gate's  *)
(* loop and the graph's are both bounded.                                  *)
EpisodeEnds == <>(node \in Over)
=============================================================================
