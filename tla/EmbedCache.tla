----------------------------- MODULE EmbedCache -----------------------------
(***************************************************************************)
(* The featuriser's embedding cache (measure/featuriser.py): one directory *)
(* with one .npy file per text, read and filled by every call of           *)
(* embed_texts. The active gate calls it on each handoff (integration.py), *)
(* from every worker thread of a sweep at once.                            *)
(*                                                                         *)
(* A worker is a thread inside one call:                                   *)
(*                                                                         *)
(*   idle --> lookup --> encode --> save <--> saving --> idle              *)
(*               \--> raised                                               *)
(*                                                                         *)
(* Encoding is sensitive to the batch a text lands in, so a vector is the  *)
(* batch it was encoded in (the text is known where the vector is kept).   *)
(* np.save truncates the file when it opens it, and the file is not whole  *)
(* again until it is closed; np.load raises on a file that is not whole.   *)
(* Where two writes of one file overlap, the first to close may leave      *)
(* either. A small definition that carries a decision of the code is       *)
(* preceded by the regression of it that the properties are tried against. *)
(***************************************************************************)
EXTENDS Naturals, FiniteSets

CONSTANTS
  Workers,    \* the threads that embed
  Texts,      \* observations and messages
  MaxKills    \* bound on the kills of the job

ASSUME TextsAssumption == IsFiniteSet(Texts)
ASSUME KillsAssumption == MaxKills \in Nat

VARIABLES
  file,       \* text -> the batch of the vector its file holds whole, or {}
  torn,       \* the texts whose file is there but not whole
  pc,         \* worker -> where its call is
  unseen,     \* worker -> the asked texts not looked up yet
  misses,     \* worker -> the texts it has to encode
  unsaved,    \* worker -> the encoded texts it has not begun to save
  saving,     \* worker -> the text whose file it has open, as a set
  vectors,    \* worker -> text -> the vector it holds
  (* Bookkeeping.                                                          *)
  answered,   \* text -> the vectors any call returned for it
  overlapped, \* some call began while another was running
  kills

vars == <<file, torn, pc, unseen, misses, unsaved, saving, vectors, answered,
          overlapped, kills>>

Batches == SUBSET Texts
Hold(w, t, v) ==
  [vectors EXCEPT ![w] = [u \in DOMAIN @ \cup {t} |-> IF u = t THEN v ELSE @[u]]]
Nothing == [t \in {} |-> {}]

KeepLocals(w) == UNCHANGED <<misses, vectors>>
(* The call is over: its misses and vectors were locals.                   *)
DropLocals(w) ==
  /\ misses' = [misses EXCEPT ![w] = {}]
  /\ vectors' = [vectors EXCEPT ![w] = Nothing]

Running(w) == pc[w] \notin {"idle", "raised"}

NeverCached(t) == FALSE
(* The cache is asked for every text: a file that exists is trusted.       *)
Cached(t) == file[t] # {} \/ t \in torn

StaysTorn(w, t) == TRUE
(* Another thread still has the file of t open when w closes it.           *)
OpenElsewhere(w, t) == \E o \in Workers \ {w} : t \in saving[o]
-----------------------------------------------------------------------------
Init ==
  /\ file = [t \in Texts |-> {}]
  /\ torn = {}
  /\ pc = [w \in Workers |-> "idle"]
  /\ unseen = [w \in Workers |-> {}]
  /\ misses = [w \in Workers |-> {}]
  /\ unsaved = [w \in Workers |-> {}]
  /\ saving = [w \in Workers |-> {}]
  /\ vectors = [w \in Workers |-> Nothing]
  /\ answered = [t \in Texts |-> {}]
  /\ overlapped = FALSE
  /\ kills = 0

(* A call of embed_texts, after the last one returned, or raised and its   *)
(* run was submitted again.                                                *)
Ask(w, texts) ==
  /\ ~Running(w)
  /\ pc' = [pc EXCEPT ![w] = "lookup"]
  /\ unseen' = [unseen EXCEPT ![w] = texts]
  /\ overlapped' = (overlapped \/ \E o \in Workers : Running(o))
  /\ UNCHANGED <<file, torn, misses, unsaved, saving, vectors, answered, kills>>

Miss(w, t) ==
  /\ pc[w] = "lookup" /\ t \in unseen[w]
  /\ ~Cached(t)
  /\ unseen' = [unseen EXCEPT ![w] = @ \ {t}]
  /\ misses' = [misses EXCEPT ![w] = @ \cup {t}]
  /\ UNCHANGED <<file, torn, pc, unsaved, saving, vectors, answered, overlapped, kills>>

Hit(w, t) ==
  /\ pc[w] = "lookup" /\ t \in unseen[w]
  /\ Cached(t) /\ t \notin torn
  /\ unseen' = [unseen EXCEPT ![w] = @ \ {t}]
  /\ vectors' = Hold(w, t, file[t])
  /\ UNCHANGED <<file, torn, pc, misses, unsaved, saving, answered, overlapped, kills>>

WaitForWriter(w, t) == FALSE
(* The file exists and np.load cannot read it: the exception leaves        *)
(* embed_texts, the gate and run_episode.                                  *)
LoadFails(w, t) ==
  /\ pc[w] = "lookup" /\ t \in unseen[w]
  /\ Cached(t) /\ t \in torn
  /\ pc' = [pc EXCEPT ![w] = "raised"]
  /\ unseen' = [unseen EXCEPT ![w] = {}]
  /\ DropLocals(w)
  /\ UNCHANGED <<file, torn, unsaved, saving, answered, overlapped, kills>>

(* All the misses of a call go through the encoder at once (a text that    *)
(* occurs twice in the call counts once: dict.fromkeys).                   *)
Encode(w) ==
  /\ pc[w] = "lookup" /\ unseen[w] = {}
  /\ vectors' = [vectors EXCEPT ![w] =
       [t \in DOMAIN @ \cup misses[w] |-> IF t \in DOMAIN @ THEN @[t] ELSE misses[w]]]
  /\ unsaved' = [unsaved EXCEPT ![w] = misses[w]]
  /\ pc' = [pc EXCEPT ![w] = "save"]
  /\ UNCHANGED <<file, torn, unseen, misses, saving, answered, overlapped, kills>>

OpenFile(w, t) ==
  /\ pc[w] = "save" /\ t \in unsaved[w]
  /\ file' = [file EXCEPT ![t] = {}]
  /\ torn' = torn \cup {t}
  /\ saving' = [saving EXCEPT ![w] = {t}]
  /\ unsaved' = [unsaved EXCEPT ![w] = @ \ {t}]
  /\ pc' = [pc EXCEPT ![w] = "saving"]
  /\ UNCHANGED <<unseen, misses, vectors, answered, overlapped, kills>>

CloseFile(w, t) ==
  /\ pc[w] = "saving" /\ t \in saving[w]
  /\ \/ /\ file' = [file EXCEPT ![t] = vectors[w][t]]
        /\ torn' = torn \ {t}
     \/ /\ OpenElsewhere(w, t)
        /\ UNCHANGED <<file, torn>>
  /\ saving' = [saving EXCEPT ![w] = {}]
  /\ pc' = [pc EXCEPT ![w] = "save"]
  /\ UNCHANGED <<unseen, misses, unsaved, vectors, answered, overlapped, kills>>

Return(w) ==
  /\ pc[w] = "save" /\ unsaved[w] = {}
  /\ answered' = [t \in Texts |->
       IF t \in DOMAIN vectors[w] THEN answered[t] \cup {vectors[w][t]} ELSE answered[t]]
  /\ pc' = [pc EXCEPT ![w] = "idle"]
  /\ DropLocals(w)
  /\ UNCHANGED <<file, torn, unseen, unsaved, saving, overlapped, kills>>

(* The job dies, and is submitted again: files stay as they are.           *)
Kill ==
  /\ kills < MaxKills
  /\ kills' = kills + 1
  /\ pc' = [w \in Workers |-> "idle"]
  /\ unseen' = [w \in Workers |-> {}]
  /\ misses' = [w \in Workers |-> {}]
  /\ unsaved' = [w \in Workers |-> {}]
  /\ saving' = [w \in Workers |-> {}]
  /\ vectors' = [w \in Workers |-> Nothing]
  /\ UNCHANGED <<file, torn, answered, overlapped>>

Step(w) ==
  \/ \E t \in Texts : \/ Miss(w, t) \/ Hit(w, t) \/ LoadFails(w, t)
                      \/ OpenFile(w, t) \/ CloseFile(w, t)
  \/ Encode(w) \/ Return(w)

Next == (\E w \in Workers : Step(w) \/ \E texts \in Batches \ {{}} : Ask(w, texts)) \/ Kill

Spec == Init /\ [][Next]_vars
FairSpec == Spec /\ \A w \in Workers : WF_vars(Step(w))
-----------------------------------------------------------------------------
(***************************************************************************)
(* Properties.                                                             *)
(***************************************************************************)
(* Every variable has its type, a file is open only while it is saved, and *)
(* a call that is over leaves nothing behind but its files.                *)
TypeOK ==
  /\ file \in [Texts -> Batches] /\ torn \subseteq Texts
  /\ \A t \in torn : file[t] = {}
  /\ pc \in [Workers -> {"idle", "lookup", "save", "saving", "raised"}]
  /\ unseen \in [Workers -> Batches] /\ misses \in [Workers -> Batches]
  /\ unsaved \in [Workers -> Batches] /\ saving \in [Workers -> Batches]
  /\ \A w \in Workers : /\ DOMAIN vectors[w] \subseteq Texts
                        /\ \A t \in DOMAIN vectors[w] : vectors[w][t] \in Batches
                        /\ saving[w] # {} => pc[w] = "saving"
                        /\ ~Running(w) => DOMAIN vectors[w] = {} /\ misses[w] = {}
  /\ answered \in [Texts -> SUBSET Batches]
  /\ overlapped \in BOOLEAN
  /\ kills \in 0..MaxKills

(* One text, one vector: every call, cold or warm, returns the same vector *)
(* for a text ("makes cold and warm identical by construction, on any      *)
(* backend", featuriser.py 137).                                           *)
ColdEqualsWarm == \A t \in Texts : Cardinality(answered[t]) <= 1

(* One cache directory is safe to share (featuriser.py 90): no call ever   *)
(* finds a vector it cannot load.                                          *)
SafeToShare == \A w \in Workers : pc[w] # "raised"

(* While calls do not overlap, both hold, but for a file a kill tore.      *)
AloneIsSafe == ~overlapped => ColdEqualsWarm /\ (SafeToShare \/ kills > 0)

(* A torn file heals unless the job was killed: a thread that is writing   *)
(* it goes on to close it.                                                 *)
TornHeals == \A t \in Texts : t \in torn ~> t \notin torn \/ kills > 0

(* Every call ends: it returns or raises.                                  *)
CallsEnd == \A w \in Workers : Running(w) ~> ~Running(w)
=============================================================================
