-------------------------- MODULE EmbedCache_proofs --------------------------
(***************************************************************************)
(* Proofs about EmbedCache, for every set of workers and texts and any     *)
(* number of kills.                                                        *)
(***************************************************************************)
EXTENDS EmbedCache, FiniteSetTheorems, TLAPS

(***************************************************************************)
(* The type invariant, with what it leaves to the shape of the vectors.    *)
(***************************************************************************)
Shape == /\ vectors = [w \in Workers |-> vectors[w]]
         /\ \A w \in Workers : vectors[w] = [t \in DOMAIN vectors[w] |-> vectors[w][t]]
TypeInv == TypeOK /\ Shape

LEMMA InitType == Init => TypeInv
<1> SUFFICES ASSUME Init PROVE TypeInv
  OBVIOUS
<1>1. \A w \in Workers : vectors[w] = Nothing
  BY DEF Init
<1>2. Shape
  BY <1>1 DEF Init, Shape, Nothing
<1>3. DOMAIN Nothing = {}
  BY DEF Nothing
<1>4. /\ file \in [Texts -> Batches] /\ answered \in [Texts -> SUBSET Batches]
      /\ pc \in [Workers -> {"idle", "lookup", "save", "saving", "raised"}]
      /\ unseen \in [Workers -> Batches] /\ misses \in [Workers -> Batches]
      /\ unsaved \in [Workers -> Batches] /\ saving \in [Workers -> Batches]
      /\ kills \in 0..MaxKills
  BY KillsAssumption DEF Init, Batches
<1>5. TypeOK
  BY <1>1, <1>3, <1>4 DEF Init, TypeOK
<1>6. QED
  BY <1>2, <1>5 DEF TypeInv

(* The vectors after a step of w that leaves the others theirs.            *)
LEMMA VectorsOf ==
  ASSUME TypeInv, NEW w \in Workers, NEW v, vectors' = [vectors EXCEPT ![w] = v],
         v = [t \in DOMAIN v |-> v[t]]
  PROVE  /\ vectors'[w] = v
         /\ \A o \in Workers \ {w} : vectors'[o] = vectors[o]
         /\ Shape'
BY DEF TypeInv, Shape

LEMMA AskType ==
  ASSUME TypeInv, NEW w \in Workers, NEW texts \in Batches \ {{}}, Ask(w, texts)
  PROVE  TypeInv'
BY DEF Ask, TypeInv, TypeOK, Shape, Running

LEMMA MissType == ASSUME TypeInv, NEW w \in Workers, NEW t \in Texts, Miss(w, t) PROVE TypeInv'
<1>1. /\ unseen' \in [Workers -> Batches] /\ misses' \in [Workers -> Batches]
      /\ \A o \in Workers : o # w => misses'[o] = misses[o]
  BY DEF Miss, TypeInv, TypeOK, Batches
<1>2. QED
  BY <1>1 DEF Miss, TypeInv, TypeOK, Shape, Running

LEMMA HitType == ASSUME TypeInv, NEW w \in Workers, NEW t \in Texts, Hit(w, t) PROVE TypeInv'
<1> DEFINE held == [u \in DOMAIN vectors[w] \cup {t} |-> IF u = t THEN file[t] ELSE vectors[w][u]]
<1>1. vectors' = [vectors EXCEPT ![w] = held]
  BY DEF Hit, Hold, TypeInv, Shape
<1>2. /\ vectors'[w] = held /\ \A o \in Workers \ {w} : vectors'[o] = vectors[o]
      /\ Shape'
  BY <1>1, VectorsOf
<1>3. unseen' \in [Workers -> Batches]
  BY DEF Hit, TypeInv, TypeOK, Batches
<1>4. /\ DOMAIN held \subseteq Texts
      /\ \A u \in DOMAIN held : held[u] \in Batches
  BY DEF TypeInv, TypeOK
<1>5. \A o \in Workers : /\ DOMAIN vectors'[o] \subseteq Texts
                         /\ \A u \in DOMAIN vectors'[o] : vectors'[o][u] \in Batches
  BY <1>2, <1>4 DEF TypeInv, TypeOK
<1>6. \A o \in Workers : ~Running(o)' => DOMAIN vectors'[o] = {} /\ misses'[o] = {}
  BY <1>2 DEF Hit, TypeInv, TypeOK, Running
<1>7. QED
  BY <1>2, <1>3, <1>5, <1>6 DEF Hit, TypeInv, TypeOK

LEMMA LoadFailsType ==
  ASSUME TypeInv, NEW w \in Workers, NEW t \in Texts, LoadFails(w, t)
  PROVE  TypeInv'
<1>1. /\ vectors'[w] = Nothing /\ \A o \in Workers \ {w} : vectors'[o] = vectors[o]
      /\ Shape'
  BY VectorsOf DEF LoadFails, DropLocals, Nothing
<1>2. /\ unseen' \in [Workers -> Batches] /\ misses' \in [Workers -> Batches]
      /\ pc' = [pc EXCEPT ![w] = "raised"] /\ misses' = [misses EXCEPT ![w] = {}]
  BY DEF LoadFails, DropLocals, TypeInv, TypeOK, Batches
<1>3. pc' \in [Workers -> {"idle", "lookup", "save", "saving", "raised"}]
  BY <1>2 DEF TypeInv, TypeOK
<1>4. \A o \in Workers : saving'[o] # {} => pc'[o] = "saving"
  BY <1>2 DEF LoadFails, TypeInv, TypeOK
<1>5. \A o \in Workers : /\ DOMAIN vectors'[o] \subseteq Texts
                         /\ \A u \in DOMAIN vectors'[o] : vectors'[o][u] \in Batches
                         /\ ~Running(o)' => DOMAIN vectors'[o] = {} /\ misses'[o] = {}
  BY <1>1, <1>2 DEF TypeInv, TypeOK, Running, Nothing
<1>6. QED
  BY <1>1, <1>2, <1>3, <1>4, <1>5 DEF LoadFails, TypeInv, TypeOK

LEMMA EncodeType == ASSUME TypeInv, NEW w \in Workers, Encode(w) PROVE TypeInv'
<1> DEFINE held == [t \in DOMAIN vectors[w] \cup misses[w] |->
                      IF t \in DOMAIN vectors[w] THEN vectors[w][t] ELSE misses[w]]
<1>1. vectors' = [vectors EXCEPT ![w] = held]
  BY DEF Encode, TypeInv, Shape
<1>2. /\ vectors'[w] = held /\ \A o \in Workers \ {w} : vectors'[o] = vectors[o]
      /\ Shape'
  BY <1>1, VectorsOf
<1>3. /\ DOMAIN held \subseteq Texts /\ \A t \in DOMAIN held : held[t] \in Batches
  BY DEF TypeInv, TypeOK, Batches
<1>4. \A o \in Workers : /\ DOMAIN vectors'[o] \subseteq Texts
                         /\ \A u \in DOMAIN vectors'[o] : vectors'[o][u] \in Batches
  BY <1>2, <1>3 DEF TypeInv, TypeOK
<1>5. /\ unsaved' \in [Workers -> Batches]
      /\ pc' \in [Workers -> {"idle", "lookup", "save", "saving", "raised"}]
  BY DEF Encode, TypeInv, TypeOK
<1>6. \A o \in Workers : /\ saving'[o] # {} => pc'[o] = "saving"
                         /\ ~Running(o)' => DOMAIN vectors'[o] = {} /\ misses'[o] = {}
  BY <1>2 DEF Encode, TypeInv, TypeOK, Running
<1>7. QED
  BY <1>2, <1>4, <1>5, <1>6 DEF Encode, TypeInv, TypeOK

LEMMA OpenFileType ==
  ASSUME TypeInv, NEW w \in Workers, NEW t \in Texts, OpenFile(w, t)
  PROVE  TypeInv'
<1>1. /\ file' \in [Texts -> Batches] /\ torn' \subseteq Texts
      /\ \A u \in torn' : file'[u] = {}
  BY DEF OpenFile, TypeInv, TypeOK, Batches
<1>2. unsaved' \in [Workers -> Batches] /\ saving' \in [Workers -> Batches]
  BY DEF OpenFile, TypeInv, TypeOK, Batches
<1>3. QED
  BY <1>1, <1>2 DEF OpenFile, TypeInv, TypeOK, Shape, Running

LEMMA CloseFileType ==
  ASSUME TypeInv, NEW w \in Workers, NEW t \in Texts, CloseFile(w, t),
         t \in DOMAIN vectors[w]
  PROVE  TypeInv'
<1>1. /\ file' \in [Texts -> Batches] /\ torn' \subseteq Texts
      /\ \A u \in torn' : file'[u] = {}
  BY DEF CloseFile, TypeInv, TypeOK
<1>2. saving' \in [Workers -> Batches]
  BY DEF CloseFile, TypeInv, TypeOK, Batches
<1>3. QED
  BY <1>1, <1>2 DEF CloseFile, TypeInv, TypeOK, Shape, Running

LEMMA ReturnType == ASSUME TypeInv, NEW w \in Workers, Return(w) PROVE TypeInv'
<1>1. /\ vectors'[w] = Nothing /\ \A o \in Workers \ {w} : vectors'[o] = vectors[o]
      /\ Shape'
  BY VectorsOf DEF Return, DropLocals, Nothing
<1>2. /\ misses' \in [Workers -> Batches]
      /\ pc' = [pc EXCEPT ![w] = "idle"] /\ misses' = [misses EXCEPT ![w] = {}]
  BY DEF Return, DropLocals, TypeInv, TypeOK, Batches
<1>3. pc' \in [Workers -> {"idle", "lookup", "save", "saving", "raised"}]
  BY <1>2 DEF TypeInv, TypeOK
<1>4. answered' \in [Texts -> SUBSET Batches]
  BY DEF Return, TypeInv, TypeOK
<1>5. \A o \in Workers : saving'[o] # {} => pc'[o] = "saving"
  BY <1>2 DEF Return, TypeInv, TypeOK
<1>6. \A o \in Workers : /\ DOMAIN vectors'[o] \subseteq Texts
                         /\ \A u \in DOMAIN vectors'[o] : vectors'[o][u] \in Batches
                         /\ ~Running(o)' => DOMAIN vectors'[o] = {} /\ misses'[o] = {}
  BY <1>1, <1>2 DEF TypeInv, TypeOK, Running, Nothing
<1>7. QED
  BY <1>1, <1>2, <1>3, <1>4, <1>5, <1>6 DEF Return, TypeInv, TypeOK

LEMMA KillType == ASSUME TypeInv, Kill PROVE TypeInv'
BY KillsAssumption DEF Kill, TypeInv, TypeOK, Shape, Batches, Nothing, Running

(***************************************************************************)
(* What a call of w has, stage by stage.                                   *)
(***************************************************************************)
(* A text is looked up once a call, and what a call saves, it holds.       *)
HeldInv ==
  \A w \in Workers :
    /\ unsaved[w] \cup saving[w] \subseteq DOMAIN vectors[w]
    /\ pc[w] \in {"idle", "lookup", "raised"} => unsaved[w] = {}
    /\ pc[w] = "lookup" => /\ DOMAIN vectors[w] \cap misses[w] = {}
                           /\ unseen[w] \cap (DOMAIN vectors[w] \cup misses[w]) = {}

(* The calls so far came one at a time.                                    *)
OneCall == \A w, o \in Workers : Running(w) /\ Running(o) => w = o

(* A text that was answered for is in its file as it was answered.         *)
Kept(t) == answered[t] = {} \/ (file[t] # {} /\ answered[t] = {file[t]})

(* What w looked up is what the file holds, and what it encoded was in no  *)
(* file, so that nobody was answered for it.                               *)
Looked(w) ==
  /\ \A t \in DOMAIN vectors[w] : file[t] # {} /\ vectors[w][t] = file[t]
  /\ \A t \in misses[w] : answered[t] = {}
Saved(w) ==
  \A t \in DOMAIN vectors[w] :
    /\ vectors[w][t] # {}
    /\ IF t \in unsaved[w] \cup saving[w]
       THEN answered[t] = {}
       ELSE file[t] = vectors[w][t]
CallInv ==
  \A w \in Workers : /\ pc[w] = "lookup" => Looked(w)
                     /\ pc[w] \in {"save", "saving"} => Saved(w)
                     /\ \A t \in saving[w] : saving[w] = {t} /\ t \notin unsaved[w]

(* A torn file is one being written, and nobody fails to load it.          *)
WholeInv ==
  kills = 0 => /\ \A t \in torn : \E w \in Workers : t \in saving[w]
               /\ SafeToShare

AloneInv == ~overlapped => /\ OneCall
                           /\ \A t \in Texts : Kept(t)
                           /\ CallInv /\ WholeInv
Inv == TypeInv /\ HeldInv /\ AloneInv

LEMMA InitInv == Init => Inv
<1> SUFFICES ASSUME Init PROVE Inv
  OBVIOUS
<1>1. TypeInv
  BY InitType
<1>2. HeldInv
  BY DEF Init, HeldInv
<1>3. AloneInv
  <2>1. OneCall /\ WholeInv /\ \A t \in Texts : Kept(t)
    BY DEF Init, OneCall, Kept, WholeInv, SafeToShare, Running
  <2>2. CallInv
    BY DEF Init, CallInv
  <2>3. QED
    BY <2>1, <2>2 DEF AloneInv
<1>4. QED
  BY <1>1, <1>2, <1>3 DEF Inv

(***************************************************************************)
(* Every step keeps it.                                                    *)
(***************************************************************************)
LEMMA AskKeeps ==
  ASSUME Inv, NEW w \in Workers, NEW texts \in Batches \ {{}}, Ask(w, texts)
  PROVE  Inv'
<1>1. TypeInv'
  BY AskType DEF Inv
<1>2. /\ unsaved[w] = {} /\ saving[w] = {} /\ misses[w] = {} /\ DOMAIN vectors[w] = {}
  BY DEF Ask, Inv, TypeInv, TypeOK, HeldInv, Running
<1>3. HeldInv'
  BY <1>2 DEF Ask, Inv, TypeInv, TypeOK, HeldInv
<1>4. ASSUME ~overlapped' PROVE OneCall' /\ (\A t \in Texts : Kept(t)') /\ CallInv' /\ WholeInv'
  <2>1. ~overlapped /\ \A o \in Workers : ~Running(o)
    BY <1>4 DEF Ask
  <2>2. OneCall'
    BY <2>1 DEF Ask, OneCall, Running, Inv, TypeInv, TypeOK
  <2>3. \A t \in Texts : Kept(t)'
    BY <2>1 DEF Ask, Inv, AloneInv, Kept
  <2>4. CallInv'
    BY <1>2, <2>1 DEF Ask, Inv, AloneInv, TypeInv, TypeOK, CallInv, Looked, Saved
  <2>5. WholeInv'
    BY <2>1 DEF Ask, Inv, AloneInv, TypeInv, TypeOK, WholeInv, SafeToShare
  <2>6. QED
    BY <2>2, <2>3, <2>4, <2>5
<1>5. QED
  BY <1>1, <1>3, <1>4 DEF Inv, AloneInv

LEMMA MissKeeps == ASSUME Inv, NEW w \in Workers, NEW t \in Texts, Miss(w, t) PROVE Inv'
<1>1. TypeInv'
  BY MissType DEF Inv
<1>2. /\ misses'[w] = misses[w] \cup {t} /\ unseen'[w] = unseen[w] \ {t}
      /\ \A o \in Workers \ {w} : misses'[o] = misses[o] /\ unseen'[o] = unseen[o]
  BY DEF Miss, Inv, TypeInv, TypeOK
<1>3. HeldInv'
  BY <1>2 DEF Miss, Inv, HeldInv
<1>4. ASSUME ~overlapped' PROVE OneCall' /\ (\A u \in Texts : Kept(u)') /\ CallInv' /\ WholeInv'
  <2>1. OneCall' /\ (\A u \in Texts : Kept(u)') /\ WholeInv'
    BY <1>4 DEF Miss, Inv, AloneInv, OneCall, Kept, WholeInv, SafeToShare, Running
  <2>2. answered[t] = {}
    BY <1>4 DEF Miss, Cached, Inv, AloneInv, Kept
  <2>3. CallInv'
    BY <1>2, <1>4, <2>2 DEF Miss, Inv, AloneInv, CallInv, Looked, Saved
  <2>4. QED
    BY <2>1, <2>3
<1>5. QED
  BY <1>1, <1>3, <1>4 DEF Inv, AloneInv

LEMMA HitKeeps == ASSUME Inv, NEW w \in Workers, NEW t \in Texts, Hit(w, t) PROVE Inv'
<1> DEFINE held == [u \in DOMAIN vectors[w] \cup {t} |-> IF u = t THEN file[t] ELSE vectors[w][u]]
<1>1. TypeInv'
  BY HitType DEF Inv
<1>2. vectors'[w] = held /\ \A o \in Workers \ {w} : vectors'[o] = vectors[o]
  <2>1. vectors' = [vectors EXCEPT ![w] = held]
    BY DEF Hit, Hold, Inv, TypeInv, Shape
  <2>2. QED
    BY <2>1, VectorsOf DEF Inv
<1>3. /\ DOMAIN vectors'[w] = DOMAIN vectors[w] \cup {t}
      /\ \A u \in DOMAIN vectors'[w] : vectors'[w][u] = IF u = t THEN file[t] ELSE vectors[w][u]
  BY <1>2
<1>4. /\ unseen'[w] = unseen[w] \ {t}
      /\ \A o \in Workers \ {w} : unseen'[o] = unseen[o]
  BY DEF Hit, Inv, TypeInv, TypeOK
<1>5. HeldInv'
  BY <1>2, <1>3, <1>4 DEF Hit, Inv, HeldInv
<1>6. ASSUME ~overlapped' PROVE OneCall' /\ (\A u \in Texts : Kept(u)') /\ CallInv' /\ WholeInv'
  <2>1. OneCall' /\ (\A u \in Texts : Kept(u)') /\ WholeInv'
    BY <1>6 DEF Hit, Inv, AloneInv, OneCall, Kept, WholeInv, SafeToShare, Running
  <2>2. file[t] # {}
    BY DEF Hit, Cached
  <2>3. CallInv'
    BY <1>2, <1>3, <1>6, <2>2 DEF Hit, Inv, AloneInv, CallInv, Looked, Saved
  <2>4. QED
    BY <2>1, <2>3
<1>7. QED
  BY <1>1, <1>5, <1>6 DEF Inv, AloneInv

LEMMA LoadFailsKeeps ==
  ASSUME Inv, NEW w \in Workers, NEW t \in Texts, LoadFails(w, t)
  PROVE  Inv'
<1>1. TypeInv'
  BY LoadFailsType DEF Inv
<1>2. /\ vectors'[w] = Nothing /\ misses'[w] = {} /\ pc'[w] = "raised"
      /\ \A o \in Workers \ {w} : /\ vectors'[o] = vectors[o] /\ misses'[o] = misses[o]
                                  /\ pc'[o] = pc[o] /\ unseen'[o] = unseen[o]
  BY VectorsOf DEF LoadFails, DropLocals, Nothing, Inv, TypeInv, TypeOK
<1>3. saving[w] = {} /\ unsaved[w] = {}
  BY DEF LoadFails, Inv, TypeInv, TypeOK, HeldInv
<1>4. HeldInv'
  BY <1>2, <1>3 DEF LoadFails, Inv, HeldInv
<1>5. ASSUME ~overlapped' PROVE OneCall' /\ (\A u \in Texts : Kept(u)') /\ CallInv' /\ WholeInv'
  <2>1. OneCall' /\ \A u \in Texts : Kept(u)'
    BY <1>2, <1>5 DEF LoadFails, Inv, AloneInv, OneCall, Kept, Running
  <2>2. CallInv'
    BY <1>2, <1>3, <1>5 DEF LoadFails, Inv, AloneInv, CallInv, Looked, Saved
  <2>3. kills # 0
    <3>1. SUFFICES ASSUME kills = 0 PROVE FALSE
      OBVIOUS
    <3>2. PICK o \in Workers : t \in saving[o]
      BY <1>5, <3>1 DEF LoadFails, Inv, AloneInv, WholeInv
    <3>3. pc[o] = "saving"
      BY <3>2 DEF Inv, TypeInv, TypeOK
    <3>4. o = w
      BY <1>5, <3>3 DEF LoadFails, Inv, AloneInv, OneCall, Running
    <3>5. QED
      BY <3>3, <3>4 DEF LoadFails
  <2>4. WholeInv'
    BY <2>3 DEF LoadFails, WholeInv
  <2>5. QED
    BY <2>1, <2>2, <2>4
<1>6. QED
  BY <1>1, <1>4, <1>5 DEF Inv, AloneInv

LEMMA EncodeKeeps == ASSUME Inv, NEW w \in Workers, Encode(w) PROVE Inv'
<1> DEFINE held == [t \in DOMAIN vectors[w] \cup misses[w] |->
                      IF t \in DOMAIN vectors[w] THEN vectors[w][t] ELSE misses[w]]
<1>1. TypeInv'
  BY EncodeType DEF Inv
<1>2. vectors'[w] = held /\ \A o \in Workers \ {w} : vectors'[o] = vectors[o]
  <2>1. vectors' = [vectors EXCEPT ![w] = held]
    BY DEF Encode, Inv, TypeInv, Shape
  <2>2. QED
    BY <2>1, VectorsOf DEF Inv
<1>3. /\ DOMAIN vectors'[w] = DOMAIN vectors[w] \cup misses[w]
      /\ \A t \in DOMAIN vectors'[w] :
           vectors'[w][t] = IF t \in DOMAIN vectors[w] THEN vectors[w][t] ELSE misses[w]
  BY <1>2
<1>4. /\ unsaved'[w] = misses[w] /\ pc'[w] = "save"
      /\ \A o \in Workers \ {w} : unsaved'[o] = unsaved[o] /\ pc'[o] = pc[o]
  BY DEF Encode, Inv, TypeInv, TypeOK
<1>5. saving[w] = {}
  BY DEF Encode, Inv, TypeInv, TypeOK
<1>6. HeldInv'
  BY <1>2, <1>3, <1>4, <1>5 DEF Encode, Inv, HeldInv
<1>7. ASSUME ~overlapped' PROVE OneCall' /\ (\A u \in Texts : Kept(u)') /\ CallInv' /\ WholeInv'
  <2>1. OneCall' /\ (\A u \in Texts : Kept(u)') /\ WholeInv'
    BY <1>4, <1>7 DEF Encode, Inv, AloneInv, OneCall, Kept, WholeInv, SafeToShare, Running
  <2>2. Looked(w) /\ DOMAIN vectors[w] \cap misses[w] = {}
    BY <1>7 DEF Encode, Inv, AloneInv, CallInv, HeldInv
  <2>3. Saved(w)'
    <3>1. ASSUME NEW t \in DOMAIN vectors'[w]
          PROVE  /\ vectors'[w][t] # {}
                 /\ IF t \in unsaved'[w] \cup saving'[w]
                    THEN answered'[t] = {} ELSE file'[t] = vectors'[w][t]
      <4>1. CASE t \in misses[w]
        BY <1>3, <1>4, <2>2, <4>1 DEF Encode, Looked
      <4>2. CASE t \notin misses[w]
        BY <1>3, <1>4, <1>5, <2>2, <4>2 DEF Encode, Looked
      <4>3. QED
        BY <4>1, <4>2
    <3>2. QED
      BY <3>1 DEF Saved
  <2>4. \A o \in Workers : \A t \in saving'[o] : saving'[o] = {t} /\ t \notin unsaved'[o]
    BY <1>4, <1>5, <1>7 DEF Encode, Inv, AloneInv, CallInv
  <2>5. ASSUME NEW o \in Workers \ {w}
        PROVE  pc'[o] = "lookup" => Looked(o)'
    BY <1>2, <1>4, <1>7 DEF Encode, Inv, AloneInv, CallInv, Looked
  <2>6. ASSUME NEW o \in Workers \ {w}
        PROVE  pc'[o] \in {"save", "saving"} => Saved(o)'
    BY <1>2, <1>4, <1>7 DEF Encode, Inv, AloneInv, CallInv, Saved
  <2>7. CallInv'
    BY <1>4, <2>3, <2>4, <2>5, <2>6 DEF CallInv
  <2>8. QED
    BY <2>1, <2>7
<1>8. QED
  BY <1>1, <1>6, <1>7 DEF Inv, AloneInv

(* While calls come one at a time, only the one under way has anything.    *)
LEMMA OthersAreOver ==
  ASSUME Inv, ~overlapped, NEW w \in Workers, Running(w), NEW o \in Workers \ {w}
  PROVE  pc[o] \in {"idle", "raised"} /\ saving[o] = {} /\ unsaved[o] = {}
<1>1. pc[o] \in {"idle", "raised"}
  BY DEF Inv, AloneInv, OneCall, Running
<1>2. QED
  BY <1>1 DEF Inv, TypeInv, TypeOK, HeldInv

LEMMA OpenFileKeeps ==
  ASSUME Inv, NEW w \in Workers, NEW t \in Texts, OpenFile(w, t)
  PROVE  Inv'
<1>1. TypeInv'
  BY OpenFileType DEF Inv
<1>2. /\ pc[w] = "save" /\ t \in unsaved[w]
      /\ pc'[w] = "saving" /\ saving'[w] = {t} /\ unsaved'[w] = unsaved[w] \ {t}
      /\ \A o \in Workers \ {w} : /\ pc'[o] = pc[o] /\ saving'[o] = saving[o]
                                  /\ unsaved'[o] = unsaved[o]
  BY DEF OpenFile, Inv, TypeInv, TypeOK
<1>3. /\ file'[t] = {} /\ \A u \in Texts \ {t} : file'[u] = file[u]
      /\ torn' = torn \cup {t}
      /\ UNCHANGED <<unseen, misses, vectors, answered, overlapped, kills>>
  BY DEF OpenFile, Inv, TypeInv, TypeOK
<1>4. t \in DOMAIN vectors[w] /\ saving[w] = {}
  BY <1>2 DEF Inv, TypeInv, TypeOK, HeldInv
<1>5. HeldInv'
  BY <1>2, <1>3, <1>4 DEF Inv, HeldInv
<1>6. ASSUME ~overlapped' PROVE OneCall' /\ (\A u \in Texts : Kept(u)') /\ CallInv' /\ WholeInv'
  <2>1. Saved(w)
    BY <1>2, <1>3, <1>6 DEF Inv, AloneInv, CallInv
  <2>2. \A o \in Workers \ {w} : /\ pc[o] \in {"idle", "raised"}
                                 /\ saving[o] = {} /\ unsaved[o] = {}
    BY <1>2, <1>3, <1>6, OthersAreOver DEF Running
  <2>3. OneCall'
    BY <1>2, <2>2 DEF OneCall, Running
  <2>4. \A u \in Texts : Kept(u)'
    BY <1>2, <1>3, <1>4, <1>6, <2>1 DEF Inv, AloneInv, Kept, Saved
  <2>5. CallInv'
    <3>1. Saved(w)'
      BY <1>1, <1>2, <1>3, <1>4, <2>1 DEF Saved, Inv, TypeInv, TypeOK
    <3>2. QED
      BY <1>2, <2>2, <3>1 DEF CallInv
  <2>6. WholeInv'
    BY <1>2, <1>3, <1>4, <1>6 DEF Inv, AloneInv, WholeInv, SafeToShare
  <2>7. QED
    BY <2>3, <2>4, <2>5, <2>6
<1>7. QED
  BY <1>1, <1>5, <1>6 DEF Inv, AloneInv

LEMMA CloseFileKeeps ==
  ASSUME Inv, NEW w \in Workers, NEW t \in Texts, CloseFile(w, t)
  PROVE  Inv'
<1>1. t \in DOMAIN vectors[w]
  BY DEF CloseFile, Inv, HeldInv
<1>2. TypeInv'
  BY <1>1, CloseFileType DEF Inv
<1>3. /\ pc[w] = "saving" /\ t \in saving[w]
      /\ pc'[w] = "save" /\ saving'[w] = {}
      /\ \A o \in Workers \ {w} : pc'[o] = pc[o] /\ saving'[o] = saving[o]
      /\ UNCHANGED <<unseen, misses, unsaved, vectors, answered, overlapped, kills>>
  BY DEF CloseFile, Inv, TypeInv, TypeOK
<1>4. HeldInv'
  BY <1>3 DEF Inv, HeldInv
<1>5. ASSUME ~overlapped' PROVE OneCall' /\ (\A u \in Texts : Kept(u)') /\ CallInv' /\ WholeInv'
  <2>1. Saved(w) /\ saving[w] = {t} /\ t \notin unsaved[w]
    BY <1>3, <1>5 DEF Inv, AloneInv, CallInv
  <2>2. \A o \in Workers \ {w} : /\ pc[o] \in {"idle", "raised"}
                                 /\ saving[o] = {} /\ unsaved[o] = {}
    BY <1>3, <1>5, OthersAreOver DEF Running
  <2>3. /\ file'[t] = vectors[w][t] /\ torn' = torn \ {t}
        /\ \A u \in Texts \ {t} : file'[u] = file[u]
    BY <2>2 DEF CloseFile, OpenElsewhere, Inv, TypeInv, TypeOK
  <2>4. OneCall'
    BY <1>3, <2>2 DEF OneCall, Running
  <2>5. \A u \in Texts : Kept(u)'
    BY <1>1, <1>3, <1>5, <2>1, <2>3 DEF Inv, AloneInv, Kept, Saved
  <2>6. CallInv'
    <3>1. Saved(w)'
      BY <1>2, <1>3, <2>1, <2>3 DEF Saved, TypeInv, TypeOK
    <3>2. QED
      BY <1>3, <2>2, <3>1 DEF CallInv
  <2>7. WholeInv'
    BY <1>3, <1>5, <2>1, <2>3 DEF Inv, AloneInv, WholeInv, SafeToShare
  <2>8. QED
    BY <2>4, <2>5, <2>6, <2>7
<1>6. QED
  BY <1>2, <1>4, <1>5 DEF Inv, AloneInv

LEMMA ReturnKeeps == ASSUME Inv, NEW w \in Workers, Return(w) PROVE Inv'
<1>1. TypeInv'
  BY ReturnType DEF Inv
<1>2. /\ vectors'[w] = Nothing /\ misses'[w] = {} /\ pc'[w] = "idle"
      /\ \A o \in Workers \ {w} : /\ vectors'[o] = vectors[o] /\ misses'[o] = misses[o]
                                  /\ pc'[o] = pc[o]
  BY VectorsOf DEF Return, DropLocals, Nothing, Inv, TypeInv, TypeOK
<1>3. saving[w] = {} /\ unsaved[w] = {} /\ pc[w] = "save"
  BY DEF Return, Inv, TypeInv, TypeOK
<1>4. HeldInv'
  BY <1>2, <1>3 DEF Return, Inv, HeldInv
<1>5. ASSUME ~overlapped' PROVE OneCall' /\ (\A u \in Texts : Kept(u)') /\ CallInv' /\ WholeInv'
  <2>1. OneCall' /\ WholeInv'
    BY <1>2, <1>5 DEF Return, Inv, AloneInv, OneCall, WholeInv, SafeToShare, Running
  <2>2. Saved(w)
    BY <1>3, <1>5 DEF Return, Inv, AloneInv, CallInv
  <2>3. \A u \in Texts : Kept(u)'
    <3>1. \A u \in DOMAIN vectors[w] : vectors[w][u] # {} /\ file[u] = vectors[w][u]
      BY <1>3, <2>2 DEF Saved
    <3>2. \A u \in Texts : answered'[u] = IF u \in DOMAIN vectors[w]
                             THEN answered[u] \cup {vectors[w][u]} ELSE answered[u]
      BY DEF Return
    <3>3. \A u \in Texts : Kept(u)
      BY <1>5 DEF Return, Inv, AloneInv
    <3>4. QED
      BY <3>1, <3>2, <3>3 DEF Return, Kept
  <2>4. \A o \in Workers \ {w} : pc[o] \in {"idle", "raised"} /\ saving[o] = {}
    BY <1>3, <1>5, OthersAreOver DEF Return, Running
  <2>5. CallInv'
    BY <1>2, <1>3, <2>4 DEF Return, CallInv
  <2>6. QED
    BY <2>1, <2>3, <2>5
<1>6. QED
  BY <1>1, <1>4, <1>5 DEF Inv, AloneInv

LEMMA KillKeeps == ASSUME Inv, Kill PROVE Inv'
<1>1. TypeInv'
  BY KillType DEF Inv
<1>2. HeldInv'
  BY DEF Kill, HeldInv
<1>3. kills' # 0
  BY DEF Kill, Inv, TypeInv, TypeOK
<1>4. AloneInv'
  <2>1. OneCall' /\ CallInv'
    BY DEF Kill, OneCall, CallInv, Running
  <2>2. ~overlapped' => \A t \in Texts : Kept(t)'
    BY DEF Kill, Inv, AloneInv, Kept
  <2>3. QED
    BY <1>3, <2>1, <2>2 DEF AloneInv, WholeInv
<1>5. QED
  BY <1>1, <1>2, <1>4 DEF Inv

LEMMA NextInv == Inv /\ [Next]_vars => Inv'
<1> SUFFICES ASSUME Inv, [Next]_vars PROVE Inv'
  OBVIOUS
<1>1. ASSUME NEW w \in Workers, Step(w) PROVE Inv'
  BY <1>1, MissKeeps, HitKeeps, LoadFailsKeeps, OpenFileKeeps, CloseFileKeeps, EncodeKeeps,
     ReturnKeeps DEF Step
<1>2. ASSUME NEW w \in Workers, NEW texts \in Batches \ {{}}, Ask(w, texts) PROVE Inv'
  BY <1>2, AskKeeps
<1>3. CASE Kill
  BY <1>3, KillKeeps
<1>4. CASE UNCHANGED vars
  <2>1. TypeInv' /\ HeldInv'
    BY <1>4 DEF vars, Inv, TypeInv, TypeOK, Shape, HeldInv, Running
  <2>2. AloneInv'
    BY <1>4 DEF vars, Inv, AloneInv, OneCall, Kept, CallInv, Looked, Saved, WholeInv,
                SafeToShare, Running
  <2>3. QED
    BY <2>1, <2>2 DEF Inv
<1>5. QED
  BY <1>1, <1>2, <1>3, <1>4 DEF Next

(* The strengthening, over any interleaving of calls and kills.            *)
THEOREM Invariant == Spec => []Inv
BY InitInv, NextInv, PTL DEF Spec

(* Every variable keeps its type, and a call that is over leaves only its  *)
(* files behind.                                                           *)
THEOREM TypeCorrect == Spec => []TypeOK
<1>1. Inv => TypeOK
  BY DEF Inv, TypeInv
<1>2. QED
  BY <1>1, Invariant, PTL

LEMMA InvAloneIsSafe == Inv => AloneIsSafe
<1> SUFFICES ASSUME Inv, ~overlapped PROVE ColdEqualsWarm /\ (SafeToShare \/ kills > 0)
  BY DEF AloneIsSafe
<1>1. ASSUME NEW t \in Texts PROVE Cardinality(answered[t]) <= 1
  <2>1. CASE answered[t] = {}
    BY <2>1, FS_EmptySet
  <2>2. CASE answered[t] = {file[t]}
    <3>1. Cardinality({file[t]}) = 1
      BY FS_Singleton
    <3>2. QED
      BY <2>2, <3>1
  <2>3. QED
    BY <2>1, <2>2 DEF Inv, AloneInv, Kept
<1>2. kills = 0 => SafeToShare
  BY DEF Inv, AloneInv, WholeInv
<1>3. kills \in Nat
  BY KillsAssumption DEF Inv, TypeInv, TypeOK
<1>4. QED
  BY <1>1, <1>2, <1>3 DEF ColdEqualsWarm

(* While calls come one at a time, a text has one vector, cold and warm,   *)
(* and no call fails to load a vector unless the job was killed.           *)
THEOREM AloneIsSafeAlways == Spec => []AloneIsSafe
BY Invariant, InvAloneIsSafe, PTL
=============================================================================
