----------------------------- MODULE Gate_proofs -----------------------------
(***************************************************************************)
(* Proofs about the artefacts of the gate (GateArtefacts: every set of     *)
(* datasets, any number of calibrations, killed anywhere) and about its    *)
(* operating point (Calibration: any scores and any budget).               *)
(***************************************************************************)
EXTENDS GateArtefacts, Calibration, SumLemmas, SequenceTheorems

(***************************************************************************)
(* The order the files are written in.                                     *)
(***************************************************************************)
LEMMA FiveInOrder ==
  ASSUME NEW a, NEW b, NEW c, NEW d, NEW e
  PROVE  LET s == <<a>> \o <<b, c>> \o <<d, e>>
         IN  Len(s) = 5 /\ s[1] = a /\ s[2] = b /\ s[3] = c /\ s[4] = d /\ s[5] = e
<1> DEFINE S == {a, b, c, d, e}
           front == <<a>> \o <<b, c>>
           back == <<d, e>>
<1>1. <<a>> \in Seq(S) /\ <<b, c>> \in Seq(S) /\ <<d, e>> \in Seq(S)
  OBVIOUS
<1>2. front \in Seq(S) /\ Len(front) = 3 /\ front[1] = a /\ front[2] = b /\ front[3] = c
  BY <1>1, ConcatProperties
<1>3. back \in Seq(S) /\ Len(back) = 2 /\ back[1] = d /\ back[2] = e
  BY <1>1
<1> HIDE DEF front, back, S
<1>4. /\ Len(front \o back) = 5
      /\ \A i \in 1..5 : (front \o back)[i] = IF i <= 3 THEN front[i] ELSE back[i - 3]
  <2>1. /\ Len(front \o back) = Len(front) + Len(back)
        /\ \A i \in 1 .. Len(front) + Len(back) : (front \o back)[i] =
             IF i <= Len(front) THEN front[i] ELSE back[i - Len(front)]
    BY <1>2, <1>3, ConcatProperties, Zenon
  <2>2. Len(front) + Len(back) = 5 /\ Len(front) = 3
    BY <1>2, <1>3
  <2>3. QED
    BY <2>1, <2>2, Zenon
<1>5. /\ (front \o back)[1] = a /\ (front \o back)[2] = b /\ (front \o back)[3] = c
      /\ (front \o back)[4] = d /\ (front \o back)[5] = e
  BY <1>2, <1>3, <1>4
<1>6. QED
  BY <1>4, <1>5 DEF front, back

LEMMA Order ==
  /\ Len(WriteOrder) = 5
  /\ WriteOrder[1] = ReportFile
  /\ WriteOrder[2] = Statistic("fail") /\ WriteOrder[3] = Manifest("fail")
  /\ WriteOrder[4] = Statistic("cosine") /\ WriteOrder[5] = Manifest("cosine")
<1>1. WriteOrder = <<ReportFile>> \o <<Statistic("fail"), Manifest("fail")>>
                     \o <<Statistic("cosine"), Manifest("cosine")>>
  BY DEF WriteOrder, SaveOrder
<1>2. QED
  BY <1>1, FiveInOrder

LEMMA NamesDiffer ==
  /\ \A k \in Keys : Statistic(k) \in Files /\ Manifest(k) \in Files
                     /\ Statistic(k) # Manifest(k)
                     /\ Statistic(k) # ReportFile /\ Manifest(k) # ReportFile
  /\ ReportFile \in Files
  /\ Statistic("fail") # Statistic("cosine") /\ Manifest("fail") # Manifest("cosine")
  /\ Statistic("fail") # Manifest("cosine") /\ Manifest("fail") # Statistic("cosine")
BY DEF Files, Statistic, Manifest, ReportFile, Keys

LEMMA OrderIsOneToOne ==
  /\ \A i \in 1..5 : WriteOrder[i] \in Files
  /\ \A i, j \in 1..5 : WriteOrder[i] = WriteOrder[j] => i = j
<1>1. 1..5 = {1, 2, 3, 4, 5}
  OBVIOUS
<1>2. \A i \in 1..5 : WriteOrder[i] \in Files
  BY <1>1, Order, NamesDiffer DEF Keys
<1>3. \A i, j \in 1..5 : WriteOrder[i] = WriteOrder[j] => i = j
  BY <1>1, Order, NamesDiffer DEF Keys
<1>4. QED
  BY <1>2, <1>3

(* A statistic is written, and a report before it, when its manifest is    *)
(* begun.                                                                  *)
LEMMA StatisticBeforeManifest ==
  ASSUME NEW key \in Keys
  PROVE  \E p \in 2..4 : WriteOrder[p] = Statistic(key) /\ WriteOrder[p + 1] = Manifest(key)
<1>1. CASE key = "fail"
  BY <1>1, Order
<1>2. CASE key = "cosine"
  BY <1>2, Order
<1>3. QED
  BY <1>1, <1>2 DEF Keys

(***************************************************************************)
(* The invariant.                                                          *)
(***************************************************************************)
FilesInv == DOMAIN files = Files /\ files = [f \in Files |-> files[f]]
WriterInv ==
  /\ writing \in 0..5
  /\ begun \in Nat
  /\ source \in Datasets \cup {Absent}
  /\ begun = 0 => writing = 0 /\ ~Calibrating

(* The file that is open is one of the five.                               *)
OpenedInv == Calibrating /\ opened => writing # 5

(* The files a calibration has filled are of one dataset, its own.         *)
FilledWith(d) == /\ Calibrating => source = d
                 /\ \A i \in 1..5 : i <= writing => files[WriteOrder[i]] = d
FilledInv == begun > 0 => \E d \in Datasets : FilledWith(d)

(* In a fresh directory, the files it has not come to are not there.       *)
FreshInv ==
  begun <= 1 =>
    \A i \in 1..5 : /\ i > writing => files[WriteOrder[i]] \in {Absent, Torn}
                    /\ i > writing + 1 => files[WriteOrder[i]] = Absent

SettledInv == settled => ~Calibrating /\ writing = 5 /\ begun > 0

(* What an accepted transfer is to find.                                   *)
Promise ==
  /\ transferKey \in Keys
  /\ oriented \in Datasets
  /\ files[Statistic(transferKey)] = oriented
  /\ files[Manifest(transferKey)] # Absent
TransferInv ==
  begun <= 1 \/ settled =>
    /\ transferPc = "configured" => Promise
    /\ transferPc \in {"unavailable", "failed", "scored"} =>
         transferPc = "scored" /\ loaded = oriented

ArtInv == FilesInv /\ WriterInv /\ OpenedInv /\ FilledInv /\ FreshInv /\ SettledInv /\ TransferInv

LEMMA ArtInitInv == ArtInit => ArtInv
<1> SUFFICES ASSUME ArtInit PROVE ArtInv
  OBVIOUS
<1>1. WriterInv
  BY DEF ArtInit, WriterInv, Calibrating
<1>2. FilesInv /\ FreshInv
  BY OrderIsOneToOne DEF ArtInit, FilesInv, FreshInv
<1>3. OpenedInv
  BY DEF ArtInit, OpenedInv
<1>4. QED
  BY <1>1, <1>2, <1>3 DEF ArtInit, ArtInv, FilledInv, SettledInv, TransferInv

LEMMA BeginKeeps == ASSUME ArtInv, NEW d \in Datasets, BeginCalibration(d) PROVE ArtInv'
<1> USE DEF BeginCalibration, reader
<1>1. WriterInv'
  <2>1. source' \in Datasets \cup {Absent} /\ writing' \in 0..5
    OBVIOUS
  <2>2. begun' \in Nat /\ begun' # 0
    BY DEF ArtInv, WriterInv
  <2>3. QED
    BY <2>1, <2>2 DEF WriterInv
<1>8. FilesInv'
  BY DEF ArtInv, FilesInv
<1>9. OpenedInv'
  BY DEF OpenedInv
<1>2. FilledWith(d)'
  BY DEF FilledWith
<1>3. FilledInv' /\ SettledInv'
  BY <1>2 DEF FilledInv, SettledInv
<1>4. begun' <= 1 => begun = 0 /\ writing = 0
  BY DEF ArtInv, WriterInv
<1>5. FreshInv'
  BY <1>4 DEF ArtInv, FreshInv
<1>6. TransferInv'
  BY <1>4 DEF ArtInv, TransferInv, Promise
<1>7. QED
  BY <1>1, <1>3, <1>5, <1>6, <1>8, <1>9 DEF ArtInv

LEMMA OpenKeeps == ASSUME ArtInv, Open PROVE ArtInv'
<1>1. /\ writing \in 0..4 /\ Calibrating /\ opened' = TRUE
      /\ files' = [files EXCEPT ![WriteOrder[writing + 1]] = Torn]
      /\ UNCHANGED <<writing, source, begun, transferPc, oriented, transferKey, loaded, settled>>
  BY Order DEF Open, reader, ArtInv, WriterInv
<1>2. ~settled
  BY <1>1 DEF ArtInv, SettledInv
<1>3. writing + 1 \in 1..5 /\ WriteOrder[writing + 1] \in Files
  BY <1>1, OrderIsOneToOne
<1>4. /\ files'[WriteOrder[writing + 1]] = Torn
      /\ \A f \in Files : f # WriteOrder[writing + 1] => files'[f] = files[f]
      /\ DOMAIN files' = Files /\ files' = [f \in Files |-> files'[f]]
  BY <1>1, <1>3 DEF ArtInv, FilesInv
<1>5. \A i \in 1..5 : i # writing + 1 => files'[WriteOrder[i]] = files[WriteOrder[i]]
  BY <1>3, <1>4, OrderIsOneToOne
<1>6. WriterInv' /\ FilesInv' /\ OpenedInv'
  <2>1. writing' # 5
    BY <1>1
  <2>2. OpenedInv'
    BY <2>1 DEF OpenedInv
  <2>3. QED
    BY <1>1, <1>4, <2>2 DEF FilesInv, ArtInv, WriterInv, Calibrating
<1>7. FilledInv'
  <2>1. PICK d \in Datasets : begun > 0 => FilledWith(d)
    BY <1>1 DEF ArtInv, FilledInv, WriterInv
  <2>2. begun > 0 => FilledWith(d)'
    BY <1>1, <1>5, <2>1 DEF FilledWith, Calibrating
  <2>3. QED
    BY <1>1, <2>2 DEF FilledInv
<1>8. FreshInv'
  BY <1>1, <1>4, <1>5 DEF ArtInv, FreshInv
<1>9. SettledInv'
  BY <1>1, <1>2 DEF SettledInv
<1>10. TransferInv'
  <2> SUFFICES ASSUME begun <= 1, transferPc = "configured" PROVE Promise'
    BY <1>1, <1>2 DEF ArtInv, TransferInv
  <2>1. Promise
    BY DEF ArtInv, TransferInv
  <2>2. files[WriteOrder[writing + 1]] \in {Absent, Torn}
    BY <1>1, <1>3 DEF ArtInv, FreshInv
  <2>3. Statistic(transferKey) # WriteOrder[writing + 1]
    BY <2>1, <2>2, FileStatesAssumption DEF Promise
  <2>4. files'[Statistic(transferKey)] = oriented
    BY <1>4, <2>1, <2>3, NamesDiffer DEF Promise
  <2>5. files'[Manifest(transferKey)] # Absent
    BY <1>4, <2>1, NamesDiffer, FileStatesAssumption DEF Promise
  <2>6. QED
    BY <1>1, <2>1, <2>4, <2>5 DEF Promise
<1>11. QED
  BY <1>6, <1>7, <1>8, <1>9, <1>10 DEF ArtInv

LEMMA FillKeeps == ASSUME ArtInv, Fill PROVE ArtInv'
<1>1. /\ writing \in 0..4 /\ Calibrating /\ opened' = FALSE /\ source \in Datasets
      /\ files' = [files EXCEPT ![WriteOrder[writing + 1]] = source]
      /\ writing' = writing + 1
      /\ UNCHANGED <<source, begun, transferPc, oriented, transferKey, loaded, settled>>
  <2>1. writing # 5
    BY DEF Fill, ArtInv, OpenedInv
  <2>2. QED
    BY <2>1 DEF Fill, reader, ArtInv, WriterInv, Calibrating
<1>2. ~settled
  BY <1>1 DEF ArtInv, SettledInv
<1>3. writing + 1 \in 1..5 /\ WriteOrder[writing + 1] \in Files
  BY <1>1, OrderIsOneToOne
<1>4. /\ files'[WriteOrder[writing + 1]] = source
      /\ \A f \in Files : f # WriteOrder[writing + 1] => files'[f] = files[f]
      /\ DOMAIN files' = Files /\ files' = [f \in Files |-> files'[f]]
  BY <1>1, <1>3 DEF ArtInv, FilesInv
<1>5. \A i \in 1..5 : i # writing + 1 => files'[WriteOrder[i]] = files[WriteOrder[i]]
  BY <1>3, <1>4, OrderIsOneToOne
<1>6. WriterInv' /\ FilesInv' /\ OpenedInv'
  <2>1. writing' \in 0..5 /\ Calibrating' /\ begun # 0
    BY <1>1 DEF ArtInv, WriterInv, Calibrating
  <2>2. WriterInv'
    BY <1>1, <2>1 DEF ArtInv, WriterInv
  <2>3. FilesInv'
    BY <1>4 DEF FilesInv
  <2>4. OpenedInv'
    BY <1>1 DEF OpenedInv
  <2>5. QED
    BY <2>2, <2>3, <2>4
<1>7. FilledInv'
  <2>1. begun > 0 => FilledWith(source)
    BY <1>1 DEF ArtInv, FilledInv, FilledWith
  <2>2. begun > 0 => FilledWith(source)'
    BY <1>1, <1>4, <1>5, <2>1 DEF FilledWith
  <2>3. QED
    BY <1>1, <2>2 DEF FilledInv
<1>8. FreshInv'
  BY <1>1, <1>5 DEF ArtInv, FreshInv
<1>9. SettledInv'
  BY <1>1, <1>2 DEF SettledInv
<1>10. TransferInv'
  <2> SUFFICES ASSUME begun <= 1, transferPc = "configured" PROVE Promise'
    BY <1>1, <1>2 DEF ArtInv, TransferInv
  <2>1. Promise
    BY DEF ArtInv, TransferInv
  <2>2. files[WriteOrder[writing + 1]] \in {Absent, Torn}
    BY <1>1, <1>3 DEF ArtInv, FreshInv
  <2>3. Statistic(transferKey) # WriteOrder[writing + 1]
    BY <2>1, <2>2, FileStatesAssumption DEF Promise
  <2>4. files'[Statistic(transferKey)] = oriented
    BY <1>4, <2>1, <2>3, NamesDiffer DEF Promise
  <2>5. files'[Manifest(transferKey)] # Absent
    BY <1>1, <1>4, <2>1, NamesDiffer, FileStatesAssumption DEF Promise
  <2>6. QED
    BY <1>1, <2>1, <2>4, <2>5 DEF Promise
<1>11. QED
  BY <1>6, <1>7, <1>8, <1>9, <1>10 DEF ArtInv

LEMMA EndKeeps == ASSUME ArtInv, EndCalibration PROVE ArtInv'
<1> USE DEF EndCalibration, reader
<1>1. ~Calibrating' /\ ~settled
  BY DEF ArtInv, SettledInv, Calibrating
<1>2. FilesInv' /\ WriterInv' /\ OpenedInv' /\ SettledInv'
  BY <1>1 DEF ArtInv, FilesInv, WriterInv, OpenedInv, SettledInv
<1>3. FilledInv'
  BY <1>1 DEF ArtInv, FilledInv, FilledWith
<1>4. FreshInv' /\ TransferInv'
  BY DEF ArtInv, FreshInv, TransferInv, Promise
<1>5. QED
  BY <1>2, <1>3, <1>4 DEF ArtInv

(* A transfer accepted in a fresh directory, or after the last calibration *)
(* of it finished, is promised its statistic.                              *)
LEMMA AcceptedIsPromised ==
  ASSUME ArtInv, begun <= 1 \/ Complete, NEW key \in Keys,
         files[ReportFile] \notin {Absent, Torn}, files[Manifest(key)] # Absent
  PROVE  files[ReportFile] \in Datasets /\ files[Statistic(key)] = files[ReportFile]
<1>1. PICK p \in 2..4 : WriteOrder[p] = Statistic(key) /\ WriteOrder[p + 1] = Manifest(key)
  BY StatisticBeforeManifest
<1>2. p <= writing /\ 1 <= writing
  <2>1. CASE begun <= 1
    <3>1. ~(p + 1 > writing + 1)
      BY <1>1, <2>1 DEF ArtInv, FreshInv
    <3>2. QED
      BY <1>1, <3>1 DEF ArtInv, WriterInv
  <2>2. CASE Complete
    BY <2>2, Order DEF Complete
  <2>3. QED
    BY <2>1, <2>2
<1>3. begun > 0
  BY <1>2 DEF ArtInv, WriterInv
<1>4. PICK d \in Datasets : FilledWith(d)
  BY <1>3 DEF ArtInv, FilledInv
<1>5. files[WriteOrder[1]] = d /\ files[WriteOrder[p]] = d
  BY <1>2, <1>4 DEF FilledWith
<1>6. QED
  BY <1>1, <1>5, Order

LEMMA ConfigureKeeps == ASSUME ArtInv, NEW asked \in KeysAsked, Configure(asked) PROVE ArtInv'
<1> DEFINE key == Resolved(asked)
           wired == /\ files[ReportFile] \notin {Absent, Torn}
                    /\ key \in Keys
                    /\ files[Manifest(key)] # Absent
<1>1. /\ transferPc' = IF wired THEN "configured" ELSE "refused"
      /\ oriented' = IF wired THEN files[ReportFile] ELSE Absent
      /\ transferKey' = key /\ settled' = Complete
      /\ UNCHANGED <<files, writing, opened, source, begun>>
  BY DEF Configure
<1>2. FilesInv' /\ WriterInv' /\ OpenedInv' /\ FilledInv' /\ FreshInv'
  BY <1>1 DEF ArtInv, FilesInv, WriterInv, OpenedInv, FilledInv, FilledWith, FreshInv, Calibrating
<1>3. SettledInv'
  BY <1>1, Order DEF SettledInv, Complete, Calibrating
<1>4. TransferInv'
  <2> SUFFICES ASSUME begun <= 1 \/ Complete, wired PROVE Promise'
    BY <1>1 DEF TransferInv
  <2>1. files[ReportFile] \in Datasets /\ files[Statistic(key)] = files[ReportFile]
    BY AcceptedIsPromised
  <2>2. QED
    BY <1>1, <2>1 DEF Promise
<1>5. QED
  BY <1>2, <1>3, <1>4 DEF ArtInv

LEMMA ApplyKeeps == ASSUME ArtInv, ApplyTransfer PROVE ArtInv'
<1>1. /\ transferPc = "configured"
      /\ loaded' = files[Statistic(transferKey)]
      /\ UNCHANGED <<files, writing, opened, source, begun, oriented, transferKey, settled>>
  BY DEF ApplyTransfer
<1>2. FilesInv' /\ WriterInv' /\ OpenedInv' /\ FilledInv' /\ FreshInv' /\ SettledInv'
  BY <1>1 DEF ArtInv, FilesInv, WriterInv, OpenedInv, FilledInv, FilledWith, FreshInv, SettledInv, Calibrating
<1>3. ASSUME begun <= 1 \/ settled PROVE transferPc' = "scored" /\ loaded' = oriented'
  <2>1. Promise
    BY <1>1, <1>3 DEF ArtInv, TransferInv
  <2>2. QED
    BY <1>1, <2>1, FileStatesAssumption DEF ApplyTransfer, Promise
<1>4. TransferInv'
  BY <1>1, <1>3 DEF TransferInv
<1>5. QED
  BY <1>2, <1>4 DEF ArtInv

LEMMA ArtNextInv == ArtInv /\ [ArtNext]_artVars => ArtInv'
<1> SUFFICES ASSUME ArtInv, [ArtNext]_artVars PROVE ArtInv'
  OBVIOUS
<1>1. ASSUME NEW d \in Datasets, BeginCalibration(d) PROVE ArtInv'
  BY <1>1, BeginKeeps
<1>2. ASSUME NEW key \in KeysAsked, Configure(key) PROVE ArtInv'
  BY <1>2, ConfigureKeeps
<1>3. CASE UNCHANGED artVars
  BY <1>3 DEF artVars, ArtInv, FilesInv, WriterInv, OpenedInv, FilledInv, FilledWith, FreshInv, SettledInv, TransferInv,
              Promise, Calibrating
<1>4. QED
  BY <1>1, <1>2, <1>3, OpenKeeps, FillKeeps, EndKeeps, ApplyKeeps DEF ArtNext

(* The strengthening, wherever calibrations are killed.                    *)
THEOREM ArtefactsInvariant == ArtSpec => []ArtInv
BY ArtInitInv, ArtNextInv, PTL DEF ArtSpec

LEMMA CoherentFollows == ArtInv => AcceptedTransferIsCoherent
BY DEF ArtInv, TransferInv, AcceptedTransferIsCoherent

(* Because a manifest is begun only after its statistic, an accepted       *)
(* transfer scores with the statistic of the dataset it took its           *)
(* orientation from.                                                       *)
THEOREM TransferIsCoherent == ArtSpec => []AcceptedTransferIsCoherent
BY ArtefactsInvariant, CoherentFollows, PTL
-----------------------------------------------------------------------------
(***************************************************************************)
(* Calibration. The scores with their weights, from low to high.           *)
(***************************************************************************)
IsScale(O, W) == IsFiniteSet(O) /\ O \subseteq Int /\ O # {} /\ \A v \in O : W[v] \in Nat
Under(O, W, v) == SumOf(W, {u \in O : u < v})

LEMMA ScaleSplit ==
  ASSUME NEW O, NEW W, IsScale(O, W), NEW v \in Int
  PROVE  /\ Under(O, W, v) \in Nat /\ SumOf(W, O) \in Nat
         /\ SumOf(W, {u \in O : u >= v}) = SumOf(W, O) - Under(O, W, v)
<1> DEFINE L == {u \in O : u < v}
           R == {u \in O : u >= v}
<1>1. IsFiniteSet(O) /\ IsFiniteSet(L) /\ IsFiniteSet(R) /\ L \cap R = {} /\ L \cup R = O
  <2>1. IsFiniteSet(O) /\ L \subseteq O /\ R \subseteq O
    BY DEF IsScale
  <2>2. \A u \in O : u \in Int /\ ~(u < v /\ u >= v) /\ (u < v \/ u >= v)
    BY DEF IsScale
  <2>3. L \cap R = {} /\ L \cup R = O
    BY <2>2, Zenon
  <2> QED BY <2>1, <2>3, FS_Subset
<1>2. \A x \in O : W[x] \in Int /\ W[x] >= 0
  BY DEF IsScale
<1>3. Under(O, W, v) = SumOf(W, L)
  BY DEF Under
<1> HIDE DEF L, R
<1>4. /\ SumOf(W, L) \in Int /\ SumOf(W, R) \in Int /\ SumOf(W, O) \in Int
      /\ SumOf(W, L) >= 0 /\ SumOf(W, R) >= 0 /\ SumOf(W, O) >= 0
  <2>1. \A x \in L \cup R : W[x] \in Int /\ W[x] >= 0
    BY <1>1, <1>2
  <2> QED BY <1>1, <1>2, <2>1, SumType
<1>5. SumOf(W, L \cup R) = SumOf(W, L) + SumOf(W, R)
  BY <1>1, <1>2, SumUnion
<1>6. SumOf(W, O) = SumOf(W, L) + SumOf(W, R)
  BY <1>1, <1>5
<1> QED BY <1>3, <1>4, <1>6 DEF R

LEMMA ScaleGrows ==
  ASSUME NEW O, NEW W, IsScale(O, W), NEW v \in Int, NEW w \in Int, v <= w
  PROVE  /\ Under(O, W, v) <= Under(O, W, w)
         /\ v \in O /\ v < w => Under(O, W, v) + W[v] <= Under(O, W, w)
<1> DEFINE L == {u \in O : u < v}
           M == {u \in O : u >= v /\ u < w}
           B == {u \in O : u < w}
<1>1. IsFiniteSet(L) /\ IsFiniteSet(M) /\ L \cap M = {} /\ L \cup M = B
  <2>1. IsFiniteSet(O) /\ L \subseteq O /\ M \subseteq O
    BY DEF IsScale
  <2>2. \A u \in O : /\ ~(u < v /\ u >= v)
                     /\ u < w <=> u < v \/ (u >= v /\ u < w)
    BY DEF IsScale
  <2>3. L \cap M = {} /\ L \cup M = B
    BY <2>2, Zenon
  <2> QED BY <2>1, <2>3, FS_Subset
<1>2. \A x \in L \cup M : W[x] \in Int /\ W[x] >= 0
  BY DEF IsScale
<1>3. Under(O, W, v) = SumOf(W, L) /\ Under(O, W, w) = SumOf(W, B)
  BY DEF Under
<1>4. v \in O /\ v < w => v \in M
  OBVIOUS
<1> HIDE DEF L, M, B
<1>5. SumOf(W, B) = SumOf(W, L) + SumOf(W, M)
  <2>1. SumOf(W, L \cup M) = SumOf(W, L) + SumOf(W, M)
    BY <1>1, <1>2, SumUnion
  <2> QED BY <1>1, <2>1
<1>6. SumOf(W, L) \in Int /\ SumOf(W, M) \in Int /\ SumOf(W, M) >= 0
  BY <1>1, <1>2, SumType
<1>7. ASSUME v \in M
      PROVE  W[v] <= SumOf(W, M)
  <2>1. SumOf(W, M) = W[v] + SumOf(W, M \ {v})
    BY <1>1, <1>2, <1>7, SumStep
  <2>2. IsFiniteSet(M \ {v})
    BY <1>1, <1>7, FS_RemoveElement
  <2>3. SumOf(W, M \ {v}) \in Int /\ SumOf(W, M \ {v}) >= 0 /\ W[v] \in Int
    BY <1>2, <1>7, <2>2, SumType
  <2> QED BY <2>1, <2>3
<1>8. v \in M => W[v] \in Int
  BY <1>2
<1> QED BY <1>3, <1>4, <1>5, <1>6, <1>7, <1>8

(* Every rank falls on a score.                                            *)
LEMMA ScaleRank ==
  ASSUME NEW O, NEW W, IsScale(O, W), NEW k \in Nat, k < SumOf(W, O)
  PROVE  \E v \in O : Under(O, W, v) <= k /\ k < Under(O, W, v) + W[v]
<1> DEFINE Reaches(v) == k < Under(O, W, v) + W[v]
           T == {v \in O : Reaches(v)}
           m == Max(O)
<1>1. IsFiniteSet(O) /\ O \subseteq Int /\ O # {} /\ \A x \in O : W[x] \in Int /\ W[x] >= 0
  BY DEF IsScale
<1>2. m \in O /\ \A y \in O : y <= m
  BY <1>1, MaxMinExist
<1> HIDE DEF m
<1>3. m \in T
  <2>0. \A u \in O : u < m <=> u # m
    BY <1>1, <1>2
  <2>1. {u \in O : u < m} = O \ {m}
    BY <2>0, Zenon
  <2>2. Under(O, W, m) = SumOf(W, O \ {m})
    BY <2>1 DEF Under
  <2>3. SumOf(W, O) = W[m] + SumOf(W, O \ {m})
    BY <1>1, <1>2, SumStep
  <2>4. W[m] \in Int /\ SumOf(W, O \ {m}) \in Int
    BY <1>1, <1>2, FS_RemoveElement, SumType
  <2> QED BY <1>2, <2>2, <2>3, <2>4
<1>4. IsFiniteSet(T) /\ T \subseteq Int /\ T # {}
  BY <1>1, <1>3, FS_Subset
<1>5. PICK v \in T : \A y \in T : v <= y
  <2> HIDE DEF T
  <2> QED BY <1>4, MaxMinExist
<1>6. Under(O, W, v) <= k
  <2> DEFINE D == {u \in O : u < v}
  <2>1. IsFiniteSet(D) /\ D \subseteq Int /\ D \subseteq O /\ Under(O, W, v) = SumOf(W, D)
    BY <1>1, FS_Subset DEF Under
  <2>2. CASE D = {}
    BY <2>1, <2>2, SumEmpty
  <2>3. CASE D # {}
    <3>1. PICK w \in D : \A y \in D : y <= w
      <4> HIDE DEF D
      <4> QED BY <2>1, <2>3, MaxMinExist
    <3>0. \A u \in O : u < w <=> u < v /\ u # w
      BY <1>1, <1>5, <3>1
    <3>2. {u \in O : u < w} = D \ {w}
      BY <3>0, Zenon
    <3>3. Under(O, W, w) = SumOf(W, D \ {w})
      BY <3>2 DEF Under
    <3>4. w \notin T /\ w \in O
      BY <1>1, <1>5, <3>1
    <3>5. ~Reaches(w)
      BY <3>4
    <3> HIDE DEF D
    <3>6. SumOf(W, D) = W[w] + SumOf(W, D \ {w})
      BY <1>1, <2>1, <3>1, SumStep
    <3>7. IsFiniteSet(D \ {w})
      BY <2>1, FS_RemoveElement
    <3>8. W[w] \in Int /\ SumOf(W, D \ {w}) \in Int
      BY <1>1, <2>1, <3>1, <3>7, SumType
    <3> QED BY <2>1, <3>3, <3>5, <3>6, <3>8
  <2> QED BY <2>2, <2>3
<1> QED BY <1>5, <1>6

(***************************************************************************)
(* The oriented scores are a scale.                                        *)
(***************************************************************************)
Weight == [v \in Oriented |-> Of(v)]
OfSums(g, S) == g = [s \in SUBSET S |-> IF s = {} THEN 0 ELSE Of(Pick(s)) + g[s \ {Pick(s)}]]

LEMMA CountIsSum == \A bag : Count(bag) = SumOf(bag, Scores)
<1>1. IsFiniteSet(Scores)
  BY CalibrationBoundsAssumption, FS_Interval DEF Scores
<1> QED BY <1>1, MappedSum DEF Count

LEMMA CalScale ==
  ASSUME CalTypeOK
  PROVE  /\ IsScale(Oriented, Weight) /\ SumOf(Weight, Oriented) = Handoffs
         /\ \A v \in Oriented : Weight[v] = Of(v)
<1>1. IsFiniteSet(Scores) /\ Scores \subseteq Int /\ 0 \in Scores
  BY CalibrationBoundsAssumption, FS_Interval DEF Scores
<1>2. /\ scored \in [Scores -> Nat] /\ orientation \in {-1, 1}
      /\ \A v \in Scores : scored[v] \in Int
  BY DEF CalTypeOK
<1>3. Handoffs = SumOf(scored, Scores)
  BY CountIsSum DEF Handoffs
<1>4. \A v \in Oriented : Weight[v] = Of(v)
  BY DEF Weight
<1>5. CASE orientation = 1
  <2>1. Oriented = Scores /\ \A v \in Scores : Weight[v] = scored[v]
    BY <1>4, <1>5 DEF Oriented, Of
  <2>2. SumOf(scored, Scores) = SumOf(Weight, Scores)
    BY <1>1, <1>2, <2>1, SumSame
  <2> QED BY <1>1, <1>2, <1>3, <1>4, <2>1, <2>2 DEF IsScale
<1>6. CASE orientation # 1
  <2> DEFINE m == [v \in Scores |-> -v]
  <2>1. Oriented = {m[v] : v \in Scores}
    BY <1>6 DEF Oriented
  <2>2. \A x, y \in Scores : m[x] = m[y] => x = y
    BY <1>1
  <2>3. ASSUME NEW x \in Scores
        PROVE  m[x] \in Oriented /\ m[x] \in Int /\ Weight[m[x]] = scored[x]
    <3>1. m[x] \in Oriented /\ m[x] \in Int /\ -m[x] = x
      BY <1>1, <2>1
    <3>2. Of(m[x]) = scored[-m[x]]
      BY <1>6 DEF Of
    <3> HIDE DEF m
    <3> QED BY <1>4, <3>1, <3>2
  <2> HIDE DEF m
  <2>4. IsFiniteSet(Oriented) /\ SumOf(Weight, Oriented) = SumOf(scored, Scores)
    <3>1. \A x \in Scores : scored[x] \in Int /\ Weight[m[x]] = scored[x]
      BY <1>2, <2>3
    <3>2. /\ IsFiniteSet({m[x] : x \in Scores})
          /\ SumOf(Weight, {m[x] : x \in Scores}) = SumOf(scored, Scores)
      BY <1>1, <2>2, <3>1, SumRenamed
    <3> QED BY <2>1, <3>2
  <2>5. IsScale(Oriented, Weight)
    BY <1>1, <1>2, <2>1, <2>3, <2>4 DEF IsScale
  <2> QED BY <1>3, <1>4, <2>4, <2>5
<1> QED BY <1>5, <1>6

LEMMA OfSumsAreSums ==
  ASSUME CalTypeOK, NEW S \in SUBSET Oriented
  PROVE  (CHOOSE g : OfSums(g, S))[S] = SumOf(Weight, S)
<1> DEFINE h == CHOOSE g : OfSums(g, S)
<1>1. IsFiniteSet(S)
  BY CalScale, FS_Subset DEF IsScale
<1>2. PICK g : Adds(g, Weight, S)
  BY <1>1, AddsExists
<1>3. \A s \in SUBSET S : s # {} => Weight[Pick(s)] = Of(Pick(s))
  BY CalScale DEF Pick
<1>4. OfSums(g, S)
  BY <1>2, <1>3 DEF Adds, OfSums
<1>5. OfSums(h, S)
  BY <1>4
<1>6. Adds(h, Weight, S)
  <2> HIDE DEF h
  <2> QED BY <1>3, <1>5 DEF Adds, OfSums
<1> QED BY <1>1, <1>6, SumIsRunning

LEMMA BelowIsUnder ==
  ASSUME CalTypeOK, NEW v
  PROVE  Below(v) = Under(Oriented, Weight, v)
<1> DEFINE S == {u \in Oriented : u < v}
<1>1. Below(v) = (CHOOSE g : OfSums(g, S))[S]
  BY DEF Below, OfSums, MapThenSumSet, MapThenFoldSet, Pick
<1>2. S \in SUBSET Oriented
  OBVIOUS
<1> QED BY <1>1, <1>2, OfSumsAreSums DEF Under

LEMMA FiringIsSum ==
  ASSUME CalTypeOK, NEW t
  PROVE  FiringAt(t) = SumOf(Weight, {v \in Oriented : budget.den * v >= t})
<1> DEFINE S == {v \in Oriented : budget.den * v >= t}
<1>1. FiringAt(t) = (CHOOSE g : OfSums(g, S))[S]
  BY DEF FiringAt, OfSums, MapThenSumSet, MapThenFoldSet, Pick
<1>2. S \in SUBSET Oriented
  OBVIOUS
<1> HIDE DEF S
<1>3. FiringAt(t) = SumOf(Weight, S)
  BY <1>1, <1>2, OfSumsAreSums
<1> QED BY <1>3 DEF S

LEMMA RankIs ==
  ASSUME CalTypeOK, NEW k \in Nat, k < Handoffs
  PROVE  /\ Rank(k) \in Present /\ Rank(k) \in Oriented /\ Rank(k) \in Int
         /\ Below(Rank(k)) <= k /\ k < Below(Rank(k)) + Of(Rank(k))
<1> DEFINE Falls(v) == Below(v) <= k /\ k < Below(v) + Of(v)
<1>1. IsScale(Oriented, Weight) /\ SumOf(Weight, Oriented) = Handoffs
      /\ \A v \in Oriented : Weight[v] = Of(v) /\ v \in Int /\ Of(v) \in Nat
  BY CalScale DEF IsScale
<1>2. PICK v \in Oriented : /\ Under(Oriented, Weight, v) <= k
                            /\ k < Under(Oriented, Weight, v) + Weight[v]
  BY <1>1, ScaleRank
<1>3. Falls(v)
  BY <1>1, <1>2, BelowIsUnder
<1>4. v \in Present
  <2>1. Below(v) \in Nat
    BY <1>1, BelowIsUnder, ScaleSplit
  <2>2. Of(v) > 0
    BY <1>1, <1>3, <2>1
  <2> QED BY <2>2 DEF Present
<1>5. Rank(k) = CHOOSE u \in Present : Falls(u)
  BY DEF Rank
<1>6. Present \subseteq Oriented
  BY DEF Present
<1> HIDE DEF Falls
<1>7. Rank(k) \in Present /\ Falls(Rank(k))
  BY <1>3, <1>4, <1>5
<1> QED BY <1>1, <1>6, <1>7 DEF Falls

(* The position of the quantile among the ranks, and what the share of the *)
(* handoffs above a cut comes to.                                          *)
IsPosition(H, b, d, low, part) ==
  /\ H \in Nat \ {0} /\ b \in Nat \ {0} /\ d \in Nat \ {0} /\ b <= d
  /\ low \in Nat /\ part \in 0 .. d - 1
  /\ (d - b) * (H - 1) = d * low + part

LEMMA PositionArithmetic ==
  ASSUME NEW H, NEW b, NEW d, NEW low, NEW part, IsPosition(H, b, d, low, part)
  PROVE  /\ low < H /\ (part > 0 => low + 1 < H)
         /\ \A x \in Nat : x + 1 <= low => (H - x) * d > b * H
         /\ \A x \in Nat : x <= low /\ part > 0 => (H - x) * d > b * H
         /\ \A x \in Nat : x >= low + 1 => (H - x - 1) * d < b * H
<1> USE DEF IsPosition
<1> DEFINE dH == d * H
           bH == b * H
           dl == d * low
<1>1. dH \in Int /\ bH \in Int /\ dl \in Int
  OBVIOUS
<1>2. dH - d - bH + b = dl + part
  <2>1. (d - b) * (H - 1) = d * H - d - b * H + b
    OBVIOUS
  <2> QED BY <2>1
<1>3. \A x \in Nat : (H - x) * d = dH - d * x /\ (H - x - 1) * d = dH - d * x - d /\ d * x \in Int
  OBVIOUS
<1>4. \A x \in Nat : x <= low => d * x <= dl
  OBVIOUS
<1>5. \A x \in Nat : x + 1 <= low => d * x + d <= dl
  <2> SUFFICES ASSUME NEW x \in Nat, x + 1 <= low PROVE d * x + d <= dl
    OBVIOUS
  <2>1. d * (x + 1) <= d * low
    OBVIOUS
  <2> QED BY <2>1
<1>6. \A x \in Nat : x >= low + 1 => d * x >= dl + d
  <2> SUFFICES ASSUME NEW x \in Nat, x >= low + 1 PROVE d * x >= dl + d
    OBVIOUS
  <2>1. d * x >= d * (low + 1)
    OBVIOUS
  <2> QED BY <2>1
<1>7. low >= H => dl >= dH
  <2> SUFFICES ASSUME low >= H PROVE d * low >= d * H
    OBVIOUS
  <2> QED OBVIOUS
<1>8. low + 1 >= H => dl + d >= dH
  <2> SUFFICES ASSUME low + 1 >= H PROVE d * low + d >= d * H
    OBVIOUS
  <2>1. d * (low + 1) >= d * H
    OBVIOUS
  <2> QED BY <2>1
<1>9. bH >= b
  OBVIOUS
<1> HIDE DEF dH, bH, dl
<1>10. low < H /\ (part > 0 => low + 1 < H)
  BY <1>1, <1>2, <1>7, <1>8, <1>9
<1>11. \A x \in Nat : x + 1 <= low => (H - x) * d > bH
  BY <1>1, <1>2, <1>3, <1>5
<1>12. \A x \in Nat : x <= low /\ part > 0 => (H - x) * d > bH
  BY <1>1, <1>2, <1>3, <1>4
<1>13. \A x \in Nat : x >= low + 1 => (H - x - 1) * d < bH
  BY <1>1, <1>2, <1>3, <1>6
<1> QED BY <1>10, <1>11, <1>12, <1>13 DEF bH

LEMMA QuantileIs ==
  ASSUME CalTypeOK, Handoffs \in Nat \ {0}
  PROVE  \E low, part :
           /\ IsPosition(Handoffs, budget.num, budget.den, low, part)
           /\ Quantile = budget.den * Rank(low)
                           + part * (Rank(IF part = 0 THEN low ELSE low + 1) - Rank(low))
<1> DEFINE H == Handoffs
           b == budget.num
           d == budget.den
           position == (d - b) * (H - 1)
           low == position \div d
           part == position % d
<1>1. b \in Nat \ {0} /\ d \in Nat \ {0} /\ b <= d /\ H \in Nat \ {0}
  BY BudgetsAssumption DEF CalTypeOK
<1>2. Quantile = d * Rank(low) + part * (Rank(IF part = 0 THEN low ELSE low + 1) - Rank(low))
  BY DEF Quantile
<1>3. position \in Nat
  <2> HIDE DEF H, b, d
  <2>1. d - b \in Nat /\ H - 1 \in Nat
    BY <1>1
  <2> QED BY <2>1
<1>4. low \in Nat /\ part \in 0 .. d - 1 /\ position = d * low + part
  <2> HIDE DEF position, d
  <2> QED BY <1>1, <1>3, Division
<1>5. IsPosition(H, b, d, low, part)
  <2>1. (d - b) * (H - 1) = d * low + part
    BY <1>4
  <2> HIDE DEF low, part, H, b, d
  <2> QED BY <1>1, <1>4, <2>1 DEF IsPosition
<1> HIDE DEF low, part
<1> QED BY <1>2, <1>5

(* A score below the quantile blocks more than the budget; one above it    *)
(* stays within it but for a handoff.                                      *)
LEMMA QuantileCuts ==
  ASSUME CalTypeOK, Handoffs \in Nat \ {0}
  PROVE  /\ Quantile \in Int
         /\ \A v \in Present :
              /\ budget.den * v < Quantile =>
                   (Handoffs - Below(v)) * budget.den > budget.num * Handoffs
              /\ budget.den * v > Quantile =>
                   (Handoffs - Below(v) - 1) * budget.den < budget.num * Handoffs
<1> DEFINE H == Handoffs
           b == budget.num
           d == budget.den
<1>1. PICK low, part :
        /\ IsPosition(H, b, d, low, part)
        /\ Quantile = d * Rank(low) + part * (Rank(IF part = 0 THEN low ELSE low + 1) - Rank(low))
  BY QuantileIs
<1>2. low \in Nat /\ part \in 0 .. d - 1 /\ d \in Nat \ {0} /\ H \in Nat \ {0}
  BY <1>1 DEF IsPosition
<1>3. low < H /\ (part > 0 => low + 1 < H)
  BY <1>1, PositionArithmetic
<1> DEFINE high == IF part = 0 THEN low ELSE low + 1
           r == Rank(low)
           q == Rank(high)
<1>4. high \in Nat /\ high < H
  BY <1>2, <1>3
<1>5. /\ r \in Present /\ r \in Int /\ Below(r) <= low /\ low < Below(r) + Of(r)
      /\ q \in Present /\ q \in Int /\ Below(q) <= high /\ high < Below(q) + Of(q)
  <2> HIDE DEF high
  <2> QED BY <1>2, <1>3, <1>4, RankIs
<1>6. Quantile = d * r + part * (q - r) /\ (part = 0 => q = r)
  BY <1>1
<1>7. \A v \in Present : v \in Int /\ Below(v) \in Nat /\ Of(v) \in Nat \ {0}
  <2> SUFFICES ASSUME NEW v \in Present
               PROVE  v \in Int /\ Below(v) \in Nat /\ Of(v) \in Nat \ {0}
    OBVIOUS
  <2>1. v \in Oriented /\ Of(v) > 0
    BY DEF Present
  <2>2. v \in Int /\ Of(v) \in Nat /\ IsScale(Oriented, Weight)
    BY <2>1, CalScale DEF IsScale
  <2>3. Below(v) \in Nat
    BY <2>2, BelowIsUnder, ScaleSplit
  <2> QED BY <2>1, <2>2, <2>3
<1>8. \A v, w \in Present : v < w => Below(v) + Of(v) <= Below(w)
  <2> SUFFICES ASSUME NEW v \in Present, NEW w \in Present, v < w
               PROVE  Below(v) + Of(v) <= Below(w)
    OBVIOUS
  <2>1. v \in Oriented /\ v \in Int /\ w \in Int /\ IsScale(Oriented, Weight) /\ Weight[v] = Of(v)
    BY <1>7, CalScale DEF Present
  <2> QED BY <2>1, BelowIsUnder, ScaleGrows
<1>9. high = IF part = 0 THEN low ELSE low + 1
  OBVIOUS
<1> HIDE DEF high, r, q, H, b, d
<1>10. r <= q
  <2> SUFFICES ASSUME q < r PROVE FALSE
    BY <1>5
  <2>1. Below(q) + Of(q) <= Below(r)
    BY <1>5, <1>8
  <2> QED BY <1>2, <1>5, <1>7, <1>9, <2>1
<1>11. Quantile \in Int /\ d * r <= Quantile /\ Quantile <= d * q
  <2>1. d * r \in Int /\ d * q \in Int /\ part * (q - r) \in Int
    BY <1>2, <1>5
  <2>2. 0 <= part * (q - r)
    BY <1>2, <1>5, <1>10
  <2>3. part * (q - r) <= d * (q - r)
    BY <1>2, <1>5, <1>10
  <2>4. d * (q - r) = d * q - d * r
    BY <1>2, <1>5
  <2> QED BY <1>6, <2>1, <2>2, <2>3, <2>4
<1>12. ASSUME NEW v \in Present, d * v < Quantile
       PROVE  (H - Below(v)) * d > b * H
  <2>1. v < q
    <3> SUFFICES ASSUME v >= q PROVE FALSE
      BY <1>5, <1>7
    <3>1. d * v >= d * q
      BY <1>2, <1>5, <1>7
    <3> QED BY <1>2, <1>5, <1>7, <1>11, <1>12, <3>1
  <2>2. CASE v < r
    <3>1. Below(v) + 1 <= low
      <4>1. Below(v) + Of(v) <= Below(r)
        BY <1>5, <1>8, <2>2
      <4> QED BY <1>2, <1>5, <1>7, <4>1
    <3> QED BY <1>1, <1>7, <3>1, PositionArithmetic
  <2>3. CASE v = r
    <3>1. part > 0
      BY <1>2, <1>5, <1>6, <2>1, <2>3
    <3> QED BY <1>1, <1>5, <1>7, <2>3, <3>1, PositionArithmetic
  <2>4. CASE v > r
    <3>1. Below(r) + Of(r) <= Below(v) /\ Below(v) + Of(v) <= Below(q)
      BY <1>5, <1>8, <2>1, <2>4
    <3> QED BY <1>2, <1>5, <1>7, <1>9, <3>1
  <2> QED BY <1>5, <1>7, <2>2, <2>3, <2>4
<1>13. ASSUME NEW v \in Present, d * v > Quantile
       PROVE  (H - Below(v) - 1) * d < b * H
  <2>1. v > r
    <3> SUFFICES ASSUME v <= r PROVE FALSE
      BY <1>5, <1>7
    <3>1. d * v <= d * r
      BY <1>2, <1>5, <1>7
    <3>2. d * v \in Int /\ d * r \in Int
      BY <1>2, <1>5, <1>7
    <3> QED BY <1>11, <1>13, <3>1, <3>2
  <2>2. Below(r) + Of(r) <= Below(v)
    BY <1>5, <1>8, <2>1
  <2>3. Below(v) >= low + 1
    BY <1>2, <1>5, <1>7, <2>2
  <2> QED BY <1>1, <1>7, <2>3, PositionArithmetic
<1> QED BY <1>11, <1>12, <1>13 DEF H, b, d

(* What fires at a cut: less at a higher one, and at a score all that is   *)
(* not below it.                                                           *)
LEMMA FiringFalls ==
  ASSUME CalTypeOK
  PROVE  /\ \A t \in Int : FiringAt(t) \in Nat
         /\ \A t, s \in Int : t <= s => FiringAt(s) <= FiringAt(t)
         /\ \A v \in Int : FiringAt(budget.den * v) = Handoffs - Below(v)
<1> DEFINE d == budget.den
           Fires(t) == {v \in Oriented : d * v >= t}
<1>1. /\ IsScale(Oriented, Weight) /\ SumOf(Weight, Oriented) = Handoffs
      /\ IsFiniteSet(Oriented) /\ \A v \in Oriented : v \in Int
      /\ \A v \in Oriented : Weight[v] \in Int /\ Weight[v] >= 0
  BY CalScale DEF IsScale
<1>2. d \in Nat \ {0}
  BY BudgetsAssumption DEF CalTypeOK
<1>3. \A t : FiringAt(t) = SumOf(Weight, Fires(t))
  BY FiringIsSum
<1>4. \A t : Fires(t) \subseteq Oriented /\ IsFiniteSet(Fires(t))
  BY <1>1, FS_Subset
<1>5. ASSUME NEW t \in Int
      PROVE  FiringAt(t) \in Nat
  <2> DEFINE S == Fires(t)
  <2>1. IsFiniteSet(S) /\ \A v \in S : Weight[v] \in Int /\ Weight[v] >= 0
    BY <1>1, <1>4
  <2>2. FiringAt(t) = SumOf(Weight, S)
    BY <1>3
  <2> HIDE DEF S
  <2> QED BY <2>1, <2>2, SumType
<1>6. ASSUME NEW t \in Int, NEW s \in Int, t <= s
      PROVE  FiringAt(s) <= FiringAt(t)
  <2> DEFINE S == Fires(t)
             A == Fires(s)
  <2>1. A \in SUBSET S
    BY <1>1, <1>2, <1>6
  <2>2. IsFiniteSet(S) /\ \A v \in S : Weight[v] \in Int /\ Weight[v] >= 0
    BY <1>1, <1>4
  <2>3. FiringAt(t) = SumOf(Weight, S) /\ FiringAt(s) = SumOf(Weight, A)
    BY <1>3
  <2> HIDE DEF S, A
  <2> QED BY <2>1, <2>2, <2>3, SumSubset
<1>7. ASSUME NEW v \in Int
      PROVE  FiringAt(d * v) = Handoffs - Below(v)
  <2>1. \A u \in Oriented : d * u >= d * v <=> u >= v
    <3> SUFFICES ASSUME NEW u \in Int PROVE d * u >= d * v <=> u >= v
      BY <1>1
    <3>1. u >= v => d * u >= d * v
      BY <1>2
    <3>2. u < v => d * u < d * v
      BY <1>2
    <3> QED BY <1>2, <3>1, <3>2
  <2>2. Fires(d * v) = {u \in Oriented : u >= v}
    BY <2>1, Zenon
  <2>3. FiringAt(d * v) = SumOf(Weight, {u \in Oriented : u >= v})
    BY <1>3, <2>2
  <2>4. SumOf(Weight, {u \in Oriented : u >= v}) = Handoffs - Below(v)
    BY <1>1, BelowIsUnder, ScaleSplit
  <2> QED BY <2>3, <2>4
<1> QED BY <1>5, <1>6, <1>7

(* Nothing is present, and nothing fires, above the highest score.         *)
LEMMA AboveAll ==
  ASSUME CalTypeOK, Handoffs \in Nat \ {0}
  PROVE  /\ Present # {} /\ IsFiniteSet(Present) /\ Present \subseteq Int
         /\ Max(Present) \in Int /\ FiringAt(budget.den * (Max(Present) + 1)) = 0
<1>1. /\ Present \subseteq Oriented /\ IsFiniteSet(Oriented) /\ Oriented \subseteq Int
      /\ \A v \in Oriented : Weight[v] = Of(v) /\ Of(v) \in Nat
  BY CalScale DEF IsScale, Present
<1>2. IsFiniteSet(Present) /\ Present \subseteq Int
  BY <1>1, FS_Subset
<1>3. Present # {}
  <2>1. Rank(0) \in Present
    BY RankIs
  <2> QED BY <2>1
<1> DEFINE m == Max(Present) + 1
<1>4. Max(Present) \in Int /\ \A v \in Present : v <= Max(Present)
  <2>1. Max(Present) \in Present /\ \A v \in Present : v <= Max(Present)
    BY <1>2, <1>3, MaxMinExist
  <2> QED BY <1>2, <2>1
<1>5. m \in Int /\ \A v \in Present : v < m
  BY <1>2, <1>4
<1> HIDE DEF m
<1>6. FiringAt(budget.den * m) = Handoffs - Below(m)
  BY <1>5, FiringFalls
<1>7. Handoffs - Below(m) = SumOf(Weight, {u \in Oriented : u >= m})
  BY <1>5, BelowIsUnder, CalScale, ScaleSplit
<1> DEFINE S == {u \in Oriented : u >= m}
<1>8. IsFiniteSet(S)
  BY <1>1, FS_Subset
<1>9. \A u \in S : Weight[u] = 0
  <2> SUFFICES ASSUME NEW u \in S, Of(u) # 0 PROVE FALSE
    BY <1>1
  <2>1. u \in Present
    BY <1>1 DEF Present
  <2>2. u \in Int
    BY <1>1
  <2> QED BY <1>5, <2>1, <2>2
<1>10. SumOf(Weight, S) = 0
  <2> HIDE DEF S
  <2>1. \A u \in S : Weight[u] = IF u \in {} THEN 1 ELSE 0
    BY <1>9
  <2>2. SumOf(Weight, S) = Cardinality({})
    BY <1>8, <2>1, SumCounts
  <2> QED BY <2>2, FS_EmptySet
<1> QED BY <1>2, <1>3, <1>4, <1>6, <1>7, <1>10 DEF m

LEMMA ScaleUnchanged ==
  ASSUME UNCHANGED <<calInputs, orientation>>
  PROVE  /\ Present' = Present /\ Handoffs' = Handoffs /\ Orientation' = Orientation
         /\ Quantile' = Quantile
         /\ PairsWhere(1)' = PairsWhere(1) /\ PairsWhere(-1)' = PairsWhere(-1)
<1>1. UNCHANGED <<scored, failing, budget, orientation>>
  BY DEF calInputs
<1>2. Present' = Present /\ Handoffs' = Handoffs
  BY <1>1 DEF Present, Handoffs, Oriented, Of
<1>3. PairsWhere(1)' = PairsWhere(1) /\ PairsWhere(-1)' = PairsWhere(-1)
  BY <1>1 DEF PairsWhere, Passing, MapThenSumSet, MapThenFoldSet
<1>4. Orientation' = Orientation
  BY <1>3 DEF Orientation
<1>5. Quantile' = Quantile
  BY <1>1 DEF Quantile, Rank, Present, Handoffs, Oriented, Of, Below, MapThenSumSet, MapThenFoldSet
<1> QED BY <1>2, <1>3, <1>4, <1>5

LEMMA FiringUnchanged ==
  ASSUME UNCHANGED <<calInputs, orientation>>, NEW t
  PROVE  FiringAt(t)' = FiringAt(t)
<1>1. UNCHANGED <<scored, failing, budget, orientation>>
  BY DEF calInputs
<1> QED BY <1>1 DEF FiringAt, Oriented, Of, MapThenSumSet, MapThenFoldSet

LEMMA PairsAreCounts == CalTypeOK => PairsWhere(1) \in Int /\ PairsWhere(-1) \in Int
<1> SUFFICES ASSUME CalTypeOK, NEW sign PROVE PairsWhere(sign) \in Int
  OBVIOUS
<1> DEFINE All == Scores \X Scores
           S == {p \in All : sign * p[1] > sign * p[2]}
           Term(p) == failing[p[1]] * Passing[p[2]]
           f == [p \in All |-> Term(p)]
           Sums(g) == g = [s \in SUBSET S |-> IF s = {} THEN 0 ELSE Term(Pick(s)) + g[s \ {Pick(s)}]]
           h == CHOOSE g : Sums(g)
<1>1. IsFiniteSet(S)
  <2>1. IsFiniteSet(Scores)
    BY CalibrationBoundsAssumption, FS_Interval DEF Scores
  <2>2. IsFiniteSet(All)
    BY <2>1, FS_Product
  <2>3. S \subseteq All
    OBVIOUS
  <2> QED BY <2>2, <2>3, FS_Subset
<1>2. PairsWhere(sign) = h[S]
  BY DEF PairsWhere, MapThenSumSet, MapThenFoldSet, Pick
<1>3. \A p \in S : f[p] \in Int /\ f[p] = Term(p)
  BY DEF CalTypeOK, Passing
<1> HIDE DEF f, Term, S
<1>4. PICK g : Adds(g, f, S)
  BY <1>1, AddsExists
<1>5. \A s \in SUBSET S : s # {} => f[Pick(s)] = Term(Pick(s))
  BY <1>3 DEF Pick
<1>6. Sums(g)
  BY <1>4, <1>5 DEF Adds
<1>7. Sums(h)
  <2> HIDE DEF Sums
  <2> QED BY <1>6
<1>8. Adds(h, f, S)
  <2> HIDE DEF h
  <2> QED BY <1>5, <1>7 DEF Adds
<1> HIDE DEF h
<1>9. h[S] = SumOf(f, S)
  BY <1>1, <1>8, SumIsRunning
<1> QED BY <1>1, <1>2, <1>3, <1>9, SumType

(***************************************************************************)
(* The invariant.                                                          *)
(***************************************************************************)
(* From its orientation on, a calibration cuts where the quantile says.    *)
CalInv ==
  /\ CalTypeOK
  /\ Handoffs \in Nat \ {0}
  /\ calPc \in {"quantile", "above", "calibrated"} => orientation = Orientation
  /\ calPc = "above" => threshold = Quantile /\ firing = FiringAt(Quantile)
  /\ ThresholdIsTight

LEMMA CalInitInv == CalInit => CalInv
<1> SUFFICES ASSUME CalInit PROVE CalInv
  OBVIOUS
<1>1. CalTypeOK
  <2>1. 0..MaxCalibrated \subseteq Nat
    BY CalibrationBoundsAssumption
  <2> QED BY <2>1 DEF CalInit, CalTypeOK
<1>2. Handoffs \in Nat \ {0} /\ calPc = "labels"
  BY CalibrationBoundsAssumption DEF CalInit
<1> QED BY <1>1, <1>2 DEF CalInv, ThresholdIsTight

(* The quantile's own cut, when it is within the budget.                   *)
LEMMA QuantileIsTight ==
  ASSUME CalTypeOK, Handoffs \in Nat \ {0}, ~OverBudget(FiringAt(Quantile))
  PROVE  /\ (FiringAt(Quantile) - 1) * budget.den < budget.num * Handoffs
         /\ \A v \in Present : FiringAt(budget.den * v) > FiringAt(Quantile)
                                 => OverBudget(FiringAt(budget.den * v))
<1> DEFINE d == budget.den
           f == FiringAt(Quantile)
<1>1. d \in Nat \ {0} /\ budget.num \in Nat \ {0} /\ Quantile \in Int /\ f \in Nat
  BY BudgetsAssumption, QuantileCuts, FiringFalls DEF CalTypeOK
<1>2. (f - 1) * d < budget.num * Handoffs
  <2>1. ~(f * d > budget.num * Handoffs)
    BY DEF OverBudget
  <2> HIDE DEF f, d
  <2>2. (f - 1) * d = f * d - d /\ f * d \in Int /\ budget.num * Handoffs \in Int
    BY <1>1
  <2> QED BY <1>1, <2>1, <2>2
<1>3. ASSUME NEW v \in Present, FiringAt(d * v) > f
      PROVE  OverBudget(FiringAt(d * v))
  <2>1. v \in Int
    BY AboveAll
  <2>2. d * v \in Int /\ FiringAt(d * v) \in Nat /\ FiringAt(d * v) = Handoffs - Below(v)
    BY <1>1, <2>1, FiringFalls
  <2>3. d * v < Quantile
    <3> SUFFICES ASSUME Quantile <= d * v PROVE FALSE
      BY <1>1, <2>2
    <3>1. FiringAt(d * v) <= f
      BY <1>1, <2>2, FiringFalls
    <3> QED BY <1>1, <1>3, <2>2, <3>1
  <2>4. (Handoffs - Below(v)) * d > budget.num * Handoffs
    BY <2>3, QuantileCuts
  <2> QED BY <2>2, <2>4 DEF OverBudget
<1> QED BY <1>2, <1>3

(* The next score above it, or above every score, when it is not.          *)
LEMMA NextCutIsTight ==
  ASSUME CalTypeOK, Handoffs \in Nat \ {0}, OverBudget(FiringAt(Quantile)),
         NEW above, above = {v \in Present : budget.den * v > Quantile},
         NEW cut, cut = IF above # {} THEN budget.den * Min(above)
                        ELSE budget.den * (Max(Present) + 1)
  PROVE  /\ cut \in Int
         /\ (FiringAt(cut) - 1) * budget.den < budget.num * Handoffs
         /\ \A v \in Present : FiringAt(budget.den * v) > FiringAt(cut)
                                 => OverBudget(FiringAt(budget.den * v))
<1> DEFINE d == budget.den
           m == IF above # {} THEN Min(above) ELSE Max(Present) + 1
<1>1. d \in Nat \ {0} /\ budget.num \in Nat \ {0} /\ Quantile \in Int
      /\ budget.num * Handoffs \in Nat
  BY BudgetsAssumption, QuantileCuts DEF CalTypeOK
<1>2. IsFiniteSet(Present) /\ Present \subseteq Int /\ Present # {} /\ Max(Present) \in Int
      /\ FiringAt(d * (Max(Present) + 1)) = 0
  BY AboveAll
<1>3. IsFiniteSet(above) /\ above \subseteq Int /\ above \subseteq Present
  BY <1>2, FS_Subset
<1>4. above # {} => Min(above) \in above /\ \A y \in above : Min(above) <= y
  BY <1>3, MaxMinExist
<1>5. \A v \in Present : v < m => ~(v \in above)
  <2>1. CASE above = {}
    BY <2>1
  <2>2. CASE above # {}
    <3>1. m = Min(above) /\ m \in Int
      BY <1>3, <1>4, <2>2
    <3> SUFFICES ASSUME NEW v \in above, v < m PROVE FALSE
      OBVIOUS
    <3>2. m <= v /\ v \in Int
      BY <1>3, <1>4, <2>2, <3>1
    <3> HIDE DEF m
    <3> QED BY <3>1, <3>2
  <2> QED BY <2>1, <2>2
<1>6. m \in Int /\ cut = d * m /\ (above # {} => m \in above) /\ (above = {} => FiringAt(d * m) = 0)
  <2>1. CASE above = {}
    <3>1. m = Max(Present) + 1 /\ cut = d * m
      BY <2>1
    <3>2. m \in Int /\ FiringAt(d * m) = 0
      BY <1>2, <3>1
    <3> HIDE DEF m, d
    <3> QED BY <2>1, <3>1, <3>2
  <2>2. CASE above # {}
    <3>1. m = Min(above) /\ cut = d * m
      BY <2>2
    <3> HIDE DEF m
    <3> QED BY <1>3, <1>4, <2>2, <3>1
  <2> QED BY <2>1, <2>2
<1> HIDE DEF m
<1>7. cut \in Int
  BY <1>1, <1>6
<1>8. (FiringAt(cut) - 1) * d < budget.num * Handoffs
  <2>1. CASE above = {}
    <3>1. FiringAt(cut) = 0
      BY <1>6, <2>1
    <3>2. (0 - 1) * d < 0
      BY <1>1
    <3> HIDE DEF d
    <3> QED BY <1>1, <3>1, <3>2
  <2>2. CASE above # {}
    <3>1. m \in Present /\ d * m > Quantile
      BY <1>6, <2>2
    <3>2. (Handoffs - Below(m) - 1) * d < budget.num * Handoffs
      BY <3>1, QuantileCuts
    <3>3. FiringAt(cut) = Handoffs - Below(m)
      BY <1>6, FiringFalls
    <3> QED BY <3>2, <3>3
  <2> QED BY <2>1, <2>2
<1>9. ASSUME NEW v \in Present, FiringAt(d * v) > FiringAt(cut)
      PROVE  OverBudget(FiringAt(d * v))
  <2>1. v \in Int /\ d * v \in Int /\ FiringAt(d * v) \in Nat /\ cut \in Int /\ FiringAt(cut) \in Nat
        /\ FiringAt(Quantile) \in Nat
    <3>1. v \in Int /\ d * v \in Int
      BY <1>1, <1>2
    <3> HIDE DEF d
    <3> QED BY <1>1, <1>7, <3>1, FiringFalls
  <2>2. v < m
    <3> SUFFICES ASSUME m <= v PROVE FALSE
      BY <1>6, <2>1
    <3>1. cut <= d * v
      BY <1>1, <1>6, <2>1
    <3>2. FiringAt(d * v) <= FiringAt(cut)
      BY <2>1, <3>1, FiringFalls
    <3> QED BY <1>9, <2>1, <3>2
  <2>3. d * v <= Quantile
    BY <1>1, <1>5, <2>1, <2>2
  <2>4. FiringAt(Quantile) <= FiringAt(d * v)
    BY <1>1, <2>1, <2>3, FiringFalls
  <2>5. FiringAt(Quantile) * d > budget.num * Handoffs
    BY DEF OverBudget
  <2> DEFINE a == FiringAt(Quantile)
             c == FiringAt(d * v)
  <2>6. a \in Nat /\ c \in Nat /\ a <= c /\ a * d > budget.num * Handoffs
    BY <2>1, <2>4, <2>5
  <2>7. c * d > budget.num * Handoffs
    <3> HIDE DEF a, c, d
    <3>1. a * d <= c * d
      BY <1>1, <2>6
    <3>2. a * d \in Nat /\ c * d \in Nat
      BY <1>1, <2>6
    <3> QED BY <1>1, <2>6, <3>1, <3>2
  <2> QED BY <2>7 DEF OverBudget
<1> QED BY <1>7, <1>8, <1>9

LEMMA CalNextInv == CalInv /\ [CalNext]_calVars => CalInv'
<1> SUFFICES ASSUME CalInv, [CalNext]_calVars PROVE CalInv'
  OBVIOUS
<1>1. CalTypeOK /\ Handoffs \in Nat \ {0}
  BY DEF CalInv
<1>2. CASE CheckLabels \/ CrossFit
  <2>1. /\ UNCHANGED <<calInputs, orientation, threshold, firing>>
        /\ calPc' \in {"folds", "orient", "raised"}
    BY <1>2 DEF CheckLabels, CrossFit
  <2>2. CalTypeOK'
    BY <1>1, <2>1 DEF CalTypeOK, calInputs
  <2>3. (Handoffs \in Nat \ {0})'
    BY <1>1, <2>1, ScaleUnchanged
  <2> QED BY <2>1, <2>2, <2>3 DEF CalInv, ThresholdIsTight
<1>3. CASE Orient
  <2>1. /\ UNCHANGED <<scored, failing, budget, labelled, oneEpisode, threshold, firing>>
        /\ calPc' = "quantile" /\ orientation' = Orientation
    BY <1>3 DEF Orient, calInputs
  <2>2. CalTypeOK'
    BY <1>1, <2>1 DEF CalTypeOK, Orientation
  <2>3. (Handoffs \in Nat \ {0})'
    BY <1>1, <2>1 DEF Handoffs
  <2>4. Orientation' = Orientation
    BY <2>1 DEF Orientation, PairsWhere, Passing, MapThenSumSet, MapThenFoldSet
  <2> QED BY <2>1, <2>2, <2>3, <2>4 DEF CalInv, ThresholdIsTight
<1>4. CASE TakeQuantile
  <2>1. /\ UNCHANGED <<calInputs, orientation>> /\ calPc = "quantile" /\ calPc' = "above"
        /\ threshold' = Quantile /\ firing' = FiringAt(Quantile)
    BY <1>4 DEF TakeQuantile
  <2>2. Quantile \in Int /\ FiringAt(Quantile) \in Nat
    BY <1>1, QuantileCuts, FiringFalls
  <2>3. CalTypeOK'
    BY <1>1, <2>1, <2>2 DEF CalTypeOK, calInputs
  <2>4. /\ Handoffs' = Handoffs /\ Orientation' = Orientation /\ Quantile' = Quantile
        /\ orientation = Orientation
    BY <2>1, ScaleUnchanged DEF CalInv
  <2>5. FiringAt(Quantile)' = FiringAt(Quantile)
    BY <2>1, <2>4 DEF calInputs, FiringAt, Oriented, Of, MapThenSumSet, MapThenFoldSet
  <2> QED BY <1>1, <2>1, <2>3, <2>4, <2>5 DEF CalInv, ThresholdIsTight
<1>5. CASE StepAbove
  <2> DEFINE above == {v \in Present : budget.den * v > Quantile}
             cut == IF ~OverBudget(FiringAt(Quantile)) THEN Quantile
                    ELSE IF above # {} THEN budget.den * Min(above)
                    ELSE budget.den * (Max(Present) + 1)
  <2>1. /\ UNCHANGED <<calInputs, orientation>> /\ calPc' = "calibrated"
        /\ threshold' = cut /\ firing' = FiringAt(cut) /\ orientation = Orientation
    BY <1>5 DEF StepAbove, CalInv
  <2>2. /\ cut \in Int
        /\ (FiringAt(cut) - 1) * budget.den < budget.num * Handoffs
        /\ \A v \in Present : FiringAt(budget.den * v) > FiringAt(cut)
                                => OverBudget(FiringAt(budget.den * v))
    <3>1. CASE ~OverBudget(FiringAt(Quantile))
      <4>1. cut = Quantile
        BY <3>1
      <4> HIDE DEF cut
      <4> QED BY <1>1, <3>1, <4>1, QuantileCuts, QuantileIsTight
    <3>2. CASE OverBudget(FiringAt(Quantile))
      <4>1. cut = IF above # {} THEN budget.den * Min(above) ELSE budget.den * (Max(Present) + 1)
        BY <3>2
      <4>2. above = {v \in Present : budget.den * v > Quantile}
        OBVIOUS
      <4> HIDE DEF cut, above
      <4> QED BY <1>1, <3>2, <4>1, <4>2, NextCutIsTight
    <3> QED BY <3>1, <3>2
  <2>3. FiringAt(cut) \in Nat
    BY <1>1, <2>2, FiringFalls
  <2> HIDE DEF cut
  <2>4. CalTypeOK'
    BY <1>1, <2>1, <2>2, <2>3 DEF CalTypeOK, calInputs
  <2>5. /\ Present' = Present /\ Handoffs' = Handoffs /\ Orientation' = Orientation
        /\ PairsWhere(1)' = PairsWhere(1) /\ PairsWhere(-1)' = PairsWhere(-1)
        /\ budget' = budget
    BY <2>1, ScaleUnchanged DEF calInputs
  <2>6. \A v : FiringAt(budget.den * v)' = FiringAt(budget.den * v)
    BY <2>1 DEF calInputs, FiringAt, Oriented, Of, MapThenSumSet, MapThenFoldSet
  <2>7. orientation * PairsWhere(1) >= orientation * PairsWhere(-1)
    <3>1. PairsWhere(1) \in Int /\ PairsWhere(-1) \in Int
      BY <1>1, PairsAreCounts
    <3>2. orientation = IF PairsWhere(1) < PairsWhere(-1) THEN -1 ELSE 1
      BY <2>1 DEF Orientation
    <3> QED BY <3>1, <3>2
  <2>8. ThresholdIsTight'
    BY <2>1, <2>2, <2>5, <2>6, <2>7 DEF ThresholdIsTight, OverBudget
  <2> QED BY <1>1, <2>1, <2>4, <2>5, <2>8 DEF CalInv
<1>6. CASE UNCHANGED calVars
  <2>1. UNCHANGED <<calInputs, orientation, calPc, threshold, firing>>
    BY <1>6 DEF calVars, calInputs
  <2>2. CalTypeOK'
    BY <1>1, <2>1 DEF CalTypeOK, calInputs
  <2>3. /\ Present' = Present /\ Handoffs' = Handoffs /\ Orientation' = Orientation
        /\ PairsWhere(1)' = PairsWhere(1) /\ PairsWhere(-1)' = PairsWhere(-1)
        /\ budget' = budget /\ Quantile' = Quantile
    BY <2>1, ScaleUnchanged DEF calInputs
  <2>4. /\ FiringAt(Quantile)' = FiringAt(Quantile)
        /\ \A v : FiringAt(budget.den * v)' = FiringAt(budget.den * v)
    BY <2>1, <2>3 DEF calInputs, FiringAt, Oriented, Of, MapThenSumSet, MapThenFoldSet
  <2>5. ThresholdIsTight'
    BY <2>1, <2>3, <2>4 DEF ThresholdIsTight, OverBudget, CalInv
  <2> QED BY <2>1, <2>2, <2>3, <2>4, <2>5 DEF CalInv
<1> QED BY <1>2, <1>3, <1>4, <1>5, <1>6 DEF CalNext

LEMMA CalInvariant == CalSpec => []CalInv
BY CalInitInv, CalNextInv, PTL DEF CalSpec

(* Every variable of a calibration has its type: the ranks its quantile    *)
(* asks for exist (calibration.py, _choose_threshold).                     *)
THEOREM CalTyped == CalSpec => []CalTypeOK
BY CalInvariant, PTL DEF CalInv

(* Whatever the scores, their ties and the budget, the threshold overshoots*)
(* the budget by less than one handoff, no lower one that blocks more is   *)
(* within it, and its orientation puts at least as many pairs in order as  *)
(* against it (calibration.py, _choose_threshold and _orient).             *)
THEOREM ThresholdAlwaysTight == CalSpec => []ThresholdIsTight
BY CalInvariant, PTL DEF CalInv
=============================================================================
