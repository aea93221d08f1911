---------------------------- MODULE GateArtefacts ----------------------------
(***************************************************************************)
(* The directory a calibration leaves behind (cli.calibrate_cmd writes the *)
(* report, then each statistic with its manifest) and the transfer arm     *)
(* that reads it (cli._transfer_config first, rq3a.transfer_scores after   *)
(* the corpus was loaded and embedded, minutes later).                     *)
(*                                                                         *)
(* A file is Absent, Torn (opened for writing and not yet filled, or left  *)
(* so by a kill) or the dataset its content was made from. A calibration   *)
(* may be killed anywhere and another begun in the same directory.         *)
(***************************************************************************)
EXTENDS Integers, Sequences

CONSTANTS
  Datasets,        \* labelled datasets a calibration may be made from
  MaxCalibrations, \* bound on the calibrations begun
  Absent, Torn     \* states of a file that holds nothing readable

ASSUME FileStatesAssumption == Absent \notin Datasets /\ Torn \notin Datasets /\ Absent # Torn
ASSUME MaxCalibrationsAssumption == MaxCalibrations \in Nat

VARIABLES
  files,      \* file -> what it holds
  writing,    \* how many files the calibration has filled; it has one open?
  opened,
  source,     \* the dataset of the calibration under way, Absent when none is
  begun,      \* calibrations begun so far
  transferPc,
  oriented,   \* the dataset whose report gave the orientation
  transferKey,
  loaded,     \* the dataset of the statistic loaded
  settled     \* bookkeeping: the last calibration begun before the transfer
              \* had finished, and none was begun since

reader == <<transferPc, oriented, transferKey, loaded>>
artVars == <<files, writing, opened, source, begun, transferPc, oriented, transferKey,
             loaded, settled>>
-----------------------------------------------------------------------------
(* statistic_factories: the keys of a report and of the statistics beside. *)
Keys == {"fail", "cosine"}
ReportFile == <<"report", "">>
Statistic(key) == <<"joblib", key>>
Manifest(key) == <<"manifest", key>>
Files == {ReportFile} \cup {Statistic(k) : k \in Keys} \cup {Manifest(k) : k \in Keys}

ManifestFirst(key) == <<Manifest(key), Statistic(key)>>
(* save_statistic: the manifest only after the statistic it vouches for.   *)
SaveOrder(key) == <<Statistic(key), Manifest(key)>>
WriteOrder == <<ReportFile>> \o SaveOrder("fail") \o SaveOrder("cosine")

Calibrating == source # Absent

BeginCalibration(dataset) ==
  /\ ~Calibrating /\ begun < MaxCalibrations
  /\ source' = dataset
  /\ begun' = begun + 1
  /\ writing' = 0 /\ opened' = FALSE
  /\ settled' = FALSE
  /\ UNCHANGED <<files, reader>>

(* Each file is truncated when it is opened, and holds its content once    *)
(* the write is through.                                                   *)
Open ==
  /\ Calibrating /\ ~opened /\ writing < Len(WriteOrder)
  /\ files' = [files EXCEPT ![WriteOrder[writing + 1]] = Torn]
  /\ opened' = TRUE
  /\ UNCHANGED <<writing, source, begun, reader, settled>>

Fill ==
  /\ Calibrating /\ opened
  /\ files' = [files EXCEPT ![WriteOrder[writing + 1]] = source]
  /\ writing' = writing + 1
  /\ opened' = FALSE
  /\ UNCHANGED <<source, begun, reader, settled>>

(* The command ends, or is killed wherever it is.                          *)
EndCalibration ==
  /\ Calibrating
  /\ source' = Absent
  /\ UNCHANGED <<files, writing, opened, begun, reader, settled>>
-----------------------------------------------------------------------------
KeysAsked == Keys \cup {"info", "unheard"}
(* A retired key stands for its survivor.                                  *)
Resolved(key) == IF key = "info" THEN "fail" ELSE key

Complete == begun > 0 /\ ~Calibrating /\ writing = Len(WriteOrder)

(* _transfer_config: a wiring error unless the report can be read, covers  *)
(* the key, and the statistic has a manifest; whether that manifest is     *)
(* whole is not asked.                                                     *)
Configure(asked) ==
  LET key == Resolved(asked)
      wired == /\ files[ReportFile] \notin {Absent, Torn}
               /\ key \in Keys
               /\ files[Manifest(key)] # Absent
  IN  /\ transferPc # "configured"
      /\ transferPc' = IF wired THEN "configured" ELSE "refused"
      /\ oriented' = IF wired THEN files[ReportFile] ELSE Absent
      /\ transferKey' = key
      /\ loaded' = Absent
      /\ settled' = Complete
      /\ UNCHANGED <<files, writing, opened, source, begun>>

(* transfer_scores, load_statistic: no manifest makes the arm unavailable; *)
(* a statistic that cannot be read fails the whole analysis.               *)
ApplyTransfer ==
  /\ transferPc = "configured"
  /\ LET held == files[Statistic(transferKey)]
     IN  /\ transferPc' = IF files[Manifest(transferKey)] = Absent THEN "unavailable"
                          ELSE IF held \in {Absent, Torn} THEN "failed"
                          ELSE "scored"
         /\ loaded' = held
  /\ UNCHANGED <<files, writing, opened, source, begun, oriented, transferKey, settled>>
-----------------------------------------------------------------------------
ArtInit ==
  /\ files = [f \in Files |-> Absent]
  /\ writing = 0 /\ opened = FALSE
  /\ source = Absent
  /\ begun = 0
  /\ transferPc = "idle"
  /\ oriented = Absent /\ transferKey = "fail" /\ loaded = Absent
  /\ settled = FALSE

ArtNext ==
  \/ \E d \in Datasets : BeginCalibration(d)
  \/ Open \/ Fill \/ EndCalibration
  \/ \E key \in KeysAsked : Configure(key)
  \/ ApplyTransfer

ArtSpec == ArtInit /\ [][ArtNext]_artVars
-----------------------------------------------------------------------------
(***************************************************************************)
(* Properties.                                                             *)
(***************************************************************************)
(* Every variable has its type.                                            *)
ArtTypeOK ==
  /\ files \in [Files -> Datasets \cup {Absent, Torn}]
  /\ writing \in 0..Len(WriteOrder) /\ opened \in BOOLEAN
  /\ source \in Datasets \cup {Absent}
  /\ begun \in 0..MaxCalibrations
  /\ transferPc \in {"idle", "refused", "configured", "unavailable", "failed", "scored"}
  /\ oriented \in Datasets \cup {Absent}
  /\ transferKey \in Keys \cup {"unheard"}
  /\ loaded \in Datasets \cup {Absent, Torn}
  /\ settled \in BOOLEAN

(* A transfer that the command line accepted finds, when it comes to it,   *)
(* the statistic of the dataset whose orientation it took, for the first   *)
(* calibration of a directory, finished, running or killed, and for any    *)
(* later one that finished, whatever runs killed part-way came before.     *)
(* Nothing is said of a later one that is running or was killed: it may    *)
(* leave the manifest of an earlier one beside a statistic half-written.   *)
AcceptedTransferIsCoherent ==
  /\ begun <= 1 \/ settled
  /\ transferPc \in {"unavailable", "failed", "scored"}
  => transferPc = "scored" /\ loaded = oriented
=============================================================================
