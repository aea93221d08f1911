----------------------------- MODULE EpisodeLog -----------------------------
(***************************************************************************)
(* What the sweep executor promises of a dataset, without files, threads   *)
(* or crashes: a log to which whole episodes are appended, each at most    *)
(* once and never rewritten, and a manifest that may be published only     *)
(* while the log holds every episode of the grid.                          *)
(***************************************************************************)
EXTENDS Naturals, Sequences

CONSTANT Episodes       \* the episode ids of the grid

VARIABLES
  log,                  \* the episodes stored so far, in the order they were
  published             \* TRUE while a readable manifest describes the log

Logged == {log[i] : i \in DOMAIN log}

Init ==
  /\ log = <<>>
  /\ published = FALSE

(* One more episode, one that the log does not hold yet.                   *)
Store(e) ==
  /\ e \notin Logged
  /\ log' = Append(log, e)
  /\ UNCHANGED published

(* The manifest appears once nothing of the grid is missing ...            *)
Publish ==
  /\ Logged = Episodes
  /\ published' = TRUE
  /\ UNCHANGED log

(* ... and goes away again when a later run of the same grid rewrites it.  *)
Retract ==
  /\ published
  /\ published' = FALSE
  /\ UNCHANGED log

Next == (\E e \in Episodes : Store(e)) \/ Publish \/ Retract

Spec == Init /\ [][Next]_<<log, published>>
=============================================================================
