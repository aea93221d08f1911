----------------------------- MODULE MCSweepRun -----------------------------
(* Small instances of SweepRun for TLC.                                    *)
EXTENDS SweepRun

ThreeCells == <<"C0-s0", "C0-s1", "C1-s0">>
TwoCells == <<"C0-s0", "C1-s0">>
=============================================================================
