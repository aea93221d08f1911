---------------------------- MODULE MCEpisodeLoop ----------------------------
(* Small instances of EpisodeLoop for TLC.                                 *)
EXTENDS EpisodeLoop

AllConditions == {"C0", "C1", "C2", "C3", "C4"}
AllModes == {"none", "off", "active", "matched_random", "random_trigger"}
=============================================================================
