------------------------- MODULE MCCheckpointWriter -------------------------
(* Two sidecars, replaced any number of times between three checkpoints.   *)
EXTENDS CheckpointWriter

MCSidecars == {"kernel", "lspci"}
MCMaxReports == 3
=============================================================================
