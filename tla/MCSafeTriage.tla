---------------------------- MODULE MCSafeTriage ----------------------------
(* Two experiments, the fewest of which one can pass while the other does  *)
(* not, and one change of the machine at any point of the run.  A pass  *)
(* run ends does not depend on either.                                     *)
EXTENDS SafeTriage

MCExperiments == {"host_transfer", "vram_pattern"}
MCMaxChanges == 1

MCOneExperiment == {"vram_pattern"}
MCNoChanges == 0
=============================================================================
