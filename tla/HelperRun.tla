------------------------------ MODULE HelperRun ------------------------------
(***************************************************************************)
(* What Stage 4 is told of one run of the native VRAM helper: a single step *)
(* from no result to one of Results.  SafeTriage takes its results from     *)
(* here, and HelperProtocol implements it.                                  *)
(*                                                                         *)
(* An experiment that is UNAVAILABLE or BLOCKED counts as INCONCLUSIVE.     *)
(***************************************************************************)
CONSTANT Experiments   \* the helper's experiments

VARIABLES
    present,   \* the card the helper is asked for is the one it would test
    result     \* what phase4_helper returned

HelperResult ==
    [kind : {"none", "missing", "protocol_error", "report"},
     clean : BOOLEAN,    \* it ended by itself and kept its device
     results : [Experiments -> {"PASS", "FAIL", "INCONCLUSIVE", "UNAVAILABLE", "NOT_RUN"}]]

AllRows(s) == [e \in Experiments |-> s]

NoHelper == [kind |-> "none", clean |-> FALSE, results |-> AllRows("NOT_RUN")]

\* Without a complete, well-formed report of the helper every row falls back to
\* one status; with one, the rows are the helper's.  The helper and the parser
\* refuse any card but the one asked for.
Results(fits) ==
    {[kind |-> "missing", clean |-> FALSE, results |-> AllRows("UNAVAILABLE")]}
    \union {[kind |-> "protocol_error", clean |-> FALSE, results |-> AllRows(s)] :
                s \in {"INCONCLUSIVE", "UNAVAILABLE"}}
    \union {h \in [kind : {"report"}, clean : BOOLEAN,
                   results : [Experiments -> {"PASS", "FAIL", "INCONCLUSIVE"}]] : fits}

Init == present \in BOOLEAN /\ result = NoHelper

Run ==
    /\ result = NoHelper
    /\ result' \in Results(present)
    /\ UNCHANGED present

Spec == Init /\ [][Run]_<<present, result>>
=============================================================================
