--------------------------- MODULE HelperProtocol ---------------------------
(***************************************************************************)
(* Stage 4's side of the helper (app/vram_helper.py, and default_run of     *)
(* app/collectors.py): it starts the native helper under a time limit,      *)
(* reads its output until it ends or is killed, and makes a result of it.   *)
(* A line is cut when the kill comes in the middle of it.                   *)
(***************************************************************************)
EXTENDS VramHelper

CONSTANT MaxLines   \* the lines of output that fit in MAX_JSONL_BYTES

ASSUME MaxLinesAssumption == MaxLines \in Nat

VARIABLES
    call,       \* where phase4_helper is
    received,   \* the lines of its output
    spoilt,     \* a line of the output is no JSON: cut, or not the helper's
    rc,         \* its return code as default_run tells it
    result      \* what phase4_helper returns

callVars == <<call, received, spoilt, rc, result>>
vars == <<helperVars, callVars>>

None == -100   \* Python's None

Run == INSTANCE HelperRun WITH present <- \E d \in enumerated : d.card = "target"

TypeOK ==
    /\ o \in Options /\ enumerated \in Enumerations /\ device \in VulkanDevice \union {NoDevice}
    /\ at \in {"meta", "select", "setup", "run", "compare", "copy_back", "report",
               "unavailable", "summary", "cleanup", "ended"}
    /\ lost \in BOOLEAN /\ noisy \in BOOLEAN /\ spoilt \in BOOLEAN
    /\ current \in Experiments \union {"none"}
    /\ status \in [Experiments -> {"PASS", "FAIL", "INCONCLUSIVE", "UNAVAILABLE"}]
    /\ errors \in [Experiments -> 0..MaxMismatches]
    /\ total \in 0..MaxMismatches /\ recorded \in 0..o.max_errors
    /\ pass \in 0..Passes /\ reread \in 0..1
    /\ temperature \in {"PASS", "UNAVAILABLE", "LIMIT_REACHED"}
    /\ stalled \in {"none", "driver", "statistics"}
    /\ verified \subseteq Experiments
    /\ code \in {-1, 0, 1, 2, Crashed}
    /\ call \in {"idle", "running", "parsing", "returned", "raised"}
    /\ rc \in {None, 0, 1, 2, Crashed}
    /\ result \in Run!HelperResult

ProtocolInit ==
    /\ Init
    /\ call = "idle"
    /\ received = <<>> /\ spoilt = FALSE
    /\ rc = None
    /\ result = Run!NoHelper

-----------------------------------------------------------------------------
(* The process.                                                            *)

Return(r) == call' = "returned" /\ result' = r

\* find_helper finds no executable.
HelperMissing ==
    /\ call = "idle"
    /\ Return([kind |-> "missing", clean |-> FALSE, results |-> Run!AllRows("UNAVAILABLE")])
    /\ UNCHANGED <<helperVars, received, spoilt, rc>>

\* The file cannot be executed: default_run returns the error's text as output.
HelperNotExecuted ==
    /\ call = "idle" /\ call' = "parsing"
    /\ spoilt' = TRUE /\ rc' = None
    /\ UNCHANGED <<helperVars, received, result>>

StartHelper ==
    /\ call = "idle" /\ call' = "running"
    /\ UNCHANGED <<helperVars, received, spoilt, rc, result>>

HelperStep == call = "running" /\ HelperNext /\ UNCHANGED callVars

HelperEnds ==
    /\ call = "running" /\ at = "ended"
    /\ call' = "parsing"
    /\ received' = stream /\ spoilt' = noisy /\ rc' = code
    /\ UNCHANGED <<helperVars, result>>

\* Mutant: the helper is trusted to keep its time limit.
KillAfterSummary ==
    /\ call = "running" /\ stalled # "none" /\ at = "cleanup"
    /\ call' = "parsing"
    /\ received' = stream /\ spoilt' = noisy /\ rc' = None
    /\ UNCHANGED <<helperVars, result>>

\* TimeoutExpired: the process is killed, and what it has written is read.
Kill ==
    /\ call = "running" /\ stalled # "none"
    /\ call' = "parsing"
    /\ received' = stream /\ spoilt' \in {noisy, TRUE} /\ rc' = None
    /\ UNCHANGED <<helperVars, result>>

-----------------------------------------------------------------------------
(* parse_helper_jsonl                                                      *)

\* Where the output has its lines of one type, and the line of a type that is
\* there once.
Lines(type) == {i \in DOMAIN received : received[i].type = type}
Once(type) == Cardinality(Lines(type)) = 1
The(type) == received[CHOOSE i \in Lines(type) : TRUE]

Summary == The("summary")

\* Every experiment once, and each with the status of the summary.
RowsAgree ==
    LET rows == Lines("experiment")
    IN  /\ Cardinality(rows) = Cardinality(Experiments)
        /\ {received[i].name : i \in rows} = Experiments
        /\ \A i \in rows : Summary.experiments[received[i].name] = received[i].status

\* Mutant: any identity line will do.
WellFormedOfAnyCard ==
    /\ ~spoilt /\ Len(received) <= MaxLines
    /\ Once("meta") /\ Once("identity") /\ Once("summary")
    /\ Cardinality(Lines("error")) <= o.max_errors
    /\ RowsAgree

WellFormed ==
    /\ ~spoilt /\ Len(received) <= MaxLines
    /\ Once("meta") /\ Once("identity") /\ Once("summary")
    /\ The("identity").exact_match /\ The("identity").card = "target"
    /\ Cardinality(Lines("error")) <= o.max_errors
    /\ RowsAgree
    /\ Summary.recorded = Cardinality(Lines("error"))
    /\ Summary.recorded <= Summary.total

\* UNAVAILABLE counts as INCONCLUSIVE.
RowOf(s) == IF s = "UNAVAILABLE" THEN "INCONCLUSIVE" ELSE s

\* The status of the whole report, which a loss of the device and an exit code
\* other than 0 and 1 overrule.
ReportStatus ==
    IF Summary.device_lost \/ rc \notin {0, 1} THEN "INCONCLUSIVE" ELSE Summary.status

ParseReport ==
    /\ call = "parsing" /\ WellFormed
    /\ Return([kind |-> "report", clean |-> rc \in {0, 1} /\ ~Summary.device_lost,
               results |-> [x \in Experiments |-> RowOf(Summary.experiments[x])]])
    /\ UNCHANGED <<helperVars, received, spoilt, rc>>

RefuseOutput ==
    /\ call = "parsing" /\ ~WellFormed
    /\ Return([kind |-> "protocol_error", clean |-> FALSE,
               results |-> Run!AllRows(IF rc = None THEN "UNAVAILABLE" ELSE "INCONCLUSIVE")])
    /\ UNCHANGED <<helperVars, received, spoilt, rc>>

\* The log file of the output cannot be written: the error is not caught here.
LogRaises ==
    /\ call = "parsing" /\ call' = "raised"
    /\ UNCHANGED <<helperVars, received, spoilt, rc, result>>

CallStep ==
    \/ HelperMissing \/ HelperNotExecuted \/ StartHelper \/ HelperEnds \/ Kill
    \/ ParseReport \/ RefuseOutput \/ LogRaises

Next == HelperStep \/ CallStep

\* Python's side is one thread, and default_run has a time limit, 30 seconds
\* after the helper's own.  The helper goes on until it stalls.
Fairness == WF_vars(CallStep) /\ WF_vars(HelperStep)

Spec == ProtocolInit /\ [][Next]_vars /\ Fairness

-----------------------------------------------------------------------------
(* What the helper and its parser are for.                                 *)

Reported == call = "returned" /\ result.kind = "report"

\* Memory is only ever used on the card asked for, whose exact identity was
\* written before, even with a twin card of the same IDs or with a card that
\* two Vulkan drivers enumerate (gpu_vram_helper.c:360, "identity is emitted
\* before logical-device creation and every allocation").
WorksOnTargetOnly ==
    at \in {"setup", "run", "compare", "copy_back"} =>
        /\ device.card = "target"
        /\ \E i \in DOMAIN stream :
            stream[i].type = "identity" /\ stream[i].exact_match

\* A report that is accepted tells all the process found, however it ended and
\* wherever its output was cut: its total is the number of mismatches seen, and
\* no row differs from what the helper came to at the end (vram_helper.py:3-6,
\* "a malformed or incomplete stream can never turn into PASS").
AcceptedIsComplete ==
    Reported =>
        /\ \A x \in Experiments : result.results[x] = RowOf(status[x])
        /\ Summary.total = errors["host_transfer"] + errors["gpu_local_copy"]
                           + errors["compute_kat"] + errors["vram_pattern"]

\* A row that says PASS stands for comparisons that were all made, none of which
\* found a mismatch; no limit, failed submission or lost device ends in PASS
\* (gpu_vram_helper.c:609-672).
PassIsVerified ==
    Reported => \A x \in Experiments :
        result.results[x] = "PASS" => x \in verified /\ errors[x] = 0

\* A mismatch is never taken back: of a process that ended by itself and kept
\* its device, whose output was not spoilt by other lines and fits the
\* parser's limit, the report is accepted and the row fails, whether the test
\* was cut short afterwards or not (gpu_vram_helper.c:668-671).
MismatchFails ==
    call = "returned" /\ rc \in {0, 1, 2} /\ ~lost
        /\ ~spoilt /\ Len(received) <= MaxLines =>
        \A x \in Experiments : errors[x] > 0 =>
            result.kind = "report" /\ result.results[x] = "FAIL"

\* The exit code, the summary and the rows, which are derived separately, agree:
\* the report as a whole is PASS only if every row is and no mismatch was seen,
\* FAIL only if a row is, and 1 is the exit code of FAIL alone
\* (gpu_vram_helper.c:153-157, 674-675; vram_helper.py:226-244).
StatusAgrees ==
    Reported =>
        /\ ReportStatus = "PASS" =>
            rc = 0 /\ total = 0 /\ \A x \in Experiments : result.results[x] = "PASS"
        /\ ReportStatus = "FAIL" <=>
            rc = 1 /\ \E x \in Experiments : result.results[x] = "FAIL"
        /\ rc = 1 => ReportStatus = "FAIL"

\* What a report says when the parser accepts it, taken together.
AcceptedIsTrue == AcceptedIsComplete /\ PassIsVerified /\ StatusAgrees

\* Stage 4 ends, also when the helper hangs (collectors.py:59-87).
CallEnds == (call = "idle") ~> (call \in {"returned", "raised"})

\* What SafeTriage assumes of the helper.
ImplementsHelperRun == Run!Spec

-----------------------------------------------------------------------------
\* PLAN-SAFE-TRIAGE.md:461: "Records werden gedeckelt; vollständige Summen bleiben
\* erhalten", the records are capped, the complete totals are preserved.
TotalsArePreserved ==
    call = "returned" /\ stalled # "driver" /\ code # Crashed /\ ~lost
        /\ ~spoilt /\ Len(received) <= MaxLines /\ total > 0 =>
        result.kind = "report"
=============================================================================
