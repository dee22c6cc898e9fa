----------------------------- MODULE SafeTriage -----------------------------
(***************************************************************************)
(* One run of "gpu-triage triage" (app/safe_triage.py, app/gpu_diag.py):   *)
(* the stages from the report directory check to the exit code, the gates  *)
(* between them, and the verdict.  Each save of the report is a save of    *)
(* ReportStore, which CheckpointWriter implements.                         *)
(*                                                                         *)
(* The machine under test changes while the program runs: the card may     *)
(* fall off the bus, its driver may be rebound, a display may be attached. *)
(* The program reads identity and binding in one call and the display      *)
(* risk in a later one, so a change may fall between the two.  Power may   *)
(* be lost, Ctrl-C pressed and any collector may raise at any time.        *)
(***************************************************************************)
EXTENDS Integers, FiniteSets

CONSTANTS
    Experiments,  \* the helper's experiments, each with its own matrix row
    MaxChanges    \* bound: changes of the machine during the run

ASSUME ExperimentsAssumption ==
    Experiments \cap {"pcie_link", "aer", "driver_init", "vulkan"} = {}
ASSUME MaxChangesAssumption == MaxChanges \in Nat

\* Status of app/triage_model.py, without those only rows outside Rows take.
Status == {"PASS", "FAIL", "WARN", "NOT_RUN", "UNSAFE_SKIPPED", "UNAVAILABLE",
           "BLOCKED", "INCONCLUSIVE"}
Overall == {"PASS", "FAIL", "INCOMPLETE"}
Stage == {"START", "S0_ENVIRONMENT", "S1_PRE_DRIVER", "S3_DRIVER_BOUND",
          "S4_VRAM_COMPUTE", "COMPLETE_PASS", "COMPLETE_FAIL",
          "COMPLETE_INCOMPLETE", "ABORTED"}
DriverState == {"QUARANTINED_BDF", "INTENTIONAL_GLOBAL_BLACKLIST",
                "BOUND_EXPECTED", "BOUND_OTHER", "UNBOUND_UNEXPLAINED"}

\* What a reader of the JSON report learns of the run's progress.
Report == [stage : Stage, overall : Overall]
NoReport == [stage |-> "none", overall |-> "none"]

\* The matrix rows that can change the verdict.  pci_enumeration and
\* target_identity are PASS whenever the matrix exists; the others are neither
\* required nor ever FAIL.
Rows == {"pcie_link", "aer", "driver_init", "vulkan"} \union Experiments

Environment == [card : {"card", "other_card", "none"},
                driver : {"expected", "other", "none"},
                display : BOOLEAN]

\* Without a load option, --no-vram, --preflight-only (which outweighs it).
Mode == {"full", "no_vram", "preflight"}

\* What keeps the driver off the card: nothing, the quarantine's driver_override,
\* or a kernel blacklist, alone or with other cards of that vendor present.
Boot == {"open", "quarantine", "blacklist", "blacklist_with_peers"}

VARIABLES
    status, want, avail, disk, survive,   \* the report store
    pc,         \* where the program is
    mode, boot, \* how the program was called, and what the boot left: constant
    env,        \* the machine
    changes,    \* how often it changed
    since,      \* history, up to the helper: where the program was when a fit
                \* machine last changed
    seen,       \* target: the card and its driver as the lookup saw them
    state,      \* driver_intent(target)
    stage,      \* report.stage
    overall,    \* report.overall
    matrix,     \* report.matrix
    helper,     \* the native helper's result
    after,      \* what the second AER and kernel-log snapshots showed
    exit        \* the process's exit code, -1 while it runs

storeVars == <<status, want, avail, disk, survive>>
machineVars == <<env, changes, since>>
reportVars == <<stage, overall, matrix>>
evidenceVars == <<seen, state, helper, after>>
vars == <<storeVars, pc, mode, boot, machineVars, reportVars, evidenceVars, exit>>

Store == INSTANCE ReportStore
Helper == INSTANCE HelperRun WITH present <- env.card = seen.card, result <- helper

-----------------------------------------------------------------------------
Saves == {"s0_save", "s1_save", "s3_save", "s4_save", "end_save", "abort_save"}

\* Steps that read the machine or run a command: each may raise.
Collecting == {"lookup", "gates", "measure", "s3_confirm", "s3_display", "s3_probe",
               "s4_confirm", "s4_display", "helper", "evidence"}
Deciding == {"preflight_end", "s3_begin", "s4_begin", "end"}
Running == {"start", "abort"} \union Saves \union Collecting \union Deciding

\* What takes time, and can be interrupted: not the steps that only compute.
Waiting == {"start"} \union Saves \union Collecting

AfterSave == [s0_save |-> "lookup", s1_save |-> "measure", s3_save |-> "s3_confirm",
              s4_save |-> "helper", end_save |-> "exit", abort_save |-> "exit"]

NoHistory == [binding |-> "start", display |-> "start"]

AfterResult == [aer_readable : BOOLEAN,
                aer : {"NOT_RUN", "PASS", "WARN", "FAIL"},
                signal : {"none", "device_lost", "other"}]

NothingAfter == [aer_readable |-> FALSE, aer |-> "NOT_RUN", signal |-> "none"]

TypeOK ==
    /\ Store!StoreTypeOK
    /\ pc \in Running \union {"exit", "off"}
    /\ mode \in Mode /\ boot \in Boot
    /\ env \in Environment
    /\ changes \in 0..MaxChanges
    /\ since \in [binding : Running, display : Running]
    /\ seen \in [card : {"card", "other_card", "none"}, driver : {"expected", "other", "none"}]
    /\ state \in DriverState
    /\ stage \in Stage /\ overall \in Overall
    /\ matrix \in [Rows -> Status]
    /\ helper \in Helper!HelperResult
    /\ after \in AfterResult
    /\ exit \in {-1, 0, 1, 2, 130}

Init ==
    /\ Store!StoreInit
    /\ pc = "start"
    /\ mode \in Mode /\ boot \in Boot
    /\ env \in [card : {"card", "none"}, driver : {"expected", "other", "none"},
                display : BOOLEAN]
    /\ changes = 0
    /\ since = NoHistory
    /\ seen = [card |-> "none", driver |-> "none"]
    /\ state = "UNBOUND_UNEXPLAINED"
    /\ stage = "START" /\ overall = "INCOMPLETE"
    /\ matrix = [r \in Rows |-> "NOT_RUN"]
    /\ helper = Helper!NoHelper
    /\ after = NothingAfter
    /\ exit = -1

-----------------------------------------------------------------------------
(* Moves shared by the steps.                                              *)

Goto(next) == pc' = next

\* Mutant: the report is saved first, then its stage advances.
CheckpointOfLastStage(s, o, next) ==
    /\ stage' = s /\ overall' = o
    /\ Store!Begin([stage |-> stage, overall |-> overall])
    /\ Goto(next)

\* The report's stage advances and is saved before anything else happens.
Checkpoint(s, o, next) ==
    /\ stage' = s /\ overall' = o
    /\ Store!Begin([stage |-> s, overall |-> o])
    /\ Goto(next)

Quiet == UNCHANGED <<mode, boot, machineVars, exit>>

\* Arguments out of range, or the report directory is not atomically writable.
RefuseToStart ==
    /\ pc = "start"
    /\ Goto("exit") /\ exit' = 2
    /\ UNCHANGED <<storeVars, mode, boot, machineVars, reportVars, evidenceVars>>

Start ==
    /\ pc = "start"
    /\ Checkpoint("S0_ENVIRONMENT", "INCOMPLETE", "s0_save")
    /\ UNCHANGED <<matrix, evidenceVars>> /\ Quiet

\* writer.checkpoint() at work.
Saving == pc \in Saves /\ UNCHANGED <<pc, reportVars, evidenceVars>> /\ Quiet

SaveLands(m) == Saving /\ Store!Land(m)
SaveSettles == Saving /\ Store!Settle
SaveLoses(lost) == Saving /\ Store!Lose(lost)

SaveStep ==
    \/ \E m \in Store!Medium : SaveLands(m)
    \/ SaveSettles
    \/ \E lost \in SUBSET Store!Medium : SaveLoses(lost)

\* Mutant: an abort that could be saved counts as a run with a result.
ExitCodeOfOverall == IF overall = "PASS" THEN 0 ELSE 1

ExitCode == IF pc = "abort_save" THEN 2 ELSE IF overall = "PASS" THEN 0 ELSE 1

SaveReturns ==
    /\ pc \in Saves
    /\ Store!Return
    /\ Goto(AfterSave[pc])
    /\ exit' = IF pc' = "exit" THEN ExitCode ELSE exit
    /\ UNCHANGED <<mode, boot, machineVars, reportVars, evidenceVars>>

\* Mutant: a failed abort save is aborted again.
SaveRaisesAgain ==
    /\ pc \in Saves
    /\ Store!Raise
    /\ Goto("abort")
    /\ UNCHANGED <<mode, boot, machineVars, reportVars, evidenceVars, exit>>

\* ReportWriteError: the abort handler is entered, or was already at work.
SaveRaises ==
    /\ pc \in Saves
    /\ Store!Raise
    /\ IF pc = "abort_save" THEN Goto("exit") /\ exit' = 2
                            ELSE Goto("abort") /\ UNCHANGED exit
    /\ UNCHANGED <<mode, boot, machineVars, reportVars, evidenceVars>>

\* The except clause: a last save, whatever it was that failed.
Abort ==
    /\ pc = "abort"
    /\ Checkpoint("ABORTED", "INCOMPLETE", "abort_save")
    /\ since' = NoHistory
    /\ UNCHANGED <<mode, boot, env, changes, matrix, evidenceVars, exit>>

\* Sidecars are written to the media in use; those that fail leave use.
WriteSidecars(next) ==
    \/ Goto(next) /\ UNCHANGED storeVars
    \/ \E lost \in SUBSET Store!Medium :
        /\ Store!Lose(lost)
        /\ Goto(IF status' = "raised" THEN "abort" ELSE next)

-----------------------------------------------------------------------------
(* Stage 0 and 1.                                                          *)

LookupTarget ==
    /\ pc = "lookup"
    /\ env.card # "none"
    /\ seen' = [card |-> env.card, driver |-> env.driver]
    /\ Goto("gates")
    /\ UNCHANGED <<storeVars, reportVars, state, helper, after>> /\ Quiet

\* Not found, or not a supported display device.
TargetNotFound ==
    /\ pc = "lookup"
    /\ env.card = "none"
    /\ Goto("abort")
    /\ UNCHANGED <<storeVars, reportVars, evidenceVars>> /\ Quiet

\* driver_intent(target)
DriverIntent ==
    CASE seen.driver = "expected" -> "BOUND_EXPECTED"
      [] seen.driver = "other" -> "BOUND_OTHER"
      [] seen.driver = "none" -> CASE boot = "open" -> "UNBOUND_UNEXPLAINED"
                                   [] boot = "quarantine" -> "QUARANTINED_BDF"
                                   [] OTHER -> "INTENTIONAL_GLOBAL_BLACKLIST"

SafeBootClaimed == boot # "open"

\* Mutant: a driver that is bound in spite of the safe boot is no obstacle.
GateRefusesUnbound ==
    \/ env.display
    \/ DriverIntent = "INTENTIONAL_GLOBAL_BLACKLIST" /\ boot = "blacklist_with_peers"

\* DISPLAY_RISK, a bound driver in a claimed safe boot, or a blacklist that
\* other cards of the vendor make unprovable.
GateRefuses ==
    \/ env.display
    \/ SafeBootClaimed /\ seen.driver # "none"
    \/ DriverIntent = "INTENTIONAL_GLOBAL_BLACKLIST" /\ boot = "blacklist_with_peers"

Gates ==
    /\ pc = "gates"
    /\ state' = DriverIntent
    /\ IF GateRefuses
       THEN Goto("abort") /\ UNCHANGED <<storeVars, stage, overall>>
       ELSE Checkpoint("S1_PRE_DRIVER", "INCOMPLETE", "s1_save")
    /\ UNCHANGED <<matrix, seen, helper, after>> /\ Quiet

DriverRow ==
    CASE state \in {"QUARANTINED_BDF", "INTENTIONAL_GLOBAL_BLACKLIST"} -> "NOT_RUN"
      [] state = "UNBOUND_UNEXPLAINED" -> "FAIL"
      [] state = "BOUND_EXPECTED" -> "PASS"
      [] state = "BOUND_OTHER" -> "BLOCKED"

InteractiveStatus ==
    CASE state \in {"QUARANTINED_BDF", "INTENTIONAL_GLOBAL_BLACKLIST"} -> "UNSAFE_SKIPPED"
      [] state = "BOUND_EXPECTED" -> "NOT_RUN"
      [] OTHER -> "BLOCKED"

StageOneMatrix(link, aer) ==
    [r \in Rows |-> CASE r = "pcie_link" -> link
                      [] r = "aer" -> aer
                      [] r = "driver_init" -> DriverRow
                      [] r = "vulkan" -> InteractiveStatus
                      [] OTHER -> "NOT_RUN"]

\* The read-only measurements, their sidecars and the Stage-1 matrix.  A link
\* or AER row that is UNAVAILABLE counts as one that is WARN.
Measure ==
    /\ pc = "measure"
    /\ \E link, aer \in {"PASS", "WARN"} :
        matrix' = StageOneMatrix(link, aer)
    /\ WriteSidecars(IF state # "BOUND_EXPECTED" \/ mode = "preflight"
                     THEN "preflight_end" ELSE "s3_begin")
    /\ UNCHANGED <<stage, overall, evidenceVars>> /\ Quiet

\* Mutant: PASS needs no more than the absence of a failure.
DeriveOverallFromFailures(full_mode) ==
    IF \E r \in Rows : matrix[r] = "FAIL" THEN "FAIL"
    ELSE IF full_mode THEN "PASS" ELSE "INCOMPLETE"

\* derive_overall: a clear negative result wins, PASS needs every required row.
DeriveOverall(full_mode) ==
    IF \E r \in Rows : matrix[r] = "FAIL" THEN "FAIL"
    ELSE IF full_mode /\ \A r \in Rows : matrix[r] = "PASS" THEN "PASS"
    ELSE "INCOMPLETE"

FinishPreflight ==
    /\ pc = "preflight_end"
    /\ Checkpoint("COMPLETE_INCOMPLETE", DeriveOverall(FALSE), "end_save")
    /\ UNCHANGED <<matrix, evidenceVars>> /\ Quiet

-----------------------------------------------------------------------------
(* Stage 3 and 4.                                                          *)

BeginStage3 ==
    /\ pc = "s3_begin"
    /\ matrix' = [matrix EXCEPT !["vulkan"] = "NOT_RUN"]
    /\ Checkpoint("S3_DRIVER_BOUND", "INCOMPLETE", "s3_save")
    /\ UNCHANGED evidenceVars /\ Quiet

Binding(e) == [card |-> e.card, driver |-> e.driver]
Confirmable == Binding(env) = [seen EXCEPT !.driver = "expected"]

\* _confirm_bound_target: identity and binding, then the display risk.
Confirm(at, display) ==
    /\ pc = at
    /\ Goto(IF Confirmable THEN display ELSE "abort")
    /\ UNCHANGED <<storeVars, reportVars, evidenceVars>> /\ Quiet

ConfirmDisplay(at, next) ==
    /\ pc = at
    /\ Goto(IF env.display THEN "abort" ELSE next)
    /\ UNCHANGED <<storeVars, reportVars, evidenceVars>> /\ Quiet

\* Mutant: before Stage 4 only identity and binding are read again.
ConfirmTargetOnce ==
    \/ Confirm("s3_confirm", "s3_display") \/ ConfirmDisplay("s3_display", "s3_probe")
    \/ Confirm("s4_confirm", "s4_begin")

ConfirmTarget ==
    \/ Confirm("s3_confirm", "s3_display") \/ ConfirmDisplay("s3_display", "s3_probe")
    \/ Confirm("s4_confirm", "s4_display") \/ ConfirmDisplay("s4_display", "s4_begin")

\* Mutant: the probe's word for its outcome goes to the matrix as it is.
ProbeDriverUnmapped ==
    /\ pc = "s3_probe"
    /\ \E vulkan \in {"PASS", "INCONCLUSIVE", "NO_EXACT_MATCH"} :
        matrix' = [matrix EXCEPT !["vulkan"] = vulkan]
    /\ Goto(IF mode = "no_vram" THEN "evidence" ELSE "s4_confirm")
    /\ UNCHANGED <<storeVars, stage, overall, evidenceVars>> /\ Quiet

\* Telemetry and vulkaninfo, the first commands that talk to the driver.
ProbeDriver ==
    /\ pc = "s3_probe"
    /\ \E vulkan \in {"PASS", "INCONCLUSIVE", "UNAVAILABLE"} :
        matrix' = [r \in Rows |-> IF r = "vulkan" THEN vulkan
                                  ELSE IF r \in Experiments THEN "NOT_RUN" ELSE matrix[r]]
    /\ Goto(IF mode = "no_vram" THEN "evidence" ELSE "s4_confirm")
    /\ UNCHANGED <<storeVars, stage, overall, evidenceVars>> /\ Quiet

\* Mutant: the helper starts without a checkpoint.
BeginStage4Unsaved ==
    /\ pc = "s4_begin"
    /\ stage' = "S4_VRAM_COMPUTE"
    /\ Goto("helper")
    /\ UNCHANGED <<storeVars, overall, matrix, evidenceVars>> /\ Quiet

BeginStage4 ==
    /\ pc = "s4_begin"
    /\ Checkpoint("S4_VRAM_COMPUTE", "INCOMPLETE", "s4_save")
    /\ UNCHANGED <<matrix, evidenceVars>> /\ Quiet

\* phase4_helper, as HelperProtocol implements it, and the rows of its result.
RunHelper ==
    /\ pc = "helper"
    /\ helper' \in Helper!Results(env.card = seen.card)
    /\ matrix' = [r \in Rows |->
                    IF r \in Experiments THEN helper'.results[r]
                    ELSE IF r = "vulkan" /\ helper'.kind = "report" THEN "PASS"
                    ELSE matrix[r]]
    /\ Goto("evidence")
    /\ since' = NoHistory
    /\ UNCHANGED <<storeVars, mode, boot, env, changes, stage, overall, seen, state, after, exit>>

\* Counters missing from the second snapshot count as 0: no positive delta.
AfterOutcome ==
    {a \in [aer_readable : BOOLEAN, aer : {"PASS", "WARN", "FAIL"},
            signal : {"none", "device_lost", "other"}] :
        ~a.aer_readable => a.aer = "PASS"}

\* Mutant: only a lost device counts as a kernel failure signal.
GatherEvidenceOfLoss ==
    /\ pc = "evidence"
    /\ after' \in AfterOutcome
    /\ matrix' = [r \in Rows |->
                    IF r = "aer" THEN after'.aer
                    ELSE IF r = "driver_init" /\ after'.signal = "device_lost" THEN "FAIL"
                    ELSE matrix[r]]
    /\ WriteSidecars("end")
    /\ UNCHANGED <<stage, overall, seen, state, helper>> /\ Quiet

\* The second snapshots, what they overrule in the matrix, and the sidecars.
GatherEvidence ==
    /\ pc = "evidence"
    /\ after' \in AfterOutcome
    /\ matrix' = [r \in Rows |->
                    IF r = "aer" THEN after'.aer
                    ELSE IF r = "driver_init" /\ after'.signal # "none" THEN "FAIL"
                    ELSE IF r \in Experiments /\ after'.signal = "device_lost"
                            /\ matrix[r] = "PASS" THEN "INCONCLUSIVE"
                    ELSE matrix[r]]
    /\ WriteSidecars("end")
    /\ UNCHANGED <<stage, overall, seen, state, helper>> /\ Quiet

CompleteStage == [PASS |-> "COMPLETE_PASS", FAIL |-> "COMPLETE_FAIL",
                  INCOMPLETE |-> "COMPLETE_INCOMPLETE"]

Finish ==
    /\ pc = "end"
    /\ LET full_mode == mode = "full" /\ helper.kind = "report"
           verdict == DeriveOverall(full_mode)
       IN  Checkpoint(CompleteStage[verdict], verdict, "end_save")
    /\ UNCHANGED <<matrix, evidenceVars>> /\ Quiet

-----------------------------------------------------------------------------
(* What the program does not choose.                                       *)

\* A collector, a command's runner or the helper's log file raises.
Fault ==
    /\ pc \in Collecting
    /\ Goto("abort")
    /\ UNCHANGED <<storeVars, reportVars, evidenceVars>> /\ Quiet

\* Ctrl-C: KeyboardInterrupt passes the except clause by.
Interrupt ==
    /\ pc \in Waiting
    /\ Goto("exit") /\ exit' = 130
    /\ UNCHANGED <<storeVars, mode, boot, machineVars, reportVars, evidenceVars>>

\* The machine hangs or loses power during the run; the stick is read elsewhere.
PowerLoss ==
    /\ pc \in Waiting
    /\ Store!PowerLoss
    /\ Goto("off")
    /\ UNCHANGED <<mode, boot, machineVars, reportVars, evidenceVars, exit>>

\* One thing about the machine changes, while it still matters: nothing reads
\* the card, its binding or its display again once the helper was started.
ChangeEnvironment ==
    /\ pc \in Waiting \ {"evidence", "end_save", "abort_save"}
    /\ changes < MaxChanges
    /\ changes' = changes + 1
    /\ \/ \E c \in {"card", "other_card", "none"} \ {env.card} : env' = [env EXCEPT !.card = c]
       \/ \E d \in {"expected", "other", "none"} \ {env.driver} : env' = [env EXCEPT !.driver = d]
       \/ env' = [env EXCEPT !.display = ~@]
    /\ since' = [binding |-> IF Confirmable THEN pc ELSE since.binding,
                 display |-> IF env.display THEN since.display ELSE pc]
    /\ UNCHANGED <<storeVars, pc, mode, boot, reportVars, evidenceVars, exit>>

ProgramStep ==
    \/ RefuseToStart \/ Start \/ LookupTarget \/ TargetNotFound \/ Gates \/ Measure
    \/ FinishPreflight \/ BeginStage3 \/ ConfirmTarget \/ ProbeDriver \/ BeginStage4
    \/ RunHelper \/ GatherEvidence \/ Finish \/ Abort \/ SaveReturns \/ SaveRaises

Next ==
    \/ ProgramStep \/ SaveStep
    \/ Fault \/ Interrupt \/ PowerLoss \/ ChangeEnvironment

\* The program is one thread whose commands run under time limits
\* (default_run) and whose saves end (CheckpointWriter!CallEnds).
Fairness ==
    /\ WF_vars(ProgramStep)
    /\ \A m \in Store!Medium : WF_vars(SaveLands(m))
    /\ WF_vars(SaveSettles)

Spec == Init /\ [][Next]_vars /\ Fairness

-----------------------------------------------------------------------------
(* What the run is for.                                                    *)

Completed(m) == disk[m].stage \in {"COMPLETE_PASS", "COMPLETE_FAIL", "COMPLETE_INCOMPLETE"}

\* Exit code 0, and a report that says PASS on any medium, need the whole
\* evidence: a full run on a card that was bound to its driver, a helper report
\* with every experiment passed, an undegraded link, no new AER error and no
\* kernel failure signal after it (safe_triage.py:433-646).
PassIsEarned ==
    exit = 0 \/ (\E m \in Store!Medium : disk[m].overall = "PASS") =>
        /\ mode = "full"
        /\ seen.driver = "expected"
        /\ helper.kind = "report" /\ \A e \in Experiments : helper.results[e] = "PASS"
        /\ matrix["pcie_link"] = "PASS"
        /\ after.aer = "PASS" /\ after.signal = "none"

\* A run that gets to an exit code of its own verdict never loses a negative
\* result on the way, whatever was overwritten in the matrix since: a failed
\* experiment, a severe AER delta, a kernel signal or an unexplained unbound
\* card ends as FAIL on every medium in use ("a clear negative result wins",
\* triage_model.py:82-102).
FailureWins ==
    /\ exit \in {0, 1} /\ status = "idle"
    /\ \/ \E e \in Experiments : helper.results[e] = "FAIL"
       \/ after.aer = "FAIL"
       \/ after.signal # "none"
       \/ state = "UNBOUND_UNEXPLAINED"
    => exit = 1 /\ \A m \in avail : disk[m].overall = "FAIL"

\* Before the first command of Stage 3, and before the helper, every medium in
\* use already says so, and a power loss cannot take that from the primary
\* (safe_triage.py:384-395, "The checkpoint precedes every driver-interactive
\* command").
WorkIsAnnounced ==
    LET Announced(s) ==
            LET r == [stage |-> s, overall |-> "INCOMPLETE"]
            IN  /\ \A m \in avail : disk[m] = r
                /\ "primary" \in avail => survive = {r}
    IN  /\ pc = "s3_probe" => Announced("S3_DRIVER_BOUND")
        /\ pc = "helper" => Announced("S4_VRAM_COMPUTE")

\* Whenever power is lost after the helper was started, the report found on
\* the stick, unless the stick had failed, is of Stage 4 or later: a hang is
\* not mistaken for one of an earlier stage (safe_triage.py:434-452).
CrashTellsStage ==
    status = "off" /\ helper.kind # "none" /\ "primary" \in avail =>
        disk["primary"].stage \notin {"none", "START", "S0_ENVIRONMENT", "S1_PRE_DRIVER",
                                      "S3_DRIVER_BOUND"}

\* Together: the stage is told before the work, and by what a crash leaves.
StageIsTold == WorkIsAnnounced /\ CrashTellsStage

\* Driver-bound work starts on a card that was identified, bound and without
\* display risk after the stage was decided: if it is unfit when the work
\* starts, the change fell into the window between the last read of that fact
\* and the command.  For the helper that window includes the Stage-4 save
\* (safe_triage.py:170-188, 397, 434).
WorkOnConfirmedTarget ==
    /\ pc = "s3_probe" =>
        /\ ~Confirmable => since.binding \in {"s3_display", "s3_probe"}
        /\ env.display => since.display = "s3_probe"
    /\ pc = "helper" =>
        /\ ~Confirmable => since.binding \in {"s4_display", "s4_save", "helper"}
        /\ env.display => since.display \in {"s4_save", "helper"}

\* A run that was asked for preflight only, or whose boot claims to have kept
\* the driver away from the card, never gets to a driver-bound stage, on any
\* medium, whatever is bound or unbound while it runs (safe_triage.py:253-262,
\* 369-382).
SafeModeStaysPreDriver ==
    mode = "preflight" \/ SafeBootClaimed =>
        \A m \in Store!Medium :
            disk[m].stage \notin {"S3_DRIVER_BOUND", "S4_VRAM_COMPUTE", "COMPLETE_PASS"}

\* Exit codes 0 and 1 stand for a completed report on every medium still in
\* use, at least one, which power loss cannot take from the primary; 0 for
\* PASS and 1 for any other verdict (gpu_diag.py:988-999).
ExitMatchesReport ==
    exit \in {0, 1} /\ status # "off" =>
        /\ avail # {}
        /\ \A m \in avail : Completed(m) /\ (disk[m].overall = "PASS" <=> exit = 0)
        /\ "primary" \in avail => survive = {disk["primary"]}

\* Every run ends with an exit code, unless power is lost, also when both media
\* fail while the abort is being saved.
RunEnds == pc = "start" ~> (exit # -1 \/ pc = "off")

-----------------------------------------------------------------------------
(* What the documents say and the code does not do.                        *)

\* PLAN-SAFE-TRIAGE.md:280-281: PASS says that "der für diesen Modus definierte
\* Test lief vollständig", that the test ran to its end.
PassMeansHelperFinished ==
    exit = 0 => helper.clean

\* README.md:383: a test that was not carried out "wird nie als Erfolg
\* gewertet", is never counted as a success; here the AER comparison.
PassMeansAerCompared ==
    exit = 0 => after.aer_readable

\* One state that refutes both.
CarriedOut == PassMeansHelperFinished \/ PassMeansAerCompared
=============================================================================
