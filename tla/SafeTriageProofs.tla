-------------------------- MODULE SafeTriageProofs --------------------------
(***************************************************************************)
(* For any set of experiments and any number of changes of the machine:    *)
(* the gates of a run hold, the stage is told before the work, and verdict,*)
(* exit code and the reports on the media agree with the evidence.         *)
(***************************************************************************)
EXTENDS SafeTriage, TLAPS

\* Every report that is, was meant to be or may be read from a medium.
Stored == {want} \union {disk[m] : m \in Store!Medium} \union survive

Now == [stage |-> stage, overall |-> overall]

\* The report as it is now has reached every medium in use, for good.
AllSaved ==
    /\ want = Now
    /\ avail # {} /\ \A m \in avail : disk[m] = Now
    /\ "primary" \in avail => survive = {Now}

\* The state of the store that goes with each place of the program, and the
\* reports that a save has just brought out.
StoreInv ==
    /\ pc \in Saves => status = "saving" /\ want = Now
    /\ pc \in Collecting \union Deciding \union {"start"} => status = "idle"
    /\ pc = "abort" => status \in {"idle", "raised"}
    /\ pc \in {"s3_confirm", "s3_display", "s3_probe", "helper"} => AllSaved
    /\ pc \in {"s3_save", "s3_confirm", "s3_display", "s3_probe"} =>
          Now = [stage |-> "S3_DRIVER_BOUND", overall |-> "INCOMPLETE"]
    /\ pc \in {"s4_save", "helper"} =>
          Now = [stage |-> "S4_VRAM_COMPUTE", overall |-> "INCOMPLETE"]

-----------------------------------------------------------------------------
(* The gates.                                                              *)

Guarded == mode = "preflight" \/ SafeBootClaimed

DriverBound == {"s3_begin", "s3_save", "s3_confirm", "s3_display", "s3_probe", "s4_confirm",
                "s4_display", "s4_begin", "s4_save", "helper", "evidence", "end"}

DriverStages == {"S3_DRIVER_BOUND", "S4_VRAM_COMPUTE", "COMPLETE_PASS"}

\* A guarded run stays before Stage 3, and so do all reports of it.
GateInv ==
    Guarded =>
        /\ pc \notin DriverBound
        /\ stage \notin DriverStages
        /\ \A r \in Stored : r.stage \notin DriverStages
        /\ SafeBootClaimed /\ pc \in {"s1_save", "measure"} => state # "BOUND_EXPECTED"

\* What is known of an unfit card between a look at it and the work.
ConfirmInv ==
    /\ pc \in {"s3_display", "s3_probe"} /\ ~Confirmable =>
          since.binding \in {"s3_display", "s3_probe"}
    /\ pc = "s3_probe" /\ env.display => since.display = "s3_probe"
    /\ pc \in {"s4_display", "s4_begin", "s4_save", "helper"} /\ ~Confirmable =>
          since.binding \in {"s4_display", "s4_save", "helper"}
    /\ pc = "s4_begin" => ~env.display
    /\ pc \in {"s4_save", "helper"} /\ env.display => since.display \in {"s4_save", "helper"}

-----------------------------------------------------------------------------
(* The verdict.                                                            *)

AfterHelper == {"evidence", "end", "end_save", "abort", "abort_save", "exit", "off"}

Late == {"S4_VRAM_COMPUTE", "COMPLETE_PASS", "COMPLETE_FAIL", "COMPLETE_INCOMPLETE", "ABORTED"}

\* No report of an earlier stage is left where the helper was started.
CrashInv ==
    /\ helper.kind # "none" => pc \in AfterHelper /\ stage \in Late /\ want.stage \in Late
    /\ helper.kind # "none" /\ "primary" \in avail =>
          \A r \in survive \union {disk["primary"]} : r.stage \in Late

Earned ==
    /\ mode = "full"
    /\ seen.driver = "expected"
    /\ helper.kind = "report" /\ \A e \in Experiments : helper.results[e] = "PASS"
    /\ matrix["pcie_link"] = "PASS"
    /\ after.aer = "PASS" /\ after.signal = "none"

FailureSeen ==
    \/ \E e \in Experiments : helper.results[e] = "FAIL"
    \/ after.aer = "FAIL"
    \/ after.signal # "none"
    \/ state = "UNBOUND_UNEXPLAINED"

\* What the matrix and the evidence have to do with each other on the way.
EvidenceInv ==
    /\ pc \notin AfterHelper => helper = Helper!NoHelper
    /\ pc \notin AfterHelper \ {"evidence"} => after = NothingAfter
    /\ pc \in DriverBound => state = "BOUND_EXPECTED"
    /\ pc \in DriverBound \union {"s1_save", "measure"} /\ state = "BOUND_EXPECTED" =>
          seen.driver = "expected"
    /\ pc = "preflight_end" /\ state = "UNBOUND_UNEXPLAINED" => matrix["driver_init"] = "FAIL"
    /\ pc = "evidence" => \A e \in Experiments : matrix[e] = helper.results[e]
    /\ pc = "end" =>
          /\ matrix["aer"] = after.aer
          /\ after.signal # "none" => matrix["driver_init"] = "FAIL"
          /\ \A e \in Experiments :
                matrix[e] = helper.results[e]
                    \/ (helper.results[e] = "PASS" /\ matrix[e] = "INCONCLUSIVE")

\* A verdict once given is what the evidence says, on every medium.
VerdictInv ==
    /\ pc = "end_save" \/ exit \in {0, 1} =>
          /\ FailureSeen => overall = "FAIL"
          /\ stage \in {"COMPLETE_PASS", "COMPLETE_FAIL", "COMPLETE_INCOMPLETE"}
    /\ overall = "PASS" \/ (\E r \in Stored : r.overall = "PASS") =>
          Earned /\ pc \in {"end_save", "abort", "abort_save", "exit", "off"}
    /\ pc # "exit" => exit = -1
    /\ exit \in {0, 1} => AllSaved /\ status = "idle" /\ (exit = 0 <=> overall = "PASS")

IInv ==
    /\ TypeOK /\ StoreInv /\ GateInv /\ ConfirmInv
    /\ CrashInv /\ EvidenceInv /\ VerdictInv

-----------------------------------------------------------------------------
(* The store, seen from its caller.                                        *)

\* The contents of a medium.
LEMMA ReportTypes ==
    /\ [stage |-> "none", overall |-> "none"] = NoReport
    /\ NoReport.stage = "none" /\ NoReport.overall = "none"
    /\ \A s \in Stage, o \in Overall :
          /\ [stage |-> s, overall |-> o] \in Report
          /\ [stage |-> s, overall |-> o].stage = s /\ [stage |-> s, overall |-> o].overall = o
BY DEF NoReport, Report

\* What one step of a save does (ReportStore).
LEMMA SaveStepStore ==
    ASSUME TypeOK, StoreInv, SaveStep
    PROVE  /\ pc \in Saves
           /\ UNCHANGED <<pc, mode, boot, env, changes, since, stage, overall, matrix, seen, state,
                          helper, after, exit, want>>
           /\ Store!StoreTypeOK' /\ status = "saving" /\ status' = "saving"
           /\ avail' \subseteq avail
           /\ Stored' \subseteq Stored
           /\ \A m \in avail' : disk'[m] \in {disk[m], want}
           /\ survive' \subseteq survive \union {want} \union
                  IF "primary" \in avail THEN {disk["primary"]} ELSE {}
<1>1. /\ pc \in Saves
      /\ UNCHANGED <<pc, mode, boot, env, changes, since, stage, overall, matrix, seen, state,
                     helper, after, exit>>
    BY DEF SaveStep, SaveLands, SaveSettles, SaveLoses, Saving, Quiet, machineVars, reportVars,
           evidenceVars
<1>2. ASSUME NEW m \in Store!Medium, SaveLands(m)
      PROVE  /\ want' = want /\ Store!StoreTypeOK' /\ status = "saving" /\ status' = "saving"
             /\ avail' \subseteq avail
             /\ Stored' \subseteq Stored
             /\ \A mm \in avail' : disk'[mm] \in {disk[mm], want}
             /\ survive' \subseteq survive \union {want} \union
                  IF "primary" \in avail THEN {disk["primary"]} ELSE {}
    BY <1>2 DEF SaveLands, Saving, Store!Land, TypeOK, Store!StoreTypeOK, Stored, Store!Medium
<1>3. ASSUME SaveSettles
      PROVE  /\ want' = want /\ Store!StoreTypeOK' /\ status = "saving" /\ status' = "saving"
             /\ avail' \subseteq avail
             /\ Stored' \subseteq Stored
             /\ \A mm \in avail' : disk'[mm] \in {disk[mm], want}
             /\ survive' \subseteq survive \union {want} \union
                  IF "primary" \in avail THEN {disk["primary"]} ELSE {}
    BY <1>3 DEF SaveSettles, Saving, Store!Settle, TypeOK, Store!StoreTypeOK, Stored, Store!Medium
<1>4. ASSUME NEW lost \in SUBSET Store!Medium, SaveLoses(lost), status = "saving"
      PROVE  /\ want' = want /\ Store!StoreTypeOK' /\ status = "saving" /\ status' = "saving"
             /\ avail' \subseteq avail
             /\ Stored' \subseteq Stored
             /\ \A mm \in avail' : disk'[mm] \in {disk[mm], want}
             /\ survive' \subseteq survive \union {want} \union
                  IF "primary" \in avail THEN {disk["primary"]} ELSE {}
    BY <1>4 DEF SaveLoses, Saving, Store!Lose, TypeOK, Store!StoreTypeOK, Stored, Store!Medium
<1>5. status = "saving"
    BY <1>1 DEF StoreInv
<1> QED BY <1>1, <1>2, <1>3, <1>4, <1>5 DEF SaveStep
\* What Begin does for a caller that has just set stage and verdict.
LEMMA CheckpointStore ==
    ASSUME TypeOK, NEW s \in Stage, NEW o \in Overall, NEW next, Checkpoint(s, o, next)
    PROVE  /\ pc' = next /\ stage' = s /\ overall' = o
           /\ Now' = [stage |-> s, overall |-> o] /\ want' = Now'
           /\ status \in {"idle", "raised"} /\ status' = "saving"
           /\ UNCHANGED <<avail, disk, survive>>
           /\ Store!StoreTypeOK'
           /\ Stored' \subseteq Stored \union {Now'}
<1>1. /\ pc' = next /\ stage' = s /\ overall' = o
      /\ want' = [stage |-> s, overall |-> o]
      /\ status \in {"idle", "raised"} /\ status' = "saving"
      /\ UNCHANGED <<avail, disk, survive>>
    BY DEF Checkpoint, Goto, Store!Begin
<1>2. Store!StoreTypeOK'
    BY <1>1, ReportTypes DEF TypeOK, Store!StoreTypeOK
<1> QED BY <1>1, <1>2 DEF Now, Stored

\* What a save that returns has done.
LEMMA ReturnStore ==
    ASSUME TypeOK, SaveReturns
    PROVE  /\ pc \in Saves /\ pc' = AfterSave[pc]
           /\ status' = "idle" /\ avail # {}
           /\ \A m \in avail : disk[m] = want
           /\ "primary" \in avail => survive = {want}
           /\ UNCHANGED <<want, avail, disk, survive, mode, boot, env, changes, since, stage, overall,
                          matrix, seen, state, helper, after>>
           /\ Store!StoreTypeOK'
           /\ Stored' = Stored
BY DEF SaveReturns, Goto, Store!Return, Store!Saved, TypeOK, Store!StoreTypeOK, Stored,
       machineVars, reportVars, evidenceVars

\* What a save that fails has done.
LEMMA RaiseStore ==
    ASSUME TypeOK, SaveRaises
    PROVE  /\ pc \in Saves /\ pc' = IF pc = "abort_save" THEN "exit" ELSE "abort"
           /\ exit' = IF pc = "abort_save" THEN 2 ELSE exit
           /\ status' = "raised"
           /\ UNCHANGED <<want, avail, disk, survive, mode, boot, env, changes, since, stage, overall,
                          matrix, seen, state, helper, after>>
           /\ Store!StoreTypeOK'
           /\ Stored' = Stored
BY DEF SaveRaises, Goto, Store!Raise, TypeOK, Store!StoreTypeOK, Stored,
       machineVars, reportVars, evidenceVars

\* What sidecars may cost.
LEMMA SidecarStore ==
    ASSUME TypeOK, status = "idle", NEW next, WriteSidecars(next)
    PROVE  /\ (pc' = next /\ status' = "idle") \/ (pc' = "abort" /\ status' = "raised")
           /\ UNCHANGED <<want, disk, survive>> /\ avail' \subseteq avail
           /\ Store!StoreTypeOK'
           /\ Stored' = Stored
<1>1. CASE Goto(next) /\ UNCHANGED storeVars
    BY <1>1 DEF Goto, storeVars, TypeOK, Store!StoreTypeOK, Stored
<1>2. ASSUME NEW lost \in SUBSET Store!Medium, Store!Lose(lost),
             Goto(IF status' = "raised" THEN "abort" ELSE next)
      PROVE  /\ (pc' = next /\ status' = "idle") \/ (pc' = "abort" /\ status' = "raised")
             /\ UNCHANGED <<want, disk, survive>> /\ avail' \subseteq avail
             /\ Store!StoreTypeOK'
             /\ Stored' = Stored
    BY <1>2 DEF Goto, Store!Lose, TypeOK, Store!StoreTypeOK, Stored
<1> QED BY <1>1, <1>2 DEF WriteSidecars

\* What a power loss leaves on the media.
LEMMA PowerLossStore ==
    ASSUME TypeOK, PowerLoss
    PROVE  /\ pc \in Waiting /\ pc' = "off" /\ status' = "off"
           /\ UNCHANGED <<want, avail, mode, boot, env, changes, since, stage, overall, matrix,
                          seen, state, helper, after, exit>>
           /\ \E r \in survive : disk'["primary"] = r /\ survive' = {r}
           /\ Store!StoreTypeOK'
           /\ Stored' \subseteq Stored \union {NoReport}
<1>1. PICK r \in survive :
          /\ disk' = [m \in Store!Medium |-> IF m = "primary" THEN r ELSE NoReport]
          /\ survive' = {r}
    BY DEF PowerLoss, Store!PowerLoss
<1>2. /\ pc \in Waiting /\ pc' = "off" /\ status' = "off"
      /\ UNCHANGED <<want, avail, mode, boot, env, changes, since, stage, overall, matrix,
                     seen, state, helper, after, exit>>
    BY DEF PowerLoss, Store!PowerLoss, Goto, machineVars, reportVars, evidenceVars
<1>3. r \in Report \union {NoReport}
    BY DEF TypeOK, Store!StoreTypeOK
<1>4. Store!StoreTypeOK'
    BY <1>1, <1>2, <1>3 DEF TypeOK, Store!StoreTypeOK
<1>5. disk'["primary"] = r
    BY <1>1 DEF Store!Medium
<1>6. Stored' \subseteq Stored \union {NoReport}
    BY <1>1, <1>2 DEF Stored
<1> QED BY <1>1, <1>2, <1>4, <1>5, <1>6

-----------------------------------------------------------------------------
(* Types.                                                                  *)

\* What the helper may return is a HelperResult (HelperRun).
LEMMA HelperTypes ==
    /\ Helper!NoHelper \in Helper!HelperResult /\ Helper!NoHelper.kind = "none"
    /\ \A e \in Experiments : Helper!NoHelper.results[e] = "NOT_RUN"
    /\ \A fits \in BOOLEAN : \A h \in Helper!Results(fits) :
          h \in Helper!HelperResult /\ h.kind # "none"
    /\ \A h \in Helper!HelperResult, e \in Experiments : h.results[e] \in Status
<1>1. /\ Helper!NoHelper \in Helper!HelperResult /\ Helper!NoHelper.kind = "none"
      /\ \A e \in Experiments : Helper!NoHelper.results[e] = "NOT_RUN"
    BY DEF Helper!NoHelper, Helper!HelperResult, Helper!AllRows
<1>2. ASSUME NEW fits \in BOOLEAN, NEW h \in Helper!Results(fits)
      PROVE  h \in Helper!HelperResult /\ h.kind # "none"
    <2>1. CASE h = [kind |-> "missing", clean |-> FALSE, results |-> Helper!AllRows("UNAVAILABLE")]
        BY <2>1 DEF Helper!HelperResult, Helper!AllRows
    <2>2. ASSUME NEW s \in {"INCONCLUSIVE", "UNAVAILABLE"},
                 h = [kind |-> "protocol_error", clean |-> FALSE, results |-> Helper!AllRows(s)]
          PROVE  h \in Helper!HelperResult /\ h.kind # "none"
        BY <2>2 DEF Helper!HelperResult, Helper!AllRows
    <2>3. CASE h \in [kind : {"report"}, clean : BOOLEAN,
                      results : [Experiments -> {"PASS", "FAIL", "INCONCLUSIVE"}]]
        BY <2>3 DEF Helper!HelperResult
    <2> QED BY <2>1, <2>2, <2>3 DEF Helper!Results
<1>3. ASSUME NEW h \in Helper!HelperResult, NEW e \in Experiments PROVE h.results[e] \in Status
    BY DEF Helper!HelperResult, Status
<1> QED BY <1>1, <1>2, <1>3

\* The verdict is one of three (triage_model.py:82-102).
LEMMA VerdictType == \A full_mode \in BOOLEAN :
    /\ DeriveOverall(full_mode) \in Overall
    /\ CompleteStage[DeriveOverall(full_mode)] \in Stage
    /\ CompleteStage[DeriveOverall(full_mode)]
          \in {"COMPLETE_PASS", "COMPLETE_FAIL", "COMPLETE_INCOMPLETE"}
BY DEF DeriveOverall, CompleteStage, Overall, Stage

\* The rows of Stage 1 have a status of the matrix.
LEMMA StageOneType ==
    ASSUME TypeOK, NEW link \in {"PASS", "WARN"}, NEW aer \in {"PASS", "WARN"}
    PROVE  /\ StageOneMatrix(link, aer) \in [Rows -> Status]
           /\ DriverRow \in Status /\ InteractiveStatus \in Status
<1>1. DriverRow \in Status /\ InteractiveStatus \in Status
    BY DEF TypeOK, DriverState, DriverRow, InteractiveStatus, Status
<1> QED BY <1>1 DEF StageOneMatrix, Status

\* driver_intent knows five states (collectors.py:220-259).
LEMMA DriverIntentType ==
    ASSUME TypeOK
    PROVE  /\ DriverIntent \in DriverState
           /\ DriverIntent = "BOUND_EXPECTED" <=> seen.driver = "expected"
BY DEF TypeOK, DriverIntent, DriverState, Boot

\* Everything but the store has its type in the next state.
RestTypeOK ==
    /\ pc \in Running \union {"exit", "off"}
    /\ mode \in Mode /\ boot \in Boot
    /\ env \in Environment
    /\ changes \in 0..MaxChanges
    /\ since \in [binding : Running, display : Running]
    /\ seen \in [card : {"card", "other_card", "none"}, driver : {"expected", "other", "none"}]
    /\ state \in DriverState
    /\ stage \in Stage /\ overall \in Overall
    /\ matrix \in [Rows -> Status]
    /\ helper \in Helper!HelperResult
    /\ after \in AfterResult
    /\ exit \in {-1, 0, 1, 2, 130}

\* The type invariant is the store's and that of everything else.
LEMMA TypeSplit == TypeOK <=> Store!StoreTypeOK /\ RestTypeOK
BY DEF TypeOK, RestTypeOK

\* The run starts within its types.
LEMMA InitType == Init => TypeOK
<1> SUFFICES ASSUME Init PROVE TypeOK
    OBVIOUS
<1>1. Store!StoreTypeOK
    BY DEF Init, Store!StoreInit, Store!StoreTypeOK, Store!Medium
<1>2. matrix \in [Rows -> Status] /\ helper \in Helper!HelperResult
    BY HelperTypes DEF Init, Status
<1>3. RestTypeOK
    BY <1>2, MaxChangesAssumption DEF Init, RestTypeOK, Running, Environment, NoHistory,
        DriverState, Stage, Overall, AfterResult, NothingAfter
<1> QED BY <1>1, <1>3, TypeSplit

\* The steps that leave the store alone.
PlainStep ==
    \/ RefuseToStart \/ LookupTarget \/ TargetNotFound \/ ConfirmTarget \/ ProbeDriver
    \/ RunHelper \/ Fault \/ Interrupt \/ ChangeEnvironment

\* Apart from sidecars and checkpoints, a step leaves the media alone.
LEMMA PlainStore ==
    ASSUME TypeOK, PlainStep
    PROVE  UNCHANGED <<status, want, avail, disk, survive>> /\ Store!StoreTypeOK'
           /\ Stored' = Stored /\ UNCHANGED <<mode, boot, stage, overall, after>>
<1>1. UNCHANGED <<status, want, avail, disk, survive, mode, boot, stage, overall, after>>
    BY DEF PlainStep, RefuseToStart, LookupTarget, TargetNotFound, ConfirmTarget, Confirm,
           ConfirmDisplay, ProbeDriver, RunHelper, Fault, Interrupt, ChangeEnvironment,
           storeVars, reportVars, evidenceVars, Quiet
<1> QED BY <1>1 DEF TypeOK, Store!StoreTypeOK, Stored

\* A step that leaves the media alone keeps the types.
LEMMA PlainType == TypeOK /\ PlainStep => TypeOK'
<1> SUFFICES ASSUME TypeOK, PlainStep PROVE RestTypeOK'
    BY PlainStore DEF TypeOK, RestTypeOK
<1> USE DEF RestTypeOK
<1>1. RestTypeOK
    BY TypeSplit
<1>2. CASE RefuseToStart \/ TargetNotFound \/ ConfirmTarget \/ Fault \/ Interrupt
    BY <1>1, <1>2 DEF RefuseToStart, TargetNotFound, ConfirmTarget, Confirm, ConfirmDisplay,
        Fault, Interrupt, Goto, Quiet, machineVars, reportVars, evidenceVars, Running,
        Collecting, Deciding
<1>3. CASE LookupTarget
    <2>1. seen' \in [card : {"card", "other_card", "none"}, driver : {"expected", "other", "none"}]
        BY <1>1, <1>3 DEF LookupTarget, Environment
    <2> QED BY <1>1, <1>3, <2>1 DEF LookupTarget, Goto, Quiet, machineVars, reportVars, Running,
        Collecting
<1>4. CASE ProbeDriver
    <2>1. matrix' \in [Rows -> Status]
        BY <1>1, <1>4 DEF ProbeDriver, Status
    <2> QED BY <1>1, <1>4, <2>1 DEF ProbeDriver, Goto, Quiet, machineVars, evidenceVars, Running,
        Collecting
<1>5. CASE RunHelper
    <2>1. helper' \in Helper!HelperResult /\ \A e \in Experiments : helper'.results[e] \in Status
        BY <1>5, HelperTypes DEF RunHelper
    <2>2. matrix' \in [Rows -> Status]
        BY <1>1, <1>5, <2>1 DEF RunHelper, Status
    <2>3. since' \in [binding : Running, display : Running]
        BY <1>5 DEF RunHelper, NoHistory, Running
    <2> QED BY <1>1, <1>5, <2>1, <2>2, <2>3 DEF RunHelper, Goto, Running, Collecting
<1>6. CASE ChangeEnvironment
    <2>1. env' \in Environment
        <3>1. CASE \E c \in {"card", "other_card", "none"} : env' = [env EXCEPT !.card = c]
            BY <1>1, <3>1 DEF Environment
        <3>2. CASE \E d \in {"expected", "other", "none"} : env' = [env EXCEPT !.driver = d]
            BY <1>1, <3>2 DEF Environment
        <3>3. CASE env' = [env EXCEPT !.display = ~env.display]
            BY <1>1, <3>3 DEF Environment
        <3> QED BY <1>6, <3>1, <3>2, <3>3 DEF ChangeEnvironment
    <2>2. since' \in [binding : Running, display : Running]
        BY <1>1, <1>6 DEF ChangeEnvironment, Waiting, Running
    <2>3. changes' \in 0..MaxChanges
        BY <1>1, <1>6, MaxChangesAssumption DEF ChangeEnvironment
    <2> QED BY <1>1, <1>6, <2>1, <2>2, <2>3 DEF ChangeEnvironment, reportVars, evidenceVars
<1> QED BY <1>2, <1>3, <1>4, <1>5, <1>6 DEF PlainStep

\* The steps that begin a save: the stage and verdict they give it and where
\* they are made.
CheckpointStep ==
    \/ Start \/ (Gates /\ ~GateRefuses) \/ FinishPreflight \/ BeginStage3 \/ BeginStage4
    \/ Finish \/ Abort

Moves == {<<"start", "s0_save", "S0_ENVIRONMENT">>, <<"gates", "s1_save", "S1_PRE_DRIVER">>,
          <<"s3_begin", "s3_save", "S3_DRIVER_BOUND">>, <<"s4_begin", "s4_save", "S4_VRAM_COMPUTE">>,
          <<"abort", "abort_save", "ABORTED">>}

\* Where a checkpoint is taken: what it names, and where its save leads.
LEMMA CheckpointMoves ==
    ASSUME TypeOK, CheckpointStep
    PROVE  /\ stage' \in Stage /\ overall' \in Overall
           /\ want' = Now' /\ status \in {"idle", "raised"} /\ status' = "saving"
           /\ UNCHANGED <<avail, disk, survive, mode, boot, env, changes, seen, helper, after, exit>>
           /\ Store!StoreTypeOK' /\ Stored' \subseteq Stored \union {Now'}
           /\ \/ <<pc, pc', stage'>> \in Moves /\ overall' = "INCOMPLETE"
              \/ pc = "preflight_end" /\ pc' = "end_save"
                 /\ stage' = "COMPLETE_INCOMPLETE" /\ overall' = DeriveOverall(FALSE)
              \/ pc = "end" /\ pc' = "end_save"
                 /\ overall' = DeriveOverall(mode = "full" /\ helper.kind = "report")
                 /\ stage' = CompleteStage[overall']
           /\ pc # "gates" => state' = state
           /\ pc = "gates" => state' = DriverIntent /\ ~GateRefuses
           /\ pc # "s3_begin" => matrix' = matrix
           /\ pc = "s3_begin" => matrix' = [matrix EXCEPT !["vulkan"] = "NOT_RUN"]
           /\ pc # "abort" => since' = since
           /\ pc = "abort" => since' = NoHistory
<1> DEFINE Effect(s, o) ==
        /\ stage' = s /\ overall' = o
        /\ want' = Now' /\ status \in {"idle", "raised"} /\ status' = "saving"
        /\ UNCHANGED <<avail, disk, survive>>
        /\ Store!StoreTypeOK' /\ Stored' \subseteq Stored \union {Now'}
<1>1. ASSUME NEW s \in Stage, NEW o \in Overall, NEW next, Checkpoint(s, o, next)
      PROVE  Effect(s, o) /\ pc' = next
    BY <1>1, CheckpointStore
<1> HIDE DEF Effect
<1>2. CASE Start
    <2>1. Effect("S0_ENVIRONMENT", "INCOMPLETE") /\ pc' = "s0_save"
        BY <1>1, <1>2 DEF Start, Stage, Overall
    <2> QED BY <1>2, <2>1 DEF Effect, Start, Moves, Quiet, machineVars, evidenceVars, Stage, Overall
<1>3. CASE Gates /\ ~GateRefuses
    <2>1. Effect("S1_PRE_DRIVER", "INCOMPLETE") /\ pc' = "s1_save"
        BY <1>1, <1>3 DEF Gates, Stage, Overall
    <2> QED BY <1>3, <2>1 DEF Effect, Gates, Moves, Quiet, machineVars, Stage, Overall
<1>4. CASE FinishPreflight
    <2>1. PICK o \in Overall : o = DeriveOverall(FALSE)
        BY VerdictType
    <2>2. Effect("COMPLETE_INCOMPLETE", o) /\ pc' = "end_save"
        BY <1>1, <1>4, <2>1 DEF FinishPreflight, Stage
    <2> QED BY <1>4, <2>1, <2>2 DEF Effect, FinishPreflight, Quiet, machineVars, evidenceVars, Stage
<1>5. CASE BeginStage3
    <2>1. Effect("S3_DRIVER_BOUND", "INCOMPLETE") /\ pc' = "s3_save"
        BY <1>1, <1>5 DEF BeginStage3, Stage, Overall
    <2> QED BY <1>5, <2>1 DEF Effect, BeginStage3, Moves, Quiet, machineVars, evidenceVars, Stage,
        Overall
<1>6. CASE BeginStage4
    <2>1. Effect("S4_VRAM_COMPUTE", "INCOMPLETE") /\ pc' = "s4_save"
        BY <1>1, <1>6 DEF BeginStage4, Stage, Overall
    <2> QED BY <1>6, <2>1 DEF Effect, BeginStage4, Moves, Quiet, machineVars, evidenceVars, Stage,
        Overall
<1>7. CASE Finish
    <2>1. PICK full_mode \in BOOLEAN : full_mode = (mode = "full" /\ helper.kind = "report")
        OBVIOUS
    <2>2. PICK o \in Overall : o = DeriveOverall(full_mode) /\ CompleteStage[o] \in Stage
        BY VerdictType
    <2>3. PICK s \in Stage : s = CompleteStage[o]
        BY <2>2
    <2>4. Effect(s, o) /\ pc' = "end_save"
        BY <1>1, <1>7, <2>1, <2>2, <2>3 DEF Finish
    <2>5. o = DeriveOverall(mode = "full" /\ helper.kind = "report")
        BY <2>1, <2>2
    <2> QED BY <1>7, <2>2, <2>3, <2>4, <2>5 DEF Effect, Finish, Quiet, machineVars, evidenceVars
<1>8. CASE Abort
    <2>1. Effect("ABORTED", "INCOMPLETE") /\ pc' = "abort_save"
        BY <1>1, <1>8 DEF Abort, Stage, Overall
    <2> QED BY <1>8, <2>1 DEF Effect, Abort, Moves, evidenceVars, Stage, Overall
<1> QED BY <1>2, <1>3, <1>4, <1>5, <1>6, <1>7, <1>8 DEF CheckpointStep

\* A gate that refuses the card, and the two steps that write sidecars.
LEMMA GateRefused ==
    ASSUME TypeOK, Gates, GateRefuses
    PROVE  /\ pc = "gates" /\ pc' = "abort" /\ state' = DriverIntent
           /\ UNCHANGED <<status, want, avail, disk, survive, mode, boot, env, changes, since,
                          stage, overall, matrix, seen, helper, after, exit>>
           /\ Store!StoreTypeOK' /\ Stored' = Stored
<1>1. /\ pc = "gates" /\ pc' = "abort" /\ state' = DriverIntent
      /\ UNCHANGED <<status, want, avail, disk, survive, mode, boot, env, changes, since,
                     stage, overall, matrix, seen, helper, after, exit>>
    BY DEF Gates, Goto, Quiet, storeVars, machineVars
<1> QED BY <1>1 DEF TypeOK, Store!StoreTypeOK, Stored

\* The measurements before the workload (safe_triage.py:397-430).
LEMMA MeasureMoves ==
    ASSUME TypeOK, StoreInv, Measure
    PROVE  /\ pc = "measure"
           /\ \/ pc' = "preflight_end" /\ (state # "BOUND_EXPECTED" \/ mode = "preflight")
                 /\ status' = "idle"
              \/ pc' = "s3_begin" /\ state = "BOUND_EXPECTED" /\ mode # "preflight"
                 /\ status' = "idle"
              \/ pc' = "abort" /\ status' = "raised"
           /\ \E link, aer \in {"PASS", "WARN"} : matrix' = StageOneMatrix(link, aer)
           /\ matrix' \in [Rows -> Status]
           /\ UNCHANGED <<want, disk, survive, mode, boot, env, changes, since, stage, overall,
                          seen, state, helper, after, exit>>
           /\ avail' \subseteq avail /\ Store!StoreTypeOK' /\ Stored' = Stored
<1>1. /\ pc = "measure"
      /\ \E link, aer \in {"PASS", "WARN"} : matrix' = StageOneMatrix(link, aer)
      /\ UNCHANGED <<mode, boot, env, changes, since, stage, overall, seen, state, helper, after, exit>>
    BY DEF Measure, Quiet, machineVars, evidenceVars
<1>2. status = "idle"
    BY <1>1 DEF StoreInv, Collecting
<1>3. PICK next : /\ next = (IF state # "BOUND_EXPECTED" \/ mode = "preflight"
                             THEN "preflight_end" ELSE "s3_begin")
                  /\ WriteSidecars(next)
    BY DEF Measure
<1>4. /\ (pc' = next /\ status' = "idle") \/ (pc' = "abort" /\ status' = "raised")
      /\ UNCHANGED <<want, disk, survive>> /\ avail' \subseteq avail
      /\ Store!StoreTypeOK' /\ Stored' = Stored
    BY <1>2, <1>3, SidecarStore
<1>5. matrix' \in [Rows -> Status]
    BY <1>1, StageOneType
<1> QED BY <1>1, <1>3, <1>4, <1>5

\* The evidence after it (safe_triage.py:475-565).
LEMMA EvidenceMoves ==
    ASSUME TypeOK, StoreInv, GatherEvidence
    PROVE  /\ pc = "evidence"
           /\ (pc' = "end" /\ status' = "idle") \/ (pc' = "abort" /\ status' = "raised")
           /\ after' \in AfterResult
           /\ matrix' = [r \in Rows |->
                    IF r = "aer" THEN after'.aer
                    ELSE IF r = "driver_init" /\ after'.signal # "none" THEN "FAIL"
                    ELSE IF r \in Experiments /\ after'.signal = "device_lost"
                            /\ matrix[r] = "PASS" THEN "INCONCLUSIVE"
                    ELSE matrix[r]]
           /\ matrix' \in [Rows -> Status]
           /\ UNCHANGED <<want, disk, survive, mode, boot, env, changes, since, stage, overall,
                          seen, state, helper, exit>>
           /\ avail' \subseteq avail /\ Store!StoreTypeOK' /\ Stored' = Stored
<1>1. /\ pc = "evidence" /\ after' \in AfterResult
      /\ UNCHANGED <<mode, boot, env, changes, since, stage, overall, seen, state, helper, exit>>
    BY DEF GatherEvidence, AfterOutcome, AfterResult, Quiet, machineVars
<1>2. status = "idle"
    BY <1>1 DEF StoreInv, Collecting
<1>3. WriteSidecars("end")
    BY DEF GatherEvidence
<1>4. /\ (pc' = "end" /\ status' = "idle") \/ (pc' = "abort" /\ status' = "raised")
      /\ UNCHANGED <<want, disk, survive>> /\ avail' \subseteq avail
      /\ Store!StoreTypeOK' /\ Stored' = Stored
    BY <1>2, <1>3, SidecarStore
<1>5. matrix' = [r \in Rows |->
                    IF r = "aer" THEN after'.aer
                    ELSE IF r = "driver_init" /\ after'.signal # "none" THEN "FAIL"
                    ELSE IF r \in Experiments /\ after'.signal = "device_lost"
                            /\ matrix[r] = "PASS" THEN "INCONCLUSIVE"
                    ELSE matrix[r]]
    BY DEF GatherEvidence
<1>6. after'.aer \in Status
    BY <1>1 DEF AfterResult, Status
<1>7. matrix' \in [Rows -> Status]
    BY <1>5, <1>6 DEF TypeOK, Status
<1> QED BY <1>1, <1>4, <1>5, <1>7

\* Every step is of one of these kinds.
LEMMA StepKinds ==
    ASSUME [Next]_vars
    PROVE  \/ SaveStep \/ PlainStep \/ CheckpointStep \/ (Gates /\ GateRefuses) \/ Measure
           \/ GatherEvidence \/ SaveReturns \/ SaveRaises \/ PowerLoss \/ UNCHANGED vars
BY DEF Next, ProgramStep, PlainStep, CheckpointStep

\* The variables one by one.
LEMMA StutterVars ==
    ASSUME UNCHANGED vars
    PROVE  UNCHANGED <<status, want, avail, disk, survive, pc, mode, boot, env, changes, since,
                       stage, overall, matrix, seen, state, helper, after, exit>>
BY DEF vars, storeVars, machineVars, reportVars, evidenceVars

\* Every step keeps the types.
LEMMA TypeStep == TypeOK /\ StoreInv /\ [Next]_vars => TypeOK'
<1> SUFFICES ASSUME TypeOK, StoreInv, [Next]_vars PROVE TypeOK'
    OBVIOUS
<1>1. RestTypeOK
    BY TypeSplit
<1>2. CASE SaveStep
    BY <1>1, <1>2, SaveStepStore DEF TypeOK, RestTypeOK
<1>3. CASE PlainStep
    BY <1>3, PlainType
<1>4. CASE CheckpointStep
    <2>1. pc' \in Running
        BY <1>4, CheckpointMoves DEF Moves, Running, Saves
    <2>2. state' \in DriverState
        BY <1>1, <1>4, CheckpointMoves, DriverIntentType DEF RestTypeOK
    <2>3. matrix' \in [Rows -> Status]
        BY <1>1, <1>4, CheckpointMoves DEF RestTypeOK, Status
    <2>4. since' \in [binding : Running, display : Running]
        BY <1>1, <1>4, CheckpointMoves DEF RestTypeOK, NoHistory, Running
    <2>5. /\ Store!StoreTypeOK' /\ stage' \in Stage /\ overall' \in Overall
          /\ UNCHANGED <<mode, boot, env, changes, seen, helper, after, exit>>
        BY <1>4, CheckpointMoves
    <2>6. RestTypeOK'
        BY <1>1, <2>1, <2>2, <2>3, <2>4, <2>5 DEF RestTypeOK
    <2> QED BY <2>5, <2>6 DEF TypeOK, RestTypeOK
<1>5. CASE Gates /\ GateRefuses
    BY <1>1, <1>5, GateRefused, DriverIntentType DEF TypeOK, RestTypeOK, Running
<1>6. CASE Measure
    BY <1>1, <1>6, MeasureMoves DEF TypeOK, RestTypeOK, Running, Deciding
<1>7. CASE GatherEvidence
    BY <1>1, <1>7, EvidenceMoves DEF TypeOK, RestTypeOK, Running, Deciding
<1>8. CASE SaveReturns
    <2>1. pc' \in Running \union {"exit"}
        BY <1>8, ReturnStore DEF Saves, AfterSave, Running, Collecting
    <2>2. exit' \in {-1, 0, 1, 2, 130}
        BY <1>1, <1>8 DEF SaveReturns, ExitCode, RestTypeOK
    <2>3. /\ Store!StoreTypeOK'
          /\ UNCHANGED <<mode, boot, env, changes, since, stage, overall, matrix, seen, state,
                         helper, after>>
        BY <1>8, ReturnStore
    <2>4. RestTypeOK'
        BY <1>1, <2>1, <2>2, <2>3 DEF RestTypeOK
    <2> QED BY <2>3, <2>4 DEF TypeOK, RestTypeOK
<1>9. CASE SaveRaises
    BY <1>1, <1>9, RaiseStore DEF TypeOK, RestTypeOK, Running
<1>10. CASE PowerLoss
    BY <1>1, <1>10, PowerLossStore DEF TypeOK, RestTypeOK
<1>11. CASE UNCHANGED vars
    BY <1>1, <1>11, StutterVars DEF TypeOK, RestTypeOK, Store!StoreTypeOK
<1> QED BY <1>2, <1>3, <1>4, <1>5, <1>6, <1>7, <1>8, <1>9, <1>10, <1>11, StepKinds

-----------------------------------------------------------------------------
(* The invariant, part by part.                                            *)

\* Where the plain steps go; none of them ends a save or begins one.
LEMMA PlainMoves ==
    ASSUME TypeOK, StoreInv, PlainStep
    PROVE  \/ pc = "start" /\ pc' = "exit" /\ exit' = 2
           \/ pc = "lookup" /\ pc' = "gates" /\ exit' = exit
           \/ pc = "s3_confirm" /\ pc' = "s3_display" /\ exit' = exit
           \/ pc = "s3_display" /\ pc' = "s3_probe" /\ exit' = exit
           \/ pc = "s4_confirm" /\ pc' = "s4_display" /\ exit' = exit
           \/ pc = "s4_display" /\ pc' = "s4_begin" /\ exit' = exit
           \/ pc = "s3_probe" /\ pc' = "evidence" /\ mode = "no_vram" /\ exit' = exit
           \/ pc = "s3_probe" /\ pc' = "s4_confirm" /\ exit' = exit
           \/ pc = "helper" /\ pc' = "evidence" /\ exit' = exit
           \/ pc \in Collecting /\ pc' = "abort" /\ exit' = exit
           \/ pc \in Waiting /\ pc' = "exit" /\ exit' = 130
           \/ pc \in Waiting \ {"evidence", "end_save", "abort_save"} /\ pc' = pc /\ exit' = exit
BY DEF PlainStep, RefuseToStart, LookupTarget, TargetNotFound, ConfirmTarget, Confirm,
       ConfirmDisplay, ProbeDriver, RunHelper, Fault, Interrupt, ChangeEnvironment, Goto, Quiet,
       Collecting

USE DEF Saves, Collecting, Deciding, Waiting

\* Every step keeps StoreInv: outside a save the media hold the report.
LEMMA StoreStep == TypeOK /\ StoreInv /\ [Next]_vars => StoreInv'
<1> SUFFICES ASSUME TypeOK, StoreInv, [Next]_vars PROVE StoreInv'
    OBVIOUS
<1>1. CASE SaveStep
    <2>1. Now' = Now
        BY <1>1, SaveStepStore DEF Now
    <2> QED BY <1>1, <2>1, SaveStepStore DEF StoreInv
<1>2. CASE PlainStep
    <2>1. Now' = Now /\ AllSaved' = AllSaved
        BY <1>2, PlainStore DEF Now, AllSaved
    <2>2. UNCHANGED <<status, want>>
        BY <1>2, PlainStore
    <2> QED BY <1>2, <2>1, <2>2, PlainMoves DEF StoreInv
<1>3. CASE CheckpointStep
    <2>1. /\ want' = Now' /\ status' = "saving"
          /\ \/ <<pc, pc', stage'>> \in Moves /\ overall' = "INCOMPLETE"
             \/ pc' = "end_save"
        BY <1>3, CheckpointMoves
    <2> QED BY <2>1 DEF StoreInv, Now, Moves
<1>4. CASE Gates /\ GateRefuses
    BY <1>4, GateRefused DEF StoreInv
<1>5. CASE Measure
    BY <1>5, MeasureMoves DEF StoreInv
<1>6. CASE GatherEvidence
    BY <1>6, EvidenceMoves DEF StoreInv
<1>7. CASE SaveReturns
    <2>1. /\ pc \in Saves /\ pc' = AfterSave[pc] /\ status' = "idle"
          /\ Now' = Now /\ want = Now
        BY <1>7, ReturnStore DEF StoreInv, Now
    <2>2. AllSaved'
        BY <1>7, <2>1, ReturnStore DEF AllSaved
    <2> QED BY <2>1, <2>2 DEF StoreInv, AfterSave
<1>8. CASE SaveRaises
    BY <1>8, RaiseStore DEF StoreInv
<1>9. CASE PowerLoss
    BY <1>9, PowerLossStore DEF StoreInv
<1>10. CASE UNCHANGED vars
    BY <1>10, StutterVars DEF StoreInv, AllSaved, Now
<1> QED BY <1>1, <1>2, <1>3, <1>4, <1>5, <1>6, <1>7, <1>8, <1>9, <1>10, StepKinds

\* Every step keeps GateInv: what the gates let through stays let through.
LEMMA GateStep == TypeOK /\ StoreInv /\ GateInv /\ [Next]_vars => GateInv'
<1> SUFFICES ASSUME TypeOK, StoreInv, GateInv, [Next]_vars, Guarded' PROVE GateInv'
    BY DEF GateInv
<1>0. Guarded /\ boot' = boot /\ mode' = mode
    <2>1. UNCHANGED <<mode, boot>>
        BY StepKinds, SaveStepStore, PlainStore, CheckpointMoves, GateRefused, MeasureMoves,
           EvidenceMoves, ReturnStore, RaiseStore, PowerLossStore, StutterVars
    <2> QED BY <2>1 DEF Guarded, SafeBootClaimed
<1>1. /\ pc \notin DriverBound /\ stage \notin DriverStages
      /\ \A r \in Stored : r.stage \notin DriverStages
      /\ boot # "open" /\ pc \in {"s1_save", "measure"} => state # "BOUND_EXPECTED"
      /\ mode = "preflight" \/ boot # "open"
    BY <1>0 DEF GateInv, Guarded, SafeBootClaimed
<1> SUFFICES /\ pc' \notin DriverBound /\ stage' \notin DriverStages
             /\ \A r \in Stored' : r.stage \notin DriverStages
             /\ boot # "open" /\ pc' \in {"s1_save", "measure"} => state' # "BOUND_EXPECTED"
    BY <1>0 DEF GateInv, SafeBootClaimed
<1>2. CASE SaveStep
    BY <1>1, <1>2, SaveStepStore
<1>3. CASE PlainStep
    <2>1. pc' \notin DriverBound \union {"s1_save", "measure"} \/ pc' = pc
        BY <1>1, <1>3, PlainMoves DEF DriverBound
    <2>2. pc \in {"s1_save", "measure"} /\ pc' = pc => state' = state
        BY <1>3 DEF PlainStep, RefuseToStart, LookupTarget, TargetNotFound, ConfirmTarget, Confirm,
           ConfirmDisplay, ProbeDriver, RunHelper, Fault, Interrupt, ChangeEnvironment, evidenceVars
    <2> QED BY <1>1, <1>3, <2>1, <2>2, PlainStore
<1>4. CASE CheckpointStep
    <2>1. /\ <<pc, pc', stage'>> \in Moves \/ (pc = "preflight_end" /\ pc' = "end_save"
                 /\ stage' = "COMPLETE_INCOMPLETE")
          /\ Stored' \subseteq Stored \union {Now'} /\ Now'.stage = stage'
        BY <1>1, <1>4, CheckpointMoves DEF DriverBound, Now
    <2>2. pc' \notin DriverBound /\ stage' \notin DriverStages /\ pc' # "measure"
        BY <1>1, <2>1 DEF Moves, DriverBound, DriverStages
    <2>3. pc' = "s1_save" /\ boot # "open" => state' # "BOUND_EXPECTED"
        <3>1. pc' = "s1_save" => pc = "gates"
            BY <2>1 DEF Moves
        <3>2. pc = "gates" => state' = DriverIntent /\ ~GateRefuses
            BY <1>4, CheckpointMoves
        <3> QED BY <3>1, <3>2, DriverIntentType DEF GateRefuses, SafeBootClaimed
    <2> QED BY <1>1, <2>1, <2>2, <2>3
<1>5. CASE Gates /\ GateRefuses
    BY <1>1, <1>5, GateRefused DEF DriverBound
<1>6. CASE Measure
    BY <1>1, <1>6, MeasureMoves DEF DriverBound
<1>7. CASE GatherEvidence
    BY <1>1, <1>7, EvidenceMoves DEF DriverBound
<1>8. CASE SaveReturns
    <2>1. pc' \notin DriverBound /\ (pc' \in {"s1_save", "measure"} => pc = "s1_save")
        BY <1>1, <1>8, ReturnStore DEF DriverBound, AfterSave
    <2> QED BY <1>1, <1>8, <2>1, ReturnStore
<1>9. CASE SaveRaises
    BY <1>1, <1>9, RaiseStore DEF DriverBound
<1>10. CASE PowerLoss
    BY <1>1, <1>10, PowerLossStore, ReportTypes DEF DriverBound, DriverStages
<1>11. CASE UNCHANGED vars
    BY <1>1, <1>11, StutterVars DEF Stored
<1> QED BY <1>2, <1>3, <1>4, <1>5, <1>6, <1>7, <1>8, <1>9, <1>10, <1>11, StepKinds

\* A change of the machine is remembered by where the program was.
LEMMA ChangeMoves ==
    ASSUME ChangeEnvironment
    PROVE  /\ pc' = pc /\ pc \in Waiting
           /\ Confirmable => since'.binding = pc
           /\ ~Confirmable => since'.binding = since.binding
           /\ env.display => since'.display = since.display
           /\ ~env.display => since'.display = pc
BY DEF ChangeEnvironment

\* Every step keeps ConfirmInv: the target was confirmed before the work.
LEMMA ConfirmStep == TypeOK /\ StoreInv /\ ConfirmInv /\ [Next]_vars => ConfirmInv'
<1> SUFFICES ASSUME TypeOK, StoreInv, ConfirmInv, [Next]_vars PROVE ConfirmInv'
    OBVIOUS
<1>1. ASSUME UNCHANGED <<env, seen, since>>,
             pc' \notin {"s3_display", "s3_probe", "s4_display", "s4_begin", "s4_save", "helper"}
                \/ pc' = pc \/ (pc = "s4_begin" /\ pc' = "s4_save") \/ (pc = "s4_save" /\ pc' = "helper")
      PROVE  ConfirmInv'
    BY <1>1 DEF ConfirmInv, Confirmable, Binding
<1>2. ASSUME pc' \notin {"s3_display", "s3_probe", "s4_display", "s4_begin", "s4_save", "helper"}
      PROVE  ConfirmInv'
    BY <1>2 DEF ConfirmInv
<1>3. CASE SaveStep
    BY <1>1, <1>3, SaveStepStore
<1>4. CASE PlainStep
    <2>1. CASE ConfirmTarget
        BY <2>1 DEF ConfirmTarget, Confirm, ConfirmDisplay, Goto, Quiet, machineVars, evidenceVars,
           ConfirmInv, Confirmable, Binding
    <2>2. CASE ChangeEnvironment
        <3>1. seen' = seen
            BY <2>2 DEF ChangeEnvironment, evidenceVars
        <3>2. pc' # "s4_begin"
            BY <2>2 DEF ChangeEnvironment
        <3> QED BY <2>2, <3>1, <3>2, ChangeMoves DEF ConfirmInv
    <2>3. CASE PlainStep /\ ~ConfirmTarget /\ ~ChangeEnvironment
        <3>1. pc' \notin {"s3_display", "s3_probe", "s4_display", "s4_begin", "s4_save", "helper"}
            BY <2>3 DEF PlainStep, RefuseToStart, LookupTarget, TargetNotFound, ProbeDriver,
               RunHelper, Fault, Interrupt, Goto
        <3> QED BY <1>2, <3>1
    <2> QED BY <1>4, <2>1, <2>2, <2>3
<1>5. CASE CheckpointStep
    <2>1. pc' \in Saves /\ (pc' = "s4_save" => pc = "s4_begin") /\ UNCHANGED <<env, seen>>
          /\ (pc # "abort" => since' = since) /\ (pc = "abort" => pc' = "abort_save")
        BY <1>5, CheckpointMoves DEF Moves
    <2> QED BY <1>1, <1>2, <2>1
<1>6. CASE Gates /\ GateRefuses
    BY <1>2, <1>6, GateRefused
<1>7. CASE Measure
    BY <1>2, <1>7, MeasureMoves
<1>8. CASE GatherEvidence
    BY <1>2, <1>8, EvidenceMoves
<1>9. CASE SaveReturns
    <2>1. /\ UNCHANGED <<env, seen, since>> /\ pc \in Saves
          /\ pc' \in {"lookup", "measure", "s3_confirm", "exit"} \/ (pc = "s4_save" /\ pc' = "helper")
        BY <1>9, ReturnStore DEF AfterSave
    <2> QED BY <1>1, <1>2, <2>1
<1>10. CASE SaveRaises
    BY <1>2, <1>10, RaiseStore
<1>11. CASE PowerLoss
    BY <1>2, <1>11, PowerLossStore
<1>12. CASE UNCHANGED vars
    BY <1>1, <1>12, StutterVars
<1> QED BY <1>3, <1>4, <1>5, <1>6, <1>7, <1>8, <1>9, <1>10, <1>11, <1>12, StepKinds

\* Every step keeps CrashInv: the stage that comes next is on the media.
LEMMA CrashStep ==
    TypeOK /\ StoreInv /\ EvidenceInv /\ CrashInv /\ [Next]_vars => CrashInv'
<1> SUFFICES ASSUME TypeOK, StoreInv, EvidenceInv, CrashInv, [Next]_vars, helper'.kind # "none"
             PROVE  /\ pc' \in AfterHelper /\ stage' \in Late /\ want'.stage \in Late
                    /\ "primary" \in avail' =>
                          \A r \in survive' \union {disk'["primary"]} : r.stage \in Late
    BY DEF CrashInv
<1>1. CASE RunHelper
    <2>1. pc = "helper" /\ pc' = "evidence" /\ AllSaved
          /\ Now = [stage |-> "S4_VRAM_COMPUTE", overall |-> "INCOMPLETE"]
        BY <1>1 DEF RunHelper, Goto, StoreInv
    <2>2. UNCHANGED <<want, avail, disk, survive, stage>>
        BY <1>1, PlainStore DEF PlainStep
    <2>3. Now.stage = "S4_VRAM_COMPUTE" /\ Now.stage = stage
        BY <2>1 DEF Now
    <2>4. want.stage = "S4_VRAM_COMPUTE" /\ stage = "S4_VRAM_COMPUTE"
        BY <2>1, <2>3 DEF AllSaved
    <2>5. "primary" \in avail => \A r \in survive \union {disk["primary"]} : r.stage = "S4_VRAM_COMPUTE"
        BY <2>1, <2>3 DEF AllSaved
    <2> QED BY <2>1, <2>2, <2>4, <2>5 DEF AfterHelper, Late
<1>2. CASE ~RunHelper
    <2>1. helper' = helper
        <3>1. CASE PlainStep
            BY <1>2, <3>1 DEF PlainStep, RefuseToStart, LookupTarget, TargetNotFound, ConfirmTarget,
               Confirm, ConfirmDisplay, ProbeDriver, Fault, Interrupt, ChangeEnvironment, evidenceVars
        <3> QED BY <3>1, StepKinds, SaveStepStore, CheckpointMoves, GateRefused, MeasureMoves,
               EvidenceMoves, ReturnStore, RaiseStore, PowerLossStore, StutterVars
    <2>2. /\ pc \in AfterHelper /\ stage \in Late /\ want.stage \in Late
          /\ "primary" \in avail => \A r \in survive \union {disk["primary"]} : r.stage \in Late
        BY <2>1 DEF CrashInv
    <2>3. CASE SaveStep
        BY <2>2, <2>3, SaveStepStore
    <2>4. CASE PlainStep
        <3>1. pc' \in AfterHelper
            BY <2>2, <2>4, PlainMoves DEF AfterHelper
        <3> QED BY <2>2, <2>4, <3>1, PlainStore
    <2>5. CASE CheckpointStep
        <3>1. pc' \in AfterHelper /\ stage' \in Late
            BY <2>2, <2>5, CheckpointMoves, VerdictType DEF AfterHelper, Moves, Late
        <3>2. want' = Now' /\ Now'.stage = stage' /\ UNCHANGED <<avail, disk, survive>>
            BY <2>5, CheckpointMoves DEF Now
        <3> QED BY <2>2, <3>1, <3>2
    <2>6. CASE Gates /\ GateRefuses
        BY <2>2, <2>6, GateRefused DEF AfterHelper
    <2>7. CASE Measure
        BY <2>2, <2>7, MeasureMoves DEF AfterHelper
    <2>8. CASE GatherEvidence
        BY <2>2, <2>8, EvidenceMoves DEF AfterHelper
    <2>9. CASE SaveReturns
        <3>1. pc' \in AfterHelper
            BY <2>2, <2>9, ReturnStore DEF AfterHelper, AfterSave
        <3> QED BY <2>2, <2>9, <3>1, ReturnStore
    <2>10. CASE SaveRaises
        BY <2>2, <2>10, RaiseStore DEF AfterHelper
    <2>11. CASE PowerLoss
        BY <2>2, <2>11, PowerLossStore DEF AfterHelper
    <2>12. CASE UNCHANGED vars
        BY <2>2, <2>12, StutterVars
    <2> QED BY <2>3, <2>4, <2>5, <2>6, <2>7, <2>8, <2>9, <2>10, <2>11, <2>12, StepKinds
<1> QED BY <1>1, <1>2

\* Rows of experiments are apart from the four others.
LEMMA RowNames ==
    /\ \A e \in Experiments : e \in Rows /\ e \notin {"pcie_link", "aer", "driver_init", "vulkan"}
    /\ {"pcie_link", "aer", "driver_init", "vulkan"} \subseteq Rows
BY ExperimentsAssumption DEF Rows

\* Every step keeps EvidenceInv: the matrix says what was observed.
LEMMA EvidenceStep == TypeOK /\ StoreInv /\ EvidenceInv /\ [Next]_vars => EvidenceInv'
<1> SUFFICES ASSUME TypeOK, StoreInv, EvidenceInv, [Next]_vars PROVE EvidenceInv'
    OBVIOUS
<1>1. ASSUME UNCHANGED <<seen, state, matrix, helper, after>>,
             pc' = pc \/ pc' \in AfterHelper \ {"evidence", "end"}
      PROVE  EvidenceInv'
    BY <1>1 DEF EvidenceInv, AfterHelper, DriverBound
<1>2. CASE SaveStep
    BY <1>1, <1>2, SaveStepStore
<1>3. CASE PlainStep
    <2>1. CASE RefuseToStart \/ TargetNotFound \/ Fault \/ Interrupt \/ ChangeEnvironment
        BY <1>1, <2>1 DEF RefuseToStart, TargetNotFound, Fault, Interrupt, ChangeEnvironment,
            reportVars, evidenceVars, Goto, AfterHelper
    <2>2. CASE LookupTarget
        BY <2>2 DEF LookupTarget, Goto, EvidenceInv, AfterHelper, DriverBound
    <2>3. CASE ConfirmTarget
        <3>1. UNCHANGED <<seen, state, matrix, helper, after>>
            BY <2>3 DEF ConfirmTarget, Confirm, ConfirmDisplay, reportVars, evidenceVars
        <3>2. pc \in DriverBound \ AfterHelper
              /\ pc' \in {"s3_display", "s3_probe", "s4_display", "s4_begin", "abort"}
            BY <2>3 DEF ConfirmTarget, Confirm, ConfirmDisplay, Goto, DriverBound, AfterHelper
        <3> QED BY <3>1, <3>2 DEF EvidenceInv, AfterHelper, DriverBound
    <2>4. CASE ProbeDriver
        <3>1. /\ pc = "s3_probe" /\ pc' \in {"evidence", "s4_confirm"}
              /\ UNCHANGED <<seen, state, helper, after>>
            BY <2>4 DEF ProbeDriver, Goto, evidenceVars
        <3>2. \A e \in Experiments : matrix'[e] = "NOT_RUN"
            BY <2>4, RowNames DEF ProbeDriver
        <3>3. helper = Helper!NoHelper /\ \A e \in Experiments : helper.results[e] = "NOT_RUN"
            BY <3>1, HelperTypes DEF EvidenceInv, AfterHelper
        <3> QED BY <3>1, <3>2, <3>3 DEF EvidenceInv, AfterHelper, DriverBound
    <2>5. CASE RunHelper
        <3>1. pc = "helper" /\ pc' = "evidence" /\ UNCHANGED <<seen, state, after>>
            BY <2>5 DEF RunHelper, Goto
        <3>2. \A e \in Experiments : matrix'[e] = helper'.results[e]
            BY <2>5, RowNames DEF RunHelper
        <3> QED BY <3>1, <3>2 DEF EvidenceInv, AfterHelper, DriverBound
    <2> QED BY <1>3, <2>1, <2>2, <2>3, <2>4, <2>5 DEF PlainStep
<1>4. CASE CheckpointStep
    <2>1. UNCHANGED <<seen, helper, after>>
        BY <1>4, CheckpointMoves
    <2>2. CASE pc \in {"preflight_end", "end", "abort"}
        BY <1>1, <1>4, <2>2, CheckpointMoves DEF Moves, AfterHelper
    <2>3. CASE pc = "gates"
        <3>1. pc' = "s1_save" /\ state' = DriverIntent
            BY <1>4, <2>3, CheckpointMoves DEF Moves
        <3> QED BY <2>1, <2>3, <3>1, DriverIntentType DEF EvidenceInv, AfterHelper, DriverBound
    <2>4. CASE pc \in {"start", "s3_begin", "s4_begin"}
        <3>1. /\ pc' \in {"s0_save", "s3_save", "s4_save"} /\ state' = state
              /\ pc' # "s0_save" => pc \in DriverBound
            BY <1>4, <2>4, CheckpointMoves DEF Moves, DriverBound
        <3> QED BY <2>1, <2>4, <3>1 DEF EvidenceInv, AfterHelper, DriverBound
    <2> QED BY <1>4, <2>2, <2>3, <2>4, CheckpointMoves DEF Moves
<1>5. CASE Gates /\ GateRefuses
    BY <1>5, GateRefused DEF EvidenceInv, AfterHelper, DriverBound
<1>6. CASE Measure
    <2>1. state = "UNBOUND_UNEXPLAINED" => matrix'["driver_init"] = "FAIL"
        BY <1>6, MeasureMoves, RowNames DEF StageOneMatrix, DriverRow
    <2>2. /\ UNCHANGED <<seen, state, helper, after>>
          /\ pc = "measure" /\ pc' \in {"preflight_end", "s3_begin", "abort"}
          /\ pc' = "s3_begin" => state = "BOUND_EXPECTED"
        BY <1>6, MeasureMoves
    <2> QED BY <2>1, <2>2 DEF EvidenceInv, AfterHelper, DriverBound
<1>7. CASE GatherEvidence
    <2>1. pc = "evidence" /\ pc' \in {"end", "abort"} /\ UNCHANGED <<seen, state, helper>>
        BY <1>7, EvidenceMoves
    <2>2. /\ matrix'["aer"] = after'.aer
          /\ after'.signal # "none" => matrix'["driver_init"] = "FAIL"
        BY <1>7, EvidenceMoves, RowNames
    <2>3. ASSUME NEW e \in Experiments
          PROVE  \/ matrix'[e] = helper'.results[e]
                 \/ helper'.results[e] = "PASS" /\ matrix'[e] = "INCONCLUSIVE"
        <3>1. \/ matrix'[e] = matrix[e]
              \/ matrix[e] = "PASS" /\ matrix'[e] = "INCONCLUSIVE"
            BY <1>7, EvidenceMoves, RowNames
        <3>2. matrix[e] = helper.results[e] /\ helper' = helper
            BY <2>1 DEF EvidenceInv
        <3> QED BY <3>1, <3>2
    <2> QED BY <2>1, <2>2, <2>3 DEF EvidenceInv, AfterHelper, DriverBound
<1>8. CASE SaveReturns
    <2>1. UNCHANGED <<seen, state, matrix, helper, after>>
        BY <1>8, ReturnStore
    <2>2. \/ pc' = "exit"
          \/ <<pc, pc'>> \in {<<"s0_save", "lookup">>, <<"s1_save", "measure">>,
                              <<"s3_save", "s3_confirm">>, <<"s4_save", "helper">>}
        BY <1>8, ReturnStore DEF AfterSave
    <2> QED BY <2>1, <2>2 DEF EvidenceInv, AfterHelper, DriverBound
<1>9. CASE SaveRaises
    BY <1>1, <1>9, RaiseStore DEF AfterHelper
<1>10. CASE PowerLoss
    BY <1>1, <1>10, PowerLossStore DEF AfterHelper
<1>11. CASE UNCHANGED vars
    BY <1>1, <1>11, StutterVars
<1> QED BY <1>2, <1>3, <1>4, <1>5, <1>6, <1>7, <1>8, <1>9, <1>10, <1>11, StepKinds

-----------------------------------------------------------------------------
(* The verdict.                                                            *)

\* derive_overall at the end of a run: PASS is earned and a failure wins.
LEMMA VerdictAtEnd ==
    ASSUME TypeOK, EvidenceInv, pc = "end",
           NEW full_mode \in BOOLEAN, full_mode = (mode = "full" /\ helper.kind = "report")
    PROVE  /\ DeriveOverall(full_mode) = "PASS" => Earned
           /\ FailureSeen => DeriveOverall(full_mode) = "FAIL"
<1>1. /\ state = "BOUND_EXPECTED" /\ seen.driver = "expected"
      /\ matrix["aer"] = after.aer
      /\ after.signal # "none" => matrix["driver_init"] = "FAIL"
      /\ \A e \in Experiments :
            matrix[e] = helper.results[e]
                \/ (helper.results[e] = "PASS" /\ matrix[e] = "INCONCLUSIVE")
    BY DEF EvidenceInv, DriverBound
<1>2. ASSUME DeriveOverall(full_mode) = "PASS" PROVE Earned
    <2>1. full_mode /\ (\A r \in Rows : matrix[r] = "PASS")
        BY <1>2 DEF DeriveOverall
    <2>2. \A e \in Experiments : helper.results[e] = "PASS"
        BY <1>1, <2>1, RowNames
    <2>3. matrix["pcie_link"] = "PASS" /\ after.aer = "PASS" /\ after.signal = "none"
        BY <1>1, <2>1, RowNames
    <2> QED BY <1>1, <2>1, <2>2, <2>3 DEF Earned
<1>3. ASSUME FailureSeen PROVE DeriveOverall(full_mode) = "FAIL"
    <2>1. \E r \in Rows : matrix[r] = "FAIL"
        <3>1. ASSUME NEW e \in Experiments, helper.results[e] = "FAIL" PROVE matrix[e] = "FAIL"
            BY <1>1, <3>1
        <3> QED BY <1>1, <1>3, <3>1, RowNames DEF FailureSeen
    <2> QED BY <2>1 DEF DeriveOverall
<1> QED BY <1>2, <1>3

\* derive_overall after Stage 1: no PASS, and an unexplained unbound card fails.
LEMMA VerdictOfPreflight ==
    ASSUME TypeOK, EvidenceInv, pc = "preflight_end"
    PROVE  /\ DeriveOverall(FALSE) # "PASS"
           /\ FailureSeen => DeriveOverall(FALSE) = "FAIL"
<1>1. helper = Helper!NoHelper /\ after = NothingAfter
    BY DEF EvidenceInv, AfterHelper
<1>2. ASSUME FailureSeen PROVE state = "UNBOUND_UNEXPLAINED"
    BY <1>1, <1>2, HelperTypes DEF FailureSeen, NothingAfter
<1>3. ASSUME FailureSeen PROVE DeriveOverall(FALSE) = "FAIL"
    BY <1>2, <1>3, RowNames DEF EvidenceInv, DeriveOverall
<1> QED BY <1>3 DEF DeriveOverall

\* After a verdict the evidence does not change any more.
Settled == {"end_save", "abort", "abort_save", "exit", "off"}

\* Every step keeps VerdictInv: PASS is earned and a failure wins.
LEMMA VerdictStep ==
    TypeOK /\ StoreInv /\ EvidenceInv /\ VerdictInv /\ [Next]_vars => VerdictInv'
<1> SUFFICES ASSUME TypeOK, StoreInv, EvidenceInv, VerdictInv, [Next]_vars PROVE VerdictInv'
    OBVIOUS
<1> DEFINE Praised == overall = "PASS" \/ \E r \in Stored : r.overall = "PASS"
<1> USE DEF Settled
<1>1. /\ pc # "exit" => exit = -1
      /\ Praised => Earned /\ pc \in Settled
      /\ pc = "end_save" \/ exit \in {0, 1} =>
            /\ FailureSeen => overall = "FAIL"
            /\ stage \in {"COMPLETE_PASS", "COMPLETE_FAIL", "COMPLETE_INCOMPLETE"}
      /\ exit \in {0, 1} => AllSaved /\ status = "idle" /\ (exit = 0 <=> overall = "PASS")
    BY DEF VerdictInv
\* A step that is not the end of a run, from a place where it goes on.
<1>2. ASSUME pc # "exit", exit' = -1, pc' # "end_save", Praised' => Earned' /\ pc' \in Settled
      PROVE  VerdictInv'
    BY <1>2 DEF VerdictInv
\* No step of the program leads away from its end.
<1>3. CASE pc = "exit" \/ UNCHANGED vars
    <2>1. UNCHANGED vars
        BY <1>3, StepKinds, SaveStepStore, PlainMoves, CheckpointMoves, GateRefused, MeasureMoves,
           EvidenceMoves, ReturnStore, RaiseStore, PowerLossStore DEF Moves
    <2> QED BY <1>1, <2>1, StutterVars DEF VerdictInv, AllSaved, Now, Stored, Earned, FailureSeen
<1>4. CASE SaveStep
    <2>1. UNCHANGED <<pc, mode, stage, overall, matrix, seen, state, helper, after, exit>>
          /\ Stored' \subseteq Stored /\ pc # "exit"
        BY <1>4, SaveStepStore
    <2> QED BY <1>1, <2>1 DEF VerdictInv, Earned, FailureSeen
<1>5. CASE PlainStep /\ pc # "exit"
    <2>1. exit' \notin {0, 1} /\ (pc' # "exit" => exit' = -1) /\ Stored' = Stored
          /\ UNCHANGED <<mode, overall, stage, after>>
        BY <1>1, <1>5, PlainMoves, PlainStore
    <2>2. CASE Praised
        <3>1. pc \in Settled /\ Earned
            BY <1>1, <2>2
        <3>2. UNCHANGED <<pc, matrix, seen, state, helper>> \/ (pc' = "exit" /\ UNCHANGED <<matrix, seen, state, helper>>)
            BY <1>5, <3>1 DEF PlainStep, RefuseToStart, LookupTarget, TargetNotFound, ConfirmTarget,
               Confirm, ConfirmDisplay, ProbeDriver, RunHelper, Fault, Interrupt, ChangeEnvironment,
               Goto, reportVars, evidenceVars
        <3>3. pc' # "end_save" \/ pc = "end_save"
            BY <1>5, PlainMoves
        <3> QED BY <1>1, <2>1, <3>1, <3>2, <3>3 DEF VerdictInv, Earned, FailureSeen
    <2>3. CASE ~Praised
        <3>1. pc' = "end_save" => UNCHANGED <<matrix, seen, state, helper>> /\ pc = "end_save"
            BY <1>5, PlainMoves DEF PlainStep, RefuseToStart, LookupTarget, TargetNotFound, ConfirmTarget,
               Confirm, ConfirmDisplay, ProbeDriver, RunHelper, Fault, Interrupt, ChangeEnvironment,
               Goto, reportVars, evidenceVars
        <3> QED BY <1>1, <2>1, <2>3, <3>1 DEF VerdictInv, FailureSeen
    <2> QED BY <2>2, <2>3
<1>6. CASE CheckpointStep
    <2>1. /\ UNCHANGED <<mode, seen, helper, after, exit>> /\ pc # "exit" /\ pc' # "exit"
          /\ Stored' \subseteq Stored \union {Now'} /\ Now'.overall = overall'
        BY <1>6, CheckpointMoves DEF Moves, Now
    <2>2. exit' = -1
        BY <1>1, <2>1
    <2>3. CASE pc = "end"
        <3>1. /\ pc' = "end_save" /\ UNCHANGED <<state, matrix>>
              /\ overall' = DeriveOverall(mode = "full" /\ helper.kind = "report")
              /\ stage' = CompleteStage[overall']
            BY <1>6, <2>3, CheckpointMoves DEF Moves
        <3>2. PICK full_mode \in BOOLEAN : full_mode = (mode = "full" /\ helper.kind = "report")
            OBVIOUS
        <3>3. overall' = DeriveOverall(full_mode)
            BY <3>1, <3>2
        <3>4. (overall' = "PASS" => Earned) /\ (FailureSeen => overall' = "FAIL")
            BY <2>3, <3>2, <3>3, VerdictAtEnd
        <3>5. stage' \in {"COMPLETE_PASS", "COMPLETE_FAIL", "COMPLETE_INCOMPLETE"}
            BY <3>1, <3>3, VerdictType
        <3>6. Earned' = Earned /\ FailureSeen' = FailureSeen
            BY <2>1, <3>1 DEF Earned, FailureSeen
        <3>7. ~Praised
            BY <1>1, <2>3
        <3> QED BY <2>1, <2>2, <3>1, <3>4, <3>5, <3>6, <3>7 DEF VerdictInv
    <2>4. CASE pc = "preflight_end"
        <3>1. /\ pc' = "end_save" /\ UNCHANGED <<state, matrix>>
              /\ overall' = DeriveOverall(FALSE) /\ stage' = "COMPLETE_INCOMPLETE"
            BY <1>6, <2>4, CheckpointMoves DEF Moves
        <3>2. FailureSeen' = FailureSeen
            BY <2>1, <3>1 DEF FailureSeen
        <3>3. ~Praised
            BY <1>1, <2>4
        <3>4. overall' # "PASS" /\ (FailureSeen => overall' = "FAIL")
            BY <2>4, <3>1, VerdictOfPreflight
        <3>5. ~Praised'
            BY <2>1, <3>3, <3>4
        <3>6. overall' # "PASS" /\ ~(\E r \in Stored' : r.overall = "PASS")
            BY <3>5
        <3>7. exit' \notin {0, 1}
            BY <2>2
        <3>8. FailureSeen' => overall' = "FAIL"
            BY <3>2, <3>4
        <3>9. stage' \in {"COMPLETE_PASS", "COMPLETE_FAIL", "COMPLETE_INCOMPLETE"}
            BY <3>1
        <3> HIDE DEF Praised
        <3> QED BY <2>2, <3>6, <3>7, <3>8, <3>9 DEF VerdictInv
    <2>5. CASE pc \notin {"end", "preflight_end"}
        <3>1. pc' # "end_save" /\ overall' = "INCOMPLETE" /\ (pc = "abort" => pc' = "abort_save")
            BY <1>6, <2>5, CheckpointMoves DEF Moves
        <3>2. Praised' => Praised
            BY <2>1, <3>1
        <3>3. pc \in Settled => pc = "abort"
            BY <1>6, <2>5, CheckpointMoves DEF Moves
        <3>4. pc = "abort" => UNCHANGED <<matrix, state>>
            BY <1>6, CheckpointMoves
        <3>5. Praised' => Earned' /\ pc' \in Settled
            BY <1>1, <2>1, <3>1, <3>2, <3>3, <3>4 DEF Earned
        <3> QED BY <1>2, <2>1, <2>2, <3>1, <3>5
    <2> QED BY <2>3, <2>4, <2>5
<1>7. CASE Gates /\ GateRefuses
    <2>1. pc = "gates" /\ pc' = "abort" /\ UNCHANGED <<exit, overall>> /\ Stored' = Stored
        BY <1>7, GateRefused
    <2> QED BY <1>1, <1>2, <2>1
<1>8. CASE Measure
    <2>1. pc = "measure" /\ pc' \notin {"exit", "end_save"} /\ UNCHANGED <<exit, overall>> /\ Stored' = Stored
        BY <1>8, MeasureMoves
    <2> QED BY <1>1, <1>2, <2>1
<1>9. CASE GatherEvidence
    <2>1. pc = "evidence" /\ pc' \notin {"exit", "end_save"} /\ UNCHANGED <<exit, overall>> /\ Stored' = Stored
        BY <1>9, EvidenceMoves
    <2> QED BY <1>1, <1>2, <2>1
<1>10. CASE SaveReturns
    <2>1. /\ UNCHANGED <<mode, stage, overall, matrix, seen, state, helper, after>>
          /\ Stored' = Stored /\ pc \in Saves /\ pc' = AfterSave[pc] /\ status' = "idle"
        BY <1>10, ReturnStore
    <2>2. exit' = IF pc' = "exit" THEN ExitCode ELSE exit
        BY <1>10 DEF SaveReturns
    <2>3. Earned' = Earned /\ FailureSeen' = FailureSeen /\ Now' = Now
        BY <2>1 DEF Earned, FailureSeen, Now
    <2>4. CASE pc = "end_save"
        <3>1. pc' = "exit" /\ exit' = IF overall = "PASS" THEN 0 ELSE 1
            BY <2>1, <2>2, <2>4 DEF AfterSave, ExitCode
        <3>2. AllSaved'
            BY <1>10, <2>1, <2>3, ReturnStore DEF StoreInv, AllSaved
        <3> QED BY <1>1, <2>1, <2>3, <2>4, <3>1, <3>2 DEF VerdictInv
    <2>5. CASE pc = "abort_save"
        <3>1. pc' = "exit" /\ exit' = 2
            BY <2>1, <2>2, <2>5 DEF AfterSave, ExitCode
        <3> QED BY <1>1, <2>1, <2>3, <2>5, <3>1 DEF VerdictInv
    <2>6. CASE pc \notin {"end_save", "abort_save"}
        <3>1. pc' \notin {"exit", "end_save"} /\ pc \notin Settled
            BY <2>1, <2>6 DEF AfterSave
        <3> QED BY <1>1, <1>2, <2>1, <2>2, <3>1
    <2> QED BY <2>4, <2>5, <2>6
<1>11. CASE SaveRaises
    <2>1. /\ UNCHANGED <<mode, stage, overall, matrix, seen, state, helper, after>>
          /\ Stored' = Stored /\ pc \in Saves
          /\ pc' = IF pc = "abort_save" THEN "exit" ELSE "abort"
          /\ exit' = IF pc = "abort_save" THEN 2 ELSE exit
        BY <1>11, RaiseStore
    <2>2. Earned' = Earned /\ FailureSeen' = FailureSeen
        BY <2>1 DEF Earned, FailureSeen
    <2> QED BY <1>1, <2>1, <2>2 DEF VerdictInv
<1>12. CASE PowerLoss
    <2>1. /\ UNCHANGED <<mode, stage, overall, matrix, seen, state, helper, after, exit>>
          /\ Stored' \subseteq Stored \union {NoReport} /\ pc \in Waiting /\ pc' = "off"
        BY <1>12, PowerLossStore
    <2>2. Earned' = Earned
        BY <2>1 DEF Earned
    <2>3. Praised' => Praised
        BY <2>1, ReportTypes
    <2> QED BY <1>1, <1>2, <2>1, <2>2, <2>3
<1> QED BY <1>3, <1>4, <1>5, <1>6, <1>7, <1>8, <1>9, <1>10, <1>11, <1>12, StepKinds

-----------------------------------------------------------------------------
(* The theorems.                                                           *)

\* A run starts within the invariant.
LEMMA InitInv == Init => IInv
<1> SUFFICES ASSUME Init PROVE IInv
    OBVIOUS
<1>1. /\ pc = "start" /\ status = "idle" /\ want = NoReport /\ survive = {NoReport}
      /\ disk = [m \in Store!Medium |-> NoReport]
      /\ stage = "START" /\ overall = "INCOMPLETE" /\ exit = -1
      /\ helper = Helper!NoHelper /\ after = NothingAfter
    BY DEF Init, Store!StoreInit
<1>2. \A r \in Stored : r.stage = "none" /\ r.overall = "none"
    BY <1>1, ReportTypes DEF Stored
<1>3. StoreInv /\ ConfirmInv
    BY <1>1 DEF StoreInv, ConfirmInv
<1>4. GateInv
    BY <1>1, <1>2 DEF GateInv, DriverBound, DriverStages
<1>5. CrashInv
    BY <1>1, HelperTypes DEF CrashInv
<1>6. EvidenceInv
    BY <1>1 DEF EvidenceInv, AfterHelper, DriverBound
<1>7. VerdictInv
    BY <1>1, <1>2 DEF VerdictInv
<1> QED BY <1>3, <1>4, <1>5, <1>6, <1>7, InitType DEF IInv

\* Every step keeps the invariant.
LEMMA StepKeeps == IInv /\ [Next]_vars => IInv'
BY TypeStep, StoreStep, GateStep, ConfirmStep, CrashStep, EvidenceStep, VerdictStep DEF IInv

\* The invariant holds in every reachable state.
LEMMA IInvHolds == Spec => []IInv
BY InitInv, StepKeeps, PTL DEF Spec

\* Every variable of a run stays within its kind (safe_triage.py:209-675).
THEOREM TypeCorrect == Spec => []TypeOK
<1>1. IInv => TypeOK
    BY DEF IInv
<1> QED BY <1>1, IInvHolds, PTL

\* A preflight, and a run whose boot claims to have kept the driver away, never
\* reach a driver-bound stage on any medium (safe_triage.py:253-262, 369-382).
THEOREM GuardedRunStaysPreDriver == Spec => []SafeModeStaysPreDriver
<1>1. \A m \in Store!Medium : disk[m] \in Stored
    BY DEF Stored
<1>2. IInv => SafeModeStaysPreDriver
    BY <1>1 DEF IInv, GateInv, Guarded, DriverStages, SafeModeStaysPreDriver
<1> QED BY <1>2, IInvHolds, PTL

\* Driver-bound work starts on a card that was fit when it was last looked at
\* (safe_triage.py:170-188, 397, 434).
THEOREM WorkStartsOnConfirmedTarget == Spec => []WorkOnConfirmedTarget
<1>1. IInv => WorkOnConfirmedTarget
    BY DEF IInv, ConfirmInv, WorkOnConfirmedTarget
<1> QED BY <1>1, IInvHolds, PTL

\* Exit code 0 and every report of PASS rest on the whole evidence
\* (safe_triage.py:433-646).
THEOREM PassRestsOnEvidence == Spec => []PassIsEarned
<1>1. \A m \in Store!Medium : disk[m] \in Stored
    BY DEF Stored
<1>2. IInv => PassIsEarned
    BY <1>1 DEF IInv, VerdictInv, Earned, PassIsEarned
<1> QED BY <1>2, IInvHolds, PTL

\* A negative result is the verdict on every medium (triage_model.py:82-102).
THEOREM FailureIsVerdict == Spec => []FailureWins
<1>1. Now.overall = overall
    BY DEF Now
<1>2. IInv => FailureWins
    BY <1>1 DEF IInv, VerdictInv, FailureSeen, AllSaved, FailureWins
<1> QED BY <1>2, IInvHolds, PTL

\* The stage is on the media before the work, and a crash leaves it there
\* (safe_triage.py:384-395, 434-452).
THEOREM StageOutlivesCrash == Spec => []StageIsTold
<1>1. ASSUME IInv PROVE WorkIsAnnounced
    BY <1>1 DEF IInv, StoreInv, AllSaved, WorkIsAnnounced
<1>2. ASSUME IInv PROVE CrashTellsStage
    BY <1>2 DEF IInv, CrashInv, Late, CrashTellsStage
<1>3. IInv => StageIsTold
    BY <1>1, <1>2 DEF StageIsTold
<1> QED BY <1>3, IInvHolds, PTL

\* Exit codes 0 and 1 go with a completed, durable report of that verdict
\* (gpu_diag.py:988-999).
THEOREM ExitCodeTellsReport == Spec => []ExitMatchesReport
<1>1. Now.overall = overall /\ Now.stage = stage
    BY DEF Now
<1>2. ASSUME IInv, exit \in {0, 1} PROVE
          /\ avail # {}
          /\ \A m \in avail : Completed(m) /\ (disk[m].overall = "PASS" <=> exit = 0)
          /\ "primary" \in avail => survive = {disk["primary"]}
    BY <1>1, <1>2 DEF IInv, VerdictInv, AllSaved, Completed
<1>3. IInv => ExitMatchesReport
    BY <1>2 DEF ExitMatchesReport
<1> QED BY <1>3, IInvHolds, PTL
=============================================================================
