----------------------------- MODULE VramHelper -----------------------------
(***************************************************************************)
(* The native helper (vram-helper/gpu_vram_helper.c): one process that      *)
(* selects the card by its PCI address, runs four experiments on it, and    *)
(* writes one line of JSON per event to its standard output.                *)
(*                                                                         *)
(* Every step writes at most one line, so that a kill may come after any of *)
(* them.  A submission to the device succeeds, fails, or loses the device;  *)
(* a comparison finds any number of mismatches.                             *)
(***************************************************************************)
EXTENDS Integers, Sequences, FiniteSets

CONSTANTS
    Passes,         \* passes of the pattern test: allocations, patterns, repeats
    Options,        \* the command lines it may be started with
    Readings,       \* what the sensors may read in millidegrees, Unreadable included
    Enumerations,   \* the sets of devices Vulkan may enumerate
    Affordable,     \* the bad offsets whose statistics are done within 30 seconds
    MaxMismatches   \* bound: words that come back wrong, each at its own offset

ASSUME PassesAssumption == Passes \in Nat \ {0}
ASSUME AffordableAssumption == Affordable \in Nat
ASSUME MaxMismatchesAssumption == MaxMismatches \in Nat

Experiments == {"host_transfer", "gpu_local_copy", "compute_kat", "vram_pattern"}
AfterExperiment == [host_transfer |-> "gpu_local_copy", gpu_local_copy |-> "compute_kat",
                    compute_kat |-> "vram_pattern", vram_pattern |-> "none"]

\* A device as Vulkan enumerates it: the card it is, and the extension that
\* tells its PCI address, if any.  The same card shows up once per driver.
VulkanDevice == [card : {"target", "twin"}, proof : {"pci", "drm", "none"}]

Unreadable == -1
NotGiven == -2

\* --max-errors, how many error lines may be written, and --max-temp-mc.
ASSUME OptionsAssumption ==
    Options \subseteq [max_errors : Nat \ {0}, max_temp_mc : Nat \union {NotGiven}]
ASSUME ReadingsAssumption == Readings \subseteq Nat \union {Unreadable}
ASSUME EnumerationsAssumption == Enumerations \subseteq SUBSET VulkanDevice

VARIABLES
    o,            \* the options: constant
    enumerated,   \* the devices with the vendor and device ID asked for: constant
    at,           \* where the process is
    device,       \* v->physical, or none
    lost,         \* v->device_lost
    current,      \* the experiment at work
    status,       \* e[].status
    errors,       \* e[].errors
    total,        \* summary->total
    recorded,     \* summary->recorded
    pass, reread, \* of the pattern test
    temperature,  \* temp_status
    stalled,      \* what keeps the process from going on
    verified,     \* history: experiments whose comparisons were all made
    stream,       \* the lines written
    noisy,        \* some other line was written between them
    code          \* the exit code, -1 while it runs

deviceVars == <<o, enumerated, device>>
tally == <<total, recorded>>
output == <<stream, noisy>>
place == <<current, pass, reread>>
helperVars == <<deviceVars, at, lost, status, errors, tally, place, temperature,
                stalled, verified, output, code>>

NoDevice == [card |-> "none", proof |-> "none"]

Init ==
    /\ o \in Options
    /\ enumerated \in Enumerations
    /\ at = "meta"
    /\ device = NoDevice
    /\ lost = FALSE
    /\ current = "host_transfer"
    /\ status = [x \in Experiments |-> "UNAVAILABLE"]
    /\ errors = [x \in Experiments |-> 0]
    /\ total = 0 /\ recorded = 0
    /\ pass = 0 /\ reread = 0
    /\ temperature = "UNAVAILABLE"
    /\ stalled = "none"
    /\ verified = {}
    /\ stream = <<>> /\ noisy = FALSE
    /\ code = -1

-----------------------------------------------------------------------------
Emit(event) == stream' = Append(stream, event) /\ UNCHANGED noisy
Identity(exact, card) == [type |-> "identity", exact_match |-> exact, card |-> card]

EmitMeta ==
    /\ at = "meta" /\ at' = "select"
    /\ Emit([type |-> "meta"])
    /\ UNCHANGED <<deviceVars, lost, status, errors, tally, place, temperature, verified, code>>

\* Mutant: vendor and device ID are enough.
MatchesById == enumerated

Matches == {d \in enumerated : d.card = "target" /\ d.proof # "none"}

\* select_physical: exactly one device proves the PCI address, before anything
\* is allocated.
SelectPhysical ==
    /\ at = "select" /\ Cardinality(Matches) = 1
    /\ device' = CHOOSE d \in Matches : TRUE
    /\ Emit(Identity(TRUE, "target"))
    /\ at' = "setup"
    /\ UNCHANGED <<o, enumerated, lost, status, errors, tally, place, temperature, verified, code>>

\* None or several prove it, or the devices cannot be enumerated.
SelectsNone ==
    /\ at = "select"
    /\ Emit(Identity(FALSE, "target"))
    /\ at' = "unavailable"
    /\ UNCHANGED <<deviceVars, lost, status, errors, tally, place, temperature, verified, code>>

\* vkCreateInstance fails: not even the identity is written.
NoInstance ==
    /\ at = "select" /\ at' = "unavailable"
    /\ UNCHANGED <<deviceVars, lost, status, errors, tally, place, temperature, verified, output, code>>

\* The temperature is read for the first time when the setup is done.
SetUp ==
    /\ at = "setup" /\ at' = "run"
    /\ \E temp \in Readings : temperature' = IF temp = Unreadable THEN "UNAVAILABLE" ELSE "PASS"
    /\ UNCHANGED <<deviceVars, lost, status, errors, tally, place, verified, output, code>>

\* A buffer, the pipeline or the shader file fails, or the device is lost.
SetUpFails ==
    /\ at = "setup" /\ at' = "unavailable"
    /\ lost' \in BOOLEAN
    /\ UNCHANGED <<deviceVars, status, errors, tally, place, temperature, verified, output, code>>

-----------------------------------------------------------------------------
(* One experiment after the other.                                         *)

\* Where a submission leads when it succeeds, or fails, or loses the device.
Submit(next) ==
    \/ /\ at' = next
       /\ status' = [status EXCEPT ![current] = "PASS"]
       /\ UNCHANGED lost
    \/ /\ at' = "report"
       /\ status' = [status EXCEPT ![current] = "INCONCLUSIVE"]
       /\ lost' \in BOOLEAN

\* transfer_roundtrip and compute_roundtrip, skipped on a lost device.
RunOnce ==
    /\ at = "run" /\ current # "vram_pattern"
    /\ IF lost
       THEN at' = "report" /\ UNCHANGED <<status, lost>>
       ELSE Submit("compare")
    /\ UNCHANGED <<deviceVars, errors, tally, place, temperature, verified, output, code>>

\* Mutant: a mismatch beyond the record limit is not counted.
MismatchIfRecorded ==
    /\ at = "compare" /\ total < MaxMismatches
    /\ errors' = [errors EXCEPT ![current] = @ + 1]
    /\ IF recorded >= o.max_errors
       THEN UNCHANGED <<tally, output>>
       ELSE /\ total' = total + 1
            /\ recorded' = recorded + 1
            /\ Emit([type |-> "error", experiment |-> current])
    /\ UNCHANGED <<deviceVars, at, lost, status, place, temperature, verified, code>>

\* Mutant: one line too many.
MismatchOffByOne ==
    /\ at = "compare" /\ total < MaxMismatches
    /\ errors' = [errors EXCEPT ![current] = @ + 1]
    /\ total' = total + 1
    /\ IF recorded > o.max_errors
       THEN UNCHANGED <<recorded, output>>
       ELSE recorded' = recorded + 1 /\ Emit([type |-> "error", experiment |-> current])
    /\ UNCHANGED <<deviceVars, at, lost, status, place, temperature, verified, code>>

\* compare_words meets a word that differs; emit_error counts it and writes it
\* as long as the record limit allows.
Mismatch ==
    /\ at = "compare" /\ total < MaxMismatches
    /\ errors' = [errors EXCEPT ![current] = @ + 1]
    /\ total' = total + 1
    /\ IF recorded >= o.max_errors
       THEN UNCHANGED <<recorded, output>>
       ELSE recorded' = recorded + 1 /\ Emit([type |-> "error", experiment |-> current])
    /\ UNCHANGED <<deviceVars, at, lost, status, place, temperature, verified, code>>

\* compare_words is through.  The pattern test compares each pass twice.
Compared ==
    /\ at = "compare"
    /\ IF current # "vram_pattern"
       THEN at' = "report" /\ verified' = verified \union {current} /\ UNCHANGED <<pass, reread>>
       ELSE /\ at' = IF reread = 0 THEN "copy_back" ELSE "run"
            /\ pass' = pass + reread
            /\ reread' = 1 - reread
            /\ UNCHANGED verified
    /\ UNCHANGED <<deviceVars, lost, status, errors, tally, current, temperature, output, code>>

\* The loop of the pattern test ends: all passes are done, or the device is lost.
PassesEnd ==
    /\ at = "run" /\ current = "vram_pattern"
    /\ pass = Passes \/ lost
    /\ at' = "report"
    /\ status' = [status EXCEPT !["vram_pattern"] = "PASS"]
    /\ verified' = IF pass = Passes THEN verified \union {"vram_pattern"} ELSE verified
    /\ UNCHANGED <<deviceVars, lost, errors, tally, place, temperature, output, code>>

PassDue == at = "run" /\ current = "vram_pattern" /\ pass < Passes /\ ~lost

\* Mutant: a test cut short by its time limit is as good as one that ended.
TimeLimitPasses ==
    /\ PassDue
    /\ at' = "report"
    /\ status' = [status EXCEPT !["vram_pattern"] = "PASS"]
    /\ UNCHANGED <<deviceVars, lost, errors, tally, place, temperature, verified, output, code>>

\* The time limit is looked at before every pass.
TimeLimit ==
    /\ PassDue
    /\ at' = "report"
    /\ status' = [status EXCEPT !["vram_pattern"] = "INCONCLUSIVE"]
    /\ UNCHANGED <<deviceVars, lost, errors, tally, place, temperature, verified, output, code>>

\* parse_options presets the limit.
MaxTemp == IF o.max_temp_mc = NotGiven THEN 95000 ELSE o.max_temp_mc

TemperatureLimit ==
    /\ PassDue
    /\ \E temp \in Readings : temp >= MaxTemp
    /\ at' = "report"
    /\ temperature' = "LIMIT_REACHED"
    /\ status' = [status EXCEPT !["vram_pattern"] = "INCONCLUSIVE"]
    /\ UNCHANGED <<deviceVars, lost, errors, tally, place, verified, output, code>>

\* The pattern is computed into the memory and read back.
Pass ==
    /\ PassDue
    /\ \E temp \in Readings :
        /\ temp < MaxTemp
        /\ temperature' = IF temp = Unreadable THEN temperature ELSE "PASS"
    /\ Submit("compare")
    /\ UNCHANGED <<deviceVars, errors, tally, place, verified, output, code>>

\* The second read, without another write.
CopyBack ==
    /\ at = "copy_back"
    /\ Submit("compare")
    /\ UNCHANGED <<deviceVars, errors, tally, place, temperature, verified, output, code>>

-----------------------------------------------------------------------------
\* Mutant: a test that was cut short has no verdict, whatever it found.
VerdictIfComplete ==
    IF lost THEN "INCONCLUSIVE"
    ELSE IF errors[current] > 0 /\ status[current] = "PASS" THEN "FAIL"
    ELSE status[current]

Verdict ==
    IF lost THEN "INCONCLUSIVE"
    ELSE IF errors[current] > 0 THEN "FAIL"
    ELSE status[current]

EmitExperiment(s) ==
    /\ Emit([type |-> "experiment", name |-> current, status |-> s])
    /\ current' = AfterExperiment[current]

Report ==
    /\ at = "report"
    /\ status' = [status EXCEPT ![current] = Verdict]
    /\ EmitExperiment(Verdict)
    /\ at' = IF current' = "none" THEN "summary" ELSE "run"
    /\ UNCHANGED <<deviceVars, lost, errors, tally, pass, reread, temperature, verified, code>>

\* Without a device the experiments are reported as they are.
ReportUnavailable ==
    /\ at = "unavailable"
    /\ EmitExperiment(status[current])
    /\ at' = IF current' = "none" THEN "summary" ELSE "unavailable"
    /\ UNCHANGED <<deviceVars, lost, status, errors, tally, pass, reread, temperature, verified, code>>

SummaryStatus ==
    IF \E x \in Experiments : status[x] = "FAIL" THEN "FAIL"
    ELSE IF lost \/ \E x \in Experiments : status[x] # "PASS" THEN "INCONCLUSIVE"
    ELSE "PASS"

EmitSummary ==
    /\ at = "summary" /\ at' = "cleanup"
    /\ total <= Affordable
    /\ Emit([type |-> "summary", status |-> SummaryStatus, device_lost |-> lost,
             experiments |-> status, total |-> total, recorded |-> recorded,
             temperature |-> temperature])
    /\ UNCHANGED <<deviceVars, lost, status, errors, tally, place, temperature, verified, code>>

\* Mutant: mismatches outweigh the loss of the device.
ExitCodeOfErrors ==
    IF total > 0 THEN 1 ELSE IF lost THEN 2
    ELSE IF status["vram_pattern"] = "PASS" THEN 0 ELSE 2

ExitCode ==
    IF lost THEN 2 ELSE IF total > 0 THEN 1
    ELSE IF status["vram_pattern"] = "PASS" THEN 0 ELSE 2

CleanUp ==
    /\ at = "cleanup" /\ at' = "ended"
    /\ code' = ExitCode
    /\ UNCHANGED <<deviceVars, lost, status, errors, tally, place, temperature, verified, output>>

-----------------------------------------------------------------------------
(* What the driver in the process may do to it.                            *)

Crashed == -11

\* A signal ends the process.
Crash ==
    /\ at # "ended" /\ at' = "ended"
    /\ code' = Crashed
    /\ UNCHANGED <<deviceVars, lost, status, errors, tally, place, temperature, verified, output>>

\* The driver writes a line of its own: standard error goes to the same pipe.
DriverWarns ==
    /\ at # "ended" /\ ~noisy
    /\ noisy' = TRUE
    /\ UNCHANGED <<deviceVars, at, lost, status, errors, tally, place, temperature, verified,
                   stream, code>>

\* Anything that takes longer than the runner's margin of 30 seconds.
Stall(why) ==
    /\ stalled' = why
    /\ UNCHANGED <<deviceVars, at, lost, status, errors, tally, place, temperature, verified,
                   output, code>>

DriverHangs == at # "ended" /\ Stall("driver")

\* gt_stride_candidate compares all pairs of pairs of offsets before the
\* summary is written: 512 bad offsets take 13 seconds, the 4096 that are
\* tracked take hours.
StatisticsTakeTooLong == at = "summary" /\ total > Affordable /\ Stall("statistics")

HelperWorks ==
    \/ EmitMeta \/ SelectPhysical \/ SelectsNone \/ NoInstance \/ SetUp \/ SetUpFails
    \/ RunOnce \/ Mismatch \/ Compared \/ PassesEnd \/ TimeLimit \/ TemperatureLimit \/ Pass
    \/ CopyBack \/ Report \/ ReportUnavailable \/ EmitSummary \/ CleanUp
    \/ Crash \/ DriverWarns

HelperNext ==
    /\ stalled = "none"
    /\ \/ HelperWorks /\ UNCHANGED stalled
       \/ DriverHangs \/ StatisticsTakeTooLong
=============================================================================
