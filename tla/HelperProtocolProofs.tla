------------------------ MODULE HelperProtocolProofs ------------------------
(***************************************************************************)
(* For any number of passes and mismatches, any options, sensors and       *)
(* devices: the helper works on the card asked for only, what its reader   *)
(* accepts is complete and true, a mismatch is never taken back, and the   *)
(* call is one step of HelperRun.                                          *)
(***************************************************************************)
EXTENDS HelperProtocol, FiniteSetTheorems, TLAPS

\* The lines the helper can write.
Event ==
    [type : {"meta"}]
    \union [type : {"identity"}, exact_match : BOOLEAN, card : {"target"}]
    \union [type : {"error"}, experiment : Experiments]
    \union [type : {"experiment"}, name : Experiments,
            status : {"PASS", "FAIL", "INCONCLUSIVE", "UNAVAILABLE"}]
    \union [type : {"summary"}, status : {"PASS", "FAIL", "INCONCLUSIVE"}, device_lost : BOOLEAN,
            experiments : [Experiments -> {"PASS", "FAIL", "INCONCLUSIVE", "UNAVAILABLE"}],
            total : Nat, recorded : Nat, temperature : {"PASS", "UNAVAILABLE", "LIMIT_REACHED"}]

\* Where it has written lines of a type, and how many.
Written(type) == {i \in DOMAIN stream : stream[i].type = type}
Count(type) == Cardinality(Written(type))

\* The experiments before one: those that have been reported when it is at work.
Before == [host_transfer |-> {}, gpu_local_copy |-> {"host_transfer"},
           compute_kat |-> {"host_transfer", "gpu_local_copy"},
           vram_pattern |-> {"host_transfer", "gpu_local_copy", "compute_kat"},
           none |-> Experiments]
Rank == [host_transfer |-> 0, gpu_local_copy |-> 1, compute_kat |-> 2, vram_pattern |-> 3,
         none |-> 4]
Done == Before[current]

\* Where memory of the card is in use or has been.
Working == {"run", "compare", "copy_back", "report"}

\* Where the process is, and what that says of its loops and its device.
PlaceInv ==
    /\ at \in {"meta", "select", "setup"} => current = "host_transfer"
    /\ at \in Working \union {"unavailable"} => current # "none"
    /\ at \in {"summary", "cleanup"} => current = "none"
    /\ at \in {"compare", "copy_back"} /\ current = "vram_pattern" => pass < Passes
    /\ at = "copy_back" => current = "vram_pattern"
    /\ device # NoDevice => device.card = "target" /\ at \notin {"meta", "select"}
    /\ at \in Working \union {"setup"} => device # NoDevice
    /\ at \in {"meta", "select", "setup", "compare", "copy_back"} => ~lost
    /\ at = "ended" <=> code # -1
    /\ code \in {0, 1, 2} => code = ExitCode /\ current = "none"

\* What has been found, and what the statuses make of it.
WorkInv ==
    /\ total = errors["host_transfer"] + errors["gpu_local_copy"]
               + errors["compute_kat"] + errors["vram_pattern"]
    /\ recorded <= total
    /\ device = NoDevice \/ at \in {"setup", "unavailable"} => total = 0
    /\ \A x \in Experiments \ Done :
          /\ status[x] # "FAIL"
          /\ x # current => status[x] = "UNAVAILABLE" /\ errors[x] = 0
    /\ at \in {"meta", "select", "setup", "unavailable"} =>
          \A x \in Experiments : status[x] = "UNAVAILABLE"
    /\ at = "report" /\ ~lost /\ status[current] = "PASS" => current \in verified
    /\ \A x \in Done :
          /\ status[x] = "PASS" => x \in verified /\ errors[x] = 0
          /\ ~lost => (errors[x] > 0 <=> status[x] = "FAIL")

\* The summary as it is written in this state.
SummaryLine ==
    [type |-> "summary", status |-> SummaryStatus, device_lost |-> lost,
     experiments |-> status, total |-> total, recorded |-> recorded,
     temperature |-> temperature]

\* What the lines say, wherever the process was stopped.
StreamInv ==
    /\ stream \in Seq(Event)
    /\ Count("error") = recorded
    /\ \A i \in Written("identity") :
          stream[i].exact_match => \E d \in enumerated : d.card = "target"
    /\ device # NoDevice => \E i \in Written("identity") : stream[i].exact_match
    /\ \A i \in Written("experiment") :
          stream[i].name \in Done /\ stream[i].status = status[stream[i].name]
    /\ \A i \in Written("summary") : at \in {"cleanup", "ended"} /\ stream[i] = SummaryLine

\* Which lines there are, unless the process was ended by a signal.
LinesInv ==
    code # Crashed =>
        /\ Count("meta") = IF at = "meta" THEN 0 ELSE 1
        /\ at \in {"meta", "select"} => Count("identity") = 0
        /\ device # NoDevice =>
              Count("identity") = 1 /\ \A i \in Written("identity") : stream[i].exact_match
        /\ {stream[i].name : i \in Written("experiment")} = Done
        /\ Count("experiment") = Rank[current]
        /\ Count("summary") = IF at \in {"cleanup", "ended"} THEN 1 ELSE 0

\* What the call has of all this.
CallInv ==
    /\ call = "idle" => stream = <<>>
    /\ call \in {"idle", "running"} => received = <<>> /\ rc = None
    /\ call \notin {"idle", "running"} => received = stream
    /\ rc # None => at = "ended" /\ rc = code
    /\ call # "returned" => result = Run!NoHelper
    /\ call = "returned" =>
          \/ result.kind = "missing" /\ rc = None
          \/ result.kind = "protocol_error" /\ ~WellFormed
          \/ /\ result.kind = "report" /\ WellFormed
             /\ result.results = [x \in Experiments |-> RowOf(Summary.experiments[x])]

\* The inductive invariant.
IInv == TypeOK /\ PlaceInv /\ WorkInv /\ StreamInv /\ LinesInv /\ CallInv

-----------------------------------------------------------------------------
(* Lines and their number.                                                 *)

\* The types of a line.
Kinds == {"meta", "identity", "error", "experiment", "summary"}

\* What the helper writes is an Event of its kind.
LEMMA EventTypes ==
    /\ [type |-> "meta"] \in Event
    /\ \A b \in BOOLEAN : Identity(b, "target") \in Event /\ Identity(b, "target").type = "identity"
    /\ \A x \in Experiments : [type |-> "error", experiment |-> x] \in Event
    /\ \A x \in Experiments, s \in {"PASS", "FAIL", "INCONCLUSIVE", "UNAVAILABLE"} :
          [type |-> "experiment", name |-> x, status |-> s] \in Event
    /\ TypeOK => SummaryLine \in Event /\ SummaryLine.type = "summary"
<1>1. TypeOK => SummaryLine \in Event
    <2> SUFFICES ASSUME TypeOK PROVE SummaryLine \in Event
        OBVIOUS
    <2>1. SummaryStatus \in {"PASS", "FAIL", "INCONCLUSIVE"}
        BY DEF SummaryStatus
    <2>2. total \in Nat /\ recorded \in Nat
        BY MaxMismatchesAssumption, OptionsAssumption DEF TypeOK
    <2>3. /\ lost \in BOOLEAN /\ temperature \in {"PASS", "UNAVAILABLE", "LIMIT_REACHED"}
          /\ status \in [Experiments -> {"PASS", "FAIL", "INCONCLUSIVE", "UNAVAILABLE"}]
        BY DEF TypeOK
    <2> QED BY <2>1, <2>2, <2>3 DEF Event, SummaryLine
<1> QED BY <1>1 DEF Event, Identity, SummaryLine

\* An identity line names the card asked for.
LEMMA IdentityNamesTarget ==
    \A e \in Event : e.type = "identity" => e.card = "target" /\ e.exact_match \in BOOLEAN
BY DEF Event

\* One line more.
LEMMA EmitLine ==
    ASSUME stream \in Seq(Event), NEW e \in Event, Emit(e)
    PROVE  /\ stream' \in Seq(Event) /\ noisy' = noisy
           /\ stream' # <<>>
           /\ \A i \in DOMAIN stream : i \in DOMAIN stream' /\ stream'[i] = stream[i]
           /\ \A t : t # e.type => Written(t)' = Written(t) /\ Count(t)' = Count(t)
           /\ \A t : t = e.type => Count(t)' = Count(t) + 1
           /\ \E n : n \notin DOMAIN stream /\ stream'[n] = e
                     /\ \A t : t = e.type => Written(t)' = Written(t) \union {n}
<1> DEFINE n == Len(stream) + 1
<1>1. /\ stream' \in Seq(Event) /\ Len(stream) \in Nat /\ Len(stream') = n /\ stream'[n] = e
      /\ \A i \in 1..Len(stream) : stream'[i] = stream[i]
      /\ DOMAIN stream = 1..Len(stream) /\ DOMAIN stream' = 1..n
    BY DEF Emit
<1>2. n \notin DOMAIN stream /\ DOMAIN stream' = DOMAIN stream \union {n}
    BY <1>1
<1>3. ASSUME NEW t PROVE Written(t)' = IF t = e.type THEN Written(t) \union {n} ELSE Written(t)
    <2> SUFFICES ASSUME NEW i PROVE
            i \in Written(t)' <=> i \in Written(t) \/ (i = n /\ t = e.type)
        BY Zenon
    <2> HIDE DEF n
    <2>1. CASE i = n
        BY <1>1, <1>2, <2>1, Zenon DEF Written
    <2>2. CASE i # n
        <3>1. i \in DOMAIN stream' <=> i \in DOMAIN stream
            BY <1>2, <2>2, Zenon
        <3>2. i \in DOMAIN stream => stream'[i] = stream[i]
            BY <1>1, Zenon
        <3> QED BY <2>2, <3>1, <3>2, Zenon DEF Written
    <2> QED BY <2>1, <2>2
<1>4. ASSUME NEW t PROVE IsFiniteSet(Written(t)) /\ n \notin Written(t)
    <2>1. IsFiniteSet(1..Len(stream))
        BY <1>1, FS_Interval
    <2>2. Written(t) \subseteq 1..Len(stream)
        BY <1>1 DEF Written
    <2> QED BY <1>2, <2>1, <2>2, FS_Subset DEF Written
<1>5. ASSUME NEW t PROVE Count(t)' = IF t = e.type THEN Count(t) + 1 ELSE Count(t)
    <2>1. Count(t)' = Cardinality(Written(t)')
        BY DEF Count
    <2>2. Cardinality(Written(t) \union {n}) = Cardinality(Written(t)) + 1
        BY <1>4, FS_AddElement
    <2> QED BY <1>3, <2>1, <2>2 DEF Count
<1>6. stream' # <<>>
    BY <1>1
<1> HIDE DEF n
<1>7. noisy' = noisy
    BY DEF Emit
<1> QED BY <1>1, <1>2, <1>3, <1>5, <1>6, <1>7

\* No line more.
LEMMA NoLine ==
    ASSUME UNCHANGED stream
    PROVE  \A t : Written(t)' = Written(t) /\ Count(t)' = Count(t)
BY DEF Written, Count

-----------------------------------------------------------------------------
(* Types and places.                                                       *)

\* The types of what the process can change.
HelperTypeOK ==
    /\ o \in Options /\ enumerated \in Enumerations /\ device \in VulkanDevice \union {NoDevice}
    /\ at \in {"meta", "select", "setup", "run", "compare", "copy_back", "report",
               "unavailable", "summary", "cleanup", "ended"}
    /\ lost \in BOOLEAN /\ noisy \in BOOLEAN
    /\ current \in Experiments \union {"none"}
    /\ status \in [Experiments -> {"PASS", "FAIL", "INCONCLUSIVE", "UNAVAILABLE"}]
    /\ errors \in [Experiments -> 0..MaxMismatches]
    /\ total \in 0..MaxMismatches /\ recorded \in 0..o.max_errors
    /\ pass \in 0..Passes /\ reread \in 0..1
    /\ temperature \in {"PASS", "UNAVAILABLE", "LIMIT_REACHED"}
    /\ verified \subseteq Experiments
    /\ code \in {-1, 0, 1, 2, Crashed}

CallTypeOK ==
    /\ stalled \in {"none", "driver", "statistics"} /\ spoilt \in BOOLEAN
    /\ call \in {"idle", "running", "parsing", "returned", "raised"}
    /\ rc \in {None, 0, 1, 2, Crashed}
    /\ result \in Run!HelperResult

\* The type invariant is that of the process and that of its caller.
LEMMA TypeSplit == TypeOK <=> HelperTypeOK /\ CallTypeOK
BY DEF TypeOK, HelperTypeOK, CallTypeOK

\* The constants have the types of their assumptions.
LEMMA ConstantTypes ==
    /\ Passes \in Nat \ {0} /\ MaxMismatches \in Nat
    /\ HelperTypeOK => o.max_errors \in Nat \ {0}
    /\ HelperTypeOK => enumerated \subseteq VulkanDevice
BY PassesAssumption, MaxMismatchesAssumption, OptionsAssumption, EnumerationsAssumption DEF HelperTypeOK

\* A device that was selected is the card asked for.
LEMMA SelectedDevice ==
    ASSUME enumerated \subseteq VulkanDevice, SelectPhysical
    PROVE  device' \in Matches /\ device' \in VulkanDevice /\ device'.card = "target"
           /\ device' # NoDevice
<1>1. Matches # {}
    BY FS_EmptySet DEF SelectPhysical
<1>2. device' \in Matches
    BY <1>1 DEF SelectPhysical
<1> QED BY <1>2 DEF Matches, VulkanDevice, NoDevice

\* The experiments are four, in an order.
LEMMA Order ==
    /\ \A x \in Experiments :
          /\ AfterExperiment[x] \in Experiments \union {"none"}
          /\ x \notin Before[x]
          /\ Before[AfterExperiment[x]] = Before[x] \union {x}
          /\ Rank[AfterExperiment[x]] = Rank[x] + 1 /\ Rank[x] \in Nat
    /\ Before["host_transfer"] = {} /\ Before["none"] = Experiments
    /\ Rank["host_transfer"] = 0 /\ Rank["none"] = 4
    /\ "host_transfer" \in Experiments /\ "vram_pattern" \in Experiments /\ "none" \notin Experiments
    /\ Before["none"] \ Before["vram_pattern"] = {"vram_pattern"}
BY DEF Experiments, AfterExperiment, Before, Rank

\* The verdict on an experiment is a status.
LEMMA VerdictType ==
    HelperTypeOK /\ current \in Experiments => Verdict \in {"PASS", "FAIL", "INCONCLUSIVE", "UNAVAILABLE"}
BY DEF HelperTypeOK, Verdict

\* Steps that write no line, and those that leave the process as it is.
Silent ==
    NoInstance \/ SetUp \/ SetUpFails \/ RunOnce \/ Compared \/ PassesEnd \/ TimeLimit
    \/ TemperatureLimit \/ Pass \/ CopyBack \/ CleanUp \/ Crash \/ DriverWarns

Idle == UNCHANGED <<deviceVars, at, lost, status, errors, tally, place, temperature, verified, output, code>>

\* A step writes no line, leaves the process alone, or is one of those that write.
LEMMA StepKinds ==
    [Next]_vars =>
        \/ Silent \/ Idle
        \/ EmitMeta \/ SelectPhysical \/ SelectsNone \/ Mismatch
        \/ Report \/ ReportUnavailable \/ EmitSummary
BY DEF Next, HelperStep, HelperNext, HelperWorks, Silent, Idle, DriverHangs, StatisticsTakeTooLong, Stall,
   CallStep, HelperMissing, HelperNotExecuted, StartHelper, HelperEnds, Kill, ParseReport,
   RefuseOutput, LogRaises, vars, helperVars

\* Every step of the process keeps its types.
LEMMA HelperTypeStep ==
    HelperTypeOK /\ PlaceInv /\ WorkInv /\ [Next]_vars => HelperTypeOK'
<1> SUFFICES ASSUME HelperTypeOK, PlaceInv, WorkInv, [Next]_vars PROVE HelperTypeOK'
    OBVIOUS
<1> USE DEF HelperTypeOK, deviceVars, tally, place, output
<1>1. CASE Silent
    <2>1. CASE NoInstance \/ SetUp \/ SetUpFails
        BY <2>1 DEF NoInstance, SetUp, SetUpFails
    <2>2. CASE RunOnce
        BY <2>2 DEF RunOnce, Submit
    <2>3. CASE Compared
        <3>1. pass' \in 0..Passes /\ reread' \in 0..1
            <4>1. pass \in Nat /\ Passes \in Nat /\ pass <= Passes /\ reread \in {0, 1}
                BY ConstantTypes
            <4>2. current = "vram_pattern" => pass < Passes
                BY <2>3 DEF Compared, PlaceInv
            <4>3. CASE current # "vram_pattern"
                BY <2>3, <4>3 DEF Compared
            <4>4. CASE current = "vram_pattern"
                <5>1. pass' = pass + reread /\ reread' = 1 - reread
                    BY <2>3, <4>4 DEF Compared
                <5> QED BY <4>1, <4>2, <4>4, <5>1
            <4> QED BY <4>3, <4>4
        <3>2. verified' \subseteq Experiments
            BY <2>3 DEF Compared, PlaceInv, Working
        <3> QED BY <2>3, <3>1, <3>2 DEF Compared
    <2>4. CASE PassesEnd \/ TimeLimit
        BY <2>4, Order DEF PassesEnd, TimeLimit
    <2>5. CASE TemperatureLimit
        BY <2>5 DEF TemperatureLimit
    <2>6. CASE Pass
        BY <2>6 DEF Pass, Submit
    <2>7. CASE CopyBack
        BY <2>7 DEF CopyBack, Submit
    <2>8. CASE CleanUp \/ Crash \/ DriverWarns
        BY <2>8 DEF CleanUp, Crash, DriverWarns, ExitCode
    <2> QED BY <1>1, <2>1, <2>2, <2>3, <2>4, <2>5, <2>6, <2>7, <2>8 DEF Silent
<1>2. CASE Idle
    BY <1>2 DEF Idle
<1>3. CASE EmitMeta \/ SelectsNone
    BY <1>3 DEF EmitMeta, SelectsNone, Emit
<1>4. CASE SelectPhysical
    <2>1. device' \in VulkanDevice
        BY <1>4, ConstantTypes, SelectedDevice
    <2> QED BY <1>4, <2>1 DEF SelectPhysical, Emit
<1>5. CASE Mismatch
    <2>1. /\ total \in Nat /\ errors["host_transfer"] \in Nat /\ errors["gpu_local_copy"] \in Nat
          /\ errors["compute_kat"] \in Nat /\ errors["vram_pattern"] \in Nat
        BY ConstantTypes DEF Experiments
    <2>2. \A x \in Experiments : errors[x] \in Nat /\ errors[x] <= total
        BY <2>1, ConstantTypes DEF WorkInv, Experiments
    <2>3. errors' \in [Experiments -> 0..MaxMismatches]
        <3>1. current \in Experiments
            BY <1>5 DEF Mismatch, PlaceInv, Working
        <3>2. errors[current] + 1 \in 0..MaxMismatches
            BY <1>5, <2>1, <2>2, <3>1, ConstantTypes DEF Mismatch
        <3> QED BY <1>5, <3>1, <3>2 DEF Mismatch
    <2>4. total' \in 0..MaxMismatches
        BY <1>5, <2>1, ConstantTypes DEF Mismatch
    <2>5. recorded' \in 0..o.max_errors
        BY <1>5, ConstantTypes DEF Mismatch
    <2> QED BY <1>5, <2>3, <2>4, <2>5 DEF Mismatch, Emit
<1>6. CASE Report
    <2>1. current \in Experiments
        BY <1>6 DEF Report, PlaceInv, Working
    <2>2. status' \in [Experiments -> {"PASS", "FAIL", "INCONCLUSIVE", "UNAVAILABLE"}]
        BY <1>6, <2>1, VerdictType DEF Report
    <2>3. current' \in Experiments \union {"none"}
        BY <1>6, <2>1, Order DEF Report, EmitExperiment
    <2> QED BY <1>6, <2>2, <2>3 DEF Report, EmitExperiment, Emit
<1>7. CASE ReportUnavailable
    <2>1. current \in Experiments
        BY <1>7 DEF ReportUnavailable, PlaceInv
    <2>2. current' \in Experiments \union {"none"}
        BY <1>7, <2>1, Order DEF ReportUnavailable, EmitExperiment
    <2> QED BY <1>7, <2>2 DEF ReportUnavailable, EmitExperiment, Emit
<1>8. CASE EmitSummary
    BY <1>8 DEF EmitSummary, Emit
<1> QED BY <1>1, <1>2, <1>3, <1>4, <1>5, <1>6, <1>7, <1>8, StepKinds

\* The line of a type that was written once.
LEMMA TheLine ==
    ASSUME NEW t, received = stream, Once(t)
    PROVE  \E i \in Written(t) : The(t) = stream[i]
<1>1. Lines(t) = Written(t)
    BY DEF Lines, Written
<1>2. Written(t) # {}
    BY <1>1, FS_EmptySet DEF Once
<1> QED BY <1>1, <1>2 DEF The

\* The summary of an output that is accepted is how the process stands.
LEMMA AcceptedSummary ==
    ASSUME StreamInv, received = stream, WellFormed
    PROVE  Summary = SummaryLine /\ at \in {"cleanup", "ended"}
BY TheLine DEF StreamInv, WellFormed, Summary

\* Every step keeps the types.
LEMMA TypeStep ==
    TypeOK /\ PlaceInv /\ WorkInv /\ StreamInv /\ CallInv /\ [Next]_vars => TypeOK'
<1> SUFFICES ASSUME TypeOK, PlaceInv, WorkInv, StreamInv, CallInv, [Next]_vars PROVE TypeOK'
    OBVIOUS
<1>1. HelperTypeOK /\ CallTypeOK
    BY TypeSplit
<1>2. HelperTypeOK'
    BY <1>1, HelperTypeStep
<1>3. CallTypeOK'
    <2> USE DEF CallTypeOK
    <2>1. CASE HelperStep
        BY <1>1, <2>1 DEF HelperStep, HelperNext, DriverHangs, StatisticsTakeTooLong, Stall, callVars
    <2>2. CASE HelperMissing
        BY <1>1, <2>2 DEF HelperMissing, helperVars, Return, Run!HelperResult, Run!AllRows
    <2>3. CASE HelperNotExecuted \/ StartHelper \/ Kill \/ LogRaises
        BY <1>1, <2>3 DEF HelperNotExecuted, StartHelper, Kill, LogRaises, helperVars, HelperTypeOK
    <2>4. CASE HelperEnds
        <3>1. code # -1
            BY <2>4 DEF HelperEnds, PlaceInv
        <3> QED BY <1>1, <2>4, <3>1 DEF HelperEnds, helperVars, HelperTypeOK
    <2>5. CASE ParseReport
        <3>1. Summary = SummaryLine
            BY <2>5, AcceptedSummary DEF ParseReport, CallInv
        <3>2. Summary.experiments = status
            BY <3>1 DEF SummaryLine
        <3>3. \A x \in Experiments : RowOf(Summary.experiments[x]) \in {"PASS", "FAIL", "INCONCLUSIVE"}
            BY <1>1, <3>2 DEF RowOf, HelperTypeOK
        <3>4. result'.kind = "report" /\ result'.clean \in BOOLEAN
              /\ result'.results = [x \in Experiments |-> RowOf(Summary.experiments[x])]
              /\ result' = [kind |-> result'.kind, clean |-> result'.clean, results |-> result'.results]
            BY <2>5 DEF ParseReport, Return
        <3>5. result' \in Run!HelperResult
            BY <3>3, <3>4 DEF Run!HelperResult
        <3>6. call' = "returned" /\ UNCHANGED <<stalled, spoilt, rc>>
            BY <2>5 DEF ParseReport, helperVars, Return
        <3> QED BY <1>1, <3>5, <3>6
    <2>6. CASE RefuseOutput
        <3>1. \A s \in {"UNAVAILABLE", "INCONCLUSIVE"} :
                  [kind |-> "protocol_error", clean |-> FALSE, results |-> Run!AllRows(s)] \in Run!HelperResult
            BY DEF Run!HelperResult, Run!AllRows
        <3>2. call' = "returned" /\ UNCHANGED <<stalled, spoilt, rc>> /\ result' \in Run!HelperResult
            BY <2>6, <3>1 DEF RefuseOutput, helperVars, Return
        <3> QED BY <1>1, <3>2
    <2>7. CASE UNCHANGED vars
        <3>1. UNCHANGED <<stalled, spoilt, call, rc, result>>
            BY <2>7 DEF vars, callVars, helperVars
        <3> QED BY <1>1, <3>1
    <2> QED BY <2>1, <2>2, <2>3, <2>4, <2>5, <2>6, <2>7 DEF Next, CallStep
<1> QED BY <1>2, <1>3 DEF TypeOK, HelperTypeOK, CallTypeOK

\* Every step keeps PlaceInv.
LEMMA PlaceStep ==
    HelperTypeOK /\ PlaceInv /\ [Next]_vars => PlaceInv'
<1> SUFFICES ASSUME HelperTypeOK, PlaceInv, [Next]_vars PROVE PlaceInv'
    OBVIOUS
<1> USE DEF PlaceInv, deviceVars, tally, place, output, Working
<1>1. at \in {"meta", "select", "setup", "run", "compare", "copy_back", "report",
              "unavailable", "summary", "cleanup", "ended"}
      /\ current \in Experiments \union {"none"} /\ code \in {-1, 0, 1, 2, Crashed}
    BY DEF HelperTypeOK
<1>2. CASE Silent
    <2>1. CASE NoInstance \/ SetUp \/ SetUpFails
        <3>1. code' = -1 /\ at \in {"select", "setup"} /\ at' \in {"unavailable", "run"}
              /\ UNCHANGED <<device, current, pass>> /\ (at' = "run" => at = "setup")
            BY <1>1, <2>1 DEF NoInstance, SetUp, SetUpFails
        <3> QED BY <1>1, <3>1
    <2>2. CASE RunOnce
        BY <1>1, <2>2, Order DEF RunOnce, Submit, ExitCode
    <2>3. CASE Compared
        <3>1. at' = "copy_back" => current = "vram_pattern" /\ pass' = pass
            BY <2>3 DEF Compared, HelperTypeOK
        <3>2. code' = -1 /\ at = "compare" /\ at' \in {"report", "copy_back", "run"}
              /\ UNCHANGED <<device, current, lost>>
            BY <1>1, <2>3 DEF Compared
        <3> QED BY <1>1, <3>1, <3>2
    <2>4. CASE PassesEnd \/ TimeLimit \/ TemperatureLimit
        BY <1>1, <2>4 DEF PassesEnd, TimeLimit, TemperatureLimit, PassDue, ExitCode
    <2>5. CASE Pass
        BY <1>1, <2>5 DEF Pass, PassDue, Submit, ExitCode
    <2>6. CASE CopyBack
        BY <1>1, <2>6 DEF CopyBack, Submit, ExitCode
    <2>7. CASE CleanUp \/ Crash \/ DriverWarns
        BY <1>1, <2>7 DEF CleanUp, Crash, DriverWarns, Crashed, ExitCode
    <2> QED BY <1>2, <2>1, <2>2, <2>3, <2>4, <2>5, <2>6, <2>7 DEF Silent
<1>3. CASE Idle
    BY <1>3 DEF Idle, ExitCode
<1>4. CASE EmitMeta \/ SelectsNone
    <2>1. code' = -1 /\ at \in {"meta", "select"} /\ at' \in {"select", "unavailable"}
          /\ UNCHANGED <<device, current, lost>>
        BY <1>1, <1>4 DEF EmitMeta, SelectsNone
    <2> QED BY <1>1, <2>1
<1>5. CASE SelectPhysical
    <2>1. device'.card = "target" /\ device' # NoDevice
        BY <1>5, ConstantTypes, SelectedDevice
    <2> QED BY <1>1, <1>5, <2>1 DEF SelectPhysical, ExitCode
<1>6. CASE Mismatch
    BY <1>1, <1>6 DEF Mismatch, ExitCode
<1>7. CASE Report
    BY <1>1, <1>7 DEF Report, EmitExperiment, ExitCode
<1>8. CASE ReportUnavailable
    BY <1>1, <1>8 DEF ReportUnavailable, EmitExperiment, ExitCode
<1>9. CASE EmitSummary
    BY <1>1, <1>9 DEF EmitSummary, ExitCode
<1> QED BY <1>2, <1>3, <1>4, <1>5, <1>6, <1>7, <1>8, <1>9, StepKinds

\* Every step keeps WorkInv.
LEMMA WorkStep ==
    HelperTypeOK /\ PlaceInv /\ WorkInv /\ [Next]_vars => WorkInv'
<1> SUFFICES ASSUME HelperTypeOK, PlaceInv, WorkInv, [Next]_vars PROVE WorkInv'
    OBVIOUS
<1> USE DEF deviceVars, tally, place, output
<1>1. /\ current \in Experiments \union {"none"} /\ lost \in BOOLEAN /\ verified \subseteq Experiments
      /\ status \in [Experiments -> {"PASS", "FAIL", "INCONCLUSIVE", "UNAVAILABLE"}]
      /\ errors \in [Experiments -> Nat] /\ total \in Nat /\ recorded \in Nat
    BY ConstantTypes DEF HelperTypeOK
<1>2. current \in Experiments => current \notin Done
    BY Order DEF Done
\* A step at one experiment that finds nothing new.
<1>3. ASSUME UNCHANGED <<errors, total, recorded, current, device>>, current \in Experiments,
             lost => lost', verified \subseteq verified', at' \in Working,
             at \in Working \union {"setup"}, status' \in [Experiments -> {"PASS", "FAIL", "INCONCLUSIVE", "UNAVAILABLE"}],
             \A x \in Experiments \ {current} : status'[x] = status[x],
             status'[current] # "FAIL",
             at' = "report" /\ ~lost' /\ status'[current] = "PASS" => current \in verified'
      PROVE  WorkInv'
    <2>1. Done' = Done
        BY <1>3 DEF Done
    <2>2. \A x \in Done : x \in Experiments \ {current}
        BY <1>2, <1>3 DEF Done, Before, Experiments
    <2> QED BY <1>3, <2>1, <2>2 DEF WorkInv, Working
\* A step of the process besides its experiments.
<1>4. ASSUME UNCHANGED <<errors, total, recorded, current, status, verified>>, lost => lost',
             device' = NoDevice \/ at' \in {"setup", "unavailable"} => total = 0,
             at' \in {"meta", "select", "setup", "unavailable"} =>
                 at \in {"meta", "select", "setup", "unavailable"},
             at' = "report" => at = "report" /\ lost' = lost
      PROVE  WorkInv'
    <2>1. Done' = Done
        BY <1>4 DEF Done
    <2> QED BY <1>4, <2>1 DEF WorkInv
<1>5. CASE Silent
    <2>1. CASE NoInstance \/ SetUp \/ SetUpFails
        <3>1. /\ UNCHANGED <<errors, total, recorded, current, status, verified, device>>
              /\ at \in {"select", "setup"} /\ at' \in {"run", "unavailable"} /\ (lost => lost')
            BY <2>1 DEF NoInstance, SetUp, SetUpFails, PlaceInv
        <3>2. total = 0
            BY <3>1 DEF WorkInv, PlaceInv
        <3> QED BY <1>4, <3>1, <3>2
    <2>2. CASE RunOnce
        <3>1. at = "run" /\ current \in Experiments
            BY <1>1, <2>2 DEF RunOnce, PlaceInv, Working
        <3>2. UNCHANGED <<errors, total, recorded, current, device, verified>>
            BY <2>2 DEF RunOnce
        <3>3. status[current] # "FAIL"
            BY <1>2, <3>1 DEF WorkInv
        <3>4. CASE lost
            BY <1>1, <1>3, <2>2, <3>1, <3>2, <3>3, <3>4 DEF RunOnce, Working
        <3>5. CASE ~lost
            <4>1. Submit("compare")
                BY <2>2, <3>5 DEF RunOnce
            <4> QED BY <1>1, <1>3, <3>1, <3>2, <3>5, <4>1 DEF Submit, Working
        <3> QED BY <3>4, <3>5
    <2>3. CASE Compared
        <3>1. at = "compare" /\ current \in Experiments
            BY <1>1, <2>3 DEF Compared, PlaceInv, Working
        <3>2. UNCHANGED <<errors, total, recorded, current, device, status, lost>>
            BY <2>3 DEF Compared
        <3>3. status[current] # "FAIL"
            BY <1>2, <3>1 DEF WorkInv
        <3>4. at' \in {"report", "copy_back", "run"} /\ verified \subseteq verified'
              /\ (at' = "report" => current \in verified')
            BY <2>3 DEF Compared
        <3> QED BY <1>1, <1>3, <3>1, <3>2, <3>3, <3>4 DEF Working
    <2>4. CASE PassesEnd
        <3>1. at = "run" /\ at' = "report" /\ current = "vram_pattern" /\ current \in Experiments
              /\ UNCHANGED <<errors, total, recorded, current, device, lost>>
            BY <2>4, Order DEF PassesEnd
        <3>2. ~lost => current \in verified'
            BY <2>4, <3>1 DEF PassesEnd
        <3>3. verified \subseteq verified' /\ status' = [status EXCEPT !["vram_pattern"] = "PASS"]
            BY <2>4 DEF PassesEnd
        <3> QED BY <1>1, <1>3, <3>1, <3>2, <3>3 DEF Working
    <2>5. CASE TimeLimit \/ TemperatureLimit
        <3>1. at = "run" /\ at' = "report" /\ current = "vram_pattern" /\ current \in Experiments
              /\ UNCHANGED <<errors, total, recorded, current, device, lost, verified>>
              /\ status' = [status EXCEPT !["vram_pattern"] = "INCONCLUSIVE"]
            BY <2>5, Order DEF TimeLimit, TemperatureLimit, PassDue
        <3> QED BY <1>1, <1>3, <3>1 DEF Working
    <2>6. CASE Pass \/ CopyBack
        <3>1. at \in {"run", "copy_back"} /\ ~lost /\ current = "vram_pattern" /\ current \in Experiments
              /\ UNCHANGED <<errors, total, recorded, current, device, verified>> /\ Submit("compare")
            BY <2>6, Order DEF Pass, PassDue, CopyBack, PlaceInv
        <3> QED BY <1>1, <1>3, <3>1 DEF Submit, Working
    <2>7. CASE CleanUp \/ Crash \/ DriverWarns
        <3>1. /\ UNCHANGED <<errors, total, recorded, current, status, verified, device, lost>>
              /\ at' = "ended" \/ at' = at
            BY <2>7 DEF CleanUp, Crash, DriverWarns
        <3>2. device' = NoDevice \/ at' \in {"setup", "unavailable"} => total = 0
            BY <3>1 DEF WorkInv
        <3> QED BY <1>4, <3>1, <3>2
    <2> QED BY <1>5, <2>1, <2>2, <2>3, <2>4, <2>5, <2>6, <2>7 DEF Silent
<1>6. CASE Idle
    <2>1. UNCHANGED <<errors, total, recorded, current, status, verified, device, lost, at>>
        BY <1>6 DEF Idle
    <2>2. device' = NoDevice \/ at' \in {"setup", "unavailable"} => total = 0
        BY <2>1 DEF WorkInv
    <2> QED BY <1>4, <2>1, <2>2
<1>7. CASE EmitMeta \/ SelectsNone \/ SelectPhysical
    <2>1. /\ UNCHANGED <<errors, total, recorded, current, status, verified, lost>>
          /\ at \in {"meta", "select"} /\ at' \in {"select", "setup", "unavailable"}
        BY <1>7 DEF EmitMeta, SelectsNone, SelectPhysical
    <2>2. total = 0
        BY <2>1 DEF WorkInv, PlaceInv
    <2> QED BY <1>4, <2>1, <2>2
<1>8. CASE EmitSummary
    <2>1. /\ UNCHANGED <<errors, total, recorded, current, status, verified, lost, device>>
          /\ at' = "cleanup"
        BY <1>8 DEF EmitSummary
    <2>2. device' = NoDevice => total = 0
        BY <2>1 DEF WorkInv
    <2> QED BY <1>4, <2>1, <2>2
<1>9. CASE Mismatch
    <2>1. /\ at = "compare" /\ at' = at /\ current \in Experiments /\ device # NoDevice
          /\ UNCHANGED <<current, status, verified, lost, device>>
          /\ errors' = [errors EXCEPT ![current] = @ + 1] /\ total' = total + 1
          /\ recorded' \in {recorded, recorded + 1}
        BY <1>1, <1>9 DEF Mismatch, PlaceInv, Working
    <2>2. total' = errors'["host_transfer"] + errors'["gpu_local_copy"]
                   + errors'["compute_kat"] + errors'["vram_pattern"]
        BY <1>1, <2>1 DEF WorkInv, Experiments
    <2>3. recorded' <= total'
        BY <1>1, <2>1 DEF WorkInv
    <2>4. Done' = Done /\ current \notin Done /\ Done \subseteq Experiments
        BY <1>2, <2>1 DEF Done, Before, Experiments
    <2>5. \A x \in Experiments \ {current} : errors'[x] = errors[x]
        BY <1>1, <2>1
    <2>6. \A x \in Experiments \ Done :
              status'[x] # "FAIL" /\ (x # current => status'[x] = "UNAVAILABLE" /\ errors'[x] = 0)
        BY <2>1, <2>5 DEF WorkInv
    <2>7. \A x \in Done :
              /\ status'[x] = "PASS" => x \in verified' /\ errors'[x] = 0
              /\ ~lost' => (errors'[x] > 0 <=> status'[x] = "FAIL")
        BY <2>1, <2>4, <2>5 DEF WorkInv
    <2> QED BY <2>1, <2>2, <2>3, <2>4, <2>6, <2>7 DEF WorkInv
<1>10. CASE Report
    <2>1. /\ at = "report" /\ current \in Experiments /\ device # NoDevice
          /\ at' \in {"run", "summary"}
          /\ UNCHANGED <<errors, total, recorded, verified, lost, device>>
          /\ status' = [status EXCEPT ![current] = Verdict]
          /\ current' = AfterExperiment[current]
        BY <1>1, <1>10 DEF Report, EmitExperiment, PlaceInv, Working
    <2>2. Done' = Done \union {current} /\ current \notin Done /\ Done \subseteq Experiments
        BY <1>2, <2>1, Order DEF Done, Before, Experiments
    <2>3. status'[current] = Verdict /\ \A x \in Experiments \ {current} : status'[x] = status[x]
        BY <1>1, <2>1
    <2>4. /\ Verdict = "PASS" => current \in verified /\ errors[current] = 0
          /\ ~lost => (errors[current] > 0 <=> Verdict = "FAIL")
        <3>1. status[current] # "FAIL" /\ (~lost /\ status[current] = "PASS" => current \in verified)
            BY <2>1, <2>2 DEF WorkInv
        <3>2. errors[current] \in Nat
            BY <1>1, <2>1
        <3> QED BY <3>1, <3>2 DEF Verdict
    <2>5. \A x \in Experiments \ Done' :
              status'[x] # "FAIL" /\ status'[x] = "UNAVAILABLE" /\ errors'[x] = 0
        BY <2>1, <2>2, <2>3 DEF WorkInv
    <2>6. \A x \in Done' :
              /\ status'[x] = "PASS" => x \in verified' /\ errors'[x] = 0
              /\ ~lost' => (errors'[x] > 0 <=> status'[x] = "FAIL")
        BY <2>1, <2>2, <2>3, <2>4 DEF WorkInv
    <2> QED BY <2>1, <2>5, <2>6 DEF WorkInv
<1>11. CASE ReportUnavailable
    <2>1. /\ at = "unavailable" /\ current \in Experiments /\ at' \in {"unavailable", "summary"}
          /\ UNCHANGED <<errors, total, recorded, status, verified, lost, device>>
          /\ current' = AfterExperiment[current]
        BY <1>1, <1>11 DEF ReportUnavailable, EmitExperiment, PlaceInv
    <2>2. total = 0 /\ \A x \in Experiments : status[x] = "UNAVAILABLE"
        BY <2>1 DEF WorkInv
    <2>3. \A x \in Experiments : errors[x] = 0
        <3>1. errors["host_transfer"] \in Nat /\ errors["gpu_local_copy"] \in Nat
              /\ errors["compute_kat"] \in Nat /\ errors["vram_pattern"] \in Nat
            BY <1>1 DEF Experiments
        <3>2. \A x \in Experiments : errors[x] \in Nat /\ errors[x] <= total
            BY <1>1, <3>1 DEF WorkInv, Experiments
        <3> QED BY <2>2, <3>2
    <2>4. Done' = Done \union {current} /\ Done \subseteq Experiments
        BY <2>1, Order DEF Done, Before, Experiments
    <2> QED BY <2>1, <2>2, <2>3, <2>4 DEF WorkInv
<1> QED BY <1>5, <1>6, <1>7, <1>8, <1>9, <1>10, <1>11, StepKinds

-----------------------------------------------------------------------------
(* The output.                                                             *)

\* Between its summary and its end the process changes nothing that it told.
LEMMA FrozenSummary ==
    ASSUME PlaceInv, HelperTypeOK, at \in {"cleanup", "ended"}, [Next]_vars
    PROVE  UNCHANGED <<stream, SummaryLine, status, current, recorded, device, enumerated>>
           /\ at' \in {"cleanup", "ended"}
<1> USE DEF deviceVars, tally, place, output
<1>1. CleanUp \/ Crash \/ DriverWarns \/ Idle
    <2>1. at = "cleanup" => current = "none"
        BY DEF PlaceInv
    <2> QED BY <2>1, StepKinds DEF Silent, NoInstance, SetUp, SetUpFails, RunOnce, Compared, PassesEnd,
           TimeLimit, TemperatureLimit, PassDue, Pass, CopyBack, EmitMeta, SelectPhysical, SelectsNone,
           Mismatch, Report, ReportUnavailable, EmitSummary
<1>2. UNCHANGED <<stream, status, current, lost, total, recorded, temperature, device, enumerated>>
      /\ at' \in {at, "ended"}
    BY <1>1 DEF CleanUp, Crash, DriverWarns, Idle
<1> QED BY <1>2 DEF SummaryLine, SummaryStatus

\* Every step keeps StreamInv.
LEMMA StreamStep ==
    TypeOK /\ PlaceInv /\ WorkInv /\ StreamInv /\ [Next]_vars => StreamInv'
<1> SUFFICES ASSUME TypeOK, PlaceInv, WorkInv, StreamInv, [Next]_vars PROVE StreamInv'
    OBVIOUS
<1> USE DEF deviceVars, tally, place, output
<1>1. HelperTypeOK
    BY TypeSplit
<1>2. stream \in Seq(Event) /\ current \in Experiments \union {"none"} /\ recorded \in Nat
    BY <1>1, ConstantTypes DEF StreamInv, HelperTypeOK
<1>3. current \in Experiments => current \notin Done
    BY Order DEF Done
\* Before the end there is no summary yet.
<1>4. at \notin {"cleanup", "ended"} => Written("summary") = {}
    BY DEF StreamInv
\* A step that writes nothing.
<1>5. ASSUME UNCHANGED <<stream, recorded, enumerated, device, current>>,
             \A x \in Done : status'[x] = status[x],
             at \in {"cleanup", "ended"} => at' \in {"cleanup", "ended"} /\ UNCHANGED SummaryLine
      PROVE  StreamInv'
    <2>1. \A t : Written(t)' = Written(t) /\ Count(t)' = Count(t)
        BY <1>5, NoLine
    <2>2. Done' = Done
        BY <1>5 DEF Done
    <2>3. \A i \in Written("experiment") :
              stream[i].name \in Done' /\ stream[i].status = status'[stream[i].name]
        BY <1>5, <2>2 DEF StreamInv
    <2>4. \A i \in Written("summary") : at' \in {"cleanup", "ended"} /\ stream[i] = SummaryLine'
        BY <1>4, <1>5 DEF StreamInv
    <2> QED BY <1>5, <2>1, <2>3, <2>4 DEF StreamInv
<1>6. CASE at \in {"cleanup", "ended"}
    BY <1>1, <1>5, <1>6, FrozenSummary
<1>7. CASE Silent /\ at \notin {"cleanup", "ended"}
    <2>1. UNCHANGED <<stream, recorded, enumerated, device, current>>
        BY <1>7 DEF Silent, NoInstance, SetUp, SetUpFails, RunOnce, Compared, PassesEnd, TimeLimit,
           TemperatureLimit, Pass, CopyBack, CleanUp, Crash, DriverWarns
    <2>2. Done \subseteq Experiments \ {current}
        BY <1>2, <1>3 DEF Done, Before, Experiments
    <2>3. \A x \in Experiments \ {current} : status'[x] = status[x]
        BY <1>1, <1>7 DEF Silent, NoInstance, SetUp, SetUpFails, RunOnce, Submit, Compared, PassesEnd, TimeLimit,
           TemperatureLimit, PassDue, Pass, CopyBack, CleanUp, Crash, DriverWarns, HelperTypeOK
    <2> QED BY <1>5, <1>7, <2>1, <2>2, <2>3
<1>8. CASE Idle
    BY <1>5, <1>8 DEF Idle, SummaryLine, SummaryStatus
<1>9. CASE EmitMeta /\ at \notin {"cleanup", "ended"}
    <2>1. /\ Emit([type |-> "meta"]) /\ [type |-> "meta"] \in Event
          /\ UNCHANGED <<status, current, recorded, device, enumerated>>
        BY <1>9, EventTypes DEF EmitMeta
    <2>2. \A t \in Kinds \ {"meta"} : Written(t)' = Written(t) /\ Count(t)' = Count(t)
        BY <1>2, <2>1, EmitLine DEF Kinds
    <2>3. stream' \in Seq(Event) /\ \A i \in DOMAIN stream : stream'[i] = stream[i]
        BY <1>2, <2>1, EmitLine
    <2>4. \A t : Written(t) \subseteq DOMAIN stream
        BY DEF Written
    <2>5. Done' = Done
        BY <2>1 DEF Done
    <2> QED BY <1>4, <1>9, <2>1, <2>2, <2>3, <2>4, <2>5 DEF StreamInv, Kinds
<1>10. CASE (SelectPhysical \/ SelectsNone) /\ at \notin {"cleanup", "ended"}
    <2>1. PICK exact \in BOOLEAN :
              /\ Emit(Identity(exact, "target"))
              /\ UNCHANGED <<status, current, recorded, enumerated>>
              /\ exact => \E d \in enumerated : d.card = "target"
              /\ ~exact => UNCHANGED device
        <3>1. CASE SelectPhysical
            <4>1. device' \in Matches
                BY <1>1, <3>1, ConstantTypes, SelectedDevice
            <4> QED BY <3>1, <4>1 DEF SelectPhysical, Matches
        <3>2. CASE SelectsNone
            BY <3>2 DEF SelectsNone
        <3> QED BY <1>10, <3>1, <3>2
    <2> DEFINE e == Identity(exact, "target")
    <2>2. e \in Event /\ e.type = "identity" /\ e.exact_match = exact
        BY EventTypes DEF Identity
    <2>3. \A t \in Kinds \ {"identity"} : Written(t)' = Written(t) /\ Count(t)' = Count(t)
        BY <1>2, <2>1, <2>2, EmitLine DEF Kinds
    <2>4. stream' \in Seq(Event) /\ \A i \in DOMAIN stream : stream'[i] = stream[i]
        BY <1>2, <2>1, <2>2, EmitLine
    <2>5. PICK n : stream'[n] = e /\ Written("identity")' = Written("identity") \union {n}
        BY <1>2, <2>1, <2>2, EmitLine
    <2>6. \A t : Written(t) \subseteq DOMAIN stream
        BY DEF Written
    <2>7. Done' = Done
        BY <2>1 DEF Done
    <2> HIDE DEF e
    <2>8. /\ \A i \in Written("identity")' :
                stream'[i].exact_match => \E d \in enumerated' : d.card = "target"
          /\ device' # NoDevice => \E i \in Written("identity")' : stream'[i].exact_match
        BY <2>1, <2>2, <2>4, <2>5, <2>6 DEF StreamInv
    <2> QED BY <1>4, <1>10, <2>1, <2>3, <2>4, <2>6, <2>7, <2>8 DEF StreamInv, Kinds
<1>11. CASE Mismatch /\ at \notin {"cleanup", "ended"}
    <2>1. /\ UNCHANGED <<status, current, device, enumerated, at>> /\ current \in Experiments
          /\ \/ UNCHANGED <<recorded, stream>>
             \/ recorded' = recorded + 1 /\ Emit([type |-> "error", experiment |-> current])
        BY <1>2, <1>11 DEF Mismatch, PlaceInv, Working
    <2>2. CASE UNCHANGED <<recorded, stream>>
        BY <1>5, <1>11, <2>1, <2>2
    <2>3. CASE recorded' = recorded + 1 /\ Emit([type |-> "error", experiment |-> current])
        <3> DEFINE e == [type |-> "error", experiment |-> current]
        <3>1. e \in Event /\ e.type = "error"
            BY <2>1, EventTypes
        <3>2. \A t \in Kinds \ {"error"} : Written(t)' = Written(t) /\ Count(t)' = Count(t)
            BY <1>2, <2>3, <3>1, EmitLine DEF Kinds
        <3>3. Count("error")' = Count("error") + 1
            BY <1>2, <2>3, <3>1, EmitLine
        <3>4. stream' \in Seq(Event) /\ \A i \in DOMAIN stream : stream'[i] = stream[i]
            BY <1>2, <2>3, <3>1, EmitLine
        <3>5. \A t : Written(t) \subseteq DOMAIN stream
            BY DEF Written
        <3>6. Done' = Done
            BY <2>1 DEF Done
        <3> QED BY <1>4, <1>11, <2>1, <2>3, <3>2, <3>3, <3>4, <3>5, <3>6 DEF StreamInv, Kinds
    <2> QED BY <2>1, <2>2, <2>3
<1>12. CASE (Report \/ ReportUnavailable) /\ at \notin {"cleanup", "ended"}
    <2>1. PICK s \in {"PASS", "FAIL", "INCONCLUSIVE", "UNAVAILABLE"} :
              /\ Emit([type |-> "experiment", name |-> current, status |-> s])
              /\ UNCHANGED <<recorded, device, enumerated>> /\ current \in Experiments
              /\ current' = AfterExperiment[current]
              /\ status'[current] = s /\ \A x \in Experiments \ {current} : status'[x] = status[x]
        <3>1. CASE Report
            <4>1. current \in Experiments
                BY <1>2, <3>1 DEF Report, PlaceInv, Working
            <4>2. Verdict \in {"PASS", "FAIL", "INCONCLUSIVE", "UNAVAILABLE"}
                BY <1>1, <4>1, VerdictType
            <4>3. status' = [status EXCEPT ![current] = Verdict] /\ EmitExperiment(Verdict)
                  /\ UNCHANGED <<recorded, device, enumerated>>
                BY <3>1 DEF Report
            <4> QED BY <1>1, <4>1, <4>2, <4>3 DEF EmitExperiment, HelperTypeOK
        <3>2. CASE ReportUnavailable
            <4>1. current \in Experiments
                BY <1>2, <3>2 DEF ReportUnavailable, PlaceInv
            <4>2. EmitExperiment(status[current]) /\ UNCHANGED <<status, recorded, device, enumerated>>
                BY <3>2 DEF ReportUnavailable
            <4> QED BY <1>1, <4>1, <4>2 DEF EmitExperiment, HelperTypeOK
        <3> QED BY <1>12, <3>1, <3>2
    <2> DEFINE e == [type |-> "experiment", name |-> current, status |-> s]
    <2>2. e \in Event /\ e.type = "experiment" /\ e.name = current /\ e.status = s
        BY <2>1, EventTypes
    <2>3. Emit(e)
        BY <2>1
    <2> HIDE DEF e
    <2>4. \A t \in Kinds \ {"experiment"} : Written(t)' = Written(t) /\ Count(t)' = Count(t)
        BY <1>2, <2>2, <2>3, EmitLine DEF Kinds
    <2>5. stream' \in Seq(Event) /\ \A i \in DOMAIN stream : stream'[i] = stream[i]
        BY <1>2, <2>2, <2>3, EmitLine
    <2>6. PICK n : stream'[n] = e /\ Written("experiment")' = Written("experiment") \union {n}
        BY <1>2, <2>2, <2>3, EmitLine
    <2>7. \A t : Written(t) \subseteq DOMAIN stream
        BY DEF Written
    <2>8. Done' = Done \union {current} /\ current \notin Done /\ Done \subseteq Experiments
        BY <2>1, Order DEF Done, Before, Experiments
    <2>9. \A i \in Written("experiment")' :
              stream'[i].name \in Done' /\ stream'[i].status = status'[stream'[i].name]
        <3> SUFFICES ASSUME NEW i \in Written("experiment")'
                     PROVE  stream'[i].name \in Done' /\ stream'[i].status = status'[stream'[i].name]
            OBVIOUS
        <3>1. CASE i = n
            BY <2>1, <2>2, <2>6, <2>8, <3>1
        <3>2. CASE i \in Written("experiment")
            <4>1. stream'[i] = stream[i] /\ stream[i].name \in Done
                  /\ stream[i].status = status[stream[i].name]
                BY <2>5, <2>7, <3>2 DEF StreamInv
            <4> QED BY <2>1, <2>8, <4>1
        <3> QED BY <2>6, <3>1, <3>2
    <2> QED BY <1>4, <1>12, <2>1, <2>4, <2>5, <2>7, <2>9 DEF StreamInv, Kinds
<1>13. CASE EmitSummary /\ at \notin {"cleanup", "ended"}
    <2>1. /\ Emit(SummaryLine) /\ at' = "cleanup"
          /\ UNCHANGED <<status, current, recorded, device, enumerated, lost, total, temperature>>
        BY <1>13 DEF EmitSummary, SummaryLine
    <2>2. SummaryLine' = SummaryLine /\ SummaryLine \in Event /\ SummaryLine.type = "summary"
        BY <2>1, EventTypes DEF SummaryLine, SummaryStatus
    <2>3. \A t \in Kinds \ {"summary"} : Written(t)' = Written(t) /\ Count(t)' = Count(t)
        BY <1>2, <2>1, <2>2, EmitLine DEF Kinds
    <2>4. stream' \in Seq(Event) /\ \A i \in DOMAIN stream : stream'[i] = stream[i]
        BY <1>2, <2>1, <2>2, EmitLine
    <2>5. PICK n : stream'[n] = SummaryLine /\ Written("summary")' = Written("summary") \union {n}
        BY <1>2, <2>1, <2>2, EmitLine
    <2>6. \A t : Written(t) \subseteq DOMAIN stream
        BY DEF Written
    <2>7. Done' = Done
        BY <2>1 DEF Done
    <2>8. \A i \in Written("summary")' : stream'[i] = SummaryLine'
        BY <1>4, <1>13, <2>2, <2>5
    <2> QED BY <2>1, <2>3, <2>4, <2>6, <2>7, <2>8 DEF StreamInv, Kinds
<1> QED BY <1>6, <1>7, <1>8, <1>9, <1>10, <1>11, <1>12, <1>13, StepKinds

\* What is written is finitely much.
LEMMA WrittenFinite ==
    ASSUME stream \in Seq(Event), NEW t
    PROVE  IsFiniteSet(Written(t)) /\ Written(t) \subseteq DOMAIN stream
           /\ (Count(t) = 0 => Written(t) = {})
<1>1. DOMAIN stream = 1..Len(stream) /\ Len(stream) \in Nat
    OBVIOUS
<1>2. IsFiniteSet(1..Len(stream))
    BY <1>1, FS_Interval
<1>3. Written(t) \subseteq DOMAIN stream
    BY DEF Written
<1>4. IsFiniteSet(Written(t))
    BY <1>1, <1>2, <1>3, FS_Subset
<1> QED BY <1>3, <1>4, FS_EmptySet DEF Count

\* Every step keeps LinesInv.
LEMMA LinesStep ==
    TypeOK /\ PlaceInv /\ StreamInv /\ LinesInv /\ [Next]_vars => LinesInv'
<1> SUFFICES ASSUME TypeOK, PlaceInv, StreamInv, LinesInv, [Next]_vars, code' # Crashed PROVE LinesInv'
    BY DEF LinesInv
<1> USE DEF deviceVars, tally, place, output
<1>1. HelperTypeOK /\ stream \in Seq(Event) /\ current \in Experiments \union {"none"}
    BY TypeSplit DEF StreamInv, HelperTypeOK
<1>2. \A t : Written(t) \subseteq DOMAIN stream
    BY DEF Written
\* A step that writes nothing.
<1>3. ASSUME UNCHANGED <<stream, current, device>>, code # Crashed, at' = "meta" <=> at = "meta",
             at' \in {"meta", "select"} => at \in {"meta", "select"},
             at' \in {"cleanup", "ended"} <=> at \in {"cleanup", "ended"}
      PROVE  LinesInv'
    <2>1. \A t : Written(t)' = Written(t) /\ Count(t)' = Count(t)
        BY <1>3, NoLine
    <2>2. Done' = Done
        BY <1>3 DEF Done
    <2> QED BY <1>3, <2>1, <2>2 DEF LinesInv
<1>4. CASE at \in {"cleanup", "ended"}
    <2>1. UNCHANGED <<stream, current, device>> /\ at' \in {"cleanup", "ended"}
        BY <1>1, <1>4, FrozenSummary
    <2>2. code # Crashed
        <3>1. CASE at = "cleanup"
            BY <3>1 DEF PlaceInv, Crashed
        <3>2. CASE at = "ended"
            BY <3>2, StepKinds DEF Silent, NoInstance, SetUp, SetUpFails, RunOnce, Compared, PassesEnd,
               TimeLimit, TemperatureLimit, PassDue, Pass, CopyBack, CleanUp, Crash, DriverWarns, Idle,
               EmitMeta, SelectPhysical, SelectsNone, Mismatch, Report, ReportUnavailable, EmitSummary
        <3> QED BY <1>4, <3>1, <3>2
    <2> QED BY <1>3, <1>4, <2>1, <2>2
<1>5. CASE Silent /\ at \notin {"cleanup", "ended"}
    <2>1. code # Crashed
        BY <1>5 DEF PlaceInv, Crashed
    <2>2. UNCHANGED <<stream, current, device>> /\ (at' = at \/
              (at \notin {"meta", "cleanup", "ended"} /\ at' \notin {"meta", "select", "cleanup", "ended"}))
        BY <1>5 DEF Silent, NoInstance, SetUp, SetUpFails, RunOnce, Submit, Compared, PassesEnd, TimeLimit,
           TemperatureLimit, PassDue, Pass, CopyBack, CleanUp, Crash, DriverWarns
    <2> QED BY <1>3, <1>5, <2>1, <2>2
<1>6. CASE Idle
    BY <1>3, <1>6 DEF Idle
<1>7. CASE EmitMeta
    <2>1. /\ Emit([type |-> "meta"]) /\ [type |-> "meta"] \in Event /\ code # Crashed
          /\ at = "meta" /\ at' = "select" /\ device' = NoDevice /\ UNCHANGED current
        BY <1>7, EventTypes DEF EmitMeta, PlaceInv, Crashed
    <2>2. \A t \in Kinds \ {"meta"} : Written(t)' = Written(t) /\ Count(t)' = Count(t)
        BY <1>1, <2>1, EmitLine DEF Kinds
    <2>3. Count("meta")' = Count("meta") + 1 /\ \A i \in DOMAIN stream : stream'[i] = stream[i]
        BY <1>1, <2>1, EmitLine
    <2>4. Done' = Done
        BY <2>1 DEF Done
    <2>5. {stream'[i].name : i \in Written("experiment")} = {stream[i].name : i \in Written("experiment")}
        BY <1>2, <2>3
    <2> QED BY <2>1, <2>2, <2>3, <2>4, <2>5 DEF LinesInv, Kinds
<1>8. CASE SelectPhysical \/ SelectsNone
    <2>1. PICK exact \in BOOLEAN :
              /\ Emit(Identity(exact, "target")) /\ code # Crashed
              /\ at = "select" /\ at' \in {"setup", "unavailable"} /\ UNCHANGED current
              /\ ~exact => device' = NoDevice
        BY <1>8 DEF SelectPhysical, SelectsNone, PlaceInv, Crashed
    <2> DEFINE e == Identity(exact, "target")
    <2>2. e \in Event /\ e.type = "identity" /\ e.exact_match = exact /\ Emit(e)
        BY <2>1, EventTypes DEF Identity
    <2> HIDE DEF e
    <2>3. \A t \in Kinds \ {"identity"} : Written(t)' = Written(t) /\ Count(t)' = Count(t)
        BY <1>1, <2>2, EmitLine DEF Kinds
    <2>4. Count("identity")' = Count("identity") + 1 /\ \A i \in DOMAIN stream : stream'[i] = stream[i]
        BY <1>1, <2>2, EmitLine
    <2>5. PICK n : stream'[n] = e /\ Written("identity")' = Written("identity") \union {n}
        BY <1>1, <2>2, EmitLine
    <2>6. Count("identity") = 0 /\ Written("identity") = {}
        BY <1>1, <2>1, WrittenFinite DEF LinesInv
    <2>7. Count("identity")' = 1 /\ \A i \in Written("identity")' : stream'[i].exact_match = exact
        BY <2>2, <2>4, <2>5, <2>6
    <2>8. Done' = Done
        BY <2>1 DEF Done
    <2>9. {stream'[i].name : i \in Written("experiment")} = {stream[i].name : i \in Written("experiment")}
        BY <1>2, <2>4
    <2> QED BY <2>1, <2>3, <2>7, <2>8, <2>9 DEF LinesInv, Kinds
<1>9. CASE Mismatch
    <2>1. /\ UNCHANGED <<current, device, at>> /\ current \in Experiments /\ code # Crashed
          /\ UNCHANGED stream \/ Emit([type |-> "error", experiment |-> current])
        BY <1>1, <1>9 DEF Mismatch, PlaceInv, Working, Crashed
    <2>2. CASE UNCHANGED stream
        BY <1>3, <2>1, <2>2
    <2>3. CASE Emit([type |-> "error", experiment |-> current])
        <3> DEFINE e == [type |-> "error", experiment |-> current]
        <3>1. e \in Event /\ e.type = "error"
            BY <2>1, EventTypes
        <3>2. \A t \in Kinds \ {"error"} : Written(t)' = Written(t) /\ Count(t)' = Count(t)
            BY <1>1, <2>3, <3>1, EmitLine DEF Kinds
        <3>3. \A i \in DOMAIN stream : stream'[i] = stream[i]
            BY <1>1, <2>3, <3>1, EmitLine
        <3>4. Done' = Done
            BY <2>1 DEF Done
        <3>5. {stream'[i].name : i \in Written("experiment")} = {stream[i].name : i \in Written("experiment")}
            BY <1>2, <3>3
        <3>6. \A i \in Written("identity") : stream'[i] = stream[i]
            BY <1>2, <3>3
        <3> QED BY <2>1, <3>2, <3>4, <3>5, <3>6 DEF LinesInv, Kinds
    <2> QED BY <2>1, <2>2, <2>3
<1>10. CASE Report \/ ReportUnavailable
    <2>1. PICK s \in {"PASS", "FAIL", "INCONCLUSIVE", "UNAVAILABLE"} :
              /\ Emit([type |-> "experiment", name |-> current, status |-> s])
              /\ current' = AfterExperiment[current]
        BY <1>1, <1>10, VerdictType
           DEF Report, ReportUnavailable, EmitExperiment, PlaceInv, Working, HelperTypeOK
    <2>2. /\ current \in Experiments /\ code # Crashed /\ UNCHANGED device
          /\ at \notin {"meta", "select", "cleanup", "ended"}
          /\ at' \notin {"meta", "select", "cleanup", "ended"}
        BY <1>1, <1>10 DEF Report, ReportUnavailable, PlaceInv, Working, Crashed
    <2> DEFINE e == [type |-> "experiment", name |-> current, status |-> s]
    <2>3. e \in Event /\ e.type = "experiment" /\ e.name = current /\ Emit(e)
        BY <2>1, <2>2, EventTypes
    <2> HIDE DEF e
    <2>4. \A t \in Kinds \ {"experiment"} : Written(t)' = Written(t) /\ Count(t)' = Count(t)
        BY <1>1, <2>3, EmitLine DEF Kinds
    <2>5. Count("experiment")' = Count("experiment") + 1
          /\ \A i \in DOMAIN stream : stream'[i] = stream[i]
        BY <1>1, <2>3, EmitLine
    <2>6. PICK n : stream'[n] = e /\ Written("experiment")' = Written("experiment") \union {n}
        BY <1>1, <2>3, EmitLine
    <2>7. Done' = Done \union {current} /\ Rank[current'] = Rank[current] + 1
        BY <2>1, <2>2, Order DEF Done
    <2>8. \A i \in Written("experiment") \union Written("identity") : stream'[i] = stream[i]
        BY <1>2, <2>5
    <2>9. {stream'[i].name : i \in Written("experiment")'} = Done'
        <3>1. {stream[i].name : i \in Written("experiment")} = Done
            BY <2>2 DEF LinesInv
        <3>2. {stream'[i].name : i \in Written("experiment")} = {stream[i].name : i \in Written("experiment")}
            BY <2>8
        <3>3. {stream'[i].name : i \in Written("experiment")'}
              = {stream'[i].name : i \in Written("experiment")} \union {stream'[n].name}
            BY <2>6
        <3> QED BY <2>3, <2>6, <2>7, <3>1, <3>2, <3>3
    <2> QED BY <2>2, <2>4, <2>5, <2>7, <2>8, <2>9 DEF LinesInv, Kinds
<1>11. CASE EmitSummary /\ at \notin {"cleanup", "ended"}
    <2>1. /\ Emit(SummaryLine) /\ at = "summary" /\ at' = "cleanup" /\ code # Crashed
          /\ UNCHANGED <<current, device>>
        BY <1>11 DEF EmitSummary, SummaryLine, PlaceInv, Crashed
    <2>2. SummaryLine \in Event /\ SummaryLine.type = "summary"
        BY EventTypes
    <2>3. \A t \in Kinds \ {"summary"} : Written(t)' = Written(t) /\ Count(t)' = Count(t)
        BY <1>1, <2>1, <2>2, EmitLine DEF Kinds
    <2>4. Count("summary")' = Count("summary") + 1 /\ \A i \in DOMAIN stream : stream'[i] = stream[i]
        BY <1>1, <2>1, <2>2, EmitLine
    <2>5. Done' = Done
        BY <2>1 DEF Done
    <2>6. {stream'[i].name : i \in Written("experiment")} = {stream[i].name : i \in Written("experiment")}
        BY <1>2, <2>4
    <2>7. \A i \in Written("identity") : stream'[i] = stream[i]
        BY <1>2, <2>4
    <2> QED BY <2>1, <2>3, <2>4, <2>5, <2>6, <2>7 DEF LinesInv, Kinds
<1> QED BY <1>4, <1>5, <1>6, <1>7, <1>8, <1>9, <1>10, <1>11, StepKinds

-----------------------------------------------------------------------------
(* The caller.                                                             *)

\* Whether the output is well-formed depends on nothing else.
LEMMA OutputDecides ==
    ASSUME UNCHANGED <<received, spoilt, o>>
    PROVE  WellFormed' = WellFormed /\ Summary' = Summary
BY DEF WellFormed, Once, Lines, The, Summary, RowsAgree

\* Every step keeps CallInv.
LEMMA CallInvStep ==
    TypeOK /\ CallInv /\ [Next]_vars => CallInv'
<1> SUFFICES ASSUME TypeOK, CallInv, [Next]_vars PROVE CallInv'
    OBVIOUS
<1>1. CASE HelperStep
    BY <1>1 DEF HelperStep, callVars, CallInv
<1>2. CASE CallStep \/ UNCHANGED vars
    <2>1. UNCHANGED <<stream, at, code, o>>
        BY <1>2 DEF CallStep, HelperMissing, HelperNotExecuted, StartHelper, HelperEnds, Kill, ParseReport,
           RefuseOutput, LogRaises, vars, helperVars, deviceVars, output
    <2>2. CASE HelperMissing
        BY <2>1, <2>2 DEF HelperMissing, Return, CallInv
    <2>3. CASE HelperNotExecuted \/ StartHelper
        BY <2>1, <2>3 DEF HelperNotExecuted, StartHelper, CallInv
    <2>4. CASE HelperEnds \/ Kill
        BY <2>1, <2>4 DEF HelperEnds, Kill, CallInv
    <2>5. CASE ParseReport
        <3>1. WellFormed' = WellFormed /\ Summary' = Summary
            BY <2>1, <2>5, OutputDecides DEF ParseReport
        <3>2. /\ call = "parsing" /\ call' = "returned" /\ WellFormed /\ UNCHANGED <<received, rc>>
              /\ result'.kind = "report"
              /\ result'.results = [x \in Experiments |-> RowOf(Summary.experiments[x])]
            BY <2>5 DEF ParseReport, Return
        <3> QED BY <2>1, <3>1, <3>2 DEF CallInv
    <2>6. CASE RefuseOutput
        <3>1. WellFormed' = WellFormed /\ Summary' = Summary
            BY <2>1, <2>6, OutputDecides DEF RefuseOutput
        <3>2. /\ call = "parsing" /\ call' = "returned" /\ ~WellFormed /\ UNCHANGED <<received, rc>>
              /\ result'.kind = "protocol_error"
            BY <2>6 DEF RefuseOutput, Return
        <3> QED BY <2>1, <3>1, <3>2 DEF CallInv
    <2>7. CASE LogRaises
        BY <2>1, <2>7 DEF LogRaises, CallInv
    <2>8. CASE UNCHANGED vars
        <3>1. UNCHANGED <<call, received, spoilt, rc, result>>
            BY <2>8 DEF vars, callVars
        <3>2. WellFormed' = WellFormed /\ Summary' = Summary
            BY <2>1, <3>1, OutputDecides
        <3> QED BY <2>1, <3>1, <3>2 DEF CallInv
    <2> QED BY <1>2, <2>2, <2>3, <2>4, <2>5, <2>6, <2>7, <2>8 DEF CallStep
<1> QED BY <1>1, <1>2 DEF Next

-----------------------------------------------------------------------------
(* The theorems.                                                           *)

\* A call starts within the invariant.
LEMMA InitInv == ProtocolInit => IInv
<1> SUFFICES ASSUME ProtocolInit PROVE IInv
    OBVIOUS
<1> USE DEF ProtocolInit, Init
<1>1. TypeOK
    <2>1. Run!NoHelper \in Run!HelperResult
        BY DEF Run!NoHelper, Run!HelperResult, Run!AllRows
    <2>2. HelperTypeOK
        <3>1. /\ o \in Options /\ o.max_errors \in Nat /\ 0 \in 0..o.max_errors
              /\ 0 \in 0..MaxMismatches /\ 0 \in 0..Passes
            BY ConstantTypes, MaxMismatchesAssumption, PassesAssumption, OptionsAssumption
        <3>2. status \in [Experiments -> {"PASS", "FAIL", "INCONCLUSIVE", "UNAVAILABLE"}]
            OBVIOUS
        <3>3. errors \in [Experiments -> 0..MaxMismatches]
            BY <3>1
        <3>4. current \in Experiments
            BY DEF Experiments
        <3>5. reread \in 0..1 /\ verified \subseteq Experiments
            OBVIOUS
        <3> HIDE DEF Init
        <3> QED BY <3>1, <3>2, <3>3, <3>4, <3>5 DEF HelperTypeOK, Init
    <2>3. CallTypeOK
        BY <2>1 DEF CallTypeOK
    <2> QED BY <2>2, <2>3, TypeSplit
<1>2. Done = {}
    BY Order DEF Done
<1>3. PlaceInv
    BY Order DEF PlaceInv, Working
<1>4. WorkInv
    BY <1>2, Order DEF WorkInv, Experiments
<1>5. stream \in Seq(Event) /\ \A t : Written(t) = {} /\ Count(t) = 0
    BY FS_EmptySet DEF Written, Count
<1>6. StreamInv
    BY <1>5 DEF StreamInv
<1>7. LinesInv
    BY <1>2, <1>5, Order DEF LinesInv, Crashed
<1>8. CallInv
    BY DEF CallInv
<1> QED BY <1>1, <1>3, <1>4, <1>6, <1>7, <1>8 DEF IInv

\* Every step keeps the invariant.
LEMMA StepKeeps == IInv /\ [Next]_vars => IInv'
BY TypeStep, PlaceStep, WorkStep, StreamStep, LinesStep, CallInvStep, TypeSplit DEF IInv

\* The invariant holds in every reachable state.
LEMMA IInvHolds == Spec => []IInv
BY InitInv, StepKeeps, PTL DEF Spec

\* Process, output and call stay within their types.
THEOREM TypeCorrect == Spec => []TypeOK
<1>1. IInv => TypeOK
    BY DEF IInv
<1> QED BY <1>1, IInvHolds, PTL

\* Memory is only used on the card asked for, whose exact identity has been
\* written (gpu_vram_helper.c:318-360).
THEOREM TargetOnly == Spec => []WorksOnTargetOnly
<1>1. ASSUME IInv PROVE WorksOnTargetOnly
    BY <1>1 DEF IInv, PlaceInv, StreamInv, Written, Working, WorksOnTargetOnly
<1> QED BY <1>1, IInvHolds, PTL

\* How the process stands when its output is accepted: it came to the summary.
LEMMA Accepted ==
    ASSUME IInv, Reported
    PROVE  /\ Summary = SummaryLine /\ Done = Experiments
           /\ \A x \in Experiments : result.results[x] = RowOf(status[x])
           /\ rc # None => rc = code
<1>1. /\ received = stream /\ WellFormed
      /\ result.results = [x \in Experiments |-> RowOf(Summary.experiments[x])]
      /\ rc # None => rc = code
    BY DEF IInv, CallInv, Reported
<1>2. Summary = SummaryLine
    BY <1>1, AcceptedSummary DEF IInv
<1>3. Summary.experiments = status
    BY <1>2 DEF SummaryLine
<1>4. Done = Experiments
    <2>1. {received[i].name : i \in Lines("experiment")} = Experiments
        BY <1>1 DEF WellFormed, RowsAgree
    <2>2. \A i \in Lines("experiment") : received[i].name \in Done
        BY <1>1 DEF IInv, StreamInv, Lines, Written
    <2>3. Done \subseteq Experiments
        BY DEF IInv, TypeOK, Done, Before, Experiments
    <2> QED BY <2>1, <2>2, <2>3
<1> QED BY <1>1, <1>2, <1>3, <1>4

\* The total counts the mismatches of the four experiments.
LEMMA TotalCounts ==
    ASSUME IInv
    PROVE  /\ \A x \in Experiments : errors[x] \in Nat /\ (errors[x] > 0 => total > 0)
           /\ total > 0 => \E x \in Experiments : errors[x] > 0
           /\ total \in Nat
<1>1. /\ total \in Nat /\ errors["host_transfer"] \in Nat /\ errors["gpu_local_copy"] \in Nat
      /\ errors["compute_kat"] \in Nat /\ errors["vram_pattern"] \in Nat
    BY ConstantTypes DEF IInv, TypeOK, Experiments
<1>2. total = errors["host_transfer"] + errors["gpu_local_copy"]
              + errors["compute_kat"] + errors["vram_pattern"]
    BY DEF IInv, WorkInv
<1> QED BY <1>1, <1>2 DEF Experiments

\* A report that is accepted is complete, its PASS rows are verified, and exit
\* code, summary and rows agree (gpu_vram_helper.c:599-682, vram_helper.py:65-244).
THEOREM AcceptedReportIsTrue == Spec => []AcceptedIsTrue
<1>1. ASSUME IInv, Reported PROVE
          /\ \A x \in Experiments : result.results[x] = RowOf(status[x])
          /\ Summary.total = errors["host_transfer"] + errors["gpu_local_copy"]
                             + errors["compute_kat"] + errors["vram_pattern"]
    BY <1>1, Accepted DEF IInv, WorkInv, SummaryLine
<1>2. ASSUME IInv, Reported, NEW x \in Experiments, result.results[x] = "PASS"
      PROVE  x \in verified /\ errors[x] = 0
    <2>1. status[x] = "PASS" /\ x \in Done
        BY <1>2, Accepted DEF RowOf
    <2> QED BY <1>2, <2>1 DEF IInv, WorkInv
<1>3. ASSUME IInv, Reported PROVE StatusAgrees
    <2>1. /\ Summary.device_lost = lost /\ Summary.status = SummaryStatus
          /\ rc # None => rc = code
          /\ \A x \in Experiments : result.results[x] = RowOf(status[x])
        BY <1>3, Accepted DEF SummaryLine
    <2>2. lost \in BOOLEAN /\ rc \in {None, 0, 1, 2, Crashed}
        BY <1>3 DEF IInv, TypeOK
    <2>3. rc \in {0, 1, 2} => rc = ExitCode
        BY <1>3, <2>1 DEF IInv, PlaceInv, None
    <2>4. ~lost => \A x \in Experiments : errors[x] > 0 <=> status[x] = "FAIL"
        BY <1>3, Accepted DEF IInv, WorkInv
    <2>5. ~lost => (total > 0 <=> \E x \in Experiments : status[x] = "FAIL")
        BY <1>3, <2>4, TotalCounts
    <2>6. \A x \in Experiments : result.results[x] = "FAIL" <=> status[x] = "FAIL"
        BY <2>1 DEF RowOf
    <2>7. SummaryStatus = "FAIL" <=> \E x \in Experiments : status[x] = "FAIL"
        BY DEF SummaryStatus
    <2>8. SummaryStatus = "PASS" => \A x \in Experiments : status[x] = "PASS"
        BY DEF SummaryStatus
    <2>9. ASSUME ReportStatus = "PASS"
          PROVE  rc = 0 /\ total = 0 /\ \A x \in Experiments : result.results[x] = "PASS"
        <3>1. ~lost /\ rc \in {0, 1} /\ SummaryStatus = "PASS"
            BY <2>1, <2>9 DEF ReportStatus
        <3>2. total = 0
            BY <1>3, <2>5, <2>8, <3>1, TotalCounts
        <3>3. rc = 0
            BY <2>3, <3>1, <3>2 DEF ExitCode
        <3> QED BY <2>1, <2>8, <3>1, <3>2, <3>3 DEF RowOf
    <2>10. rc = 1 => ~lost /\ total > 0
        BY <1>3, <2>3, TotalCounts DEF ExitCode
    <2>11. rc = 1 => ReportStatus = "FAIL"
        BY <2>1, <2>5, <2>7, <2>10 DEF ReportStatus
    <2>12. ReportStatus = "FAIL" => rc = 1 /\ \E x \in Experiments : result.results[x] = "FAIL"
        <3> SUFFICES ASSUME ReportStatus = "FAIL"
                     PROVE  rc = 1 /\ \E x \in Experiments : result.results[x] = "FAIL"
            OBVIOUS
        <3>1. ~lost /\ rc \in {0, 1} /\ SummaryStatus = "FAIL"
            BY <2>1 DEF ReportStatus
        <3>2. total > 0
            BY <2>5, <2>7, <3>1
        <3>3. rc = 1
            BY <2>3, <3>1, <3>2 DEF ExitCode
        <3> QED BY <2>6, <2>7, <3>1, <3>3
    <2> QED BY <2>9, <2>11, <2>12 DEF StatusAgrees
<1>4. IInv => AcceptedIsTrue
    BY <1>1, <1>2, <1>3 DEF AcceptedIsTrue, AcceptedIsComplete, PassIsVerified, StatusAgrees
<1> QED BY <1>4, IInvHolds, PTL

\* Four experiments.
LEMMA FourExperiments == Cardinality(Experiments) = 4
<1>1. Cardinality({}) = 0 /\ IsFiniteSet({})
    BY FS_EmptySet
<1>2. Cardinality({"host_transfer"}) = 1 /\ IsFiniteSet({"host_transfer"})
    BY FS_Singleton
<1>3. Cardinality({"host_transfer"} \union {"gpu_local_copy"}) = 2
      /\ IsFiniteSet({"host_transfer"} \union {"gpu_local_copy"})
    BY <1>2, FS_AddElement
<1>4. Cardinality({"host_transfer"} \union {"gpu_local_copy"} \union {"compute_kat"}) = 3
      /\ IsFiniteSet({"host_transfer"} \union {"gpu_local_copy"} \union {"compute_kat"})
    BY <1>3, FS_AddElement
<1>5. Cardinality({"host_transfer"} \union {"gpu_local_copy"} \union {"compute_kat"} \union {"vram_pattern"}) = 4
    BY <1>4, FS_AddElement
<1>6. Experiments = {"host_transfer"} \union {"gpu_local_copy"} \union {"compute_kat"} \union {"vram_pattern"}
    BY DEF Experiments
<1> QED BY <1>5, <1>6

\* A process that ended by itself and found a mismatch has written all that the
\* parser asks for.
LEMMA CompleteOutput ==
    ASSUME IInv, call = "returned", rc \in {0, 1, 2}, ~spoilt, Len(received) <= MaxLines, total > 0
    PROVE  WellFormed /\ Summary = SummaryLine /\ Done = Experiments
<1>1. /\ received = stream /\ at = "ended" /\ code = rc /\ code # Crashed /\ current = "none"
    BY DEF IInv, CallInv, PlaceInv, None, Crashed
<1>2. /\ Done = Experiments /\ Count("experiment") = 4
    BY <1>1, Order DEF IInv, LinesInv, Done
<1>3. /\ device # NoDevice /\ stream \in Seq(Event)
    BY DEF IInv, WorkInv, StreamInv
<1>4. /\ Count("meta") = 1 /\ Count("identity") = 1 /\ Count("summary") = 1
      /\ Count("error") = recorded
      /\ \A i \in Written("identity") : stream[i].exact_match
      /\ {stream[i].name : i \in Written("experiment")} = Experiments
    BY <1>1, <1>2, <1>3 DEF IInv, LinesInv, StreamInv
<1>5. \A t : Lines(t) = Written(t)
    BY <1>1 DEF Lines, Written
<1>6. Once("meta") /\ Once("identity") /\ Once("summary")
    BY <1>4, <1>5 DEF Once, Count
<1>7. The("identity").exact_match /\ The("identity").card = "target"
    <2>1. PICK i \in Written("identity") : The("identity") = stream[i]
        BY <1>1, <1>6, TheLine
    <2>2. stream[i] \in Event /\ stream[i].type = "identity"
        BY <1>3, <2>1 DEF Written
    <2> QED BY <1>4, <2>1, <2>2, IdentityNamesTarget
<1>8. Summary = SummaryLine
    BY <1>1, <1>6, TheLine DEF IInv, StreamInv, Summary
<1>9. /\ Summary.experiments = status /\ Summary.recorded = recorded /\ Summary.total = total
    BY <1>8 DEF SummaryLine
<1>10. RowsAgree
    <2>1. \A i \in Written("experiment") : stream[i].status = status[stream[i].name]
        BY DEF IInv, StreamInv
    <2> QED BY <1>1, <1>2, <1>4, <1>5, <1>9, <2>1, FourExperiments DEF RowsAgree, Count
<1>11. recorded <= o.max_errors /\ recorded <= total
    BY ConstantTypes, TypeSplit DEF IInv, HelperTypeOK, WorkInv
<1>12. Cardinality(Lines("error")) = recorded
    BY <1>4, <1>5 DEF Count
<1> QED BY <1>1, <1>2, <1>6, <1>7, <1>8, <1>9, <1>10, <1>11, <1>12 DEF WellFormed

\* A mismatch is never taken back (gpu_vram_helper.c:668-671, vram_helper.py:65-244).
THEOREM MismatchIsKept == Spec => []MismatchFails
<1>1. ASSUME IInv, call = "returned", rc \in {0, 1, 2}, ~lost, ~spoilt, Len(received) <= MaxLines,
             NEW x \in Experiments, errors[x] > 0
      PROVE  result.kind = "report" /\ result.results[x] = "FAIL"
    <2>1. total > 0
        BY <1>1, TotalCounts
    <2>2. WellFormed /\ Summary = SummaryLine /\ Done = Experiments
        BY <1>1, <2>1, CompleteOutput
    <2>3. /\ result.kind = "report"
          /\ result.results = [y \in Experiments |-> RowOf(Summary.experiments[y])]
        BY <1>1, <2>2 DEF IInv, CallInv, None
    <2>4. Summary.experiments = status
        BY <2>2 DEF SummaryLine
    <2>5. status[x] = "FAIL"
        BY <1>1, <2>2 DEF IInv, WorkInv
    <2> QED BY <2>3, <2>4, <2>5 DEF RowOf
<1>2. IInv => MismatchFails
    BY <1>1 DEF MismatchFails
<1> QED BY <1>2, IInvHolds, PTL

\* A step of the call is a step of HelperRun, or none.
LEMMA StepOfRun ==
    IInv /\ [Next]_vars => [Run!Run]_<<\E d \in enumerated : d.card = "target", result>>
<1> SUFFICES ASSUME IInv, [Next]_vars
             PROVE  [Run!Run]_<<\E d \in enumerated : d.card = "target", result>>
    OBVIOUS
<1>1. UNCHANGED enumerated
    BY StepKinds DEF Silent, Idle, NoInstance, SetUp, SetUpFails, RunOnce, Compared, PassesEnd, TimeLimit,
       TemperatureLimit, Pass, CopyBack, CleanUp, Crash, DriverWarns, EmitMeta, SelectPhysical,
       SelectsNone, Mismatch, Report, ReportUnavailable, EmitSummary, deviceVars, helperVars
<1>2. CASE HelperStep \/ HelperNotExecuted \/ StartHelper \/ HelperEnds \/ Kill \/ LogRaises
           \/ UNCHANGED vars
    BY <1>1, <1>2 DEF HelperStep, HelperNotExecuted, StartHelper, HelperEnds, Kill, LogRaises, vars, callVars
<1>3. CASE HelperMissing
    BY <1>1, <1>3 DEF HelperMissing, Return, IInv, CallInv, Run!Run, Run!Results
<1>4. CASE RefuseOutput
    <2>1. result = Run!NoHelper
        BY <1>4 DEF RefuseOutput, IInv, CallInv
    <2>2. PICK s \in {"INCONCLUSIVE", "UNAVAILABLE"} :
            result' = [kind |-> "protocol_error", clean |-> FALSE, results |-> Run!AllRows(s)]
        BY <1>4 DEF RefuseOutput, Return
    <2> QED BY <1>1, <2>1, <2>2 DEF Run!Run, Run!Results
<1>5. CASE ParseReport
    <2>1. result = Run!NoHelper /\ received = stream /\ WellFormed
        BY <1>5 DEF ParseReport, IInv, CallInv
    <2>2. \E d \in enumerated : d.card = "target"
        <3>1. PICK i \in Written("identity") : The("identity") = stream[i]
            BY <2>1, TheLine DEF WellFormed
        <3>2. stream[i].exact_match
            BY <2>1, <3>1 DEF WellFormed
        <3> QED BY <3>1, <3>2 DEF IInv, StreamInv
    <2>3. Summary = SummaryLine
        BY <2>1, AcceptedSummary DEF IInv
    <2>4. /\ Summary.device_lost \in BOOLEAN
          /\ Summary.experiments \in [Experiments -> {"PASS", "FAIL", "INCONCLUSIVE", "UNAVAILABLE"}]
        BY <2>3 DEF SummaryLine, IInv, TypeOK
    <2>5. [x \in Experiments |-> RowOf(Summary.experiments[x])]
             \in [Experiments -> {"PASS", "FAIL", "INCONCLUSIVE"}]
        BY <2>4 DEF RowOf
    <2>6. result' = [kind |-> "report", clean |-> rc \in {0, 1} /\ ~Summary.device_lost,
                     results |-> [x \in Experiments |-> RowOf(Summary.experiments[x])]]
        BY <1>5 DEF ParseReport, Return
    <2>7. (rc \in {0, 1} /\ ~Summary.device_lost) \in BOOLEAN
        OBVIOUS
    <2> QED BY <1>1, <2>1, <2>2, <2>5, <2>6, <2>7 DEF Run!Run, Run!Results
<1> QED BY <1>2, <1>3, <1>4, <1>5 DEF Next, CallStep

\* What Stage 4 assumes of the helper (HelperRun) is what process and parser do.
THEOREM HelperImplementsRun == Spec => ImplementsHelperRun
<1>1. ProtocolInit => Run!Init
    BY DEF ProtocolInit, Run!Init
<1> QED BY <1>1, StepOfRun, IInvHolds, PTL DEF Spec, ImplementsHelperRun, Run!Spec
=============================================================================
