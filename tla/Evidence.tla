------------------------------ MODULE Evidence ------------------------------
(***************************************************************************)
(* What the machine says before and after the driver-bound work, and what   *)
(* is made of the difference: the AER counters of the card and of the       *)
(* bridges above it, and the kernel log (app/driver_probe.py,               *)
(* app/collectors.py).                                                     *)
(*                                                                         *)
(* Counters and log are read one after the other, twice, while the machine  *)
(* goes on: errors are counted, the card falls off the bus and comes back,  *)
(* the kernel's ring buffer wraps.                                          *)
(***************************************************************************)
EXTENDS Integers, Sequences, FiniteSets

CONSTANTS
    Nodes,        \* the PCI addresses of the chain
    Endpoint,     \* the card's own; the others are bridges above it
    Counters,     \* the error counters of a device
    LogLines,     \* what the kernel may log
    RingSize,     \* lines in the kernel's ring buffer
    MaxRelevant,  \* relevant lines that are kept: 1000
    MaxEvents     \* bound: events of the machine

ASSUME EndpointAssumption == Endpoint \in Nodes

\* The file of a counter, and whether its name speaks of fatal errors.  The
\* correctable file has a counter of that kind, NonFatalErr.
ASSUME CountersAssumption ==
    Counters \subseteq [file : {"correctable", "nonfatal", "fatal"}, says_fatal : BOOLEAN,
                        name : STRING]

\* A line tells a failure of the driver, or something else about the card, or
\* nothing relevant.  Whose card it is about is not looked at.
ASSUME LogLinesAssumption == LogLines \subseteq [kind : {"failure", "other", "irrelevant"},
                                                 text : STRING]
ASSUME BoundsAssumption ==
    RingSize \in Nat \ {0} /\ MaxRelevant \in Nat \ {0} /\ MaxEvents \in Nat

VARIABLES
    reading,     \* what is read next
    events,      \* how many events there were
    present,     \* the card is on the bus
    counter,     \* the error counters of every device of the chain
    happened,    \* history: the errors between the first snapshot and the second
    renewed,     \* history: the card came back between them
    log,         \* every line since the boot
    mark,        \* history: how many lines there were at the first snapshot
    aer,         \* the counters read, before and after
    kernel       \* the log read, before and after

busVars == <<present, counter, happened, renewed>>
vars == <<reading, events, busVars, log, mark, aer, kernel>>

Sites == Nodes \X Counters
NoErrors == [s \in Sites |-> 0]
Snapshot == {"before", "after"}
Source == {"journalctl", "dmesg"}
NotRead == [source |-> "dmesg", ok |-> FALSE, lines |-> <<>>]

TypeOK ==
    /\ reading \in {"aer_before", "log_before", "aer_after", "log_after", "done"}
    /\ events \in 0..MaxEvents
    /\ present \in BOOLEAN /\ renewed \in BOOLEAN
    /\ counter \in [Sites -> 0..MaxEvents] /\ happened \in [Sites -> 0..MaxEvents]
    /\ log \in Seq(LogLines) /\ mark \in 0..Len(log)
    /\ DOMAIN aer = Snapshot /\ \A s \in Snapshot : DOMAIN aer[s] \in {{}, Sites}
    /\ kernel \in [Snapshot -> [source : Source, ok : BOOLEAN, lines : Seq(Source \X LogLines)]]

Init ==
    /\ reading = "aer_before"
    /\ events = 0
    /\ present = TRUE /\ renewed = FALSE
    /\ counter = NoErrors /\ happened = NoErrors
    /\ log = <<>> /\ mark = 0
    /\ aer = [s \in Snapshot |-> <<>>]
    /\ kernel = [s \in Snapshot |-> NotRead]

-----------------------------------------------------------------------------
(* The machine.                                                            *)

Event ==
    /\ reading # "done" /\ events < MaxEvents
    /\ events' = events + 1
    /\ UNCHANGED <<reading, mark, aer, kernel>>

BetweenSnapshots == reading \in {"log_before", "aer_after"}

CountError(n, c) ==
    /\ Event /\ (n = Endpoint => present)
    /\ counter' = [counter EXCEPT ![<<n, c>>] = @ + 1]
    /\ happened' = IF BetweenSnapshots THEN [happened EXCEPT ![<<n, c>>] = @ + 1] ELSE happened
    /\ UNCHANGED <<present, renewed, log>>

FallOffBus ==
    /\ Event /\ present
    /\ present' = FALSE
    /\ UNCHANGED <<counter, happened, renewed, log>>

\* The kernel counts for the device it has found: a card found again starts at 0.
ComeBack ==
    /\ Event /\ ~present
    /\ present' = TRUE
    /\ counter' = [s \in Sites |-> IF s[1] = Endpoint THEN 0 ELSE counter[s]]
    /\ happened' = [s \in Sites |->
                      IF s[1] = Endpoint /\ BetweenSnapshots THEN 0 ELSE happened[s]]
    /\ renewed' = (renewed \/ BetweenSnapshots)
    /\ UNCHANGED log

LogLine(l) ==
    /\ Event
    /\ log' = Append(log, l)
    /\ UNCHANGED busVars

-----------------------------------------------------------------------------
(* The snapshots.                                                          *)

\* ReadOnlyCollector.aer: the bridges are found by way of the card; without it
\* there are no counters at all.
ReadCounters(which, next) ==
    /\ reading' = next
    /\ aer' = [aer EXCEPT ![which] = IF present THEN counter ELSE <<>>]
    /\ UNCHANGED <<events, busVars, log, mark, kernel>>

Lowest(i, j) == IF i < j THEN i ELSE j
Ring == SubSeq(log, Len(log) - Lowest(Len(log), RingSize) + 1, Len(log))

Told(source, lines) == [i \in DOMAIN lines |-> <<source, lines[i]>>]

\* Mutant: a refused log is an empty one.
RefusedLogDropped ==
    {[source |-> "dmesg", ok |-> TRUE, lines |-> Told("dmesg", Ring)],
     [source |-> "dmesg"],
     [source |-> "journalctl", ok |-> TRUE, lines |-> Told("journalctl", log)]}

\* ReadOnlyCollector.kernel_log: the journal, or else the ring buffer, which
\* may be refused.  The two write a line differently.
KernelLog ==
    {[source |-> "dmesg", ok |-> TRUE, lines |-> Told("dmesg", Ring)],
     [source |-> "dmesg", ok |-> FALSE, lines |-> <<>>],
     [source |-> IF log # <<>> THEN "journalctl" ELSE "dmesg", ok |-> TRUE,
      lines |-> Told("journalctl", log)]}

ReadLog(which, next) ==
    /\ reading' = next
    /\ \E k \in KernelLog : kernel' = [kernel EXCEPT ![which] = k]
    /\ mark' = IF which = "before" THEN Len(log) ELSE mark
    /\ UNCHANGED <<events, busVars, log, aer>>

Collect ==
    \/ reading = "aer_before" /\ ReadCounters("before", "log_before")
    \/ reading = "log_before" /\ ReadLog("before", "aer_after")
    \/ reading = "aer_after" /\ ReadCounters("after", "log_after")
    \/ reading = "log_after" /\ ReadLog("after", "done")

Next ==
    \/ Collect
    \/ \E n \in Nodes, c \in Counters : CountError(n, c)
    \/ FallOffBus \/ ComeBack
    \/ \E l \in LogLines : LogLine(l)

Spec == Init /\ [][Next]_vars

-----------------------------------------------------------------------------
(* What is made of them.                                                   *)

CountOf(snapshot, s) == IF s \in DOMAIN aer[snapshot] THEN aer[snapshot][s] ELSE 0

\* Mutant: only counters that were there before are compared.
CountedBefore == [s \in DOMAIN aer["after"] \intersect DOMAIN aer["before"] |->
                    CountOf("after", s) - CountOf("before", s)]

\* aer_counter_delta and nested_counter_delta: a counter missing counts as 0.
Delta == [s \in DOMAIN aer["after"] \union DOMAIN aer["before"] |->
            CountOf("after", s) - CountOf("before", s)]

\* Mutant: a counter that is not 0 is an error.
AnyCount == {s \in DOMAIN Delta : CountOf("after", s) > 0}

Positive == {s \in DOMAIN Delta : Delta[s] > 0}

\* classify_aer_delta looks for "fatal" in the whole path.
Severe(c) == c.file \in {"nonfatal", "fatal"} \/ c.says_fatal

AerStatus ==
    IF \E s \in Positive : Severe(s[2]) THEN "FAIL"
    ELSE IF Positive # {} THEN "WARN"
    ELSE "PASS"

\* Mutant: any two logs that could be read can be compared.
LogsRead == kernel["before"].ok /\ kernel["after"].ok

KernelDeltaAvailable ==
    /\ kernel["before"].source = kernel["after"].source
    /\ kernel["before"].ok /\ kernel["after"].ok

Before == kernel["before"].lines
After == kernel["after"].lines
Places(line, lines) == {i \in DOMAIN lines : lines[i] = line}

\* Mutant: a line that was there before is not new.
UnseenLines ==
    IF ~KernelDeltaAvailable THEN {} ELSE {i \in DOMAIN After : Places(After[i], Before) = {}}

\* new_log_lines: where the new lines are.  Every line before takes away the first
\* of those after it that are the same.
NewLines ==
    IF ~KernelDeltaAvailable THEN {}
    ELSE {i \in DOMAIN After :
            Cardinality({j \in Places(After[i], After) : j <= i})
                > Cardinality(Places(After[i], Before))}

Relevant(line) == line[2].kind # "irrelevant"
NewRelevant == {i \in NewLines : Relevant(After[i])}

\* Mutant: the first lines are kept.
FirstRelevantLines ==
    {i \in NewRelevant : Cardinality({j \in NewRelevant : j <= i}) <= MaxRelevant}

\* relevant_kernel_lines keeps the last ones.
RelevantLines ==
    {i \in NewRelevant : Cardinality({j \in NewRelevant : j >= i}) <= MaxRelevant}

\* kernel_failure_signals
FailureSignal == \E i \in RelevantLines : After[i][2].kind = "failure"

-----------------------------------------------------------------------------
(* What can be relied on.                                                  *)

Judged == reading = "done"

\* A severe error counted between the snapshots, on the card or on a bridge,
\* ends as FAIL as long as the card can be read at the second one, also when it
\* could not be at the first (PLAN-SAFE-TRIAGE.md:38-39, "neu auftauchende Zähler
\* gehen nicht verloren").  A card that came back starts at 0, so that what it
\* counted may be hidden by what it had counted before.
SevereErrorIsFound ==
    Judged /\ aer["after"] # <<>> =>
        \A s \in Sites :
            /\ happened[s] > 0 /\ s[2].file # "correctable"
            /\ s[1] = Endpoint /\ renewed => aer["before"] = <<>>
            => AerStatus = "FAIL"

\* A difference is found only where an error was counted between the snapshots,
\* so that old errors are not taken for new ones (README.md:54, "ohne erfundenes
\* Last-Delta"), whether the card came back meanwhile or not.  A card that was
\* not there at the first snapshot leaves nothing to compare its bridges with.
OldErrorsAreOld ==
    Judged => \A s \in Positive :
        s[1] = Endpoint \/ aer["before"] # <<>> => happened[s] > 0

\* The counters, taken together.
CounterDeltasAreTrue == SevereErrorIsFound /\ OldErrorsAreOld

\* How often the kernel logged a line between the snapshots, and how often that is
\* said to be new.
Written(l) == Cardinality({k \in (mark + 1)..Len(log) : log[k] = l})
SaidNew(l) == Cardinality({i \in NewLines : After[i][2] = l})

\* A line is new only if the kernel wrote it after the first snapshot, as often
\* as it is said to be new, wherever the ring buffer wrapped and whichever
\* source could be read (driver_probe.py:155-164).
NewLinesAreNew == Judged => \A l \in LogLines : SaidNew(l) <= Written(l)

\* As long as the source keeps all lines, none written between the snapshots is
\* missed, also if it is the same as an old one.
NoLineMissed ==
    Judged /\ KernelDeltaAvailable
        /\ (kernel["after"].source = "dmesg" => Len(log) <= RingSize) =>
        \A l \in LogLines : SaidNew(l) = Written(l)

\* A failure that the kernel logged last among the relevant lines is always a
\* signal, however many lines came before it.
LastFailureIsSignal ==
    Judged /\ KernelDeltaAvailable /\ kernel["after"].source = "journalctl" =>
        \A k \in (mark + 1)..Len(log) :
            /\ log[k].kind = "failure"
            /\ \A j \in (k + 1)..Len(log) : log[j].kind = "irrelevant"
            => FailureSignal

\* The kernel log, taken together.
LogDeltaIsTrue == NewLinesAreNew /\ NoLineMissed /\ LastFailureIsSignal

-----------------------------------------------------------------------------
\* README.md:256-257: "Neue korrigierbare AER-Zähler ergeben WARN, neue
\* nonfatal/fatal Zähler FAIL".
CorrectableIsWarning ==
    Judged /\ (\A s \in Positive : s[2].file = "correctable") => AerStatus # "FAIL"

\* The other half of that sentence, for the bridges.
SevereUpstreamFails ==
    Judged => \A s \in Sites :
        s[1] # Endpoint /\ s[2].file # "correctable" /\ happened[s] > 0 => AerStatus = "FAIL"

\* Both halves of the sentence.
AerSeverity == CorrectableIsWarning /\ SevereUpstreamFails
=============================================================================
