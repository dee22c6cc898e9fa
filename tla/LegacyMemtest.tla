--------------------------- MODULE LegacyMemtest ---------------------------
(* The transitional memtest_vulkan screen: the proof that Vulkan shows the *)
(* target and nothing else (DriverBoundCollector.vulkan_identity and       *)
(* legacy_memtest, app/driver_probe.py) and the runner that answers        *)
(* memtest's device prompt, stops it in time and reads its verdict         *)
(* (run_legacy_memtest, app/legacy_vram.py).  memtest itself is external:  *)
(* it prints the devices it found by bus and device number only, tests the *)
(* one it is told or, when its prompt runs out, the first, and may crash,  *)
(* hang or ignore a signal at any point.                                   *)
EXTENDS Naturals, Sequences, FiniteSets, SequencesExt

CONSTANTS
    Devices,    \* what Vulkan may enumerate: graphics cards and CPU renderers
    Cpus,       \* the CPU renderers among them
    Target,     \* the card under test, by its full PCI address
    KeyOf,      \* bus:device of a device, all that memtest prints of it
    MaxView     \* bound: entries of one enumeration

\* A CPU renderer is shown at 00:00, where no graphics card is.
ASSUME DeviceAssumption ==
    /\ Target \in Devices \ Cpus
    /\ MaxView \in Nat
    /\ \A d \in Devices \cap Cpus : KeyOf[d] # KeyOf[Target]

VARIABLES
    view,       \* the physical devices of the Vulkan drivers, as entries
    pc,         \* where the runner is
    identity,   \* the mapping vulkan_identity returned
    listed,     \* the bus:device of every device line heard, by index
    answered,   \* the index written to memtest's prompt, 0 for none
    unsafe,     \* the prompt could not be answered for the target alone
    selected,   \* a line said that a test has started
    said,       \* what else was heard
    result,     \* the status returned, or "none"
    prog,       \* where memtest is
    pipe,       \* what memtest has printed and the runner has not read
    listing,    \* the entries memtest found, in its order
    tested,     \* the device memtest works on, {} for none
    found,      \* memtest has found a wrong word
    signal      \* the last signal it was sent

runnerVars == <<pc, identity, listed, answered, unsafe, selected, said, result>>
heardVars == <<listed, answered, unsafe, selected, said>>
progVars == <<prog, listing, tested, found>>
vars == <<view, runnerVars, pipe, progVars, signal>>

\* One physical device of the enumeration; "shown" is the extension that tells
\* its PCI address.  Two drivers may show one card, in two entries.
Entry == [device : Devices, shown : {"pci", "drm", "none"}]

Kinds == {"device", "prompt", "testing", "error", "passed", "lost", "broken"}
Line == Kinds \X ({KeyOf[d] : d \in Devices} \union {"-"})
Say(kind) == <<kind, "-">>

-----------------------------------------------------------------------------
(* The proof of identity.                                                  *)

Hardware == {e \in view : e.device \notin Cpus}

Matches == {e \in Hardware : e.shown # "none" /\ e.device = Target}

Singleton(S) == \E x \in S : S = {x}

NoIdentity == [status |-> "UNAVAILABLE", legacy_safe |-> FALSE]

\* Mutant: other hardware in the view is no obstacle.
IdentityOfMatch ==
    IF ~Singleton(Matches)
    THEN [NoIdentity EXCEPT !.status = IF Matches = {} THEN "UNAVAILABLE" ELSE "INCONCLUSIVE"]
    ELSE [status |-> "PASS", legacy_safe |-> TRUE]

VulkanIdentity ==
    IF ~Singleton(Matches)
    THEN [NoIdentity EXCEPT !.status = IF Matches = {} THEN "UNAVAILABLE" ELSE "INCONCLUSIVE"]
    ELSE [status |-> "PASS", legacy_safe |-> Singleton(Hardware)]

\* The gate of legacy_memtest, which run_legacy_memtest repeats.
Proven == identity.status = "PASS" /\ identity.legacy_safe

\* vulkaninfo is there, ends in time and reports success, or not.
Identify ==
    /\ pc = "identify"
    /\ identity' \in {VulkanIdentity, NoIdentity}
    /\ pc' = "gate"
    /\ UNCHANGED <<view, heardVars, result, pipe, progVars, signal>>

Refuse ==
    /\ pc = "gate"
    /\ result' = "UNAVAILABLE"
    /\ pc' = "done"
    /\ UNCHANGED <<view, identity, heardVars, pipe, progVars, signal>>

Start ==
    /\ pc = "gate" /\ Proven
    /\ pc' = "loop" /\ prog' = "started"
    /\ UNCHANGED <<view, identity, heardVars, result, pipe, listing, tested, found, signal>>

-----------------------------------------------------------------------------
(* The runner: it reads, answers the prompt, and stops memtest in time.    *)

TargetMatches == {i \in 1..Len(listed) : listed[i] = KeyOf[Target]}

OnlyTargetListed == Len(listed) = 1 /\ Singleton(TargetMatches)

\* communicate() has closed memtest's input before the tail is read.
InputClosed == pc = "tail"

\* consume() on the prompt: it is answered for the target alone, or the run is
\* stopped.  A write to a memtest that is gone is caught; a write to the closed
\* input is not, and leaves the call.
HearPrompt ==
    /\ UNCHANGED <<listed, selected, said>>
    /\ IF answered # 0 THEN UNCHANGED <<answered, unsafe, pc>>
       ELSE IF ~OnlyTargetListed THEN unsafe' = TRUE /\ UNCHANGED <<answered, pc>>
       ELSE IF InputClosed THEN pc' = "raised" /\ UNCHANGED <<answered, unsafe>>
       ELSE IF prog = "dead" THEN unsafe' = TRUE /\ UNCHANGED <<answered, pc>>
       ELSE answered' \in TargetMatches /\ UNCHANGED <<unsafe, pc>>

Hear(line) ==
    \/ /\ line[1] = "device"
       /\ listed' = Append(listed, line[2])
       /\ UNCHANGED <<answered, unsafe, selected, said, pc>>
    \/ /\ line[1] = "prompt" /\ HearPrompt
    \/ /\ line[1] = "testing" /\ selected' = TRUE
       /\ UNCHANGED <<listed, answered, unsafe, said, pc>>
    \/ /\ line[1] \notin {"device", "prompt", "testing"}
       /\ said' = said \union {line[1]}
       /\ UNCHANGED <<listed, answered, unsafe, selected, pc>>

Reading == (pc = "loop" /\ ~unsafe) \/ pc = "tail"

Read ==
    /\ Reading /\ pipe # <<>>
    /\ Hear(Head(pipe)) /\ pipe' = Tail(pipe)
    /\ UNCHANGED <<view, identity, result, progVars, signal>>

\* The medium of the log file fails under a write: nothing catches that.
LogFails ==
    /\ Reading /\ pipe # <<>>
    /\ pc' = "raised"
    /\ UNCHANGED <<view, identity, heardVars, result, pipe, progVars, signal>>

SeeExit ==
    /\ pc = "loop" /\ prog = "dead"
    /\ pc' = "wait"
    /\ UNCHANGED <<view, identity, heardVars, result, pipe, progVars, signal>>

\* The time for the start or for the test is over, or the prompt was unsafe.
Interrupt ==
    /\ pc = "loop" /\ prog # "dead"
    /\ signal' = "INT" /\ pc' = "wait"
    /\ UNCHANGED <<view, identity, heardVars, result, pipe, progVars>>

\* communicate() times out twice, the third waits for the process to be gone.
\* Mutant: SIGTERM is trusted to end it.
TerminateOnly ==
    /\ prog # "dead"
    /\ pc = "wait" /\ signal' = "TERM" /\ pc' = "wait_term"
    /\ UNCHANGED <<view, identity, heardVars, result, pipe, progVars>>

Escalate ==
    /\ prog # "dead"
    /\ \/ pc = "wait" /\ signal' = "TERM" /\ pc' = "wait_term"
       \/ pc = "wait_term" /\ signal' = "KILL" /\ pc' = "wait_kill"
    /\ UNCHANGED <<view, identity, heardVars, result, pipe, progVars>>

Collected ==
    /\ pc \in {"wait", "wait_term", "wait_kill"} /\ prog = "dead"
    /\ pc' = "tail"
    /\ UNCHANGED <<view, identity, heardVars, result, pipe, progVars, signal>>

\* Mutant: what has not been recognised is reported by its reason.
VerdictOrReason ==
    IF ~OnlyTargetListed \/ answered = 0 THEN "INCONCLUSIVE"
    ELSE IF "lost" \in said \/ "broken" \in said \/ ~selected THEN "INCONCLUSIVE"
    ELSE IF "error" \in said THEN "FAIL"
    ELSE IF "passed" \in said THEN "PASS"
    ELSE "LEGACY_RESULT_NOT_RECOGNIZED"

Verdict ==
    IF ~OnlyTargetListed \/ answered = 0 THEN "INCONCLUSIVE"
    ELSE IF "lost" \in said \/ "broken" \in said \/ ~selected THEN "INCONCLUSIVE"
    ELSE IF "error" \in said THEN "FAIL"
    ELSE IF "passed" \in said THEN "PASS"
    ELSE "INCONCLUSIVE"

\* Mutant: the tail that communicate() returned is not looked at.
ReturnWithoutTail ==
    /\ pc = "tail"
    /\ result' = Verdict /\ pc' = "done"
    /\ UNCHANGED <<view, identity, heardVars, pipe, progVars, signal>>

Return ==
    /\ pc = "tail" /\ pipe = <<>>
    /\ result' = Verdict /\ pc' = "done"
    /\ UNCHANGED <<view, identity, heardVars, pipe, progVars, signal>>

-----------------------------------------------------------------------------
(* memtest_vulkan, the external program.                                   *)

Output(lines) == pipe' = pipe \o lines

\* It finds some of the devices of the view, in some order, and prints them
\* and, if there are any, its prompt.
MemtestLists ==
    /\ prog = "started" /\ prog' = "prompting"
    /\ \E some \in (SUBSET view) \ {{}} : listing' \in SetToSeqs(some)
    /\ Output([i \in 1..Len(listing') |-> <<"device", KeyOf[listing'[i].device]>>]
             \o <<Say("prompt")>>)
    /\ UNCHANGED <<view, runnerVars, tested, found, signal>>

\* It was answered, or its prompt ran out and it takes the first device.
MemtestChooses ==
    /\ prog = "prompting" /\ prog' = "testing"
    /\ \E i \in 1..Len(listing) :
        /\ i = 1 \/ i = answered
        /\ tested' = {listing[i].device}
    /\ Output(<<Say("testing")>>)
    /\ UNCHANGED <<view, runnerVars, listing, found, signal>>

MemtestFindsError ==
    /\ prog = "testing" /\ ~found
    /\ found' = TRUE /\ Output(<<Say("error")>>)
    /\ UNCHANGED <<view, runnerVars, prog, listing, tested, signal>>

\* It ends by itself or on SIGINT, with a summary that only praises a clean run.
MemtestFinishes ==
    /\ prog = "testing" /\ prog' = "dead"
    /\ IF found THEN UNCHANGED pipe ELSE Output(<<Say("passed")>>)
    /\ UNCHANGED <<view, runnerVars, listing, tested, found, signal>>

\* It ends early: by a lost device or a failed call, or without a word.
MemtestCrashes ==
    /\ prog \in {"started", "prompting", "testing"} /\ prog' = "dead"
    /\ \/ \E kind \in {"lost", "broken"} : Output(<<Say(kind)>>)
       \/ UNCHANGED pipe
    /\ UNCHANGED <<view, runnerVars, listing, tested, found, signal>>

MemtestKilled ==
    /\ prog # "dead" /\ signal = "KILL"
    /\ prog' = "dead"
    /\ UNCHANGED <<view, runnerVars, pipe, listing, tested, found, signal>>

-----------------------------------------------------------------------------
Init ==
    /\ view \in SUBSET Entry /\ IsFiniteSet(view) /\ Cardinality(view) <= MaxView
    /\ pc = "identify" /\ identity = NoIdentity
    /\ listed = <<>> /\ answered = 0 /\ unsafe = FALSE /\ selected = FALSE /\ said = {}
    /\ result = "none"
    /\ prog = "none" /\ pipe = <<>> /\ listing = <<>> /\ tested = {} /\ found = FALSE
    /\ signal = "none"

Runner ==
    \/ Identify \/ Refuse \/ Start \/ Read \/ LogFails \/ SeeExit \/ Interrupt
    \/ Escalate \/ Collected \/ Return

Memtest ==
    \/ MemtestLists \/ MemtestChooses \/ MemtestFindsError \/ MemtestFinishes
    \/ MemtestCrashes \/ MemtestKilled

Next == Runner \/ Memtest

\* The runner is one thread under deadlines; of memtest only that SIGKILL ends it.
Fairness == WF_vars(Runner) /\ WF_vars(MemtestKilled)

Spec == Init /\ [][Next]_vars /\ Fairness

-----------------------------------------------------------------------------
Alive == {"started", "prompting", "testing"}

TypeOK ==
    /\ view \subseteq Entry
    /\ pc \in {"identify", "gate", "loop", "wait", "wait_term", "wait_kill", "tail", "done", "raised"}
    /\ identity \in [status : {"PASS", "UNAVAILABLE", "INCONCLUSIVE"}, legacy_safe : BOOLEAN]
    /\ listed \in Seq({KeyOf[d] : d \in Devices})
    /\ answered \in Nat
    /\ unsafe \in BOOLEAN /\ selected \in BOOLEAN /\ found \in BOOLEAN
    /\ said \subseteq Kinds
    /\ result \in {"none", "PASS", "FAIL", "INCONCLUSIVE", "UNAVAILABLE"}
    /\ prog \in {"none", "dead"} \union Alive
    /\ pipe \in Seq(Line)
    /\ listing \in Seq(view)
    /\ tested \subseteq Devices
    /\ signal \in {"none", "INT", "TERM", "KILL"}

\* A PASS or FAIL is about the card under test and no other: memtest, which
\* knows a card only by bus and device, worked on the target, whatever twin of
\* another domain or CPU renderer it may have listed, and also when its prompt
\* ran out before the answer came (legacy_vram.py:59-82, 139-150, 188-190).
VerdictIsOfTarget ==
    result \in {"PASS", "FAIL"} => tested = {Target}

\* An error that memtest printed is never reported as a PASS, and is a FAIL
\* unless the runtime broke down too or the singleton was lost: also when
\* memtest was stopped or killed and the line was still in the pipe
\* (legacy_vram.py:163-206).
ErrorsAreKept ==
    found /\ pc = "done" =>
        \/ result = "FAIL"
        \/ result = "INCONCLUSIVE"
           /\ ("lost" \in said \/ "broken" \in said \/ answered = 0 \/ Len(listing) # 1)

\* The call comes back, whatever memtest does, and leaves no memtest behind
\* that it returned a status of (legacy_vram.py:151-183).
CallEnds == <>(pc = "raised" \/ (pc = "done" /\ prog \in {"none", "dead"}))
=============================================================================
