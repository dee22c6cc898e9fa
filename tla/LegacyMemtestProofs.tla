------------------------ MODULE LegacyMemtestProofs ------------------------
(***************************************************************************)
(* For every set of devices and every enumeration: the runner of           *)
(* memtest_vulkan keeps its types, a verdict is about the card under test, *)
(* and no error that memtest printed is reported as a PASS.                *)
(***************************************************************************)
EXTENDS LegacyMemtest, FiniteSetTheorems, TLAPS

Key(i) == KeyOf[listing[i].device]

\* Device lines that memtest has printed and the runner has not heard.
Left == Len(listing) - Len(listed)

InPipe(kind) == \E i \in 1..Len(pipe) : pipe[i][1] = kind

\* memtest prints its devices at once and before anything else: what was heard
\* of them is where its list begins, the rest is where the pipe begins.
ListingInv ==
    /\ Len(listed) <= Len(listing) /\ Left <= Len(pipe)
    /\ \A i \in 1..Len(listed) : listed[i] = Key(i)
    /\ \A i \in 1..Left : pipe[i] = <<"device", Key(Len(listed) + i)>>
    /\ \A i \in (Left + 1)..Len(pipe) : pipe[i][1] # "device"

\* memtest runs only on a view with one graphics card, the target.
IdentityInv ==
    /\ IsFiniteSet(view)
    /\ identity \in {VulkanIdentity, NoIdentity}
    /\ prog # "none" => \E e \in view : e.device = Target /\ Hardware = {e}

\* How far memtest can be, seen from the runner, and what it has done by then.
ProgInv ==
    /\ prog = "none" <=> pc \in {"identify", "gate"} \/ (pc = "done" /\ result = "UNAVAILABLE")
    /\ pc \in {"tail", "done"} => prog \in {"none", "dead"}
    /\ prog = "none" => signal = "none"
    /\ prog \in {"none", "started"} => listing = <<>> /\ pipe = <<>>
    /\ prog \in {"none", "started", "prompting"} => tested = {}
    /\ prog = "testing" => tested # {}
    /\ tested # {} => \E i \in 1..Len(listing) : tested = {listing[i].device}

\* What the lines read and unread tell of memtest's work, and what the answer
\* to its prompt was based on.
HeardInv ==
    /\ tested # {} <=> selected \/ InPipe("testing")
    /\ found => tested # {} /\ ("error" \in said \/ InPipe("error"))
    /\ answered # 0 => Len(listed) >= 1 /\ listed[1] = KeyOf[Target]

ResultInv ==
    /\ pc # "done" => result = "none"
    /\ pc = "done" /\ result # "UNAVAILABLE" => pipe = <<>> /\ result = Verdict

IInv == TypeOK /\ ListingInv /\ IdentityInv /\ ProgInv /\ HeardInv /\ ResultInv

-----------------------------------------------------------------------------
(* Sequences: what is printed and what is read.                            *)

\* What memtest prints comes after all that is in the pipe.
LEMMA OutputAppends ==
    ASSUME TypeOK, NEW lines \in Seq(Line), Output(lines)
    PROVE  /\ pipe' \in Seq(Line)
           /\ Len(pipe') = Len(pipe) + Len(lines)
           /\ \A i \in 1..Len(pipe) : pipe'[i] = pipe[i]
           /\ \A i \in (Len(pipe) + 1)..Len(pipe') : pipe'[i] = lines[i - Len(pipe)]
BY DEF TypeOK, Output

\* The runner reads the first line of the pipe.
LEMMA ReadRemoves ==
    ASSUME TypeOK, pipe # <<>>, pipe' = Tail(pipe)
    PROVE  /\ pipe' \in Seq(Line) /\ Head(pipe) = pipe[1] /\ pipe[1] \in Line
           /\ Len(pipe) \in Nat \ {0} /\ Len(pipe') = Len(pipe) - 1
           /\ \A i \in 1..Len(pipe') : pipe'[i] = pipe[i + 1]
BY DEF TypeOK

\* A line other than the listing's, a single one, is a Line.
LEMMA LineType ==
    /\ \A kind \in Kinds : Say(kind) \in Line /\ Say(kind)[1] = kind
    /\ \A d \in Devices : <<"device", KeyOf[d]>> \in Line
    /\ \A line \in Line : line[1] \in Kinds
    /\ \A line \in Line : line[1] = "device" =>
          line = <<"device", line[2]>> /\ line[2] \in {KeyOf[d] : d \in Devices} \union {"-"}
BY DEF Line, Say, Kinds

\* One line printed makes no device line, and a line read or printed before
\* stays where the invariants look for it.
LEMMA OneLinePrinted ==
    ASSUME TypeOK, ListingInv, NEW kind \in Kinds \ {"device"}, Output(<<Say(kind)>>),
           UNCHANGED <<listed, listing>>
    PROVE  /\ pipe' \in Seq(Line) /\ ListingInv'
           /\ \A k \in Kinds : InPipe(k)' <=> InPipe(k) \/ k = kind
<1>1. <<Say(kind)>> \in Seq(Line) /\ Len(<<Say(kind)>>) = 1 /\ <<Say(kind)>>[1] = Say(kind)
    BY LineType
<1>2. /\ pipe' \in Seq(Line) /\ Len(pipe') = Len(pipe) + 1 /\ Len(pipe) \in Nat
      /\ \A i \in 1..Len(pipe) : pipe'[i] = pipe[i]
      /\ pipe'[Len(pipe) + 1] = Say(kind)
    <2>1. /\ pipe' \in Seq(Line)
          /\ Len(pipe') = Len(pipe) + Len(<<Say(kind)>>)
          /\ \A i \in 1..Len(pipe) : pipe'[i] = pipe[i]
          /\ \A i \in (Len(pipe) + 1)..Len(pipe') : pipe'[i] = <<Say(kind)>>[i - Len(pipe)]
        BY <1>1, OutputAppends
    <2>2. Len(pipe) \in Nat
        BY DEF TypeOK
    <2> QED BY <1>1, <2>1, <2>2
<1>3. Len(listed) \in Nat /\ Len(listing) \in Nat
    BY DEF TypeOK
<1>4. ListingInv'
    <2>1. \A i \in 1..Left' : pipe'[i] = <<"device", Key(Len(listed) + i)'>>
        BY <1>2, <1>3 DEF ListingInv, Left, Key
    <2>2. \A i \in (Left' + 1)..Len(pipe') : pipe'[i][1] # "device"
        BY <1>2, <1>3, LineType DEF ListingInv, Left
    <2> QED BY <1>2, <1>3, <2>1, <2>2 DEF ListingInv, Left, Key
<1>5. ASSUME NEW k \in Kinds PROVE InPipe(k)' <=> InPipe(k) \/ k = kind
    BY <1>2, LineType DEF InPipe
<1> QED BY <1>2, <1>4, <1>5

\* Nothing printed or read, and no new list.
LEMMA NothingPrinted ==
    ASSUME ListingInv, UNCHANGED <<listed, listing, pipe>>
    PROVE  ListingInv' /\ \A k \in Kinds : InPipe(k)' <=> InPipe(k)
BY DEF ListingInv, Left, Key, InPipe

\* The view does not change, and what the identity says of it does not either.
LEMMA IdentityStep ==
    ASSUME IdentityInv, UNCHANGED view, identity' \in {identity, VulkanIdentity, NoIdentity},
           prog' # "none" => prog # "none" \/ \E e \in view : e.device = Target /\ Hardware = {e}
    PROVE  IdentityInv'
<1>1. Hardware' = Hardware /\ Matches' = Matches
    BY DEF Hardware, Matches
<1>2. VulkanIdentity' = VulkanIdentity /\ NoIdentity' = NoIdentity
    BY <1>1 DEF VulkanIdentity, NoIdentity
<1> QED BY <1>1, <1>2 DEF IdentityInv

\* vulkan_identity returns a status and a flag (driver_probe.py:230-288).
LEMMA IdentityType ==
    /\ VulkanIdentity \in [status : {"PASS", "UNAVAILABLE", "INCONCLUSIVE"}, legacy_safe : BOOLEAN]
    /\ NoIdentity \in [status : {"PASS", "UNAVAILABLE", "INCONCLUSIVE"}, legacy_safe : BOOLEAN]
BY DEF VulkanIdentity, NoIdentity, Singleton

\* What the gate of legacy_memtest has proven (driver_probe.py:254-288).
LEMMA GateProves ==
    ASSUME TypeOK, IdentityInv, Proven
    PROVE  \E e \in view : e.device = Target /\ Hardware = {e}
<1>1. identity = VulkanIdentity
    BY DEF IdentityInv, Proven, NoIdentity
<1>2. Singleton(Matches) /\ Singleton(Hardware)
    BY <1>1 DEF Proven, VulkanIdentity, NoIdentity
<1>3. PICK e \in Matches : TRUE
    BY <1>2 DEF Singleton
<1>4. PICK h \in Hardware : Hardware = {h}
    BY <1>2 DEF Singleton
<1>5. e \in Hardware /\ e.device = Target
    BY <1>3 DEF Matches
<1> QED BY <1>4, <1>5 DEF Hardware

\* The verdict is one of three (legacy_vram.py:185-206).
LEMMA VerdictType == Verdict \in {"PASS", "FAIL", "INCONCLUSIVE"}
BY DEF Verdict

\* The orders of a set are sequences of its elements.
LEMMA OrdersAreSequences ==
    ASSUME NEW S, IsFiniteSet(S), NEW l \in SetToSeqs(S)
    PROVE  l \in Seq(S)
BY FS_CardinalityType DEF SetToSeqs

-----------------------------------------------------------------------------
(* The invariant.                                                          *)

\* Before the call nothing is known and nothing runs.
LEMMA InitInv == Init => IInv
<1> SUFFICES ASSUME Init PROVE IInv
    OBVIOUS
<1>1. NoIdentity \in [status : {"PASS", "UNAVAILABLE", "INCONCLUSIVE"}, legacy_safe : BOOLEAN]
    BY IdentityType
<1>2. TypeOK
    <2>1. ASSUME NEW S PROVE <<>> \in Seq(S)
        OBVIOUS
    <2>2. listed \in Seq({KeyOf[d] : d \in Devices}) /\ pipe \in Seq(Line) /\ listing \in Seq(view)
        BY <2>1 DEF Init
    <2>3. view \subseteq Entry /\ said \subseteq Kinds /\ tested \subseteq Devices
        BY DEF Init
    <2>4. /\ pc = "identify" /\ identity = NoIdentity /\ answered = 0 /\ unsafe = FALSE
          /\ selected = FALSE /\ found = FALSE /\ result = "none" /\ prog = "none" /\ signal = "none"
        BY DEF Init
    <2> QED BY <1>1, <2>2, <2>3, <2>4 DEF TypeOK
<1>3. ListingInv
    BY DEF Init, ListingInv, Left
<1>4. IdentityInv /\ ProgInv /\ HeardInv /\ ResultInv
    BY DEF Init, IdentityInv, ProgInv, HeardInv, ResultInv, InPipe
<1> QED BY <1>2, <1>3, <1>4 DEF IInv

\* The runner's steps that neither read nor write a line.
SilentStep ==
    \/ Identify \/ Refuse \/ Start \/ LogFails \/ SeeExit \/ Interrupt
    \/ Escalate \/ Collected \/ Return

\* The runner's own steps keep the invariant (legacy_vram.py:66-221).
LEMMA SilentKeeps == IInv /\ SilentStep => IInv'
<1> SUFFICES ASSUME IInv, SilentStep PROVE IInv'
    OBVIOUS
<1> USE DEF IInv
<1>1. UNCHANGED <<view, listed, answered, selected, said, pipe, listing, tested, found>>
    BY DEF SilentStep, Identify, Refuse, Start, LogFails, SeeExit, Interrupt, Escalate,
           Collected, Return, heardVars, progVars, runnerVars
<1>2. TypeOK'
    <2>1. /\ pc' \in {"gate", "loop", "wait", "wait_term", "wait_kill", "tail", "done", "raised"}
          /\ result' \in {"none", "PASS", "FAIL", "INCONCLUSIVE", "UNAVAILABLE"}
          /\ prog' \in {"none", "dead"} \union Alive
          /\ signal' \in {"none", "INT", "TERM", "KILL"}
          /\ unsafe' = unsafe
          /\ identity' \in {identity, VulkanIdentity, NoIdentity}
        BY VerdictType DEF TypeOK, SilentStep, Identify, Refuse, Start, LogFails, SeeExit, Interrupt,
               Escalate, Collected, Return, heardVars, progVars, Alive
    <2>2. identity' \in [status : {"PASS", "UNAVAILABLE", "INCONCLUSIVE"}, legacy_safe : BOOLEAN]
        BY <2>1, IdentityType DEF TypeOK
    <2> QED BY <1>1, <2>1, <2>2 DEF TypeOK
<1>3. ListingInv' /\ \A k \in Kinds : InPipe(k)' <=> InPipe(k)
    BY <1>1, NothingPrinted
<1>4. IdentityInv'
    <2>1. identity' \in {identity, VulkanIdentity, NoIdentity}
        BY DEF SilentStep, Identify, Refuse, Start, LogFails, SeeExit, Interrupt, Escalate,
               Collected, Return
    <2>2. prog' # "none" => prog # "none" \/ Proven
        BY DEF SilentStep, Identify, Refuse, Start, LogFails, SeeExit, Interrupt, Escalate,
               Collected, Return, progVars
    <2>3. prog' # "none" => prog # "none" \/ \E e \in view : e.device = Target /\ Hardware = {e}
        BY <2>2, GateProves
    <2> QED BY <1>1, <2>1, <2>3, IdentityStep
<1>5. ProgInv'
    <2>1. prog' = "none" <=> pc' \in {"identify", "gate"} \/ (pc' = "done" /\ result' = "UNAVAILABLE")
        BY VerdictType DEF ProgInv, ResultInv, SilentStep, Identify, Refuse, Start, LogFails, SeeExit, Interrupt,
               Escalate, Collected, Return, progVars, Reading
    <2>2. pc' \in {"tail", "done"} => prog' \in {"none", "dead"}
        BY DEF ProgInv, SilentStep, Identify, Refuse, Start, LogFails, SeeExit, Interrupt,
               Escalate, Collected, Return, progVars
    <2>3. prog' = prog \/ (prog = "none" /\ prog' = "started")
        BY DEF ProgInv, SilentStep, Identify, Refuse, Start, LogFails, SeeExit, Interrupt,
               Escalate, Collected, Return, progVars
    <2>4. prog' = "none" => signal' = "none"
        BY DEF ProgInv, SilentStep, Identify, Refuse, Start, LogFails, SeeExit, Interrupt,
               Escalate, Collected, Return, progVars
    <2> QED BY <1>1, <2>1, <2>2, <2>3, <2>4 DEF ProgInv
<1>6. HeardInv'
    <2>1. {"testing", "error"} \subseteq Kinds
        BY DEF Kinds
    <2> QED BY <1>1, <1>3, <2>1 DEF HeardInv
<1>7. ResultInv'
    <2>1. pc' # "done" => result' = "none"
        BY DEF ResultInv, SilentStep, Identify, Refuse, Start, LogFails, SeeExit, Interrupt,
               Escalate, Collected, Return, Reading
    <2>2. Verdict' = Verdict
        BY <1>1 DEF Verdict, OnlyTargetListed, TargetMatches
    <2>3. pc' = "done" => result' = "UNAVAILABLE" \/ (pipe = <<>> /\ result' = Verdict)
        BY DEF SilentStep, Identify, Refuse, Start, LogFails, SeeExit, Interrupt,
               Escalate, Collected, Return
    <2> QED BY <1>1, <2>1, <2>2, <2>3 DEF ResultInv
<1> QED BY <1>2, <1>3, <1>4, <1>5, <1>6, <1>7

\* Reading a line moves it from the pipe to what was heard
\* (legacy_vram.py:117-150).
LEMMA ReadKeeps == IInv /\ Read => IInv'
<1> SUFFICES ASSUME IInv, Read PROVE IInv'
    OBVIOUS
<1> USE DEF IInv
<1>1. /\ pipe # <<>> /\ pipe' = Tail(pipe) /\ Hear(Head(pipe))
      /\ pc \in {"loop", "tail"}
      /\ UNCHANGED <<view, identity, result, prog, listing, tested, found, signal>>
    BY DEF Read, Reading, progVars
<1>2. /\ pipe' \in Seq(Line) /\ Head(pipe) = pipe[1] /\ pipe[1] \in Line
      /\ Len(pipe) \in Nat \ {0} /\ Len(pipe') = Len(pipe) - 1
      /\ \A i \in 1..Len(pipe') : pipe'[i] = pipe[i + 1]
    BY <1>1, ReadRemoves
<1>3. PICK line \in Line : line = pipe[1] /\ Hear(line)
    BY <1>1, <1>2
<1>4. Len(listed) \in Nat /\ Len(listing) \in Nat /\ Left \in Nat /\ Left <= Len(pipe)
    BY DEF TypeOK, ListingInv, Left
<1>5. line[1] = "device" <=> Left > 0
    <2>1. CASE Left > 0
        BY <1>2, <1>3, <1>4, <2>1 DEF ListingInv
    <2>2. CASE Left = 0
        BY <1>2, <1>3, <1>4, <2>2 DEF ListingInv
    <2> QED BY <1>4, <2>1, <2>2
<1>6. \A k \in Kinds : InPipe(k) <=> InPipe(k)' \/ line[1] = k
    <2> SUFFICES ASSUME NEW k \in Kinds PROVE InPipe(k) <=> InPipe(k)' \/ line[1] = k
        OBVIOUS
    <2>1. ASSUME NEW i \in 1..Len(pipe), pipe[i][1] = k PROVE InPipe(k)' \/ line[1] = k
        <3>1. CASE i = 1
            BY <1>3, <2>1, <3>1
        <3>2. CASE i # 1
            <4>1. i - 1 \in 1..Len(pipe') /\ pipe'[i - 1] = pipe[i]
                BY <1>2, <3>2
            <4> QED BY <2>1, <4>1 DEF InPipe
        <3> QED BY <3>1, <3>2
    <2>2. ASSUME NEW i \in 1..Len(pipe'), pipe'[i][1] = k PROVE InPipe(k)
        <3>1. i + 1 \in 1..Len(pipe) /\ pipe[i + 1] = pipe'[i]
            BY <1>2
        <3> QED BY <2>2, <3>1 DEF InPipe
    <2>3. line[1] = k => InPipe(k)
        BY <1>2, <1>3 DEF InPipe
    <2> QED BY <2>1, <2>2, <2>3 DEF InPipe
<1>7. IdentityInv'
    BY <1>1, IdentityStep
<1>8. ASSUME line[1] = "device" PROVE IInv'
    <2>1. /\ listed' = Append(listed, line[2])
          /\ UNCHANGED <<answered, unsafe, selected, said, pc>>
        BY <1>3, <1>8 DEF Hear, HearPrompt
    <2>2. line = <<"device", Key(Len(listed) + 1)>>
        BY <1>2, <1>3, <1>4, <1>5, <1>8 DEF ListingInv
    <2>3. Key(Len(listed) + 1) \in {KeyOf[d] : d \in Devices}
        <3>1. Len(listed) + 1 \in 1..Len(listing)
            BY <1>4, <1>5, <1>8 DEF Left
        <3>2. listing[Len(listed) + 1] \in Entry
            BY <3>1 DEF TypeOK
        <3> QED BY <3>2 DEF Key, Entry
    <2>4. PICK Keys : Keys = {KeyOf[d] : d \in Devices}
        OBVIOUS
    <2>5. /\ listed \in Seq(Keys) /\ line[2] \in Keys
          /\ line[2] = Key(Len(listed) + 1)
        BY <2>2, <2>3, <2>4 DEF TypeOK
    <2>6. /\ listed' \in Seq(Keys) /\ Len(listed') = Len(listed) + 1
          /\ \A i \in 1..Len(listed) : listed'[i] = listed[i]
          /\ listed'[Len(listed) + 1] = line[2]
        BY <2>1, <2>5
    <2>7. TypeOK'
        BY <1>1, <1>2, <2>1, <2>4, <2>6 DEF TypeOK
    <2>8. ListingInv'
        <3>1. Left' = Left - 1
            BY <1>1, <1>4, <2>6 DEF Left
        <3>2. Len(listed') <= Len(listing') /\ Left' <= Len(pipe')
            BY <1>1, <1>2, <1>4, <1>5, <1>8, <2>6, <3>1 DEF Left
        <3>3. \A i \in 1..Len(listed') : listed'[i] = Key(i)'
            <4> SUFFICES ASSUME NEW i \in 1..Len(listed') PROVE listed'[i] = KeyOf[listing[i].device]
                BY <1>1 DEF Key
            <4>1. CASE i \in 1..Len(listed)
                BY <2>6, <4>1 DEF ListingInv, Key
            <4>2. CASE i = Len(listed) + 1
                BY <2>5, <2>6, <4>2 DEF Key
            <4> QED BY <1>4, <2>6, <4>1, <4>2
        <3>4. ASSUME NEW i \in 1..Left' PROVE pipe'[i] = <<"device", Key(Len(listed) + i)'>>
            <4>1. i + 1 \in 1..Left /\ i \in 1..Len(pipe')
                BY <1>2, <1>4, <3>1
            <4>2. pipe'[i] = <<"device", Key(Len(listed) + (i + 1))>>
                BY <1>2, <4>1 DEF ListingInv
            <4>3. Len(listed') + i = Len(listed) + (i + 1)
                BY <1>4, <2>6, <4>1
            <4> QED BY <1>1, <4>2, <4>3 DEF Key
        <3>5. ASSUME NEW i \in (Left' + 1)..Len(pipe') PROVE pipe'[i][1] # "device"
            <4>1. i + 1 \in (Left + 1)..Len(pipe) /\ i \in 1..Len(pipe')
                BY <1>2, <1>4, <1>5, <1>8, <3>1
            <4> QED BY <1>2, <4>1 DEF ListingInv
        <3> QED BY <3>2, <3>3, <3>4, <3>5 DEF ListingInv
    <2>9. HeardInv'
        <3>1. {"testing", "error", "device"} \subseteq Kinds
            BY DEF Kinds
        <3>2. InPipe("testing")' = InPipe("testing") /\ (InPipe("error") => InPipe("error")')
            BY <1>6, <1>8, <3>1 DEF InPipe
        <3> QED BY <1>1, <1>4, <2>1, <2>6, <3>2 DEF HeardInv
    <2>10. ProgInv' /\ ResultInv'
        BY <1>1, <2>1 DEF ProgInv, ResultInv
    <2> QED BY <1>7, <2>7, <2>8, <2>9, <2>10
<1>9. ASSUME line[1] # "device" PROVE IInv'
    <2>1. UNCHANGED <<listed>> /\ Left = 0
        BY <1>3, <1>4, <1>5, <1>9 DEF Hear, HearPrompt
    <2>2. ListingInv'
        BY <1>1, <1>2, <1>4, <2>1 DEF ListingInv, Left, Key
    <2>3. /\ pc' \in {pc, "raised"} /\ answered' \in {answered} \union TargetMatches
          /\ answered' = answered \/ OnlyTargetListed
          /\ unsafe' \in {unsafe, TRUE}
          /\ selected' = (selected \/ line[1] = "testing")
          /\ said \subseteq said' /\ said' \subseteq said \union {line[1]}
          /\ line[1] = "error" => "error" \in said'
        BY <1>3, <1>9 DEF Hear, HearPrompt, TypeOK
    <2>4. TypeOK'
        <3>1. answered' \in Nat /\ said' \subseteq Kinds
            BY <1>4, <2>3, LineType DEF TypeOK, TargetMatches
        <3>2. listed' \in Seq({KeyOf[d] : d \in Devices})
            BY <2>1 DEF TypeOK
        <3>3. selected' \in BOOLEAN /\ unsafe' \in BOOLEAN
            BY <2>3 DEF TypeOK
        <3>4. pc' \in {"identify", "gate", "loop", "wait", "wait_term", "wait_kill",
                       "tail", "done", "raised"}
            BY <2>3 DEF TypeOK
        <3> QED BY <1>1, <1>2, <3>1, <3>2, <3>3, <3>4 DEF TypeOK
    <2>5. HeardInv'
        <3>1. {"testing", "error"} \subseteq Kinds
            BY DEF Kinds
        <3>2. tested' # {} <=> selected' \/ InPipe("testing")'
            BY <1>1, <1>6, <2>3, <3>1 DEF HeardInv
        <3>3. found' => tested' # {} /\ ("error" \in said' \/ InPipe("error")')
            BY <1>1, <1>6, <2>3, <3>1 DEF HeardInv
        <3>4. OnlyTargetListed => Len(listed) >= 1 /\ listed[1] = KeyOf[Target]
            BY DEF OnlyTargetListed, Singleton, TargetMatches
        <3> QED BY <2>1, <2>3, <3>2, <3>3, <3>4 DEF HeardInv
    <2>6. ProgInv' /\ ResultInv'
        BY <1>1, <2>3 DEF ProgInv, ResultInv
    <2> QED BY <1>7, <2>2, <2>4, <2>5, <2>6
<1> QED BY <1>8, <1>9

\* memtest's list comes first in its output and is of the view.
LEMMA ListKeeps == IInv /\ MemtestLists => IInv'
<1> SUFFICES ASSUME IInv, MemtestLists PROVE IInv'
    OBVIOUS
<1> USE DEF IInv
<1>1. /\ prog = "started" /\ prog' = "prompting" /\ pipe = <<>> /\ listing = <<>>
      /\ UNCHANGED <<view, pc, identity, listed, answered, unsafe, selected, said, result,
                     tested, found, signal>>
    BY DEF MemtestLists, ProgInv, runnerVars, heardVars
<1>2. listing' \in Seq(view)
    <2>1. PICK some \in (SUBSET view) \ {{}} : listing' \in SetToSeqs(some)
        BY DEF MemtestLists
    <2>2. listing' \in Seq(some)
        BY <2>1, FS_Subset, OrdersAreSequences DEF IdentityInv
    <2> QED BY <2>1, <2>2
<1>3. \A i \in 1..Len(listing') : <<"device", KeyOf[listing'[i].device]>> \in Line
    <2> SUFFICES ASSUME NEW i \in 1..Len(listing')
                 PROVE  <<"device", KeyOf[listing'[i].device]>> \in Line
        OBVIOUS
    <2>1. listing'[i] \in Entry
        BY <1>2 DEF TypeOK
    <2> QED BY <2>1, LineType DEF Entry
<1>4. PICK n \in Nat : n = Len(listing')
    BY <1>2
<1>5. PICK devices : devices = [i \in 1..n |-> <<"device", KeyOf[listing'[i].device]>>]
    OBVIOUS
<1>6. devices \in Seq(Line) /\ Len(devices) = n
    BY <1>3, <1>4, <1>5
<1>7. <<Say("prompt")>> \in Seq(Line) /\ Len(<<Say("prompt")>>) = 1 /\ Say("prompt")[1] = "prompt"
    BY LineType DEF Kinds
<1>8. pipe' = pipe \o (devices \o <<Say("prompt")>>)
    BY <1>4, <1>5 DEF MemtestLists, Output
<1>9. /\ pipe' \in Seq(Line) /\ Len(pipe') = n + 1
      /\ \A i \in 1..n : pipe'[i] = devices[i]
      /\ pipe'[n + 1] = Say("prompt")
    BY <1>1, <1>6, <1>7, <1>8
<1>10. TypeOK'
    BY <1>1, <1>2, <1>9 DEF TypeOK, Alive
<1>11. listed = <<>>
    BY <1>1 DEF ListingInv, TypeOK
<1>12. ListingInv'
    <2>1. Left' = n /\ Len(listed') = 0
        BY <1>1, <1>4, <1>11 DEF Left
    <2>2. ASSUME NEW i \in 1..Left' PROVE pipe'[i] = <<"device", Key(Len(listed) + i)'>>
        <3>1. Len(listed') + i = i
            BY <2>1
        <3> QED BY <1>5, <1>9, <2>1, <3>1 DEF Key
    <2>3. \A i \in (Left' + 1)..Len(pipe') : pipe'[i][1] # "device"
        BY <1>7, <1>9, <2>1
    <2> QED BY <1>4, <1>9, <2>1, <2>2, <2>3 DEF ListingInv
<1>13. IdentityInv'
    BY <1>1, IdentityStep
<1>14. ProgInv' /\ ResultInv'
    BY <1>1 DEF ProgInv, ResultInv
<1>15. HeardInv'
    <2>1. tested = {} /\ ~found /\ ~selected
        BY <1>1 DEF ProgInv, HeardInv
    <2>2. ~InPipe("testing")'
        BY <1>5, <1>7, <1>9 DEF InPipe
    <2> QED BY <1>1, <2>1, <2>2 DEF HeardInv
<1> QED BY <1>10, <1>12, <1>13, <1>14, <1>15

\* The other steps of memtest print at most one line, not of a device.
LEMMA OneLineKeeps ==
    IInv /\ (MemtestChooses \/ MemtestFindsError \/ MemtestFinishes \/ MemtestCrashes \/ MemtestKilled)
        => IInv'
<1> SUFFICES ASSUME IInv,
                    \/ MemtestChooses \/ MemtestFindsError \/ MemtestFinishes
                    \/ MemtestCrashes \/ MemtestKilled
             PROVE  IInv'
    OBVIOUS
<1> USE DEF IInv
<1>1. /\ prog \in Alive /\ prog' \in {"testing", "dead"}
      /\ UNCHANGED <<view, pc, identity, listed, answered, unsafe, selected, said, result,
                     listing, signal>>
    BY DEF MemtestChooses, MemtestFindsError, MemtestFinishes, MemtestCrashes, MemtestKilled,
           TypeOK, ProgInv, Alive, runnerVars, heardVars
<1>2. prog # "none"
    BY <1>1 DEF Alive
<1>3. IdentityInv'
    BY <1>1, <1>2, IdentityStep
<1>4. pc \notin {"identify", "gate", "tail", "done"}
    BY <1>1, <1>2 DEF ProgInv, Alive
<1>5. ResultInv'
    BY <1>1, <1>4 DEF ResultInv
<1>6. {"testing", "error", "passed", "lost", "broken"} \subseteq Kinds \ {"device"}
    BY DEF Kinds
<1>7. CASE MemtestChooses
    <2>1. PICK i \in 1..Len(listing) : tested' = {listing[i].device}
        BY <1>7 DEF MemtestChooses
    <2>2. listing[i] \in Entry
        BY <2>1 DEF TypeOK
    <2>3. Output(<<Say("testing")>>) /\ found' = found /\ prog' = "testing" /\ prog = "prompting"
        BY <1>7 DEF MemtestChooses
    <2>4. /\ pipe' \in Seq(Line) /\ ListingInv'
          /\ \A k \in Kinds : InPipe(k)' <=> InPipe(k) \/ k = "testing"
        BY <1>1, <1>6, <2>3, OneLinePrinted
    <2>5. TypeOK'
        BY <1>1, <2>1, <2>2, <2>3, <2>4 DEF TypeOK, Entry, Alive
    <2>6. ProgInv'
        BY <1>1, <1>4, <2>1, <2>3 DEF ProgInv
    <2>7. HeardInv'
        BY <1>1, <1>6, <2>1, <2>3, <2>4 DEF HeardInv, ProgInv
    <2> QED BY <1>3, <1>5, <2>4, <2>5, <2>6, <2>7
<1>8. CASE MemtestFindsError
    <2>1. Output(<<Say("error")>>) /\ found' = TRUE /\ UNCHANGED <<tested, prog>> /\ prog = "testing"
        BY <1>8 DEF MemtestFindsError
    <2>2. /\ pipe' \in Seq(Line) /\ ListingInv'
          /\ \A k \in Kinds : InPipe(k)' <=> InPipe(k) \/ k = "error"
        BY <1>1, <1>6, <2>1, OneLinePrinted
    <2>3. TypeOK'
        BY <1>1, <2>1, <2>2 DEF TypeOK
    <2>4. ProgInv'
        BY <1>1, <1>4, <2>1 DEF ProgInv
    <2>5. HeardInv'
        BY <1>1, <1>6, <2>1, <2>2 DEF HeardInv, ProgInv
    <2> QED BY <1>3, <1>5, <2>2, <2>3, <2>4, <2>5
<1>9. CASE MemtestFinishes \/ MemtestCrashes \/ MemtestKilled
    <2>1. UNCHANGED <<tested, found>> /\ prog' = "dead"
        BY <1>9 DEF MemtestFinishes, MemtestCrashes, MemtestKilled
    <2>2. UNCHANGED pipe \/ \E kind \in {"passed", "lost", "broken"} : Output(<<Say(kind)>>)
        BY <1>9 DEF MemtestFinishes, MemtestCrashes, MemtestKilled
    <2>3. /\ pipe' \in Seq(Line) /\ ListingInv'
          /\ \A k \in {"testing", "error"} : InPipe(k)' <=> InPipe(k)
        <3>1. CASE UNCHANGED pipe
            BY <1>1, <1>6, <3>1, NothingPrinted DEF TypeOK
        <3>2. ASSUME NEW kind \in {"passed", "lost", "broken"}, Output(<<Say(kind)>>)
              PROVE  /\ pipe' \in Seq(Line) /\ ListingInv'
                     /\ \A k \in {"testing", "error"} : InPipe(k)' <=> InPipe(k)
            BY <1>1, <1>6, <3>2, OneLinePrinted
        <3> QED BY <2>2, <3>1, <3>2
    <2>4. TypeOK'
        BY <1>1, <2>1, <2>3 DEF TypeOK
    <2>5. ProgInv'
        BY <1>1, <1>4, <2>1 DEF ProgInv
    <2>6. HeardInv'
        BY <1>1, <2>1, <2>3 DEF HeardInv
    <2> QED BY <1>3, <1>5, <2>3, <2>4, <2>5, <2>6
<1> QED BY <1>7, <1>8, <1>9

\* Every step keeps the invariant.
LEMMA StepKeeps == IInv /\ [Next]_vars => IInv'
<1> SUFFICES ASSUME IInv, [Next]_vars PROVE IInv'
    OBVIOUS
<1>1. CASE UNCHANGED vars
    <2>1. UNCHANGED <<view, pc, identity, listed, answered, unsafe, selected, said, result, prog,
                      pipe, listing, tested, found, signal>>
        BY <1>1 DEF vars, runnerVars, heardVars, progVars
    <2>2. TypeOK'
        BY <2>1 DEF IInv, TypeOK
    <2>3. ListingInv' /\ \A k \in Kinds : InPipe(k)' <=> InPipe(k)
        BY <2>1, NothingPrinted DEF IInv
    <2>4. IdentityInv'
        BY <2>1, IdentityStep DEF IInv
    <2>5. ProgInv'
        BY <2>1 DEF IInv, ProgInv
    <2>6. HeardInv'
        BY <2>1 DEF IInv, HeardInv, InPipe
    <2>7. ResultInv'
        <3>1. Verdict' = Verdict
            BY <2>1 DEF Verdict, OnlyTargetListed, TargetMatches
        <3> QED BY <2>1, <3>1 DEF IInv, ResultInv
    <2> QED BY <2>2, <2>3, <2>4, <2>5, <2>6, <2>7 DEF IInv
<1>2. CASE Runner
    BY <1>2, SilentKeeps, ReadKeeps DEF Runner, SilentStep
<1>3. CASE Memtest
    BY <1>3, ListKeeps, OneLineKeeps DEF Memtest
<1> QED BY <1>1, <1>2, <1>3 DEF Next

\* The invariant holds in every reachable state.
LEMMA IInvHolds == Spec => []IInv
BY InitInv, StepKeeps, PTL DEF Spec

-----------------------------------------------------------------------------
(* The theorems.                                                           *)

\* The runner and memtest stay within their states and kinds of lines
\* (legacy_vram.py:66-221).
THEOREM TypeCorrect == Spec => []TypeOK
<1>1. IInv => TypeOK
    BY DEF IInv
<1> QED BY <1>1, IInvHolds, PTL

\* A PASS or FAIL is about the card under test: the gate has proven that it is
\* the only graphics card of the view, and the one device listed has its bus
\* and device number, which no CPU renderer has (legacy_vram.py:59-82, 188-190).
THEOREM VerdictNamesTarget == Spec => []VerdictIsOfTarget
<1>1. ASSUME IInv, result \in {"PASS", "FAIL"} PROVE tested = {Target}
    <2> USE <1>1 DEF IInv
    <2>1. pipe = <<>> /\ result = Verdict /\ pc = "done" /\ prog # "none"
        BY DEF ResultInv, ProgInv
    <2>2. OnlyTargetListed /\ selected
        BY <2>1 DEF Verdict
    <2>3. Len(listed) = 1 /\ listed[1] = KeyOf[Target]
        BY <2>2 DEF OnlyTargetListed, Singleton, TargetMatches
    <2>4. Len(listing) = 1 /\ listed[1] = Key(1)
        <3>1. Len(listing) \in Nat /\ Left = 0
            BY <2>1, <2>3 DEF ListingInv, TypeOK, Left
        <3> QED BY <2>3, <3>1 DEF ListingInv, Left
    <2>5. tested # {}
        BY <2>2 DEF HeardInv
    <2>6. tested = {listing[1].device}
        BY <2>4, <2>5 DEF ProgInv
    <2>7. listing[1] \in view /\ listing[1].device \in Devices
        <3>1. listing \in Seq(view) /\ view \subseteq Entry
            BY DEF TypeOK
        <3>2. listing[1] \in view
            BY <2>4, <3>1
        <3> QED BY <3>1, <3>2 DEF Entry
    <2>8. listing[1].device \notin Cpus
        BY <2>3, <2>4, <2>7, DeviceAssumption DEF Key
    <2>9. PICK e \in view : e.device = Target /\ Hardware = {e}
        BY <2>1 DEF IdentityInv
    <2>10. listing[1] \in Hardware
        BY <2>7, <2>8 DEF Hardware
    <2> QED BY <2>6, <2>9, <2>10
<1>2. IInv => VerdictIsOfTarget
    BY <1>1 DEF VerdictIsOfTarget
<1> QED BY <1>2, IInvHolds, PTL

\* No error that memtest printed is reported as a PASS: what it had printed is
\* read before the verdict, the tail included (legacy_vram.py:163-206).
THEOREM ErrorsReachVerdict == Spec => []ErrorsAreKept
<1>1. ASSUME IInv, found, pc = "done"
      PROVE  \/ result = "FAIL"
             \/ result = "INCONCLUSIVE"
                /\ ("lost" \in said \/ "broken" \in said \/ answered = 0 \/ Len(listing) # 1)
    <2> USE <1>1 DEF IInv
    <2>1. tested # {}
        BY DEF HeardInv
    <2>2. result # "UNAVAILABLE"
        BY <2>1 DEF ProgInv
    <2>3. pipe = <<>> /\ result = Verdict
        BY <2>2 DEF ResultInv
    <2>4. selected /\ "error" \in said
        BY <2>1, <2>3 DEF HeardInv, InPipe
    <2>5. ASSUME answered # 0, Len(listing) = 1 PROVE OnlyTargetListed
        <3>1. Len(listed) = 1 /\ listed[1] = KeyOf[Target]
            BY <2>5 DEF HeardInv, ListingInv, TypeOK
        <3>2. TargetMatches = {1}
            BY <3>1 DEF TargetMatches
        <3> QED BY <3>1, <3>2 DEF OnlyTargetListed, Singleton
    <2> QED BY <2>3, <2>4, <2>5 DEF Verdict
<1>2. IInv => ErrorsAreKept
    BY <1>1 DEF ErrorsAreKept
<1> QED BY <1>2, IInvHolds, PTL

=============================================================================
