----------------------------- MODULE EvidenceProofs -----------------------------
(***************************************************************************)
(* For any chain of devices, any counters, any log lines and any bounds:    *)
(* the types of Evidence; that the difference of the two counter snapshots  *)
(* is neither blind to a severe error counted between them nor takes an old *)
(* error for a new one; and that the new lines found in the second kernel   *)
(* log were written after the first, none of them missing.                 *)
(***************************************************************************)
EXTENDS Evidence, TLAPS, SequenceTheorems, FiniteSetTheorems

Counts == [Sites -> Nat]

\* The variables, and the bound on a counter that the next event keeps.
SnapshotTypes ==
    /\ aer \in [Snapshot -> Counts \union {<<>>}]
    /\ kernel \in [Snapshot -> [source : Source, ok : BOOLEAN, lines : Seq(Source \X LogLines)]]

TypeInv ==
    /\ reading \in {"aer_before", "log_before", "aer_after", "log_after", "done"}
    /\ events \in 0..MaxEvents
    /\ present \in BOOLEAN /\ renewed \in BOOLEAN
    /\ counter \in Counts /\ happened \in Counts
    /\ \A s \in Sites : counter[s] <= events /\ happened[s] <= events
    /\ log \in Seq(LogLines) /\ mark \in 0..Len(log)
    /\ SnapshotTypes

\* How counters read now and those of the first snapshot go together with the
\* errors between.  A card found again counts from there on, and so does the
\* history.
Tells(now) ==
    \A s \in Sites :
        IF s[1] = Endpoint /\ renewed THEN now[s] = happened[s]
        ELSE /\ happened[s] <= now[s]
             /\ aer["before"] # <<>> => now[s] = aer["before"][s] + happened[s]

\* A card that was not there at the first snapshot can be read now only if it
\* came back.
FoundAgain == aer["before"] = <<>> /\ Sites # {} => renewed

\* What the counters say at each place of the reading.
CountInv ==
    /\ reading = "aer_before" =>
        ~renewed /\ happened = NoErrors /\ aer["before"] = <<>>
    /\ BetweenSnapshots => Tells(counter) /\ (present => FoundAgain)
    /\ reading \in {"log_after", "done"} /\ aer["after"] # <<>> =>
        Tells(aer["after"]) /\ FoundAgain

IInv == TypeInv /\ CountInv
-----------------------------------------------------------------------------
(* The helpers.                                                            *)

\* The ring buffer holds the end of the log.
LEMMA RingIsLog ==
    ASSUME TypeInv
    PROVE  Ring \in Seq(LogLines)
<1> DEFINE kept == Lowest(Len(log), RingSize)
<1>1. Len(log) \in Nat /\ log \in [1..Len(log) -> LogLines]
    BY LenProperties DEF TypeInv
<1>2. kept \in Nat /\ kept <= Len(log)
    BY <1>1, BoundsAssumption DEF Lowest
<1>3. \A i \in (Len(log) - kept + 1)..Len(log) : log[i] \in LogLines
    BY <1>1, <1>2
<1> QED
    BY <1>1, <1>2, <1>3, SubSeqProperties DEF Ring

\* Writing a line keeps it a line.
LEMMA ToldIsSeq ==
    ASSUME NEW source \in Source, NEW lines \in Seq(LogLines)
    PROVE  Told(source, lines) \in Seq(Source \X LogLines)
<1>1. Len(lines) \in Nat /\ lines \in [1..Len(lines) -> LogLines]
    BY LenProperties
<1>2. Told(source, lines) \in [1..Len(lines) -> Source \X LogLines]
    BY <1>1 DEF Told
<1> QED
    BY <1>1, <1>2, SeqDef

\* Whatever the log is read from, lines are lines.
LEMMA KernelLogType ==
    ASSUME TypeInv
    PROVE  KernelLog \subseteq [source : Source, ok : BOOLEAN, lines : Seq(Source \X LogLines)]
<1>1. log \in Seq(LogLines)
    BY DEF TypeInv
<1>2. /\ Told("dmesg", Ring) \in Seq(Source \X LogLines)
      /\ Told("journalctl", log) \in Seq(Source \X LogLines)
      /\ <<>> \in Seq(Source \X LogLines)
    BY <1>1, RingIsLog, ToldIsSeq, EmptySeq DEF Source
<1> QED
    BY <1>2 DEF KernelLog, Source

-----------------------------------------------------------------------------
(* The types.                                                              *)

\* At the start nothing was counted, read or logged.
LEMMA TypeInit == Init => TypeInv
<1> SUFFICES ASSUME Init PROVE TypeInv
    OBVIOUS
<1>1. /\ reading = "aer_before" /\ events = 0 /\ present = TRUE /\ renewed = FALSE
      /\ counter = NoErrors /\ happened = NoErrors
      /\ log = <<>> /\ mark = 0
      /\ aer = [s \in Snapshot |-> <<>>] /\ kernel = [s \in Snapshot |-> NotRead]
    BY DEF Init
<1>2. NoErrors \in Counts /\ \A s \in Sites : NoErrors[s] = 0
    BY DEF NoErrors, Counts
<1>3. 0 \in 0..MaxEvents
    BY BoundsAssumption
<1>4. log \in Seq(LogLines) /\ Len(log) = 0
    BY <1>1, EmptySeq
<1>5. NotRead \in [source : Source, ok : BOOLEAN, lines : Seq(Source \X LogLines)]
    BY EmptySeq DEF NotRead, Source
<1>6. aer \in [Snapshot -> Counts \union {<<>>}]
    BY <1>1
<1>7. kernel \in [Snapshot -> [source : Source, ok : BOOLEAN, lines : Seq(Source \X LogLines)]]
    BY <1>1, <1>5
<1>8. counter \in Counts /\ happened \in Counts
      /\ \A s \in Sites : counter[s] <= events /\ happened[s] <= events
    BY <1>1, <1>2
<1>9. reading \in {"aer_before", "log_before", "aer_after", "log_after", "done"}
    BY <1>1
<1>10. present \in BOOLEAN /\ renewed \in BOOLEAN /\ events \in 0..MaxEvents
    BY <1>1, <1>3
<1>11. mark \in 0..Len(log)
    BY <1>1, <1>4
<1> QED
    BY <1>4, <1>6, <1>7, <1>8, <1>9, <1>10, <1>11 DEF TypeInv, SnapshotTypes

\* Every event and every reading keeps the types.
LEMMA TypeStep ==
    ASSUME TypeInv, [Next]_vars
    PROVE  TypeInv'
<1> USE DEF Counts, Sites
<1>1. ASSUME Event
      PROVE  events' = events + 1 /\ events' \in 0..MaxEvents
    BY <1>1, BoundsAssumption DEF Event, TypeInv
<1>2. ASSUME NEW n \in Nodes, NEW c \in Counters, CountError(n, c)
      PROVE  TypeInv'
    <2>1. Event /\ UNCHANGED <<reading, mark, aer, kernel, present, renewed, log>>
        BY <1>2 DEF CountError, Event
    <2>2. <<n, c>> \in Nodes \X Counters
        BY DEF Sites
    <2>3. counter' = [counter EXCEPT ![<<n, c>>] = @ + 1]
        BY <1>2 DEF CountError
    <2>4. counter' \in Counts /\ \A s \in Sites : counter'[s] <= events + 1
        BY <2>2, <2>3 DEF TypeInv, SnapshotTypes
    <2>5. happened' \in Counts /\ \A s \in Sites : happened'[s] <= events + 1
        BY <1>2, <2>2 DEF TypeInv, CountError
    <2>6. SnapshotTypes'
        BY <2>1 DEF TypeInv, SnapshotTypes
    <2> QED
        BY <1>1, <2>1, <2>4, <2>5, <2>6 DEF TypeInv
<1>3. ASSUME FallOffBus
      PROVE  TypeInv'
    <2>1. Event /\ present' = FALSE
          /\ UNCHANGED <<reading, mark, aer, kernel, counter, happened, renewed, log>>
        BY <1>3 DEF FallOffBus, Event
    <2>2. \A s \in Sites : counter[s] <= events + 1 /\ happened[s] <= events + 1
        BY DEF TypeInv
    <2>6. SnapshotTypes'
        BY <2>1 DEF TypeInv, SnapshotTypes
    <2> QED
        BY <1>1, <2>1, <2>2, <2>6 DEF TypeInv
<1>4. ASSUME ComeBack
      PROVE  TypeInv'
    <2>1. Event /\ present' = TRUE /\ UNCHANGED <<reading, mark, aer, kernel, log>>
        BY <1>4 DEF ComeBack, Event
    <2>2. counter' \in Counts /\ \A s \in Sites : counter'[s] <= events + 1
        BY <1>4 DEF ComeBack, TypeInv
    <2>3. happened' \in Counts /\ \A s \in Sites : happened'[s] <= events + 1
        BY <1>4 DEF ComeBack, TypeInv
    <2>4. renewed' \in BOOLEAN
        BY <1>4 DEF ComeBack, TypeInv, BetweenSnapshots
    <2>6. SnapshotTypes'
        BY <2>1 DEF TypeInv, SnapshotTypes
    <2> QED
        BY <1>1, <2>1, <2>2, <2>3, <2>4, <2>6 DEF TypeInv
<1>5. ASSUME NEW l \in LogLines, LogLine(l)
      PROVE  TypeInv'
    <2>1. Event /\ log' = Append(log, l)
          /\ UNCHANGED <<reading, mark, aer, kernel, present, counter, happened, renewed>>
        BY <1>5 DEF LogLine, Event, busVars
    <2>2. log' \in Seq(LogLines) /\ Len(log') = Len(log) + 1
        BY <2>1, AppendProperties DEF TypeInv
    <2>3. mark' \in 0..Len(log')
        BY <2>1, <2>2, LenProperties DEF TypeInv
    <2>6. SnapshotTypes'
        BY <2>1 DEF TypeInv, SnapshotTypes
    <2> QED
        BY <1>1, <2>1, <2>2, <2>3, <2>6 DEF TypeInv
<1>6. ASSUME NEW which \in Snapshot, NEW next \in {"log_before", "log_after"},
             ReadCounters(which, next)
      PROVE  TypeInv'
    <2>1. reading' = next /\ UNCHANGED <<events, present, counter, happened, renewed, log, mark, kernel>>
        BY <1>6 DEF ReadCounters, busVars
    <2>2. aer' \in [Snapshot -> Counts \union {<<>>}]
        BY <1>6 DEF ReadCounters, TypeInv, SnapshotTypes
    <2> QED
        BY <2>1, <2>2 DEF TypeInv, SnapshotTypes
<1>7. ASSUME NEW which \in Snapshot, NEW next \in {"aer_after", "done"},
             ReadLog(which, next)
      PROVE  TypeInv'
    <2>1. reading' = next /\ UNCHANGED <<events, present, counter, happened, renewed, log, aer>>
        BY <1>7 DEF ReadLog, busVars
    <2>2. PICK k \in KernelLog : kernel' = [kernel EXCEPT ![which] = k]
        BY <1>7 DEF ReadLog
    <2>3. k \in [source : Source, ok : BOOLEAN, lines : Seq(Source \X LogLines)]
        BY KernelLogType
    <2>4. kernel' \in [Snapshot -> [source : Source, ok : BOOLEAN, lines : Seq(Source \X LogLines)]]
        BY <2>2, <2>3 DEF TypeInv, SnapshotTypes
    <2>5. mark' \in 0..Len(log)
        BY <1>7, LenProperties DEF ReadLog, TypeInv
    <2> QED
        BY <2>1, <2>4, <2>5 DEF TypeInv, SnapshotTypes
<1>8. CASE UNCHANGED vars
    BY <1>8 DEF vars, busVars, TypeInv, SnapshotTypes
<1> QED
    BY <1>2, <1>3, <1>4, <1>5, <1>6, <1>7, <1>8 DEF Next, Collect, Snapshot

-----------------------------------------------------------------------------
(* The counters.                                                           *)

\* Before the first snapshot there is nothing to tell.
LEMMA CountInit == Init => CountInv
    BY DEF Init, CountInv, BetweenSnapshots, Snapshot

\* What was read of the counters is not touched by what happens later.
LEMMA EventStep ==
    ASSUME TypeInv, CountInv, Event, ~BetweenSnapshots,
           happened' = happened, renewed' = renewed
    PROVE  CountInv'
<1>1. reading' = reading /\ aer' = aer
    BY DEF Event
<1>2. ~BetweenSnapshots'
    BY <1>1 DEF BetweenSnapshots
<1>3. aer["after"] # <<>> /\ reading \in {"log_after", "done"} => (Tells(aer["after"]) /\ FoundAgain)'
    BY <1>1 DEF CountInv, Tells, FoundAgain
<1> QED
    BY <1>1, <1>2, <1>3 DEF CountInv

\* Every event and every reading keeps what the counters tell.
LEMMA CountStep ==
    ASSUME TypeInv, CountInv, [Next]_vars
    PROVE  CountInv'
<1>1. ASSUME NEW n \in Nodes, NEW c \in Counters, CountError(n, c), BetweenSnapshots
      PROVE  CountInv'
    <2>1. /\ reading' = reading /\ aer' = aer /\ renewed' = renewed /\ present' = present
          /\ counter' = [counter EXCEPT ![<<n, c>>] = @ + 1]
          /\ happened' = [happened EXCEPT ![<<n, c>>] = @ + 1]
        BY <1>1 DEF CountError, Event
    <2>2. Tells(counter) /\ (present => FoundAgain)
        BY <1>1 DEF CountInv
    <2>3. counter \in Counts /\ happened \in Counts
        BY DEF TypeInv, SnapshotTypes
    <2>4. ASSUME aer["before"] # <<>>
          PROVE  aer["before"] \in Counts
        BY <2>4 DEF TypeInv, SnapshotTypes, Snapshot
    <2>5. ASSUME NEW s \in Sites
          PROVE  IF s[1] = Endpoint /\ renewed THEN counter'[s] = happened'[s]
                 ELSE /\ happened'[s] <= counter'[s]
                      /\ aer["before"] # <<>> => counter'[s] = aer["before"][s] + happened'[s]
        <3>1. counter[s] \in Nat /\ happened[s] \in Nat
            BY <2>3 DEF Counts
        <3>2. aer["before"] # <<>> => aer["before"][s] \in Nat
            BY <2>4 DEF Counts
        <3>3. CASE s = <<n, c>>
            <4>1. counter'[s] = counter[s] + 1 /\ happened'[s] = happened[s] + 1
                BY <2>1, <2>3, <3>3 DEF Counts
            <4> QED
                BY <2>2, <3>1, <3>2, <4>1 DEF Tells
        <3>4. CASE s # <<n, c>>
            <4>1. counter'[s] = counter[s] /\ happened'[s] = happened[s]
                BY <2>1, <2>3, <3>4 DEF Counts
            <4> QED
                BY <2>2, <4>1 DEF Tells
        <3> QED
            BY <3>3, <3>4
    <2>6. Tells(counter)'
        BY <2>1, <2>5 DEF Tells
    <2>7. (present => FoundAgain)'
        BY <2>1, <2>2 DEF FoundAgain
    <2> QED
        BY <1>1, <2>1, <2>6, <2>7 DEF CountInv, BetweenSnapshots
<1>2. ASSUME FallOffBus
      PROVE  CountInv'
    BY <1>2 DEF FallOffBus, Event, CountInv, Tells, FoundAgain, BetweenSnapshots
<1>3. ASSUME ComeBack, BetweenSnapshots
      PROVE  CountInv'
    <2>1. /\ reading' = reading /\ aer' = aer /\ renewed' = TRUE
          /\ counter' = [s \in Sites |-> IF s[1] = Endpoint THEN 0 ELSE counter[s]]
          /\ happened' = [s \in Sites |-> IF s[1] = Endpoint THEN 0 ELSE happened[s]]
        BY <1>3 DEF ComeBack, Event
    <2>2. Tells(counter)
        BY <1>3 DEF CountInv
    <2>3. Tells(counter)'
        BY <2>1, <2>2 DEF Tells
    <2>4. FoundAgain'
        BY <2>1 DEF FoundAgain
    <2> QED
        BY <1>3, <2>1, <2>3, <2>4 DEF CountInv, BetweenSnapshots
<1>4. ASSUME NEW l \in LogLines, LogLine(l)
      PROVE  CountInv'
    BY <1>4 DEF LogLine, Event, busVars, CountInv, Tells, FoundAgain, BetweenSnapshots
<1>5. ASSUME reading = "aer_before", ReadCounters("before", "log_before")
      PROVE  CountInv'
    <2>1. /\ reading' = "log_before"
          /\ aer'["before"] = IF present THEN counter ELSE <<>>
          /\ UNCHANGED <<present, counter, happened, renewed>>
        BY <1>5 DEF ReadCounters, busVars, TypeInv, SnapshotTypes, Snapshot
    <2>2. ~renewed /\ happened = NoErrors /\ counter \in Counts
        BY <1>5 DEF CountInv, TypeInv, SnapshotTypes
    <2>3. Tells(counter)'
        BY <2>1, <2>2 DEF Tells, NoErrors, Counts
    <2>4. present /\ Sites # {} => counter # <<>>
        BY <2>2 DEF Counts
    <2>5. (present => FoundAgain)'
        BY <2>1, <2>4 DEF FoundAgain
    <2> QED
        BY <2>1, <2>3, <2>5 DEF CountInv, BetweenSnapshots
<1>6. ASSUME reading = "aer_after", ReadCounters("after", "log_after")
      PROVE  CountInv'
    <2>1. /\ reading' = "log_after"
          /\ aer'["before"] = aer["before"]
          /\ aer'["after"] = IF present THEN counter ELSE <<>>
          /\ UNCHANGED <<present, counter, happened, renewed>>
        BY <1>6 DEF ReadCounters, busVars, TypeInv, SnapshotTypes, Snapshot
    <2>2. Tells(counter) /\ (present => FoundAgain)
        BY <1>6 DEF CountInv, BetweenSnapshots
    <2>3. ASSUME present
          PROVE  Tells(aer["after"])' /\ FoundAgain'
        BY <2>1, <2>2, <2>3 DEF Tells, FoundAgain
    <2> QED
        BY <2>1, <2>3 DEF CountInv, BetweenSnapshots
<1>7. ASSUME \/ reading = "log_before" /\ ReadLog("before", "aer_after")
             \/ reading = "log_after" /\ ReadLog("after", "done")
      PROVE  CountInv'
    BY <1>7 DEF ReadLog, busVars, CountInv, Tells, FoundAgain, BetweenSnapshots
<1>8. CASE UNCHANGED vars
    BY <1>8 DEF vars, busVars, CountInv, Tells, FoundAgain, BetweenSnapshots
<1>9. ASSUME NEW n \in Nodes, NEW c \in Counters, CountError(n, c), ~BetweenSnapshots
      PROVE  CountInv'
    BY <1>9, EventStep DEF CountError
<1>10. ASSUME ComeBack, ~BetweenSnapshots
       PROVE  CountInv'
    <2>1. happened' = [s \in Sites |-> happened[s]]
        BY <1>10 DEF ComeBack
    <2>2. happened \in [Sites -> Nat]
        BY DEF TypeInv, SnapshotTypes, Counts
    <2>3. happened' = happened
        BY <2>1, <2>2
    <2>4. renewed' = renewed
        BY <1>10 DEF ComeBack, TypeInv, SnapshotTypes
    <2> QED
        BY <1>10, <2>3, <2>4, EventStep DEF ComeBack
<1> QED
    BY <1>1, <1>2, <1>3, <1>4, <1>5, <1>6, <1>7, <1>8, <1>9, <1>10 DEF Next, Collect

\* The inductive invariant, from these steps.
LEMMA IInvHolds == Spec => []IInv
<1>1. Init => IInv
    BY TypeInit, CountInit DEF IInv
<1>2. IInv /\ [Next]_vars => IInv'
    BY TypeStep, CountStep DEF IInv
<1> QED
    BY <1>1, <1>2, PTL DEF Spec

-----------------------------------------------------------------------------
(* What follows.                                                           *)

\* The differences that can be told from both snapshots.
LEMMA DeltaOf ==
    ASSUME IInv, Judged, NEW s \in Sites, aer["after"] # <<>>
    PROVE  /\ s \in DOMAIN Delta
           /\ Delta[s] = aer["after"][s] - IF aer["before"] = <<>> THEN 0 ELSE aer["before"][s]
<1>1. aer["after"] \in Counts
    BY DEF IInv, TypeInv, SnapshotTypes, Snapshot
<1>2. aer["before"] \in Counts \/ aer["before"] = <<>>
    BY DEF IInv, TypeInv, SnapshotTypes, Snapshot
<1>3. DOMAIN aer["after"] = Sites
    BY <1>1 DEF Counts
<1>4. CASE aer["before"] = <<>>
    <2>1. DOMAIN aer["before"] = {}
        BY <1>4
    <2> QED
        BY <1>1, <1>3, <1>4, <2>1 DEF Delta, CountOf, Counts
<1>5. CASE aer["before"] # <<>>
    <2>1. DOMAIN aer["before"] = Sites
        BY <1>2, <1>5 DEF Counts
    <2> QED
        BY <1>3, <1>5, <2>1 DEF Delta, CountOf
<1> QED
    BY <1>4, <1>5

\* The variables of Evidence have their types, for any constants.
THEOREM TypeCorrect == Spec => []TypeOK
<1>1. IInv => TypeOK
    <2> SUFFICES ASSUME IInv PROVE TypeOK
        OBVIOUS
    <2> USE DEF IInv, TypeInv, SnapshotTypes
    <2>1. counter \in [Sites -> 0..MaxEvents] /\ happened \in [Sites -> 0..MaxEvents]
        <3>1. events \in Nat /\ events <= MaxEvents /\ MaxEvents \in Nat
            BY BoundsAssumption
        <3>2. \A s \in Sites : /\ counter[s] \in Nat /\ counter[s] <= events
                               /\ happened[s] \in Nat /\ happened[s] <= events
            BY DEF Counts
        <3>3. \A s \in Sites : counter[s] \in 0..MaxEvents /\ happened[s] \in 0..MaxEvents
            BY <3>1, <3>2
        <3>4. counter \in Counts /\ happened \in Counts
            OBVIOUS
        <3> QED
            BY <3>3, <3>4 DEF Counts
    <2>2. DOMAIN aer = Snapshot /\ \A s \in Snapshot : DOMAIN aer[s] \in {{}, Sites}
        <3>1. aer \in [Snapshot -> Counts \union {<<>>}]
            OBVIOUS
        <3> QED
            BY <3>1 DEF Counts
    <2> QED
        BY <2>1, <2>2 DEF TypeOK
<1> QED
    BY <1>1, IInvHolds, PTL

\* A severe error counted between the snapshots ends as FAIL, and no error of
\* before is taken for a new one: nested_counter_delta and classify_aer_delta, for
\* any chain of devices, any counters and any number of errors.
THEOREM DeltasAreTrue == Spec => []CounterDeltasAreTrue
<1>1. IInv => SevereErrorIsFound
    <2> SUFFICES ASSUME IInv, Judged, aer["after"] # <<>>, NEW s \in Sites,
                        happened[s] > 0, s[2].file # "correctable",
                        s[1] = Endpoint /\ renewed => aer["before"] = <<>>
                 PROVE  AerStatus = "FAIL"
        BY DEF SevereErrorIsFound
    <2>1. Tells(aer["after"])
        BY DEF IInv, CountInv, Judged
    <2>2. happened[s] \in Nat /\ aer["after"][s] \in Nat
        BY DEF IInv, TypeInv, SnapshotTypes, Counts, Snapshot
    <2>3. aer["before"] # <<>> => aer["before"][s] \in Nat
        BY DEF IInv, TypeInv, SnapshotTypes, Counts, Snapshot
    <2>4. Delta[s] > 0
        BY <2>1, <2>2, <2>3, DeltaOf DEF Tells
    <2>5. s \in Positive
        BY <2>4, DeltaOf DEF Positive
    <2>6. Severe(s[2])
        BY CountersAssumption DEF Severe, Sites
    <2> QED
        BY <2>5, <2>6 DEF AerStatus
<1>2. IInv => OldErrorsAreOld
    <2> SUFFICES ASSUME IInv, Judged, NEW s \in Positive,
                        s[1] = Endpoint \/ aer["before"] # <<>>
                 PROVE  happened[s] > 0
        BY DEF OldErrorsAreOld
    <2>1. s \in DOMAIN Delta /\ Delta[s] > 0
        BY DEF Positive
    <2>2. \A w \in Snapshot : aer[w] \in Counts \/ aer[w] = <<>>
        BY DEF IInv, TypeInv, SnapshotTypes
    <2>3. \A w \in Snapshot : DOMAIN aer[w] = Sites \/ DOMAIN aer[w] = {}
        BY <2>2 DEF Counts
    <2>4. s \in Sites
        BY <2>1, <2>3 DEF Delta, Snapshot
    <2>5. CountOf("after", s) \in Nat /\ CountOf("before", s) \in Nat
        BY <2>2, <2>4 DEF CountOf, Counts, Snapshot
    <2>6. CountOf("after", s) > 0
        BY <2>1, <2>5 DEF Delta
    <2>7. aer["after"] # <<>>
        BY <2>6 DEF CountOf
    <2>8. Tells(aer["after"]) /\ FoundAgain
        BY <2>7 DEF IInv, CountInv, Judged
    <2>9. happened[s] \in Nat /\ aer["after"][s] \in Nat
        BY <2>4, <2>7 DEF IInv, TypeInv, SnapshotTypes, Counts, Snapshot
    <2>10. aer["before"] # <<>> => aer["before"][s] \in Nat
        BY <2>2, <2>4 DEF Counts, Snapshot
    <2>11. aer["after"][s] - (IF aer["before"] = <<>> THEN 0 ELSE aer["before"][s]) > 0
        BY <2>1, <2>4, <2>7, DeltaOf
    <2>12. CASE s[1] = Endpoint /\ renewed
        BY <2>4, <2>8, <2>9, <2>10, <2>11, <2>12 DEF Tells
    <2>13. CASE ~(s[1] = Endpoint /\ renewed)
        <3>1. aer["before"] # <<>>
            BY <2>4, <2>8, <2>13 DEF FoundAgain
        <3> QED
            BY <2>4, <2>8, <2>9, <2>10, <2>11, <2>13, <3>1 DEF Tells
    <2> QED
        BY <2>12, <2>13
<1> QED
    BY <1>1, <1>2, IInvHolds, PTL DEF CounterDeltasAreTrue

-----------------------------------------------------------------------------
(* The log.                                                                *)

\* The places of A whose rank is above b: a line before takes away the first.
Above(A, b) == {i \in A : Cardinality({j \in A : j <= i}) > b}

\* As many places are above b as there are more than b.
LEMMA RankCount ==
    ASSUME NEW A, A \subseteq Nat, IsFiniteSet(A), NEW b \in Nat
    PROVE  /\ IsFiniteSet(Above(A, b))
           /\ Cardinality(Above(A, b)) = IF Cardinality(A) > b THEN Cardinality(A) - b ELSE 0
<1> DEFINE n == Cardinality(A)
           upto(i) == {j \in A : j <= i}
           rank == [i \in A |-> Cardinality(upto(i))]
<1>0. \A k \in A : k \in Nat
    OBVIOUS
<1>1. n \in Nat
    BY FS_CardinalityType
<1>2. ASSUME NEW i \in A
      PROVE  /\ IsFiniteSet(upto(i)) /\ rank[i] \in 1..n /\ upto(i) \subseteq A
             /\ rank[i] = Cardinality(upto(i))
    <2>1. upto(i) \subseteq A /\ i \in upto(i)
        OBVIOUS
    <2>2. IsFiniteSet(upto(i)) /\ Cardinality(upto(i)) <= n
        BY <2>1, FS_Subset
    <2>3. Cardinality(upto(i)) \in Nat /\ Cardinality(upto(i)) # 0
        BY <2>1, <2>2, FS_CardinalityType, FS_EmptySet
    <2> QED
        BY <1>1, <2>1, <2>2, <2>3
<1>3. ASSUME NEW i \in A, NEW j \in A, i < j
      PROVE  rank[i] < rank[j]
    <2>1. upto(i) \subseteq upto(j)
        <3>1. \A k \in A : k <= i => k <= j
            BY <1>0, <1>3
        <3> QED
            BY <3>1
    <2>2. j \in upto(j) /\ j \notin upto(i)
        BY <1>3
    <2>3. /\ Cardinality(upto(i)) <= Cardinality(upto(j))
          /\ Cardinality(upto(j)) = Cardinality(upto(i)) => upto(j) = upto(i)
        BY <1>2, <2>1, FS_Subset
    <2> HIDE DEF upto
    <2> QED
        BY <1>2, <2>2, <2>3
<1>4. rank \in Injection(A, 1..n)
    <2>1. rank \in [A -> 1..n]
        BY <1>2
    <2>2. ASSUME NEW i \in A, NEW j \in A, rank[i] = rank[j]
          PROVE  i = j
        <3> HIDE DEF rank
        <3>1. i \in Nat /\ j \in Nat /\ rank[i] \in Nat
            BY <2>1
        <3> QED
            BY <1>3, <2>2, <3>1
    <2> HIDE DEF rank
    <2> QED
        BY <2>1, <2>2 DEF Injection, IsInjective
<1>5. IsFiniteSet(1..n) /\ Cardinality(1..n) = n
    BY <1>1, FS_Interval
<1>6. rank \in Surjection(A, 1..n)
    <2> HIDE DEF rank
    <2> QED
        BY <1>4, <1>5, FS_Injection
<1>7. Above(A, b) = {i \in A : rank[i] > b}
    BY DEF Above
<1>8. IsFiniteSet(Above(A, b))
    BY FS_Subset DEF Above
<1>9. CASE n > b
    <2> DEFINE top == (b + 1)..n
               f == [i \in Above(A, b) |-> rank[i]]
    <2>1. IsFiniteSet(top) /\ Cardinality(top) = n - b
        BY <1>1, <1>9, FS_Interval
    <2>2. f \in [Above(A, b) -> top]
        <3>1. ASSUME NEW i \in Above(A, b)
              PROVE  rank[i] \in top
            <4>1. i \in A /\ rank[i] > b
                BY <1>7
            <4>2. rank[i] \in 1..n
                BY <1>2, <4>1
            <4> HIDE DEF rank, n
            <4> QED
                BY <1>1, <4>1, <4>2
        <3> HIDE DEF rank, top
        <3> QED
            BY <3>1
    <2>3. \A i, j \in Above(A, b) : f[i] = f[j] => i = j
        BY <1>4, <1>7 DEF Injection, IsInjective
    <2>4. \A t \in top : \E i \in Above(A, b) : f[i] = t
        <3>1. ASSUME NEW t \in top
              PROVE  \E i \in Above(A, b) : f[i] = t
            <4>1. t \in 1..n /\ t > b
                BY <1>1
            <4> HIDE DEF rank
            <4>2. PICK i \in A : rank[i] = t
                BY <1>6, <4>1 DEF Surjection
            <4> QED
                BY <1>7, <4>1, <4>2
        <3> QED
            BY <3>1
    <2> HIDE DEF f
    <2>5. f \in Bijection(Above(A, b), top)
        BY <2>2, <2>3, <2>4 DEF Bijection, Injection, Surjection, IsInjective
    <2>6. ExistsBijection(Above(A, b), top)
        BY <2>5 DEF ExistsBijection
    <2>7. Cardinality(top) = Cardinality(Above(A, b))
        BY <1>8, <2>6, FS_Bijection
    <2> QED
        BY <1>8, <1>9, <2>1, <2>7
<1>10. CASE ~(n > b)
    <2>1. ASSUME NEW i \in A
          PROVE  ~(rank[i] > b)
        <3>1. rank[i] \in 1..n
            BY <1>2
        <3> HIDE DEF rank, n
        <3> QED
            BY <1>1, <1>10, <3>1
    <2>2. Above(A, b) = {}
        BY <1>7, <2>1
    <2> QED
        BY <1>8, <1>10, <2>2, FS_EmptySet
<1> QED
    BY <1>9, <1>10

\* What a log that was read lacks of the n lines logged so far: the ring buffer has
\* the last ones only.
Skipped(k, n) == IF k.source = "dmesg" THEN n - Lowest(n, RingSize) ELSE 0

\* A log that could be read has the other lines, in order.
Has(k, lines, n) ==
    k.ok => /\ DOMAIN k.lines = 1..(n - Skipped(k, n))
            /\ \A i \in DOMAIN k.lines : k.lines[i] = <<k.source, lines[Skipped(k, n) + i]>>

\* Both logs as they were read.
LogInv ==
    /\ reading \in {"aer_after", "log_after", "done"} => Has(kernel["before"], log, mark)
    /\ reading = "done" => Has(kernel["after"], log, Len(log))

LogRead == [source : Source, ok : BOOLEAN, lines : Seq(Source \X LogLines)]

\* How much is skipped.
LEMMA SkippedType ==
    ASSUME NEW k \in LogRead, NEW n \in Nat
    PROVE  /\ Skipped(k, n) \in 0..n
           /\ k.source # "dmesg" \/ n <= RingSize => Skipped(k, n) = 0
           /\ \A m \in Nat : n <= m => Skipped(k, n) <= Skipped(k, m)
BY BoundsAssumption DEF Skipped, Lowest

\* What kernel_log returns at the time it is called.
LEMMA ReadHas ==
    ASSUME TypeInv, NEW k \in KernelLog
    PROVE  Has(k, log, Len(log))
<1> DEFINE n == Len(log)
           kept == Lowest(n, RingSize)
<1>1. n \in Nat /\ log \in Seq(LogLines) /\ DOMAIN log = 1..n
    BY LenProperties DEF TypeInv
<1>2. kept \in 0..n /\ (n > 0 => kept > 0)
    BY <1>1, BoundsAssumption DEF Lowest
<1>3. CASE k = [source |-> "dmesg", ok |-> TRUE, lines |-> Told("dmesg", Ring)]
    <2>1. Skipped(k, n) = n - kept
        BY <1>3 DEF Skipped
    <2>2. \A i \in (n - kept + 1)..n : log[i] \in LogLines
        BY <1>1, <1>2
    <2>3. /\ Ring \in Seq(LogLines) /\ Len(Ring) = kept
          /\ \A i \in 1..kept : Ring[i] = log[n - kept + i]
        <3> HIDE DEF n, kept
        <3>1. n - kept + 1 <= n + 1 /\ n - (n - kept + 1) + 1 = kept
            BY <1>1, <1>2
        <3>2. Ring = SubSeq(log, n - kept + 1, n)
            BY DEF Ring, n, kept
        <3>3. Len(SubSeq(log, n - kept + 1, n)) = kept /\ SubSeq(log, n - kept + 1, n) \in Seq(LogLines)
            BY <1>1, <1>2, <2>2, <3>1, SubSeqProperties
        <3>4. \A i \in 1..kept : SubSeq(log, n - kept + 1, n)[i] = log[n - kept + i]
            BY <1>1, <1>2, <2>2, <3>1, SubSeqProperties
        <3> QED
            BY <3>2, <3>3, <3>4
    <2>4. DOMAIN Ring = 1..kept
        BY <2>3, LenProperties
    <2>5. DOMAIN k.lines = 1..kept /\ \A i \in 1..kept : k.lines[i] = <<"dmesg", Ring[i]>>
        BY <1>3, <2>4 DEF Told
    <2>6. n - (n - kept) = kept
        BY <1>1, <1>2
    <2>7. DOMAIN k.lines = 1..(n - Skipped(k, n))
        <3> HIDE DEF n, kept
        <3> QED
            BY <2>1, <2>5, <2>6
    <2>8. k.source = "dmesg"
        BY <1>3
    <2>9. \A i \in DOMAIN k.lines : k.lines[i] = <<k.source, log[Skipped(k, n) + i]>>
        <3> HIDE DEF n, kept
        <3> QED
            BY <2>1, <2>3, <2>5, <2>8
    <2> QED
        BY <2>7, <2>9 DEF Has
<1>4. CASE k = [source |-> "dmesg", ok |-> FALSE, lines |-> <<>>]
    BY <1>4 DEF Has
<1>5. CASE k = [source |-> IF log # <<>> THEN "journalctl" ELSE "dmesg", ok |-> TRUE,
                lines |-> Told("journalctl", log)]
    <2>1. DOMAIN k.lines = 1..n /\ \A i \in 1..n : k.lines[i] = <<"journalctl", log[i]>>
        BY <1>1, <1>5 DEF Told
    <2>2. CASE log # <<>>
        <3>1. k.source = "journalctl" /\ Skipped(k, n) = 0
            BY <1>5, <2>2 DEF Skipped
        <3> HIDE DEF n
        <3> QED
            BY <1>1, <2>1, <3>1 DEF Has, n
    <2>3. CASE log = <<>>
        <3>1. n = 0
            BY <2>3
        <3>2. Skipped(k, n) = 0
            BY <1>2, <3>1 DEF Skipped
        <3> HIDE DEF n
        <3> QED
            BY <2>1, <3>1, <3>2 DEF Has, n
    <2> QED
        BY <2>2, <2>3
<1> QED
    BY <1>3, <1>4, <1>5 DEF KernelLog

\* What was read does not change when the kernel goes on logging.
LEMMA HasStill ==
    ASSUME TypeInv, NEW k \in LogRead, NEW n \in 0..Len(log), Has(k, log, n), NEW l \in LogLines
    PROVE  Has(k, Append(log, l), n)
<1>1. n \in Nat /\ Len(log) \in Nat /\ log \in Seq(LogLines)
    BY LenProperties DEF TypeInv
<1>2. \A i \in 1..Len(log) : Append(log, l)[i] = log[i]
    BY <1>1, AppendProperties
<1>3. Skipped(k, n) \in 0..n
    BY <1>1, SkippedType
<1>4. \A i \in 1..(n - Skipped(k, n)) : Skipped(k, n) + i \in 1..Len(log)
    BY <1>1, <1>3
<1> QED
    BY <1>2, <1>4 DEF Has

\* Both logs stay what they were when they were read.
LEMMA LogStep ==
    ASSUME TypeInv, LogInv, [Next]_vars
    PROVE  LogInv'
<1>0. kernel \in [Snapshot -> LogRead] /\ mark \in 0..Len(log) /\ Snapshot = {"before", "after"}
    BY DEF TypeInv, SnapshotTypes, LogRead, Snapshot
<1>1. ASSUME UNCHANGED <<reading, log, mark, kernel>>
      PROVE  LogInv'
    BY <1>1 DEF LogInv
<1>2. ASSUME NEW l \in LogLines, LogLine(l)
      PROVE  LogInv'
    <2>1. log' = Append(log, l) /\ UNCHANGED <<reading, mark, kernel>> /\ reading # "done"
        BY <1>2 DEF LogLine, Event
    <2>2. reading \in {"aer_after", "log_after"} => Has(kernel["before"], Append(log, l), mark)
        BY <1>0, HasStill DEF LogInv
    <2> QED
        BY <2>1, <2>2 DEF LogInv
<1>3. ASSUME NEW which, NEW next \in {"log_before", "log_after"}, ReadCounters(which, next),
             next = "log_after" => reading = "aer_after"
      PROVE  LogInv'
    BY <1>3 DEF ReadCounters, LogInv
<1>4. CASE reading = "log_before" /\ ReadLog("before", "aer_after")
    <2>1. PICK k \in KernelLog : kernel' = [kernel EXCEPT !["before"] = k]
        BY <1>4 DEF ReadLog
    <2>2. reading' = "aer_after" /\ log' = log /\ mark' = Len(log) /\ kernel'["before"] = k
        BY <1>0, <1>4, <2>1 DEF ReadLog
    <2> QED
        BY <2>2, ReadHas DEF LogInv
<1>5. CASE reading = "log_after" /\ ReadLog("after", "done")
    <2>1. PICK k \in KernelLog : kernel' = [kernel EXCEPT !["after"] = k]
        BY <1>5 DEF ReadLog
    <2>2. /\ reading' = "done" /\ log' = log /\ mark' = mark
          /\ kernel'["after"] = k /\ kernel'["before"] = kernel["before"]
        BY <1>0, <1>5, <2>1 DEF ReadLog
    <2> QED
        BY <1>5, <2>2, ReadHas DEF LogInv
<1> QED
    BY <1>1, <1>2, <1>3, <1>4, <1>5
    DEF Next, Collect, CountError, FallOffBus, ComeBack, Event, vars, busVars

\* Nothing was read at the start.
LEMMA LogInvHolds == Spec => [](TypeInv /\ LogInv)
<1>1. Init => TypeInv /\ LogInv
    BY TypeInit DEF Init, LogInv
<1>2. TypeInv /\ LogInv /\ [Next]_vars => (TypeInv /\ LogInv)'
    BY TypeStep, LogStep
<1> QED
    BY <1>1, <1>2, PTL DEF Spec

\* Where the kernel logged a line, among those from the a-th to the b-th.
Logged(l, a, b) == {i \in a..b : log[i] = l}

\* These are numbers, and can be counted.
LEMMA LoggedType ==
    ASSUME NEW l, NEW a \in Nat, NEW b \in Nat
    PROVE  /\ IsFiniteSet(Logged(l, a, b)) /\ Logged(l, a, b) \subseteq Nat
           /\ Cardinality(Logged(l, a, b)) \in Nat
<1>1. IsFiniteSet(a..b)
    BY FS_Interval
<1>2. IsFiniteSet(Logged(l, a, b))
    BY <1>1, FS_Subset DEF Logged
<1> QED
    BY <1>2, FS_CardinalityType DEF Logged

\* A log that was read has a line as often as the kernel logged it, but for what is
\* skipped.
LEMMA PlacesCount ==
    ASSUME TypeInv, NEW k \in LogRead, k.ok, NEW n \in 0..Len(log), Has(k, log, n),
           NEW l \in LogLines
    PROVE  /\ Places(<<k.source, l>>, k.lines) \subseteq Nat
           /\ IsFiniteSet(Places(<<k.source, l>>, k.lines))
           /\ Cardinality(Places(<<k.source, l>>, k.lines))
                = Cardinality(Logged(l, Skipped(k, n) + 1, n))
<1> DEFINE s == Skipped(k, n)
           P == Places(<<k.source, l>>, k.lines)
           L == Logged(l, s + 1, n)
           f == [i \in P |-> s + i]
<1>1. s \in Nat /\ n \in Nat /\ s <= n
    BY LenProperties, SkippedType DEF TypeInv
<1>2. DOMAIN k.lines = 1..(n - s) /\ \A i \in 1..(n - s) : k.lines[i] = <<k.source, log[s + i]>>
    BY DEF Has
<1>3. P = {i \in 1..(n - s) : log[s + i] = l}
    <2> HIDE DEF s
    <2> QED
        BY <1>2 DEF Places
<1>4. IsFiniteSet(P) /\ P \subseteq Nat
    <2> HIDE DEF P, s
    <2>1. IsFiniteSet(1..(n - s)) /\ 1..(n - s) \subseteq Nat
        <3>1. n - s \in Int
            BY <1>1
        <3>2. IsFiniteSet(1..(n - s))
            BY <3>1, FS_Interval
        <3> QED
            BY <3>1, <3>2
    <2> QED
        BY <1>3, <2>1, FS_Subset
<1> HIDE DEF s
<1>5. f \in [P -> L]
    <2>1. ASSUME NEW i \in P
          PROVE  s + i \in L
        <3>1. i \in 1..(n - s) /\ log[s + i] = l
            BY <1>3
        <3>2. s + i \in (s + 1)..n
            BY <1>1, <3>1
        <3> QED
            BY <3>1, <3>2 DEF Logged
    <2> HIDE DEF P, L
    <2> QED
        BY <2>1
<1>6. \A i, j \in P : f[i] = f[j] => i = j
    <2> HIDE DEF P
    <2> QED
        BY <1>1, <1>4
<1>7. \A m \in L : \E i \in P : f[i] = m
    <2>1. ASSUME NEW m \in L
          PROVE  m - s \in P /\ s + (m - s) = m
        <3>1. m \in (s + 1)..n /\ log[m] = l
            BY DEF Logged
        <3>2. m - s \in 1..(n - s) /\ s + (m - s) = m
            BY <1>1, <3>1
        <3> QED
            BY <1>3, <3>1, <3>2
    <2> HIDE DEF P, L
    <2> QED
        BY <2>1
<1>8. f \in Bijection(P, L)
    <2> HIDE DEF f, P, L
    <2> QED
        BY <1>5, <1>6, <1>7 DEF Bijection, Injection, Surjection, IsInjective
<1>9. ExistsBijection(P, L)
    BY <1>8 DEF ExistsBijection
<1>10. Cardinality(L) = Cardinality(P)
    <2> HIDE DEF f, P, L
    <2> QED
        BY <1>4, <1>9, FS_Bijection
<1> QED
    BY <1>4, <1>10 DEF s

\* Both logs at the end, of one source.
LEMMA BothRead ==
    ASSUME TypeInv, LogInv, Judged, KernelDeltaAvailable
    PROVE  /\ kernel["before"] \in LogRead /\ kernel["after"] \in LogRead
           /\ kernel["before"].source = kernel["after"].source
           /\ kernel["before"].ok /\ kernel["after"].ok
           /\ Has(kernel["before"], log, mark) /\ Has(kernel["after"], log, Len(log))
           /\ mark \in 0..Len(log) /\ Len(log) \in 0..Len(log) /\ log \in Seq(LogLines)
<1>1. Len(log) \in Nat
    BY LenProperties DEF TypeInv
<1> QED
    BY <1>1 DEF TypeInv, SnapshotTypes, LogRead, Snapshot, LogInv, Judged, KernelDeltaAvailable

\* The new lines that are the same are those above what was there before.
LEMMA NewIsAbove ==
    ASSUME TypeInv, LogInv, Judged, KernelDeltaAvailable, NEW l \in LogLines
    PROVE  {i \in NewLines : After[i][2] = l} =
               LET line == <<kernel["after"].source, l>>
               IN  Above(Places(line, After), Cardinality(Places(line, Before)))
<1> DEFINE line == <<kernel["after"].source, l>>
<1>1. \A i \in DOMAIN After : After[i] = <<kernel["after"].source, After[i][2]>>
    BY BothRead DEF Has, After
<1>2. \A i \in DOMAIN After : After[i][2] = l <=> After[i] = line
    BY <1>1
<1>3. ASSUME NEW i
      PROVE  i \in {k \in NewLines : After[k][2] = l}
                <=> i \in Above(Places(line, After), Cardinality(Places(line, Before)))
    <2>1. i \in {k \in NewLines : After[k][2] = l} <=>
            /\ i \in DOMAIN After /\ After[i] = line
            /\ Cardinality({j \in Places(After[i], After) : j <= i})
                    > Cardinality(Places(After[i], Before))
        BY <1>2 DEF NewLines
    <2>2. i \in Above(Places(line, After), Cardinality(Places(line, Before))) <=>
            /\ i \in DOMAIN After /\ After[i] = line
            /\ Cardinality({j \in Places(line, After) : j <= i})
                    > Cardinality(Places(line, Before))
        BY DEF Above, Places
    <2> QED
        BY <2>1, <2>2
<1> QED
    BY <1>3

\* As many lines are said to be new as the second log has more than the first.
LEMMA SaidNewCount ==
    ASSUME TypeInv, LogInv, Judged, KernelDeltaAvailable, NEW l \in LogLines
    PROVE  LET a == Cardinality(Logged(l, Skipped(kernel["after"], Len(log)) + 1, Len(log)))
               b == Cardinality(Logged(l, Skipped(kernel["before"], mark) + 1, mark))
           IN  SaidNew(l) = IF a > b THEN a - b ELSE 0
<1> DEFINE line == <<kernel["after"].source, l>>
           A == Places(line, After)
           B == Places(line, Before)
<1>1. /\ A \subseteq Nat /\ IsFiniteSet(A)
      /\ Cardinality(A) = Cardinality(Logged(l, Skipped(kernel["after"], Len(log)) + 1, Len(log)))
    BY BothRead, PlacesCount DEF After
<1>2. /\ IsFiniteSet(B)
      /\ Cardinality(B) = Cardinality(Logged(l, Skipped(kernel["before"], mark) + 1, mark))
    BY BothRead, PlacesCount DEF Before
<1>3. Cardinality(B) \in Nat
    BY <1>2, FS_CardinalityType
<1>4. SaidNew(l) = Cardinality(Above(A, Cardinality(B)))
    BY NewIsAbove DEF SaidNew
<1> HIDE DEF A, B
<1>5. Cardinality(Above(A, Cardinality(B))) =
        IF Cardinality(A) > Cardinality(B) THEN Cardinality(A) - Cardinality(B) ELSE 0
    BY <1>1, <1>3, RankCount
<1> QED
    BY <1>1, <1>2, <1>4, <1>5

\* The places in a range of the log are those before some place and those after it.
LEMMA LoggedSplits ==
    ASSUME NEW l, NEW a \in Nat, NEW m \in Nat, NEW n \in Nat, a <= m, m <= n
    PROVE  Cardinality(Logged(l, a + 1, n)) =
               Cardinality(Logged(l, a + 1, m)) + Cardinality(Logged(l, m + 1, n))
<1> DEFINE S == Logged(l, a + 1, m)
           T == Logged(l, m + 1, n)
<1>0. a + 1 \in Nat /\ m + 1 \in Nat
    OBVIOUS
<1>1. IsFiniteSet(S) /\ IsFiniteSet(T) /\ Cardinality(S) \in Nat /\ Cardinality(T) \in Nat
    BY <1>0, LoggedType
<1>2. S \cap T = {} /\ S \union T = Logged(l, a + 1, n)
    BY DEF Logged
<1>3. Cardinality(S \cap T) = 0
    BY <1>2, FS_EmptySet
<1> HIDE DEF S, T
<1>4. Cardinality(S \union T) = Cardinality(S) + Cardinality(T) - Cardinality(S \cap T)
    BY <1>1, FS_Union
<1>5. Cardinality(S \union T) = Cardinality(S) + Cardinality(T)
    BY <1>1, <1>3, <1>4
<1> QED
    BY <1>2, <1>5 DEF S, T

\* Fewer are found where fewer are looked at.
LEMMA LoggedLess ==
    ASSUME NEW l, NEW a \in Nat, NEW b \in Nat, NEW n \in Nat, a <= b
    PROVE  Cardinality(Logged(l, b, n)) <= Cardinality(Logged(l, a, n))
<1>1. IsFiniteSet(Logged(l, a, n))
    BY LoggedType
<1>2. Logged(l, b, n) \subseteq Logged(l, a, n)
    BY DEF Logged
<1> QED
    BY <1>1, <1>2, FS_Subset

\* new_log_lines tells of what the kernel logged between the two snapshots: never
\* more of it, and all of it while the source keeps all lines.  A failure that
\* comes last is among the relevant lines that are kept.  For any lines, any ring
\* buffer and any limit (driver_probe.py:155-178).
THEOREM LogDeltaHolds == Spec => []LogDeltaIsTrue
<1> DEFINE n == Len(log)
           s == Skipped(kernel["after"], n)
           r == Skipped(kernel["before"], mark)
<1>1. ASSUME TypeInv, LogInv, Judged, KernelDeltaAvailable
      PROVE  /\ n \in Nat /\ mark \in Nat /\ mark <= n /\ s \in 0..n /\ r \in 0..mark /\ r <= s
             /\ kernel["after"].source # "dmesg" \/ n <= RingSize => s = 0 /\ r = 0
    <2>1. n \in Nat /\ mark \in Nat /\ mark <= n
        BY <1>1, LenProperties DEF TypeInv
    <2>2. s \in 0..n /\ r \in 0..mark
        BY <1>1, <2>1, BothRead, SkippedType
    <2>3. kernel["before"].source = kernel["after"].source
        BY <1>1, BothRead
    <2>4. r <= s
        BY <2>1, <2>3, BoundsAssumption DEF Skipped, Lowest
    <2>5. ASSUME kernel["after"].source # "dmesg" \/ n <= RingSize
          PROVE  s = 0 /\ r = 0
        BY <2>1, <2>3, <2>5, BoundsAssumption DEF Skipped, Lowest
    <2> QED
        BY <2>1, <2>2, <2>4, <2>5
<1>2. ASSUME TypeInv, LogInv, Judged, KernelDeltaAvailable, NEW l \in LogLines
      PROVE  /\ SaidNew(l) <= Written(l)
             /\ s = 0 /\ r = 0 => SaidNew(l) = Written(l)
    <2> DEFINE a == Cardinality(Logged(l, s + 1, n))
               b == Cardinality(Logged(l, r + 1, mark))
               all == Cardinality(Logged(l, r + 1, n))
    <2>1. SaidNew(l) = IF a > b THEN a - b ELSE 0
        BY <1>2, SaidNewCount
    <2> HIDE DEF n, s, r
    <2>2. Written(l) = Cardinality(Logged(l, mark + 1, n))
        BY DEF Written, Logged, n
    <2>3. a \in Nat /\ b \in Nat /\ Written(l) \in Nat
        <3>1. /\ n \in Nat /\ mark \in Nat
              /\ s + 1 \in Nat /\ r + 1 \in Nat /\ mark + 1 \in Nat
            BY <1>1, <1>2
        <3> QED
            BY <2>2, <3>1, LoggedType
    <2>4. all = b + Written(l)
        BY <1>1, <1>2, <2>2, LoggedSplits
    <2>5. a <= all
        BY <1>1, <1>2, LoggedLess
    <2>6. s = 0 /\ r = 0 => a = all
        OBVIOUS
    <2> HIDE DEF a, b, all
    <2> QED
        BY <2>1, <2>3, <2>4, <2>5, <2>6
<1>3. TypeInv /\ LogInv => NewLinesAreNew
    <2> SUFFICES ASSUME TypeInv, LogInv, Judged, NEW l \in LogLines
                 PROVE  SaidNew(l) <= Written(l)
        BY DEF NewLinesAreNew
    <2>1. CASE KernelDeltaAvailable
        BY <1>2, <2>1
    <2>2. CASE ~KernelDeltaAvailable
        <3>1. {i \in NewLines : After[i][2] = l} = {}
            BY <2>2 DEF NewLines
        <3>2. SaidNew(l) = 0
            BY <3>1, FS_EmptySet DEF SaidNew
        <3>3. Written(l) \in Nat
            <4>1. n \in Nat /\ mark + 1 \in Nat
                BY LenProperties DEF TypeInv
            <4>2. Written(l) = Cardinality(Logged(l, mark + 1, n))
                BY DEF Written, Logged
            <4> HIDE DEF n
            <4> QED
                BY <4>1, <4>2, LoggedType
        <3> QED
            BY <3>2, <3>3
    <2> QED
        BY <2>1, <2>2
<1>4. TypeInv /\ LogInv => NoLineMissed
    <2> SUFFICES ASSUME TypeInv, LogInv, Judged, KernelDeltaAvailable,
                        kernel["after"].source = "dmesg" => n <= RingSize, NEW l \in LogLines
                 PROVE  SaidNew(l) = Written(l)
        BY DEF NoLineMissed
    <2> QED
        BY <1>1, <1>2
<1>5. TypeInv /\ LogInv => LastFailureIsSignal
    <2> SUFFICES ASSUME TypeInv, LogInv, Judged, KernelDeltaAvailable,
                        kernel["after"].source = "journalctl", NEW k \in (mark + 1)..n,
                        log[k].kind = "failure",
                        \A j \in (k + 1)..n : log[j].kind = "irrelevant"
                 PROVE  FailureSignal
        BY DEF LastFailureIsSignal
    <2>1. n \in Nat /\ mark \in Nat /\ mark <= n /\ s = 0 /\ r = 0 /\ k \in Nat
        BY <1>1
    <2> DEFINE line == <<"journalctl", log[k]>>
    <2>2. /\ DOMAIN After = 1..n /\ DOMAIN Before = 1..mark
          /\ \A i \in 1..n : After[i] = <<"journalctl", log[i]>>
          /\ \A i \in 1..mark : Before[i] = <<"journalctl", log[i]>>
        BY <2>1, BothRead DEF Has, After, Before
    <2>3. k \in NewLines
        <3> DEFINE S == Places(line, Before)
                   T == {j \in Places(line, After) : j <= k}
        <3>1. S \subseteq T /\ k \in T /\ k \notin S
            BY <2>1, <2>2 DEF Places
        <3>2. IsFiniteSet(T)
            <4>1. T \subseteq 1..n
                BY <2>2 DEF Places
            <4> HIDE DEF T, n
            <4>2. IsFiniteSet(1..n)
                BY <2>1, FS_Interval
            <4> QED
                BY <4>1, <4>2, FS_Subset
        <3> HIDE DEF S, T
        <3>3. IsFiniteSet(S) /\ Cardinality(S) <= Cardinality(T) /\ Cardinality(S) # Cardinality(T)
            BY <3>1, <3>2, FS_Subset
        <3>4. Cardinality(T) > Cardinality(S)
            BY <3>2, <3>3, FS_CardinalityType
        <3>5. k \in DOMAIN After /\ After[k] = line
            BY <2>1, <2>2
        <3> QED
            BY <3>4, <3>5 DEF NewLines, S, T
    <2>4. k \in NewRelevant /\ After[k][2].kind = "failure"
        BY <2>1, <2>2, <2>3 DEF NewRelevant, Relevant
    <2>5. {j \in NewRelevant : j >= k} = {k}
        <3> HIDE DEF n
        <3>1. ASSUME NEW j \in NewRelevant, j >= k
              PROVE  j = k
            <4>1. j \in 1..n /\ After[j][2].kind # "irrelevant"
                BY <2>2 DEF NewRelevant, NewLines, Relevant
            <4>2. log[j].kind # "irrelevant"
                BY <2>2, <4>1
            <4>3. j \notin (k + 1)..n
                BY <4>2
            <4> QED
                BY <2>1, <3>1, <4>1, <4>3
        <3>2. k >= k
            BY <2>1
        <3> QED
            BY <2>4, <3>1, <3>2
    <2>6. k \in RelevantLines
        <3>1. Cardinality({j \in NewRelevant : j >= k}) = 1
            BY <2>5, FS_Singleton
        <3> QED
            BY <2>4, <3>1, BoundsAssumption DEF RelevantLines
    <2> QED
        BY <2>4, <2>6 DEF FailureSignal
<1>6. TypeInv /\ LogInv => LogDeltaIsTrue
    BY <1>3, <1>4, <1>5 DEF LogDeltaIsTrue
<1> QED
    BY <1>6, LogInvHolds, PTL
===============================================================================
