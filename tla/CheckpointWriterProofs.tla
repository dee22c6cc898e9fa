----------------------- MODULE CheckpointWriterProofs -----------------------
(***************************************************************************)
(* For any set of sidecars and any number of checkpoints: the writer keeps *)
(* its types, a checkpoint that returned is durable on every medium in     *)
(* use, the main files are never torn, and sidecars reach the primary      *)
(* medium before the report that names them.                               *)
(***************************************************************************)
EXTENDS CheckpointWriter, TLAPS

Actions == {"idle", "attempt", "require", "raised", "off"} \union Steps

\* The main files' content that the running attempt writes.
Now == [ver |-> ver, pers |-> persistence]

\* Bookkeeping of one attempt: which destinations are still to do, and how
\* many attempts there can be with two media.
AttemptInv ==
    /\ todo \subseteq avail
    /\ pc \in Steps => todo # {}
    /\ pc \notin Steps \union {"off"} => todo = {}
    /\ pc = "attempt" => attempt \in {0, 1} /\ (attempt = 1 => avail # Medium)
    /\ pc \in Steps \union {"require"} =>
          /\ attempt \in {1, 2}
          /\ attempt = 2 => avail # Medium
          /\ ~changed => persistence = avail
          /\ changed => avail # Medium
          /\ changed /\ attempt = 2 => avail = {}

\* What the running attempt has done so far.
ProgressInv ==
    /\ pc \in {"md", "sync"} => vis[Current]["json"] = Now
    /\ pc = "sync" => vis[Current]["md"] = Now
    /\ pc \in Steps \union {"require"} =>
          \A f \in Main :
              /\ \A m \in avail \ todo : vis[m][f] = Now
              /\ "primary" \in avail \ todo => survive[f] = {Now}

\* The main files are always fsynced before they are visible.
MainSynced == Main \subseteq synced

VisibleSurvives == \A f \in Files : vis["primary"][f] \in survive[f]

\* A sidecar that could still be lost is pending, and none is once the
\* sidecars of the primary medium were flushed in this attempt.
Settled(file) == file \in synced /\ survive[file] = {vis["primary"][file]}

PendingInv ==
    "primary" \in avail =>
        \A file \in Sidecars :
            /\ file \notin pending["primary"] => Settled(file)
            /\ pc \in {"json", "md", "sync"} /\ Current = "primary" => Settled(file)

-----------------------------------------------------------------------------
(* Types.                                                                  *)

\* Every content the writer makes is a Content (reporting.py:305-322).
LEMMA ContentType ==
    /\ Absent \in Content /\ Torn \in Content
    /\ \A n \in Int, p \in SUBSET Medium : [ver |-> n, pers |-> p] \in Content
    /\ \A c \in Content : c.ver \in Int
BY DEF Content, Absent, Torn

\* What the running attempt writes is a Content.
LEMMA NowType == TypeOK => Now \in Content
BY ContentType DEF TypeOK, Now

\* atomic_write keeps the types of the media.
LEMMA AtomicWriteType ==
    ASSUME TypeOK, NEW ms \in SUBSET Medium, NEW file \in Files, NEW content \in Content,
           NEW durable \in BOOLEAN, AtomicWrite(ms, file, content, durable)
    PROVE  /\ vis' \in [Medium -> [Files -> Content]]
           /\ survive' \in [Files -> SUBSET Content]
           /\ synced' \subseteq Files
<1>1. vis' \in [Medium -> [Files -> Content]]
    <2>1. ASSUME NEW m \in Medium PROVE [vis[m] EXCEPT ![file] = content] \in [Files -> Content]
        BY DEF TypeOK
    <2> QED BY <2>1 DEF TypeOK, AtomicWrite
<1>2. CASE "primary" \in ms
    <2>1. (survive[file] \union {content} \union (IF durable THEN {} ELSE {Torn}))
              \in SUBSET Content
        BY ContentType DEF TypeOK
    <2>2. survive' \in [Files -> SUBSET Content]
        BY <1>2, <2>1 DEF TypeOK, AtomicWrite
    <2> QED BY <1>1, <1>2, <2>2 DEF TypeOK, AtomicWrite
<1>3. CASE "primary" \notin ms
    BY <1>1, <1>3 DEF TypeOK, AtomicWrite
<1> QED BY <1>2, <1>3

\* A directory sync leaves contents to choose from.
LEMMA DirectorySyncType ==
    ASSUME TypeOK, NEW fsynced
    PROVE  AfterDirectorySync(fsynced) \in [Files -> SUBSET Content]
<1>1. ASSUME NEW f \in Files PROVE vis["primary"][f] \in Content
    BY DEF TypeOK, Medium
<1> QED BY <1>1, ContentType DEF AfterDirectorySync

\* The writer starts with its types.
LEMMA TypeInit == Init => TypeOK
<1> SUFFICES ASSUME Init PROVE TypeOK
    OBVIOUS
<1>1. vis \in [Medium -> [Files -> Content]]
    BY ContentType DEF Init
<1>2. survive \in [Files -> SUBSET Content]
    <2>1. {Absent} \in SUBSET Content
        BY ContentType
    <2> QED BY <2>1 DEF Init
<1>3. pending \in [Medium -> SUBSET Sidecars]
    BY DEF Init
<1>4. avail \subseteq Medium /\ attempt \in 0..3 /\ pc = "idle" /\ ver \in Nat /\ acked \in Nat
    BY DEF Init, Medium
<1> QED BY <1>1, <1>2, <1>3, <1>4 DEF Init, TypeOK

\* The current destination is a medium.
LEMMA CurrentType == Current \in Medium
BY DEF Current, Medium

\* Every step keeps the types.
LEMMA TypeStep == TypeOK /\ AttemptInv /\ [Next]_vars => TypeOK'
<1> SUFFICES ASSUME TypeOK, AttemptInv, [Next]_vars PROVE TypeOK'
    OBVIOUS
<1> USE DEF callVars, mediumVars, Steps
<1>1. CASE CallCheckpoint
    BY <1>1 DEF CallCheckpoint, TypeOK
<1>2. ASSUME NEW file \in Sidecars, Artifact(file) PROVE TypeOK'
    <2>1. PICK good \in SUBSET avail :
              /\ AtomicWrite(good, file, [ver |-> ver + 1, pers |-> {}], FALSE)
              /\ pending' = [m \in Medium |-> IF m \in good THEN pending[m] \union {file}
                                                          ELSE pending[m]]
              /\ avail' = good
              /\ pc' = IF good = {} THEN "raised" ELSE "idle"
        BY <1>2 DEF Artifact, Destinations
    <2>2. /\ file \in Files /\ good \in SUBSET Medium
          /\ [ver |-> ver + 1, pers |-> {}] \in Content
        <3>1. ver + 1 \in Int /\ {} \in SUBSET Medium
            BY DEF TypeOK
        <3>2. [ver |-> ver + 1, pers |-> {}] \in Content
            BY <3>1, ContentType
        <3> QED BY <3>2 DEF TypeOK, Files
    <2>3. /\ vis' \in [Medium -> [Files -> Content]]
          /\ survive' \in [Files -> SUBSET Content]
          /\ synced' \subseteq Files
        BY <2>1, <2>2, AtomicWriteType
    <2>4. pending' \in [Medium -> SUBSET Sidecars]
        BY <2>1 DEF TypeOK
    <2> QED BY <1>2, <2>1, <2>2, <2>3, <2>4 DEF Artifact, TypeOK
<1>3. CASE BeginAttempt
    <2>1. attempt \in {0, 1} /\ attempt' = attempt + 1
        BY <1>3 DEF BeginAttempt, AttemptInv
    <2>2. attempt' \in 0..3
        BY <2>1
    <2>3. pc' \in {"require", "flush"}
        BY <1>3 DEF BeginAttempt, NextDestination
    <2> QED BY <1>3, <2>2, <2>3 DEF BeginAttempt, TypeOK, Destinations
<1>4. CASE FlushArtifacts
    <2>1. synced' \subseteq Files
        BY <1>4 DEF FlushArtifacts, TypeOK, Files, Medium
    <2>2. survive' \in [Files -> SUBSET Content]
        BY <1>4, DirectorySyncType DEF FlushArtifacts, TypeOK
    <2> QED BY <1>4, <2>1, <2>2 DEF FlushArtifacts, TypeOK
<1>5. CASE WriteJson
    <2>1. /\ vis' \in [Medium -> [Files -> Content]]
          /\ survive' \in [Files -> SUBSET Content]
          /\ synced' \subseteq Files
        BY <1>5, AtomicWriteType, NowType, CurrentType DEF WriteJson, Now, Files, Main
    <2> QED BY <1>5, <2>1 DEF WriteJson, TypeOK
<1>6. CASE WriteMarkdown
    <2>1. /\ vis' \in [Medium -> [Files -> Content]]
          /\ survive' \in [Files -> SUBSET Content]
          /\ synced' \subseteq Files
        BY <1>6, AtomicWriteType, NowType, CurrentType DEF WriteMarkdown, Now, Files, Main
    <2> QED BY <1>6, <2>1 DEF WriteMarkdown, TypeOK
<1>7. CASE SyncDirectory
    <2>1. survive' \in [Files -> SUBSET Content]
        BY <1>7, DirectorySyncType DEF SyncDirectory, TypeOK
    <2>2. pending' \in [Medium -> SUBSET Sidecars]
        BY <1>7, CurrentType DEF SyncDirectory, TypeOK
    <2> QED BY <1>7, <2>1, <2>2 DEF SyncDirectory, TypeOK, NextDestination
<1>8. CASE DestinationFails
    BY <1>8 DEF DestinationFails, TypeOK, NextDestination
<1>9. CASE RaiseNoDestination
    BY <1>9 DEF RaiseNoDestination, TypeOK
<1>10. CASE Retry
    BY <1>10 DEF Retry, TypeOK
<1>11. CASE Return
    BY <1>11 DEF Return, TypeOK
<1>12. CASE PowerLoss
    <2>1. PICK left \in [Files -> UNION {survive[f] : f \in Files}] :
              /\ \A f \in Files : left[f] \in survive[f]
              /\ vis' = [m \in Medium |-> IF m = "primary" THEN left
                                         ELSE [f \in Files |-> Absent]]
              /\ survive' = [f \in Files |-> {left[f]}]
        BY <1>12 DEF PowerLoss
    <2>2. \A f \in Files : left[f] \in Content
        BY <2>1 DEF TypeOK
    <2>3. left \in [Files -> Content] /\ [f \in Files |-> Absent] \in [Files -> Content]
        BY <2>1, <2>2, ContentType
    <2>4. vis' \in [Medium -> [Files -> Content]]
        BY <2>1, <2>3
    <2>5. survive' \in [Files -> SUBSET Content]
        <3>1. \A f \in Files : {left[f]} \in SUBSET Content
            BY <2>2
        <3> QED BY <2>1, <3>1
    <2> QED BY <1>12, <2>4, <2>5 DEF PowerLoss, TypeOK
<1>13. CASE UNCHANGED vars
    BY <1>13 DEF vars, TypeOK
<1> QED BY <1>1, <1>2, <1>3, <1>4, <1>5, <1>6, <1>7, <1>8, <1>9, <1>10, <1>11, <1>12, <1>13
        DEF Next, CheckpointStep


-----------------------------------------------------------------------------
(* The attempts: at most two, since each failure removes one of two media. *)

\* No attempt runs at the start.
LEMMA AttemptInit == Init => AttemptInv
BY DEF Init, AttemptInv, Steps

\* Every step keeps the bookkeeping of attempts: a second attempt means that
\* a medium failed in the first, a failure in the second leaves none.
LEMMA AttemptStep == TypeOK /\ AttemptInv /\ [Next]_vars => AttemptInv'
<1> SUFFICES ASSUME TypeOK, AttemptInv, [Next]_vars PROVE AttemptInv'
    OBVIOUS
<1> USE DEF callVars, mediumVars, Steps, AttemptInv
<1>1. CASE CallCheckpoint
    BY <1>1 DEF CallCheckpoint
<1>2. ASSUME NEW file \in Sidecars, Artifact(file) PROVE AttemptInv'
    BY <1>2 DEF Artifact
<1>3. CASE BeginAttempt
    BY <1>3 DEF BeginAttempt, NextDestination, Destinations
<1>4. CASE FlushArtifacts
    BY <1>4 DEF FlushArtifacts
<1>5. CASE WriteJson
    BY <1>5 DEF WriteJson
<1>6. CASE WriteMarkdown
    BY <1>6 DEF WriteMarkdown
<1>7. CASE SyncDirectory
    BY <1>7 DEF SyncDirectory, NextDestination
<1>8. CASE DestinationFails
    <2>1. Current \in todo /\ todo \subseteq avail /\ avail \subseteq Medium
        BY <1>8 DEF DestinationFails, Current, TypeOK, Medium
    <2>2. avail' # Medium /\ (attempt = 2 => avail' = {})
        BY <1>8, <2>1 DEF DestinationFails, Medium
    <2> QED BY <1>8, <2>1, <2>2 DEF DestinationFails, NextDestination
<1>9. CASE RaiseNoDestination
    BY <1>9 DEF RaiseNoDestination
<1>10. CASE Retry
    BY <1>10 DEF Retry
<1>11. CASE Return
    BY <1>11 DEF Return
<1>12. CASE PowerLoss
    BY <1>12 DEF PowerLoss
<1>13. CASE UNCHANGED vars
    BY <1>13 DEF vars
<1> QED BY <1>1, <1>2, <1>3, <1>4, <1>5, <1>6, <1>7, <1>8, <1>9, <1>10, <1>11, <1>12, <1>13
        DEF Next, CheckpointStep

\* The writer's variables keep their types (CheckpointWriter.__init__ and every
\* method that assigns to them).
THEOREM TypeCorrect == Spec => [](TypeOK /\ AttemptInv)
<1>1. Init => TypeOK /\ AttemptInv
    BY TypeInit, AttemptInit
<1>2. TypeOK /\ AttemptInv /\ [Next]_vars => (TypeOK /\ AttemptInv)'
    BY TypeStep, AttemptStep
<1> QED BY <1>1, <1>2, PTL DEF Spec

-----------------------------------------------------------------------------
(* What the medium operations do to a main file and to a sidecar.          *)

\* What atomic_write changes, file by file (reporting.py:62-84).
LEMMA AtomicWriteEffect ==
    ASSUME TypeOK, NEW ms \in SUBSET Medium, NEW file \in Files, NEW content,
           NEW durable \in BOOLEAN, AtomicWrite(ms, file, content, durable)
    PROVE  /\ \A m \in Medium, f \in Files :
                  vis'[m][f] = IF m \in ms /\ f = file THEN content ELSE vis[m][f]
           /\ \A f \in Files : f # file => survive'[f] = survive[f]
           /\ "primary" \notin ms => survive' = survive /\ synced' = synced
           /\ "primary" \in ms =>
                 /\ survive'[file] = survive[file] \union {content}
                                         \union (IF durable THEN {} ELSE {Torn})
                 /\ synced' = IF durable THEN synced \union {file} ELSE synced \ {file}
<1>1. ASSUME NEW m \in Medium, NEW f \in Files
      PROVE  vis'[m][f] = IF m \in ms /\ f = file THEN content ELSE vis[m][f]
    <2>1. vis[m] \in [Files -> Content]
        BY DEF TypeOK
    <2> QED BY <2>1 DEF AtomicWrite
<1>2. ASSUME "primary" \in ms
      PROVE  /\ \A f \in Files : f # file => survive'[f] = survive[f]
             /\ survive'[file] = survive[file] \union {content}
                                    \union (IF durable THEN {} ELSE {Torn})
             /\ synced' = IF durable THEN synced \union {file} ELSE synced \ {file}
    BY <1>2 DEF AtomicWrite, TypeOK
<1>3. ASSUME "primary" \notin ms PROVE survive' = survive /\ synced' = synced
    BY <1>3 DEF AtomicWrite
<1> QED BY <1>1, <1>2, <1>3

\* After a directory sync only the visible content survives, or a torn one if
\* its data was never fsynced.
LEMMA DirectorySyncEffect ==
    ASSUME NEW fsynced, NEW f \in Files
    PROVE  /\ f \in fsynced => AfterDirectorySync(fsynced)[f] = {vis["primary"][f]}
           /\ f \notin fsynced => AfterDirectorySync(fsynced)[f] = {vis["primary"][f], Torn}
BY DEF AfterDirectorySync

\* What a power loss leaves of each file.
LEMMA PowerLossEffect ==
    ASSUME PowerLoss, NEW f \in Files
    PROVE  /\ vis'["primary"][f] \in survive[f]
           /\ survive'[f] = {vis'["primary"][f]}
           /\ vis'["mirror"][f] = Absent
           /\ pc' = "off" /\ synced' = Files
           /\ UNCHANGED <<avail, pending, callVars, acked>>
<1>1. PICK left \in [Files -> UNION {survive[g] : g \in Files}] :
          /\ \A g \in Files : left[g] \in survive[g]
          /\ vis' = [m \in Medium |-> IF m = "primary" THEN left
                                     ELSE [g \in Files |-> Absent]]
          /\ survive' = [g \in Files |-> {left[g]}]
    BY DEF PowerLoss
<1> QED BY <1>1 DEF PowerLoss, Medium

-----------------------------------------------------------------------------
(* The invariant.                                                          *)

MediaInv == MainFilesWhole /\ MainSynced /\ VisibleSurvives

\* Between calls a medium is left, and during a call the report is one that
\* checkpoint() was called for.
CallerInv ==
    /\ pc = "idle" => avail # {}
    /\ pc \in Steps \union {"attempt", "require"} => ver > 0

IInv ==
    /\ TypeOK /\ AttemptInv
    /\ MediaInv
    /\ PendingInv
    /\ ProgressInv /\ AckedIsDurable
    /\ SidecarsPrecedeReport
    /\ CallerInv

Quiet == UNCHANGED <<vis, survive, synced>>

\* The media are empty at the start.
LEMMA MediaInit == Init => MediaInv
BY DEF Init, MediaInv, MainFilesWhole, MainSynced, VisibleSurvives, Absent, Main, Files, Medium

\* A step that leaves the media alone only lets ver grow.
LEMMA MediaQuiet ==
    ASSUME TypeOK, MediaInv, Quiet, ver' = ver \/ ver' = ver + 1
    PROVE  MediaInv'
<1>1. \A n \in Int : n \in 0..ver => n \in 0..ver'
    BY DEF TypeOK
<1>2. \A f \in Main : \A content \in survive[f] \union {vis[m][f] : m \in Medium} :
          content.ver \in 0..ver'
    BY <1>1 DEF MediaInv, MainFilesWhole
<1> QED BY <1>2 DEF Quiet, MediaInv, MainFilesWhole, MainSynced, VisibleSurvives

\* atomic_write keeps main files whole and synced.
LEMMA MediaWrite ==
    ASSUME TypeOK, MediaInv, NEW ms \in SUBSET Medium, NEW file \in Files, NEW content \in Content,
           NEW durable \in BOOLEAN, AtomicWrite(ms, file, content, durable), ver' = ver,
           file \in Main => durable /\ content.ver \in 0..ver
    PROVE  MediaInv'
<1> USE AtomicWriteEffect
<1>1. MainSynced'
    BY DEF MediaInv, MainSynced, Main
<1>2. VisibleSurvives'
    <2>1. \A f \in Files : survive[f] \subseteq survive'[f]
        BY DEF Medium
    <2> QED BY <2>1 DEF MediaInv, VisibleSurvives, Medium
<1>3. MainFilesWhole'
    <2> SUFFICES ASSUME NEW f \in Main, NEW c \in survive'[f] \union {vis'[m][f] : m \in Medium}
                 PROVE  c.ver \in 0..ver
        BY DEF MainFilesWhole
    <2>1. f \in Files
        BY DEF Files
    <2>2. c \in survive'[f] => c \in survive[f] \/ (f = file /\ c = content)
        BY <2>1
    <2>3. \A m \in Medium : c = vis'[m][f] => c = vis[m][f] \/ (f = file /\ c = content)
        <3> SUFFICES ASSUME NEW m \in Medium
                     PROVE  vis'[m][f] = vis[m][f] \/ (f = file /\ vis'[m][f] = content)
            OBVIOUS
        <3>1. vis'[m][f] = IF m \in ms /\ f = file THEN content ELSE vis[m][f]
            BY <2>1
        <3> QED BY <3>1
    <2> QED BY <2>2, <2>3 DEF MediaInv, MainFilesWhole
<1> QED BY <1>1, <1>2, <1>3 DEF MediaInv

\* A directory sync keeps main files whole and synced.
LEMMA MediaSync ==
    ASSUME TypeOK, MediaInv, vis' = vis, ver' = ver, synced \subseteq synced',
           survive' = AfterDirectorySync(synced')
    PROVE  MediaInv'
<1>1. MainSynced'
    BY DEF MediaInv, MainSynced
<1>2. ASSUME NEW f \in Files
      PROVE vis["primary"][f] \in survive'[f] /\ (f \in Main => survive'[f] = {vis["primary"][f]})
    BY <1>1, DirectorySyncEffect DEF MainSynced, AfterDirectorySync
<1>3. MainFilesWhole'
    BY <1>2 DEF MediaInv, MainFilesWhole, Files, Medium
<1> QED BY <1>1, <1>2, <1>3 DEF MediaInv, VisibleSurvives

\* Every step keeps main files whole, synced, and what is visible among what may
\* survive.
LEMMA MediaStep == TypeOK /\ AttemptInv /\ MediaInv /\ [Next]_vars => MediaInv'
<1> SUFFICES ASSUME TypeOK, AttemptInv, MediaInv, [Next]_vars PROVE MediaInv'
    OBVIOUS
<1> USE DEF callVars, mediumVars
<1>1. CASE CallCheckpoint
    BY <1>1, MediaQuiet DEF CallCheckpoint, Quiet
<1>2. ASSUME NEW file \in Sidecars, Artifact(file) PROVE MediaInv'
    <2>1. PICK good \in SUBSET avail :
              AtomicWrite(good, file, [ver |-> ver + 1, pers |-> {}], FALSE)
        BY <1>2 DEF Artifact, Destinations
    <2>2. ver + 1 \in Int /\ {} \in SUBSET Medium
        BY DEF TypeOK
    <2>3. [ver |-> ver + 1, pers |-> {}] \in Content
        BY <2>2, ContentType
    <2>4. file \in Files /\ file \notin Main /\ good \in SUBSET Medium /\ ver' = ver
        BY <1>2, SidecarsAssumption DEF Files, TypeOK, Artifact
    <2> QED BY <2>1, <2>3, <2>4, MediaWrite
<1>3. CASE BeginAttempt
    BY <1>3, MediaQuiet DEF BeginAttempt, Quiet
<1>4. CASE FlushArtifacts
    <2>1. CASE Quiet
        BY <1>4, <2>1, MediaQuiet DEF FlushArtifacts
    <2>2. CASE survive' = AfterDirectorySync(synced') /\ synced \subseteq synced'
        BY <1>4, <2>2, MediaSync DEF FlushArtifacts
    <2> QED BY <1>4, <2>1, <2>2 DEF FlushArtifacts, Quiet
<1>5. ASSUME NEW file \in Main, AtomicWrite({Current}, file, Now, TRUE), ver' = ver PROVE MediaInv'
    <2>1. Now \in Content /\ Now.ver \in 0..ver /\ file \in Files /\ {Current} \in SUBSET Medium
        <3>1. Now.ver \in 0..ver
            BY DEF Now, TypeOK
        <3> QED BY <3>1, NowType, CurrentType DEF Files
    <2> QED BY <1>5, <2>1, MediaWrite
<1>6. CASE WriteJson \/ WriteMarkdown
    BY <1>5, <1>6 DEF WriteJson, WriteMarkdown, Now, Main
<1>7. CASE SyncDirectory
    <2>1. CASE Current = "primary"
        BY <1>7, <2>1, MediaSync DEF SyncDirectory
    <2>2. CASE Current # "primary"
        BY <1>7, <2>2, MediaQuiet DEF SyncDirectory, Quiet
    <2> QED BY <2>1, <2>2
<1>8. CASE DestinationFails \/ RaiseNoDestination \/ Retry \/ Return
    BY <1>8, MediaQuiet DEF DestinationFails, RaiseNoDestination, Retry, Return, Quiet
<1>9. CASE PowerLoss
    <2>1. ver' = ver /\ synced' = Files
        BY <1>9 DEF PowerLoss
    <2>2. \A f \in Files : /\ vis'["primary"][f] \in survive[f] /\ vis'["mirror"][f] = Absent
                           /\ survive'[f] = {vis'["primary"][f]}
        BY <1>9, PowerLossEffect
    <2>3. MainFilesWhole'
        <3> SUFFICES ASSUME NEW f \in Main,
                            NEW c \in survive'[f] \union {vis'[m][f] : m \in Medium}
                     PROVE  c.ver \in 0..ver
            BY <2>1 DEF MainFilesWhole
        <3>1. c \in survive[f] \/ c = Absent
            BY <2>2 DEF Files, Medium
        <3> QED BY <3>1 DEF MediaInv, MainFilesWhole, Absent, TypeOK
    <2> QED BY <2>1, <2>2, <2>3 DEF MediaInv, MainSynced, VisibleSurvives, Files
<1>10. CASE UNCHANGED vars
    BY <1>10, MediaQuiet DEF vars, Quiet
<1> QED BY <1>1, <1>2, <1>3, <1>4, <1>6, <1>7, <1>8, <1>9, <1>10 DEF Next, CheckpointStep

-----------------------------------------------------------------------------
(* Sidecars: what may still be lost is pending.                            *)

\* atomic_write of one file leaves the others alone.
LEMMA WriteKeepsOthers ==
    ASSUME TypeOK, NEW ms \in SUBSET Medium, NEW file \in Files, NEW content,
           NEW durable \in BOOLEAN, AtomicWrite(ms, file, content, durable),
           NEW other \in Files, other # file
    PROVE  /\ \A m \in Medium : vis'[m][other] = vis[m][other]
           /\ survive'[other] = survive[other]
           /\ other \in synced => other \in synced'
<1>1. ASSUME NEW m \in Medium PROVE vis'[m][other] = vis[m][other]
    <2>1. vis'[m][other] = IF m \in ms /\ other = file THEN content ELSE vis[m][other]
        BY AtomicWriteEffect
    <2> QED BY <2>1
<1>2. survive'[other] = survive[other]
    BY AtomicWriteEffect
<1>3. synced' = synced \/ synced' = synced \union {file} \/ synced' = synced \ {file}
    BY AtomicWriteEffect
<1> QED BY <1>1, <1>2, <1>3

\* atomic_write shows the new content on the media written and changes no other.
LEMMA WriteShows ==
    ASSUME TypeOK, NEW ms \in SUBSET Medium, NEW file \in Files, NEW content,
           NEW durable \in BOOLEAN, AtomicWrite(ms, file, content, durable)
    PROVE  \A m \in Medium : /\ m \in ms => vis'[m][file] = content
                             /\ m \notin ms => vis'[m] = vis[m]
BY DEF AtomicWrite, TypeOK

\* atomic_write of one file leaves another one settled.
LEMMA WriteKeepsSettled ==
    ASSUME TypeOK, NEW ms \in SUBSET Medium, NEW file \in Files, NEW content,
           NEW durable \in BOOLEAN, AtomicWrite(ms, file, content, durable),
           NEW other \in Files, other # file, Settled(other)
    PROVE  Settled(other)'
<1>1. /\ vis'["primary"][other] = vis["primary"][other]
      /\ survive'[other] = survive[other]
      /\ other \in synced'
    BY WriteKeepsOthers DEF Settled, Medium
<1> QED BY <1>1 DEF Settled

\* Nothing is pending at the start.
LEMMA PendingInit == Init => PendingInv
BY DEF Init, PendingInv, Settled, Files, Medium

\* Every step keeps this: a sidecar that a power loss could still take is pending
\* (reporting.py:346-356, 389-399).
LEMMA PendingStep ==
    ASSUME TypeOK, AttemptInv, MediaInv, PendingInv, [Next]_vars
    PROVE  PendingInv'
<1> USE DEF callVars, mediumVars, Steps
<1>1. CASE CallCheckpoint \/ BeginAttempt
    BY <1>1 DEF CallCheckpoint, BeginAttempt, NextDestination, PendingInv, Settled
<1>2. ASSUME NEW file \in Sidecars, Artifact(file) PROVE PendingInv'
    <2>1. PICK good \in SUBSET avail :
              /\ AtomicWrite(good, file, [ver |-> ver + 1, pers |-> {}], FALSE)
              /\ pending' = [m \in Medium |-> IF m \in good THEN pending[m] \union {file}
                                                          ELSE pending[m]]
              /\ avail' = good
        BY <1>2 DEF Artifact, Destinations
    <2>2. file \in Files /\ good \in SUBSET Medium
        BY <2>1 DEF Files, TypeOK
    <2>3. ASSUME "primary" \in good, NEW other \in Sidecars,
                 other \notin pending'["primary"]
          PROVE  Settled(other)'
        <3>1. other # file /\ other \notin pending["primary"] /\ "primary" \in avail
            BY <2>1, <2>3 DEF Medium
        <3>2. Settled(other) /\ other \in Files
            BY <3>1 DEF PendingInv, Files
        <3> QED BY <2>1, <2>2, <3>1, <3>2, WriteKeepsSettled
    <2>4. pc' \notin {"json", "md", "sync"}
        BY <1>2 DEF Artifact
    <2> QED BY <2>1, <2>3, <2>4 DEF PendingInv
<1>3. CASE FlushArtifacts
    <2> SUFFICES ASSUME "primary" \in avail, NEW file \in Sidecars
                 PROVE  /\ file \notin pending["primary"] => Settled(file)'
                        /\ Current = "primary" => Settled(file)'
        BY <1>3 DEF FlushArtifacts, PendingInv, Current
    <2>1. file \notin pending["primary"] => Settled(file)
        BY DEF PendingInv
    <2>2. CASE Current = "primary" /\ pending["primary"] # {}
        <3>1. synced' = synced \union pending["primary"] /\ survive' = AfterDirectorySync(synced')
              /\ vis' = vis
            BY <1>3, <2>2 DEF FlushArtifacts
        <3>2. file \in synced'
            BY <2>1, <3>1 DEF Settled
        <3> QED BY <3>1, <3>2, DirectorySyncEffect DEF Settled, Files
    <2>3. CASE ~(Current = "primary" /\ pending["primary"] # {})
        <3>1. UNCHANGED <<vis, survive, synced>>
            BY <1>3, <2>3 DEF FlushArtifacts
        <3> QED BY <2>1, <2>3, <3>1 DEF Settled
    <2> QED BY <2>2, <2>3
<1>4. ASSUME NEW main \in Main, AtomicWrite({Current}, main, Now, TRUE),
             UNCHANGED <<avail, pending, callVars>>,
             pc \in {"json", "md"}, pc' \in {"md", "sync"}
      PROVE  PendingInv'
    <2>1. main \in Files /\ main \notin Sidecars /\ {Current} \in SUBSET Medium
        BY SidecarsAssumption, CurrentType DEF Files
    <2>2. \A file \in Sidecars : Settled(file) => Settled(file)'
        BY <1>4, <2>1, WriteKeepsSettled DEF Files
    <2>3. Current' = Current
        BY <1>4 DEF Current
    <2> QED BY <1>4, <2>2, <2>3 DEF PendingInv
<1>5. CASE WriteJson \/ WriteMarkdown
    BY <1>4, <1>5 DEF WriteJson, WriteMarkdown, Now, Main
<1>6. CASE SyncDirectory
    <2>0. todo' = todo \ {Current} /\ avail' = avail /\ pc = "sync" /\ vis' = vis /\ synced' = synced
        BY <1>6 DEF SyncDirectory
    <2>1. pc' \in {"require", "flush"}
        BY <1>6 DEF SyncDirectory, NextDestination
    <2>2. CASE Current = "primary"
        <3>1. \A file \in Sidecars : "primary" \in avail => Settled(file)
            BY <2>0, <2>2 DEF PendingInv
        <3>2. \A file \in Sidecars : "primary" \in avail => Settled(file)'
            BY <1>6, <2>0, <2>2, <3>1, DirectorySyncEffect DEF SyncDirectory, Settled, Files
        <3> QED BY <2>0, <2>1, <3>2 DEF PendingInv
    <2>3. CASE Current # "primary"
        <3>1. pending'["primary"] = pending["primary"] /\ survive' = survive
            BY <1>6, <2>3, CurrentType DEF SyncDirectory, TypeOK, Medium
        <3> QED BY <2>0, <2>1, <3>1 DEF PendingInv, Settled
    <2> QED BY <2>2, <2>3
<1>7. CASE DestinationFails
    <2>1. avail' \subseteq avail /\ pc' \in {"require", "flush"} /\ UNCHANGED <<pending, mediumVars>>
        BY <1>7 DEF DestinationFails, NextDestination
    <2> QED BY <2>1 DEF PendingInv, Settled
<1>8. CASE RaiseNoDestination \/ Retry \/ Return
    BY <1>8 DEF RaiseNoDestination, Retry, Return, PendingInv, Settled
<1>9. CASE PowerLoss
    <2>1. \A file \in Files : synced' = Files /\ survive'[file] = {vis'["primary"][file]}
        BY <1>9, PowerLossEffect
    <2> QED BY <2>1 DEF PendingInv, Settled, Files
<1>10. CASE UNCHANGED vars
    BY <1>10 DEF vars, PendingInv, Settled, Current
<1> QED BY <1>1, <1>2, <1>3, <1>5, <1>6, <1>7, <1>8, <1>9, <1>10 DEF Next, CheckpointStep

-----------------------------------------------------------------------------
(* The running attempt, and what holds when checkpoint() returns.          *)

CallInv == ProgressInv /\ AckedIsDurable

\* No checkpoint has returned at the start.
LEMMA CallInit == Init => CallInv
BY DEF Init, CallInv, ProgressInv, AckedIsDurable, Steps

\* Writing one main file of the current destination.
LEMMA WriteMainStep ==
    ASSUME TypeOK, AttemptInv, CallInv, NEW file \in Main,
           AtomicWrite({Current}, file, Now, TRUE),
           pc \in {"json", "md"}, UNCHANGED <<avail, pending, callVars, acked>>
    PROVE  /\ Current' = Current /\ Now' = Now
           /\ vis'[Current][file] = Now
           /\ \A f \in Main : vis[Current][f] = Now => vis'[Current][f] = Now
           /\ \A f \in Main :
                 /\ \A m \in avail \ todo : vis'[m][f] = Now
                 /\ "primary" \in avail \ todo => survive'[f] = {Now}
<1> USE CurrentType DEF callVars
<1>1. Current' = Current /\ Now' = Now /\ Current \in todo
    BY DEF Current, Now, AttemptInv, Steps, TypeOK, Medium
<1>2. {Current} \in SUBSET Medium /\ file \in Files /\ \A f \in Main : f \in Files
    BY DEF Files
<1>3. /\ vis'[Current][file] = Now
      /\ \A m \in Medium : m # Current => vis'[m] = vis[m]
    <2>1. PICK ms \in SUBSET Medium : ms = {Current} /\ AtomicWrite(ms, file, Now, TRUE)
        BY <1>2
    <2>2. ASSUME NEW m \in Medium, m \in ms PROVE vis'[m][file] = Now
        <3>1. vis[m] \in [Files -> Content] /\ vis'[m] = [vis[m] EXCEPT ![file] = Now]
            BY <2>1, <2>2 DEF TypeOK, AtomicWrite
        <3> QED BY <1>2, <3>1
    <2>3. ASSUME NEW m \in Medium, m \notin ms PROVE vis'[m] = vis[m]
        BY <1>2, <2>1, <2>3, WriteShows
    <2> QED BY <2>1, <2>2, <2>3
<1>9. \A f \in Main : f # file => vis'[Current][f] = vis[Current][f]
    BY <1>2, WriteKeepsOthers
<1>4. "primary" # Current => survive' = survive
    BY <1>2, AtomicWriteEffect
<1>5. \A f \in Main : /\ \A m \in avail \ todo : vis[m][f] = Now
                      /\ "primary" \in avail \ todo => survive[f] = {Now}
    BY DEF CallInv, ProgressInv, Steps
<1>6. \A m \in avail \ todo : m # Current /\ m \in Medium
    BY <1>1 DEF TypeOK
<1>7. ASSUME NEW f \in Main, NEW m \in avail \ todo PROVE vis'[m][f] = Now
    BY <1>3, <1>5, <1>6
<1>8. ASSUME NEW f \in Main, vis[Current][f] = Now PROVE vis'[Current][f] = Now
    BY <1>3, <1>8, <1>9
<1> QED BY <1>1, <1>3, <1>4, <1>5, <1>6, <1>7, <1>8

\* Every step keeps the record of what the running attempt has written, and a
\* return finds it complete (reporting.py:358-387).
LEMMA CallStep ==
    ASSUME TypeOK, AttemptInv, MediaInv, CallInv, [Next]_vars
    PROVE  CallInv'
<1> USE DEF callVars, mediumVars
<1>1. CASE CallCheckpoint
    BY <1>1 DEF CallCheckpoint, CallInv, ProgressInv, AckedIsDurable, Steps
<1>2. ASSUME NEW file \in Sidecars, Artifact(file) PROVE CallInv'
    <2>1. PICK good \in SUBSET avail :
              /\ AtomicWrite(good, file, [ver |-> ver + 1, pers |-> {}], FALSE)
              /\ avail' = good
        BY <1>2 DEF Artifact, Destinations
    <2>2. /\ file \in Files /\ good \in SUBSET Medium
          /\ \A f \in Main : f \in Files /\ f # file
        BY <2>1, SidecarsAssumption DEF Files, TypeOK
    <2>3. \A f \in Main : /\ \A m \in Medium : vis'[m][f] = vis[m][f]
                          /\ survive'[f] = survive[f]
        BY <2>1, <2>2, WriteKeepsOthers
    <2>5. pc' \in {"idle", "raised"} /\ pc = "idle" /\ acked' = acked /\ persistence' = persistence
        BY <1>2 DEF Artifact
    <2>6. AckedIsDurable'
        BY <2>1, <2>2, <2>3, <2>5 DEF CallInv, AckedIsDurable
    <2> QED BY <2>5, <2>6 DEF CallInv, ProgressInv, Steps
<1>3. CASE BeginAttempt
    <2>1. avail' \ todo' = {} /\ pc' \in {"require", "flush"}
        BY <1>3 DEF BeginAttempt, Destinations, NextDestination
    <2> QED BY <2>1 DEF CallInv, ProgressInv, AckedIsDurable
<1>4. CASE FlushArtifacts
    <2>1. /\ Current \in todo /\ pc = "flush" /\ pc' = "json"
          /\ UNCHANGED <<avail, vis, todo, ver, persistence>>
        BY <1>4 DEF FlushArtifacts, Current, AttemptInv, Steps, TypeOK, Medium
    <2>2. ASSUME NEW f \in Main, "primary" \in avail \ todo PROVE survive'[f] = {Now}
        <3>1. survive' = survive
            BY <1>4, <2>1, <2>2 DEF FlushArtifacts
        <3> QED BY <2>1, <2>2, <3>1 DEF CallInv, ProgressInv, Steps
    <2>3. Now' = Now
        BY <2>1 DEF Now
    <2> QED BY <2>1, <2>2, <2>3 DEF CallInv, ProgressInv, AckedIsDurable, Steps
<1>5. CASE WriteJson
    <2>1. AtomicWrite({Current}, "json", Now, TRUE) /\ "json" \in Main /\ pc = "json" /\ pc' = "md"
          /\ UNCHANGED <<avail, pending, callVars, acked>>
        BY <1>5 DEF WriteJson, Now, Main
    <2> QED BY <2>1, WriteMainStep DEF CallInv, ProgressInv, AckedIsDurable
<1>6. CASE WriteMarkdown
    <2>1. AtomicWrite({Current}, "md", Now, TRUE) /\ "md" \in Main /\ "json" \in Main
          /\ pc = "md" /\ pc' = "sync" /\ UNCHANGED <<avail, pending, callVars, acked>>
        BY <1>6 DEF WriteMarkdown, Now, Main
    <2>2. vis[Current]["json"] = Now
        BY <2>1 DEF CallInv, ProgressInv
    <2> QED BY <2>1, <2>2, WriteMainStep DEF CallInv, ProgressInv, AckedIsDurable
<1>7. CASE SyncDirectory
    <2>1. /\ Current \in todo /\ todo' = todo \ {Current} /\ avail' = avail /\ vis' = vis
          /\ Now' = Now /\ pc = "sync" /\ pc' \in {"require", "flush"}
        BY <1>7 DEF SyncDirectory, Current, AttemptInv, Steps, TypeOK, Medium, Now, NextDestination
    <2>2. \A f \in Main : vis[Current][f] = Now
        BY <2>1 DEF CallInv, ProgressInv, Main
    <2>3. ASSUME NEW f \in Main, NEW m \in avail' \ todo' PROVE vis'[m][f] = Now
        BY <2>1, <2>2, <2>3 DEF CallInv, ProgressInv, Steps
    <2>4. ASSUME NEW f \in Main, "primary" \in avail' \ todo' PROVE survive'[f] = {Now}
        <3>1. CASE Current = "primary"
            <4>1. f \in Files /\ f \in synced /\ survive' = AfterDirectorySync(synced)
                BY <1>7, <3>1 DEF SyncDirectory, MediaInv, MainSynced, Files
            <4> QED BY <2>2, <3>1, <4>1, DirectorySyncEffect
        <3>2. CASE Current # "primary"
            <4>1. survive' = survive /\ "primary" \in avail \ todo
                BY <1>7, <2>1, <2>4, <3>2 DEF SyncDirectory
            <4> QED BY <2>1, <4>1 DEF CallInv, ProgressInv, Steps
        <3> QED BY <3>1, <3>2
    <2> QED BY <2>1, <2>3, <2>4 DEF CallInv, ProgressInv, AckedIsDurable
<1>8. CASE DestinationFails
    <2>1. /\ avail' \ todo' = avail \ todo /\ pc \in Steps /\ pc' \in {"require", "flush"}
          /\ Now' = Now /\ UNCHANGED <<vis, survive>>
        BY <1>8 DEF DestinationFails, Current, AttemptInv, TypeOK, Medium, Now, NextDestination
    <2> QED BY <2>1 DEF CallInv, ProgressInv, AckedIsDurable
<1>9. CASE RaiseNoDestination \/ Retry
    BY <1>9 DEF RaiseNoDestination, Retry, CallInv, ProgressInv, AckedIsDurable, Steps
<1>10. CASE Return
    <2>1. /\ pc = "require" /\ ~changed /\ todo = {} /\ persistence = avail
          /\ pc' = "idle" /\ persistence' = avail /\ acked' = ver
          /\ UNCHANGED <<avail, vis, survive>>
        BY <1>10 DEF Return, AttemptInv, Steps
    <2>2. \A f \in Main : /\ \A m \in avail : vis[m][f] = Now
                          /\ "primary" \in avail => survive[f] = {Now}
        BY <2>1 DEF CallInv, ProgressInv, Steps
    <2> QED BY <2>1, <2>2 DEF CallInv, ProgressInv, AckedIsDurable, Now, Steps
<1>11. CASE PowerLoss
    BY <1>11 DEF PowerLoss, CallInv, ProgressInv, AckedIsDurable, Steps
<1>12. CASE UNCHANGED vars
    <2>1. Current' = Current /\ Now' = Now
        BY <1>12 DEF vars, Current, Now
    <2> QED BY <1>12, <2>1 DEF vars, CallInv, ProgressInv, AckedIsDurable
<1> QED BY <1>1, <1>2, <1>3, <1>4, <1>5, <1>6, <1>7, <1>8, <1>9, <1>10, <1>11, <1>12
        DEF Next, CheckpointStep

-----------------------------------------------------------------------------
(* The order of sidecars and report on the primary medium.                 *)

\* No report survives before one was written.
LEMMA OrderInit == Init => SidecarsPrecedeReport
BY DEF Init, SidecarsPrecedeReport, Files, Main, Medium, Absent

\* No new JSON file can survive and no sidecar changed.
LEMMA OrderKept ==
    ASSUME SidecarsPrecedeReport, survive'["json"] \subseteq survive["json"],
           \A file \in Sidecars : /\ vis'["primary"][file] = vis["primary"][file]
                                  /\ \/ survive'[file] = survive[file]
                                     \/ survive'[file] = {vis["primary"][file]}
    PROVE  SidecarsPrecedeReport'
BY DEF SidecarsPrecedeReport

\* Every step keeps the order of sidecars and report.
LEMMA OrderStep ==
    ASSUME TypeOK, AttemptInv, MediaInv, PendingInv, SidecarsPrecedeReport, [Next]_vars
    PROVE  SidecarsPrecedeReport'
<1> USE DEF callVars, mediumVars
<1>0. "json" \in Main /\ "json" \in Files /\ "primary" \in Medium
    BY DEF Main, Files, Medium
<1>1. CASE UNCHANGED mediumVars
    BY <1>1 DEF SidecarsPrecedeReport
<1>2. ASSUME NEW file \in Sidecars, Artifact(file) PROVE SidecarsPrecedeReport'
    <2>1. PICK good \in SUBSET avail :
              AtomicWrite(good, file, [ver |-> ver + 1, pers |-> {}], FALSE)
        BY <1>2 DEF Artifact, Destinations
    <2>2. good \in SUBSET Medium /\ file \in Files /\ file # "json" /\ ver' = ver
        BY <1>0, <1>2, <2>1, SidecarsAssumption DEF Files, TypeOK, Artifact
    <2>3. survive'["json"] = survive["json"]
        BY <1>0, <2>1, <2>2, WriteKeepsOthers
    <2>4. \A json \in survive["json"] : json.ver \in 0..ver
        BY <1>0 DEF MediaInv, MainFilesWhole
    <2>5. ASSUME NEW json \in survive["json"], NEW other \in Sidecars, other # file,
                 vis'["primary"][other].ver \in 1..json.ver
          PROVE  survive'[other] = {vis'["primary"][other]}
        <3>1. /\ vis'["primary"][other] = vis["primary"][other]
              /\ survive'[other] = survive[other]
            BY <1>0, <2>1, <2>2, <2>5, WriteKeepsOthers DEF Files
        <3> QED BY <2>5, <3>1 DEF SidecarsPrecedeReport
    <2>6. ASSUME NEW json \in survive["json"], vis'["primary"][file].ver \in 1..json.ver
          PROVE  survive'[file] = {vis'["primary"][file]}
        <3>1. CASE "primary" \in good
            <4>1. vis'["primary"] = [vis["primary"] EXCEPT ![file] = [ver |-> ver + 1, pers |-> {}]]
                BY <1>0, <2>1, <3>1 DEF AtomicWrite
            <4>2. vis'["primary"][file].ver = ver + 1
                BY <1>0, <2>2, <4>1 DEF TypeOK
            <4> QED BY <2>4, <2>6, <4>2 DEF TypeOK
        <3>2. CASE "primary" \notin good
            <4>1. vis'["primary"] = vis["primary"] /\ survive' = survive
                BY <1>0, <2>1, <3>2 DEF AtomicWrite
            <4> QED BY <2>6, <4>1 DEF SidecarsPrecedeReport
        <3> QED BY <3>1, <3>2
    <2> QED BY <2>3, <2>5, <2>6 DEF SidecarsPrecedeReport
<1>3. CASE FlushArtifacts
    <2>1. CASE UNCHANGED <<survive, synced>>
        BY <1>1, <1>3, <2>1 DEF FlushArtifacts
    <2>2. CASE Current = "primary" /\ pending["primary"] # {}
        <3>1. /\ synced' = synced \union pending["primary"] /\ vis' = vis /\ pc = "flush"
              /\ survive' = AfterDirectorySync(synced')
            BY <1>3, <2>2 DEF FlushArtifacts
        <3>2. "primary" \in avail
            BY <2>2, <3>1 DEF AttemptInv, Current, TypeOK, Medium, Steps
        <3>3. \A file \in Sidecars : file \in synced' /\ survive'[file] = {vis["primary"][file]}
            BY <3>1, <3>2, DirectorySyncEffect DEF PendingInv, Settled, Files
        <3> QED BY <3>1, <3>3 DEF SidecarsPrecedeReport
    <2> QED BY <1>3, <2>1, <2>2 DEF FlushArtifacts
<1>4. ASSUME NEW main \in Main, AtomicWrite({Current}, main, Now, TRUE), pc \in {"json", "md"}
      PROVE  SidecarsPrecedeReport'
    <2>1. {Current} \in SUBSET Medium /\ main \in Files /\ main \notin Sidecars
        BY SidecarsAssumption, CurrentType DEF Files
    <2>2. \A file \in Sidecars : /\ vis'["primary"][file] = vis["primary"][file]
                                 /\ survive'[file] = survive[file]
        BY <1>0, <1>4, <2>1, WriteKeepsOthers DEF Files
    <2>3. CASE Current = "primary"
        <3>1. "primary" \in avail
            BY <1>4, <2>3 DEF AttemptInv, Current, TypeOK, Medium, Steps
        <3>2. \A file \in Sidecars : survive[file] = {vis["primary"][file]}
            BY <1>4, <2>3, <3>1 DEF PendingInv, Settled
        <3> QED BY <2>2, <3>2 DEF SidecarsPrecedeReport
    <2>4. CASE Current # "primary"
        <3>1. survive' = survive
            BY <1>4, <2>4 DEF AtomicWrite
        <3> QED BY <2>2, <3>1, OrderKept
    <2> QED BY <2>3, <2>4
<1>5. CASE WriteJson \/ WriteMarkdown
    BY <1>4, <1>5 DEF WriteJson, WriteMarkdown, Now, Main
<1>6. CASE SyncDirectory
    <2>1. CASE Current = "primary"
        <3>1. /\ vis' = vis /\ synced' = synced /\ pc = "sync"
              /\ survive' = AfterDirectorySync(synced)
            BY <1>6, <2>1 DEF SyncDirectory
        <3>2. "primary" \in avail
            BY <2>1, <3>1 DEF AttemptInv, Current, TypeOK, Medium, Steps
        <3>3. \A file \in Sidecars : file \in synced
            BY <2>1, <3>1, <3>2 DEF PendingInv, Settled
        <3>4. \A file \in Sidecars : survive'[file] = {vis["primary"][file]}
            BY <3>1, <3>3, DirectorySyncEffect DEF Files
        <3> QED BY <3>1, <3>4 DEF SidecarsPrecedeReport
    <2>2. CASE Current # "primary"
        BY <1>1, <1>6, <2>2 DEF SyncDirectory
    <2> QED BY <2>1, <2>2
<1>7. CASE PowerLoss
    <2>1. \A f \in Files : survive'[f] = {vis'["primary"][f]}
        BY <1>7, PowerLossEffect
    <2> QED BY <2>1 DEF SidecarsPrecedeReport, Files
<1>8. CASE \/ CallCheckpoint \/ BeginAttempt \/ DestinationFails \/ RaiseNoDestination
           \/ Retry \/ Return
    BY <1>1, <1>8
       DEF CallCheckpoint, BeginAttempt, DestinationFails, RaiseNoDestination, Retry, Return
<1>9. CASE UNCHANGED vars
    BY <1>1, <1>9 DEF vars
<1> QED BY <1>2, <1>3, <1>5, <1>6, <1>7, <1>8, <1>9 DEF Next, CheckpointStep

-----------------------------------------------------------------------------
(* The theorems.                                                           *)

\* Every step leaves the caller a medium, or an error.
LEMMA CallerStep ==
    ASSUME TypeOK, CallerInv, [Next]_vars
    PROVE  CallerInv'
<1> USE DEF CallerInv, callVars, mediumVars, Steps
<1>1. CASE CallCheckpoint
    BY <1>1 DEF CallCheckpoint, TypeOK
<1>2. ASSUME NEW file \in Sidecars, Artifact(file) PROVE CallerInv'
    BY <1>2 DEF Artifact
<1>3. CASE BeginAttempt \/ SyncDirectory \/ DestinationFails
    BY <1>3 DEF BeginAttempt, SyncDirectory, DestinationFails, NextDestination
<1>4. CASE FlushArtifacts \/ WriteJson \/ WriteMarkdown
    BY <1>4 DEF FlushArtifacts, WriteJson, WriteMarkdown
<1>5. CASE RaiseNoDestination \/ Retry \/ Return \/ PowerLoss
    BY <1>5 DEF RaiseNoDestination, Retry, Return, PowerLoss
<1>6. CASE UNCHANGED vars
    BY <1>6 DEF vars
<1> QED BY <1>1, <1>2, <1>3, <1>4, <1>5, <1>6 DEF Next, CheckpointStep

\* The inductive invariant holds in every reachable state.
LEMMA InductiveInvariant == Spec => []IInv
<1>1. Init => IInv
    <2>1. Init => CallerInv
        BY DEF Init, CallerInv, Steps, Medium
    <2> QED BY <2>1, TypeInit, AttemptInit, MediaInit, PendingInit, CallInit, OrderInit
            DEF IInv, CallInv
<1>2. IInv /\ [Next]_vars => IInv'
    BY TypeStep, AttemptStep, MediaStep, PendingStep, CallStep, OrderStep, CallerStep
        DEF IInv, CallInv
<1> QED BY <1>1, <1>2, PTL DEF Spec

\* Whatever fails during a checkpoint, once it returns both main files of every
\* medium in use hold it for good (CheckpointWriter.checkpoint).
THEOREM AckedReportIsDurable == Spec => []AckedIsDurable
<1>1. IInv => AckedIsDurable
    BY DEF IInv
<1> QED BY <1>1, InductiveInvariant, PTL

\* Sidecars reach the primary medium before the report that names them
\* (CheckpointWriter._flush_artifacts).
THEOREM SidecarsAreOrdered == Spec => []SidecarsPrecedeReport
<1>1. IInv => SidecarsPrecedeReport
    BY DEF IInv
<1> QED BY <1>1, InductiveInvariant, PTL

\* No failure and no power loss leaves a torn main file (atomic_write).
THEOREM MainFilesAreWhole == Spec => []MainFilesWhole
<1>1. IInv => MainFilesWhole
    BY DEF IInv, MediaInv
<1> QED BY <1>1, InductiveInvariant, PTL

\* A medium that failed keeps the files it had at the failure
\* (CheckpointWriter._destinations).
THEOREM FailedMediumStaysUntouched == Spec => FailedMediumUntouched
<1> DEFINE Untouched == \A m \in Medium \ avail : vis'[m] = vis[m] \/ pc' = "off"
<1>1. ASSUME IInv, [Next]_vars PROVE Untouched \/ UNCHANGED vars
    <2> USE <1>1 DEF callVars, mediumVars
    <2>1. TypeOK /\ AttemptInv
        BY DEF IInv
    <2>2. ASSUME NEW ms \in SUBSET avail, NEW file \in Files, NEW content,
                 NEW durable \in BOOLEAN, AtomicWrite(ms, file, content, durable)
          PROVE  Untouched
        BY <2>1, <2>2, WriteShows DEF TypeOK
    <2>3. ASSUME NEW file \in Sidecars, Artifact(file) PROVE Untouched
        BY <2>2, <2>3 DEF Artifact, Destinations, Files
    <2>4. CASE WriteJson \/ WriteMarkdown
        <3>1. {Current} \in SUBSET avail
            BY <2>1, <2>4 DEF WriteJson, WriteMarkdown, AttemptInv, TypeOK, Current, Medium, Steps
        <3>2. "json" \in Files /\ "md" \in Files
            BY DEF Files, Main
        <3> QED BY <2>2, <2>4, <3>1, <3>2 DEF WriteJson, WriteMarkdown
    <2>5. CASE PowerLoss
        BY <2>5 DEF PowerLoss
    <2>6. CASE UNCHANGED vis
        BY <2>6
    <2>7. CASE \/ CallCheckpoint \/ BeginAttempt \/ FlushArtifacts \/ SyncDirectory
               \/ DestinationFails \/ RaiseNoDestination \/ Retry \/ Return
        BY <2>6, <2>7 DEF CallCheckpoint, BeginAttempt, FlushArtifacts, SyncDirectory,
                          DestinationFails, RaiseNoDestination, Retry, Return
    <2> QED BY <2>3, <2>4, <2>5, <2>7 DEF Next, CheckpointStep
<1> QED BY <1>1, InductiveInvariant, PTL DEF Spec, FailedMediumUntouched
-----------------------------------------------------------------------------
(* The writer implements ReportStore, as seen through either main file.    *)

Store(f) == INSTANCE ReportStore WITH
    Report <- 1..MaxReports, NoReport <- 0,
    status <- StoreStatus, want <- ver, avail <- avail,
    disk <- [m \in Medium |-> vis[m][f].ver],
    survive <- {content.ver : content \in survive[f]}

\* The abstract state: what the copies of a main file on the two media are.
Disk(f) == [m \in Medium |-> vis[m][f].ver]
Survive(f) == {content.ver : content \in survive[f]}

\* The writer starts as the store does.
LEMMA StoreInitial ==
    ASSUME NEW f \in Main, Init
    PROVE  Store(f)!StoreInit
BY DEF Init, Store!StoreInit, StoreStatus, Medium, Store!Medium, Files, Main, Absent

\* A step that changes no copy of a main file changes neither abstract copy.
LEMMA FileKept ==
    ASSUME NEW f \in Main, \A m \in Medium : vis'[m][f] = vis[m][f],
           survive'[f] = survive[f]
    PROVE  Disk(f)' = Disk(f) /\ Survive(f)' = Survive(f)
BY DEF Disk, Survive

\* A step while a save runs that leaves media in use, call and main file alone
\* is a stutter of the store.
LEMMA StoreStutter ==
    ASSUME NEW f \in Main, StoreStatus' = StoreStatus, ver' = ver, avail' = avail,
           \A m \in Medium : vis'[m][f] = vis[m][f],
           survive'[f] = survive[f]
    PROVE  UNCHANGED Store(f)!storeVars
BY FileKept DEF Store!storeVars, Disk, Survive

\* A directory sync of the primary medium is the store's Settle.
LEMMA StoreSettles ==
    ASSUME NEW f \in Main, MediaInv, pc \in Steps, pc' \in Steps \union {"require"}, "primary" \in avail,
           vis' = vis, UNCHANGED <<ver, avail>>, NEW fsynced, synced \subseteq fsynced,
           survive' = AfterDirectorySync(fsynced)
    PROVE  Store(f)!Settle
<1>1. survive'[f] = {vis["primary"][f]}
    BY DirectorySyncEffect DEF MediaInv, MainSynced, Main, Files
<1>2. Survive(f)' = {vis["primary"][f].ver} /\ Disk(f)' = Disk(f)
    BY <1>1 DEF Survive, Disk
<1>3. StoreStatus = "saving" /\ StoreStatus' = "saving"
    BY DEF StoreStatus, Steps
<1> QED BY <1>2, <1>3 DEF Store!Settle, Survive, Disk, Medium

\* Every step of the writer is a step of the store or a stutter
\* (reporting.py:346-399).
LEMMA StoreStep ==
    ASSUME NEW f \in Main, IInv, IInv', [Next]_vars
    PROVE  [Store(f)!StoreNext]_(Store(f)!storeVars)
<1> USE DEF callVars, mediumVars
<1>0. TypeOK /\ AttemptInv /\ MediaInv
    BY DEF IInv
<1>f. f \in Files
    BY DEF Files
<1>1. CASE CallCheckpoint
    <2>1. Disk(f)' = Disk(f) /\ Survive(f)' = Survive(f)
        BY <1>1 DEF CallCheckpoint, Disk, Survive
    <2>2. StoreStatus \in {"idle", "raised"} /\ StoreStatus' = "saving"
        BY <1>1 DEF CallCheckpoint, StoreStatus
    <2>3. ver + 1 \in 1..MaxReports
        BY <1>0, <1>1, MaxReportsAssumption DEF CallCheckpoint, TypeOK
    <2>4. Store(f)!Begin(ver + 1)
        BY <1>1, <2>1, <2>2 DEF CallCheckpoint, Store!Begin, Disk, Survive
    <2> QED BY <2>3, <2>4 DEF Store!StoreNext
<1>2. ASSUME NEW file \in Sidecars, Artifact(file)
      PROVE  [Store(f)!StoreNext]_(Store(f)!storeVars)
    <2>1. PICK good \in SUBSET avail :
              /\ AtomicWrite(good, file, [ver |-> ver + 1, pers |-> {}], FALSE)
              /\ avail' = good
              /\ pc' = IF good = {} THEN "raised" ELSE "idle"
        BY <1>2 DEF Artifact, Destinations
    <2>2. pc = "idle" /\ ver' = ver
        BY <1>2 DEF Artifact
    <2>3. file \in Files /\ f # file /\ good \in SUBSET Medium
        BY <1>0, <2>1, SidecarsAssumption DEF Files, Main, TypeOK
    <2>4. /\ \A m \in Medium : vis'[m][f] = vis[m][f]
          /\ survive'[f] = survive[f]
        BY <1>0, <1>f, <2>1, <2>3, WriteKeepsOthers
    <2>5. Disk(f)' = Disk(f) /\ Survive(f)' = Survive(f)
        BY <2>4, FileKept
    <2>6. CASE good = avail /\ good # {}
        <3>1. StoreStatus' = StoreStatus
            BY <2>1, <2>2, <2>6 DEF StoreStatus
        <3> QED BY <2>1, <2>2, <2>4, <2>6, <3>1, StoreStutter
    <2>7. CASE good # avail
        <3>1. /\ StoreStatus = "idle"
              /\ StoreStatus' = IF good = {} THEN "raised" ELSE "idle"
            BY <2>1, <2>2 DEF StoreStatus
        <3>2. /\ avail \ good # {} /\ avail \ good \subseteq avail
              /\ good = avail \ (avail \ good)
            BY <2>1, <2>7
        <3>3. Store(f)!Lose(avail \ good)
            BY <2>1, <2>2, <2>5, <3>1, <3>2 DEF Store!Lose, Disk, Survive
        <3>4. avail \ good \in SUBSET Store(f)!Medium
            BY <1>0 DEF TypeOK, Medium, Store!Medium
        <3> QED BY <3>3, <3>4 DEF Store!StoreNext
    <2>8. CASE good = avail /\ good = {}
        <3>1. FALSE
            BY <2>1, <2>2, <2>8 DEF IInv, CallerInv
        <3> QED BY <3>1
    <2> QED BY <2>6, <2>7, <2>8
<1>3. CASE BeginAttempt \/ Retry
    <2>1. StoreStatus' = StoreStatus /\ UNCHANGED <<ver, avail, vis, survive>>
        BY <1>3 DEF BeginAttempt, Retry, StoreStatus, NextDestination
    <2> QED BY <2>1, StoreStutter
<1>4. CASE FlushArtifacts
    <2>1. pc = "flush" /\ pc' = "json" /\ UNCHANGED <<ver, avail, vis>>
        BY <1>4 DEF FlushArtifacts
    <2>2. CASE Current = "primary" /\ pending["primary"] # {}
        <3>1. "primary" \in avail
            BY <1>0, <2>1, <2>2 DEF AttemptInv, Current, TypeOK, Medium, Steps
        <3>2. survive' = AfterDirectorySync(synced') /\ synced \subseteq synced'
            BY <1>4, <2>2 DEF FlushArtifacts
        <3>3. Store(f)!Settle
            BY <1>0, <2>1, <3>1, <3>2, StoreSettles DEF Steps
        <3> QED BY <3>3 DEF Store!StoreNext
    <2>3. CASE ~(Current = "primary" /\ pending["primary"] # {})
        <3>1. survive' = survive /\ StoreStatus' = StoreStatus
            BY <1>4, <2>1, <2>3 DEF FlushArtifacts, StoreStatus
        <3> QED BY <2>1, <3>1, StoreStutter
    <2> QED BY <2>2, <2>3
<1>5. ASSUME NEW file \in Main, pc \in Steps, StoreStatus' = StoreStatus,
             AtomicWrite({Current}, file, Now, TRUE), UNCHANGED <<ver, avail>>
      PROVE  [Store(f)!StoreNext]_(Store(f)!storeVars)
    <2>1. /\ Current \in avail /\ Current \in Medium /\ {Current} \in SUBSET Medium
          /\ Now.ver = ver /\ file \in Files
        BY <1>0, <1>5 DEF AttemptInv, Current, TypeOK, Medium, Now, Files
    <2>2. StoreStatus = "saving"
        BY <1>5 DEF StoreStatus, Steps
    <2>3. PICK ms \in SUBSET Medium : ms = {Current} /\ AtomicWrite(ms, file, Now, TRUE)
        BY <1>5, <2>1
    <2>4. CASE file = f
        <3>1. \A m \in Medium : vis'[m][f] = IF m = Current THEN Now ELSE vis[m][f]
            <4>1. ASSUME NEW m \in Medium, m \in ms PROVE vis'[m][f] = Now
                <5>1. vis[m] \in [Files -> Content] /\ vis'[m] = [vis[m] EXCEPT ![f] = Now]
                    BY <1>0, <2>3, <2>4, <4>1 DEF TypeOK, AtomicWrite
                <5> QED BY <1>f, <5>1
            <4>2. ASSUME NEW m \in Medium, m \notin ms PROVE vis'[m] = vis[m]
                BY <2>3, <4>2 DEF AtomicWrite
            <4> QED BY <2>3, <4>1, <4>2
        <3>2. Disk(f)' = [Disk(f) EXCEPT ![Current] = ver]
            BY <2>1, <3>1 DEF Disk
        <3>3. Survive(f)' = IF Current = "primary" THEN Survive(f) \union {ver} ELSE Survive(f)
            <4>1. CASE Current = "primary"
                <5>1. survive'[f] = survive[f] \union {Now}
                    BY <1>0, <1>f, <2>3, <2>4, <4>1 DEF AtomicWrite, TypeOK
                <5> QED BY <2>1, <4>1, <5>1 DEF Survive
            <4>2. CASE Current # "primary"
                BY <2>3, <4>2 DEF AtomicWrite, Survive
            <4> QED BY <4>1, <4>2
        <3>4. PICK m \in Store(f)!Medium : m = Current
            BY <2>1 DEF Medium, Store!Medium
        <3>5. Store(f)!Land(m)
            BY <1>5, <2>1, <2>2, <3>2, <3>3, <3>4 DEF Store!Land, Disk, Survive
        <3> QED BY <3>4, <3>5 DEF Store!StoreNext
    <2>5. CASE file # f
        <3>1. /\ \A m \in Medium : vis'[m][f] = vis[m][f]
              /\ survive'[f] = survive[f]
            BY <1>0, <1>f, <2>1, <2>3, <2>5, WriteKeepsOthers
        <3> QED BY <1>5, <3>1, StoreStutter
    <2> QED BY <2>4, <2>5
<1>6. CASE WriteJson \/ WriteMarkdown
    <2>1. \E file \in Main : AtomicWrite({Current}, file, Now, TRUE)
        BY <1>6 DEF WriteJson, WriteMarkdown, Now, Main
    <2>2. pc \in Steps /\ StoreStatus' = StoreStatus /\ UNCHANGED <<ver, avail>>
        BY <1>6 DEF WriteJson, WriteMarkdown, StoreStatus, Steps
    <2> QED BY <1>5, <2>1, <2>2
<1>7. CASE SyncDirectory
    <2>1. pc = "sync" /\ pc' \in {"require", "flush"} /\ UNCHANGED <<ver, avail, vis, synced>>
        BY <1>7 DEF SyncDirectory, NextDestination
    <2>2. CASE Current = "primary"
        <3>1. "primary" \in avail
            BY <1>0, <2>1, <2>2 DEF AttemptInv, Current, TypeOK, Medium, Steps
        <3>2. survive' = AfterDirectorySync(synced)
            BY <1>7, <2>2 DEF SyncDirectory
        <3>3. Store(f)!Settle
            BY <1>0, <2>1, <3>1, <3>2, StoreSettles DEF Steps
        <3> QED BY <3>3 DEF Store!StoreNext
    <2>3. CASE Current # "primary"
        <3>1. survive' = survive /\ StoreStatus' = StoreStatus
            BY <1>7, <2>1, <2>3 DEF SyncDirectory, StoreStatus
        <3> QED BY <2>1, <3>1, StoreStutter
    <2> QED BY <2>2, <2>3
<1>8. CASE DestinationFails
    <2>1. /\ pc \in Steps /\ pc' \in {"require", "flush"} /\ avail' = avail \ {Current}
          /\ UNCHANGED <<ver, vis, survive>>
        BY <1>8 DEF DestinationFails, NextDestination
    <2>2. Current \in avail /\ {Current} \in SUBSET Store(f)!Medium
        BY <1>0, <2>1, CurrentType DEF AttemptInv, Current, TypeOK, Medium, Store!Medium
    <2>3. StoreStatus = "saving" /\ StoreStatus' = "saving"
        BY <2>1 DEF StoreStatus, Steps
    <2>4. Store(f)!Lose({Current})
        BY <2>1, <2>2, <2>3 DEF Store!Lose
    <2> QED BY <2>2, <2>4 DEF Store!StoreNext
<1>9. CASE RaiseNoDestination
    <2>1. Store(f)!Raise
        BY <1>9 DEF RaiseNoDestination, Store!Raise, StoreStatus
    <2> QED BY <2>1 DEF Store!StoreNext
<1>10. CASE Return
    <2>1. /\ StoreStatus = "saving" /\ StoreStatus' = "idle" /\ avail # {}
          /\ UNCHANGED <<ver, avail, vis, survive>>
        BY <1>10 DEF Return, StoreStatus
    <2>2. /\ \A m \in avail : vis[m][f] = [ver |-> ver, pers |-> persistence']
          /\ "primary" \in avail => survive[f] = {[ver |-> ver, pers |-> persistence']}
        <3>1. pc' = "idle" /\ acked' = ver
            BY <1>10 DEF Return
        <3>2. CASE ver > 0
            BY <1>f, <2>1, <3>1, <3>2 DEF IInv, CallInv, AckedIsDurable
        <3>3. ver > 0
            BY <1>10 DEF IInv, CallerInv, Return
        <3> QED BY <3>2, <3>3
    <2>3. \A m \in avail : Disk(f)[m] = ver
        BY <1>0, <2>2 DEF Disk, TypeOK
    <2>4. "primary" \in avail => Survive(f) = {ver}
        BY <2>2 DEF Survive
    <2>5. Store(f)!Return
        BY <2>1, <2>3, <2>4 DEF Store!Return, Store!Saved, Disk, Survive
    <2> QED BY <2>5 DEF Store!StoreNext
<1>11. CASE PowerLoss
    <2>1. /\ vis'["primary"][f] \in survive[f]
          /\ survive'[f] = {vis'["primary"][f]}
          /\ vis'["mirror"][f] = Absent
          /\ UNCHANGED <<ver, avail>>
        BY <1>11, <1>f, PowerLossEffect
    <2>2. StoreStatus # "off" /\ StoreStatus' = "off"
        BY <1>11 DEF PowerLoss, StoreStatus
    <2> DEFINE r == vis'["primary"][f].ver
    <2>3. r \in Survive(f) /\ Survive(f)' = {r}
        BY <2>1 DEF Survive
    <2>4. Disk(f)' = [m \in Medium |-> IF m = "primary" THEN r ELSE 0]
        BY <2>1 DEF Disk, Medium, Absent
    <2>5. Store(f)!PowerLoss
        BY <2>1, <2>2, <2>3, <2>4 DEF Store!PowerLoss, Disk, Survive, Medium, Store!Medium
    <2> QED BY <2>5 DEF Store!StoreNext
<1>12. CASE UNCHANGED vars
    <2>1. StoreStatus' = StoreStatus /\ UNCHANGED <<ver, avail, vis, survive>>
        BY <1>12 DEF vars, StoreStatus
    <2> QED BY <2>1, StoreStutter
<1> QED BY <1>1, <1>2, <1>3, <1>4, <1>5, <1>6, <1>7, <1>8, <1>9, <1>10, <1>11, <1>12
        DEF Next, CheckpointStep

\* CheckpointWriter implements ReportStore: whatever a reader of the JSON files
\* sees, and whatever a power loss can leave of them, is what the store
\* allows, so that SafeTriage, checked against the store, holds of the writer.
THEOREM WriterImplementsStore == Spec => ImplementsJsonStore
<1>1. Init => JsonStore!StoreInit
    BY StoreInitial DEF Main, Store!StoreInit, JsonStore!StoreInit, Store!Medium, JsonStore!Medium
<1>2. IInv /\ IInv' /\ [Next]_vars => [JsonStore!StoreNext]_(JsonStore!storeVars)
    <2>1. IInv /\ IInv' /\ [Next]_vars => [Store("json")!StoreNext]_(Store("json")!storeVars)
        BY StoreStep DEF Main
    <2>2. [Store("json")!StoreNext]_(Store("json")!storeVars) => [JsonStore!StoreNext]_(JsonStore!storeVars)
        BY DEF Store!Begin, Store!Land, Store!Settle, Store!Lose, Store!Return, Store!Raise, Store!PowerLoss, Store!Saved, Store!storeVars, Store!Medium, Store!StoreNext,
               JsonStore!Begin, JsonStore!Land, JsonStore!Settle, JsonStore!Lose, JsonStore!Return, JsonStore!Raise, JsonStore!PowerLoss, JsonStore!Saved, JsonStore!storeVars, JsonStore!Medium, JsonStore!StoreNext
    <2> QED BY <2>1, <2>2
<1> QED BY <1>1, <1>2, InductiveInvariant, PTL DEF Spec, ImplementsJsonStore, JsonStore!StoreSpec

\* So is what a reader of the Markdown files sees, each of them by itself: the two
\* files of a medium may differ (FailedPrimaryKeepsPair).
THEOREM MarkdownImplementsStore == Spec => ImplementsMarkdownStore
<1>1. Init => MarkdownStore!StoreInit
    BY StoreInitial DEF Main, Store!StoreInit, MarkdownStore!StoreInit, Store!Medium, MarkdownStore!Medium
<1>2. IInv /\ IInv' /\ [Next]_vars => [MarkdownStore!StoreNext]_(MarkdownStore!storeVars)
    <2>1. IInv /\ IInv' /\ [Next]_vars => [Store("md")!StoreNext]_(Store("md")!storeVars)
        BY StoreStep DEF Main
    <2>2. [Store("md")!StoreNext]_(Store("md")!storeVars) => [MarkdownStore!StoreNext]_(MarkdownStore!storeVars)
        BY DEF Store!Begin, Store!Land, Store!Settle, Store!Lose, Store!Return, Store!Raise, Store!PowerLoss, Store!Saved, Store!storeVars, Store!Medium, Store!StoreNext,
               MarkdownStore!Begin, MarkdownStore!Land, MarkdownStore!Settle, MarkdownStore!Lose, MarkdownStore!Return, MarkdownStore!Raise, MarkdownStore!PowerLoss, MarkdownStore!Saved, MarkdownStore!storeVars, MarkdownStore!Medium, MarkdownStore!StoreNext
    <2> QED BY <2>1, <2>2
<1> QED BY <1>1, <1>2, InductiveInvariant, PTL DEF Spec, ImplementsMarkdownStore, MarkdownStore!StoreSpec
=============================================================================
