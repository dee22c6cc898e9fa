-------------------------- MODULE CheckpointWriter --------------------------
(***************************************************************************)
(* CheckpointWriter of app/reporting.py: every stage boundary replaces a   *)
(* JSON and a Markdown file on two media, the requested (primary) medium   *)
(* and a runtime mirror in /run, after flushing the sidecar files written  *)
(* since the last boundary.  Any I/O may raise OSError, which takes the    *)
(* medium out of use; power may be lost between any two I/O operations.    *)
(*                                                                         *)
(* A file replaced by atomic_write is visible at once.  What a power loss  *)
(* leaves of it on the primary medium is a choice among the contents in    *)
(* survive, which a directory sync reduces to the visible one; Torn is     *)
(* the content of a file whose data was never fsynced.                     *)
(***************************************************************************)
EXTENDS Integers, FiniteSets

CONSTANTS
    Sidecars,    \* the sidecar files (lspci, kernel log, pstore copies, VRAM log)
    MaxReports   \* bound: how many times checkpoint() is called

Medium == {"mirror", "primary"}
Main == {"json", "md"}

ASSUME SidecarsAssumption == Sidecars \cap Main = {}
ASSUME MaxReportsAssumption == MaxReports \in Nat

Files == Main \union Sidecars

\* The content of a file: the checkpoint it belongs to and, in a main file,
\* the media report.persistence names as available.
Content == [ver : Int, pers : SUBSET Medium]
Absent == [ver |-> 0, pers |-> {}]
Torn == [ver |-> -1, pers |-> {}]

VARIABLES
    avail,      \* primary_available and mirror_available
    pending,    \* _pending_artifacts
    vis,        \* the files a reader of each medium sees
    survive,    \* what a power loss may leave of each file of the primary medium
    synced,     \* files of the primary medium whose visible data was fsynced
    pc,         \* where the writer is
    todo,       \* destinations this attempt has not dealt with
    attempt,    \* _attempt, from 1
    changed,    \* a destination failed in this attempt
    ver,        \* how often checkpoint() was called
    persistence,\* report.persistence
    acked       \* the checkpoint that returned last

mediumVars == <<vis, survive, synced>>
callVars == <<todo, attempt, changed, ver, persistence>>
vars == <<avail, pending, vis, survive, synced, pc, todo, attempt, changed, ver,
          persistence, acked>>

Steps == {"flush", "json", "md", "sync"}

TypeOK ==
    /\ avail \subseteq Medium
    /\ pending \in [Medium -> SUBSET Sidecars]
    /\ vis \in [Medium -> [Files -> Content]]
    /\ survive \in [Files -> SUBSET Content]
    /\ synced \subseteq Files
    /\ pc \in Steps \union {"idle", "attempt", "require", "raised", "off"}
    /\ todo \subseteq Medium
    /\ attempt \in 0..3
    /\ changed \in BOOLEAN
    /\ ver \in Nat /\ acked \in Nat
    /\ persistence \subseteq Medium

-----------------------------------------------------------------------------
(* The medium: what os.replace, fsync and a directory sync do.             *)

\* atomic_write on each of the media ms: a new inode takes the name of file;
\* data that was not fsynced may tear.
AtomicWrite(ms, file, content, durable) ==
    /\ vis' = [m \in Medium |-> IF m \in ms THEN [vis[m] EXCEPT ![file] = content]
                                           ELSE vis[m]]
    /\ IF "primary" \in ms
       THEN /\ survive' = [survive EXCEPT ![file] =
                              @ \union {content} \union (IF durable THEN {} ELSE {Torn})]
            /\ synced' = IF durable THEN synced \union {file} ELSE synced \ {file}
       ELSE UNCHANGED <<survive, synced>>

\* What _sync_directory leaves a power loss to choose from.
AfterDirectorySync(fsynced) ==
    [f \in Files |-> {vis["primary"][f]} \union (IF f \in fsynced THEN {} ELSE {Torn})]

-----------------------------------------------------------------------------
Init ==
    \* No mirror when it is the primary directory itself or cannot be created.
    /\ avail \in {{"primary"}, Medium}
    /\ pending = [m \in Medium |-> {}]
    /\ vis = [m \in Medium |-> [f \in Files |-> Absent]]
    /\ survive = [f \in Files |-> {Absent}]
    /\ synced = Files
    /\ pc = "idle"
    /\ todo = {} /\ attempt = 0 /\ changed = FALSE
    /\ ver = 0 /\ acked = 0
    /\ persistence = {}

\* Mutant: the attempts of the previous call are not reset.
CallCheckpointKeepsAttempt ==
    /\ pc \in {"idle", "raised"}
    /\ ver < MaxReports
    /\ ver' = ver + 1
    /\ pc' = "attempt"
    /\ UNCHANGED <<avail, pending, mediumVars, attempt, todo, changed, persistence, acked>>

\* checkpoint() is entered; after a ReportWriteError only the abort handler calls it.
CallCheckpoint ==
    /\ pc \in {"idle", "raised"}
    /\ ver < MaxReports
    /\ ver' = ver + 1
    /\ attempt' = 0
    /\ pc' = "attempt"
    /\ UNCHANGED <<avail, pending, mediumVars, todo, changed, persistence, acked>>

\* Mutant: failed destinations are tried again.
DestinationsAll == Medium

\* _destinations(): the mirror first, then the primary, only those still in use.
Destinations == avail
Current == IF "mirror" \in todo THEN "mirror" ELSE "primary"
NextDestination(rest) == IF rest = {} THEN "require" ELSE "flush"

BeginAttempt ==
    /\ pc = "attempt"
    /\ attempt' = attempt + 1
    /\ persistence' = avail
    /\ changed' = FALSE
    /\ todo' = Destinations
    /\ pc' = NextDestination(todo')
    /\ UNCHANGED <<avail, pending, mediumVars, ver, acked>>

\* Mutant: the directories are synchronised, the sidecars themselves are not.
FlushDirectoriesOnly ==
    /\ pc = "flush"
    /\ survive' = IF Current = "primary" THEN AfterDirectorySync(synced) ELSE survive
    /\ pc' = "json"
    /\ UNCHANGED <<avail, pending, vis, synced, callVars, acked>>

\* _flush_artifacts: fsync every pending sidecar, then their directories.
FlushArtifacts ==
    /\ pc = "flush"
    /\ IF Current = "primary" /\ pending["primary"] # {}
       THEN /\ synced' = synced \union pending["primary"]
            /\ survive' = AfterDirectorySync(synced')
       ELSE UNCHANGED <<synced, survive>>
    /\ pc' = "json"
    /\ UNCHANGED <<avail, pending, vis, callVars, acked>>

WriteJson ==
    /\ pc = "json"
    /\ AtomicWrite({Current}, "json", [ver |-> ver, pers |-> persistence], TRUE)
    /\ pc' = "md"
    /\ UNCHANGED <<avail, pending, callVars, acked>>

\* Mutant: durable=True is forgotten.
WriteMarkdownUnsynced ==
    /\ pc = "md"
    /\ AtomicWrite({Current}, "md", [ver |-> ver, pers |-> persistence], FALSE)
    /\ pc' = "sync"
    /\ UNCHANGED <<avail, pending, callVars, acked>>


WriteMarkdown ==
    /\ pc = "md"
    /\ AtomicWrite({Current}, "md", [ver |-> ver, pers |-> persistence], TRUE)
    /\ pc' = "sync"
    /\ UNCHANGED <<avail, pending, callVars, acked>>

\* Mutant: no directory sync after the two replacements.
SkipSyncDirectory ==
    /\ pc = "sync"
    /\ pending' = [pending EXCEPT ![Current] = {}]
    /\ todo' = todo \ {Current}
    /\ pc' = NextDestination(todo')
    /\ UNCHANGED <<avail, mediumVars, attempt, changed, ver, persistence, acked>>


SyncDirectory ==
    /\ pc = "sync"
    /\ survive' = IF Current = "primary" THEN AfterDirectorySync(synced) ELSE survive
    /\ pending' = [pending EXCEPT ![Current] = {}]
    /\ todo' = todo \ {Current}
    /\ pc' = NextDestination(todo')
    /\ UNCHANGED <<avail, vis, synced, attempt, changed, ver, persistence, acked>>

\* Mutant: the failed destination is tried again, without end.
DestinationRetriedForever ==
    /\ pc \in Steps
    /\ changed' = TRUE
    /\ pc' = "flush"
    /\ UNCHANGED <<avail, pending, mediumVars, todo, attempt, ver, persistence, acked>>

\* OSError anywhere in a destination's block: _failed, then the next destination.
DestinationFails ==
    /\ pc \in Steps
    /\ avail' = avail \ {Current}
    /\ changed' = TRUE
    /\ todo' = todo \ {Current}
    /\ pc' = NextDestination(todo')
    /\ UNCHANGED <<pending, mediumVars, attempt, ver, persistence, acked>>

\* Mutant: losing the primary medium raises although the mirror is left.
RaiseWithoutPrimary ==
    /\ pc = "require"
    /\ "primary" \notin avail
    /\ pc' = "raised"
    /\ UNCHANGED <<avail, pending, mediumVars, callVars, acked>>

\* _require_destination
RaiseNoDestination ==
    /\ pc = "require"
    /\ avail = {}
    /\ pc' = "raised"
    /\ UNCHANGED <<avail, pending, mediumVars, callVars, acked>>

\* A destination failed: what the others hold does not say so yet.
Retry ==
    /\ pc = "require"
    /\ avail # {} /\ changed /\ attempt < 3
    /\ pc' = "attempt"
    /\ UNCHANGED <<avail, pending, mediumVars, callVars, acked>>

\* Mutant: a single pass, as if a failure changed nothing in the report.
ReturnAfterOnePass ==
    /\ pc = "require"
    /\ avail # {}
    /\ persistence' = avail
    /\ acked' = ver
    /\ pc' = "idle"
    /\ UNCHANGED <<avail, pending, mediumVars, todo, attempt, changed, ver>>


Return ==
    /\ pc = "require"
    /\ avail # {} /\ (~changed \/ attempt = 3)
    /\ persistence' = avail
    /\ acked' = ver
    /\ pc' = "idle"
    /\ UNCHANGED <<avail, pending, mediumVars, todo, attempt, changed, ver>>

\* artifact(): one sidecar is replaced, without fsync, on every destination
\* in use; good are those where no OSError was raised.
Artifact(file) ==
    /\ pc = "idle"
    /\ ver < MaxReports
    /\ \E good \in SUBSET Destinations :
        /\ AtomicWrite(good, file, [ver |-> ver + 1, pers |-> {}], FALSE)
        /\ pending' = [m \in Medium |-> IF m \in good THEN pending[m] \union {file}
                                                     ELSE pending[m]]
        /\ avail' = good
        /\ pc' = IF good = {} THEN "raised" ELSE "idle"
    /\ UNCHANGED <<callVars, acked>>

\* The machine loses power or hangs until it is switched off: the mirror is in
\* RAM, and each file of the primary medium is one of those that could survive.
PowerLoss ==
    /\ pc # "off"
    /\ pc' = "off"
    /\ \E left \in [Files -> UNION {survive[f] : f \in Files}] :
        /\ \A f \in Files : left[f] \in survive[f]
        /\ vis' = [m \in Medium |-> IF m = "primary" THEN left ELSE [f \in Files |-> Absent]]
        /\ survive' = [f \in Files |-> {left[f]}]
    /\ synced' = Files
    /\ UNCHANGED <<avail, pending, callVars, acked>>

\* The writer's own steps once checkpoint() was called; the program is one thread.
CheckpointStep ==
    \/ BeginAttempt
    \/ FlushArtifacts \/ WriteJson \/ WriteMarkdown \/ SyncDirectory \/ DestinationFails
    \/ RaiseNoDestination \/ Retry \/ Return

Next ==
    \/ CallCheckpoint
    \/ \E file \in Sidecars : Artifact(file)
    \/ CheckpointStep
    \/ PowerLoss

Spec == Init /\ [][Next]_vars /\ WF_vars(CheckpointStep)

-----------------------------------------------------------------------------
(* What the writer is for.                                                 *)

\* Between calls, once checkpoint() has returned, both main files of every
\* medium still in use hold that checkpoint, both with the persistence state
\* the caller prints, and no power loss can take them from the primary medium
\* (reporting.py:358-387: a failure during the pass makes another pass).
AckedIsDurable ==
    pc = "idle" /\ acked > 0 =>
        \A f \in Main :
            /\ \A m \in avail : vis[m][f] = [ver |-> acked, pers |-> persistence]
            /\ "primary" \in avail => survive[f] = {[ver |-> acked, pers |-> persistence]}

\* No power loss leaves a checkpoint whose sidecars are older than it or torn:
\* if a JSON file may survive, every sidecar written before it, and not
\* replaced since, survives whole (reporting.py:346-356, "Order bounded
\* sidecar data before the stage checkpoint").
SidecarsPrecedeReport ==
    \A json \in survive["json"], file \in Sidecars :
        LET written == vis["primary"][file]
        IN  written.ver \in 1..json.ver => survive[file] = {written}

\* A main file is never read back torn or half written, whatever fails and
\* whenever power is lost: it is absent, the checkpoint being written, or an
\* earlier one that checkpoint() was called for (reporting.py:62-84).
MainFilesWhole ==
    \A f \in Main : \A content \in survive[f] \union {vis[m][f] : m \in Medium} :
        content.ver \in 0..ver

\* A medium that failed is not written again, so its last report stays as it
\* was at the failure (reporting.py:324-338).
FailedMediumUntouched ==
    [][\A m \in Medium \ avail : vis'[m] = vis[m] \/ pc' = "off"]_vars

\* Every checkpoint() call returns or raises: the attempts are bounded and
\* each failure removes a destination.  Fairness: the writer is straight-line
\* code of one thread whose I/O calls return or fail.
CallEnds == pc = "attempt" ~> pc \in {"idle", "raised", "off"}

\* tests/test_phase2.py:139-140: when the requested medium fails, "the last
\* pre-failure primary checkpoint remains valid rather than becoming a
\* partially overwritten JSON/Markdown pair".
FailedPrimaryKeepsPair ==
    pc = "idle" /\ "primary" \notin avail =>
        vis["primary"]["json"].ver = vis["primary"]["md"].ver

\* The writer implements the abstract store, as seen through its JSON files ...
StoreStatus == IF pc \in {"idle", "raised", "off"} THEN pc ELSE "saving"

JsonStore == INSTANCE ReportStore WITH
    Report <- 1..MaxReports, NoReport <- 0,
    status <- StoreStatus, want <- ver, avail <- avail,
    disk <- [m \in Medium |-> vis[m]["json"].ver],
    survive <- {content.ver : content \in survive["json"]}

ImplementsJsonStore == JsonStore!StoreSpec

\* ... and as seen through its Markdown files.
MarkdownStore == INSTANCE ReportStore WITH
    Report <- 1..MaxReports, NoReport <- 0,
    status <- StoreStatus, want <- ver, avail <- avail,
    disk <- [m \in Medium |-> vis[m]["md"].ver],
    survive <- {content.ver : content \in survive["md"]}

ImplementsMarkdownStore == MarkdownStore!StoreSpec
=============================================================================
