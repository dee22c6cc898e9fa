---------------------------- MODULE ReportStore ----------------------------
(***************************************************************************)
(* What the report writer promises its caller, with all I/O detail left    *)
(* out: two media that each hold one copy of the report, the requested     *)
(* (primary) medium and the volatile runtime mirror.  A save is not atomic *)
(* and a medium may fail at any I/O, but a save that returns has put the   *)
(* report on every medium still in use, and on the primary medium          *)
(* so that a power loss cannot take it back.                               *)
(*                                                                         *)
(* CheckpointWriter implements this module; SafeTriage is written against  *)
(* it.                                                                     *)
(***************************************************************************)
EXTENDS FiniteSets

CONSTANTS
    Report,     \* the values a report file may hold
    NoReport    \* the value of a file that was never written

VARIABLES
    status,     \* "idle", "saving", "raised" (ReportWriteError) or "off"
    want,       \* the report of the current or latest save
    avail,      \* the media still in use
    disk,       \* what a reader of each medium finds now
    survive     \* what a reader of the primary medium may find after a power loss

storeVars == <<status, want, avail, disk, survive>>

Medium == {"mirror", "primary"}

StoreTypeOK ==
    /\ status \in {"idle", "saving", "raised", "off"}
    /\ want \in Report \union {NoReport}
    /\ avail \subseteq Medium
    /\ disk \in [Medium -> Report \union {NoReport}]
    /\ survive \subseteq Report \union {NoReport}

StoreInit ==
    /\ status = "idle"
    /\ want = NoReport
    /\ avail \in {{"primary"}, Medium}
    /\ disk = [m \in Medium |-> NoReport]
    /\ survive = {NoReport}

\* checkpoint(report) is called; the abort handler may call it again after a raise.
Begin(r) ==
    /\ status \in {"idle", "raised"}
    /\ status' = "saving"
    /\ want' = r
    /\ UNCHANGED <<avail, disk, survive>>

\* The report replaces the copy on one medium.
Land(m) ==
    /\ status = "saving"
    /\ m \in avail
    /\ disk' = [disk EXCEPT ![m] = want]
    /\ survive' = IF m = "primary" THEN survive \union {want} ELSE survive
    /\ UNCHANGED <<status, want, avail>>

\* The primary directory is synchronised: what is visible there is there for good.
Settle ==
    /\ status = "saving"
    /\ "primary" \in avail
    /\ survive' = {disk["primary"]}
    /\ UNCHANGED <<status, want, avail, disk>>

\* An I/O error takes media out of use for the rest of the run, during a
\* save or while sidecars are written between two saves.
Lose(lost) ==
    /\ status \in {"idle", "saving"}
    /\ lost # {} /\ lost \subseteq avail
    /\ avail' = avail \ lost
    /\ status' = IF status = "idle" /\ avail' = {} THEN "raised" ELSE status
    /\ UNCHANGED <<want, disk, survive>>

Saved == \A m \in avail : disk[m] = want

Return ==
    /\ status = "saving"
    /\ avail # {}
    /\ Saved
    /\ "primary" \in avail => survive = {want}
    /\ status' = "idle"
    /\ UNCHANGED <<want, avail, disk, survive>>

Raise ==
    /\ status = "saving"
    /\ avail = {}
    /\ status' = "raised"
    /\ UNCHANGED <<want, avail, disk, survive>>

\* Power loss empties the runtime mirror (tmpfs) and leaves on the primary
\* medium one of the copies that could survive.
PowerLoss ==
    /\ status # "off"
    /\ status' = "off"
    /\ \E r \in survive :
        /\ disk' = [m \in Medium |-> IF m = "primary" THEN r ELSE NoReport]
        /\ survive' = {r}
    /\ UNCHANGED <<want, avail>>

StoreNext ==
    \/ \E r \in Report : Begin(r)
    \/ \E m \in Medium : Land(m)
    \/ \E lost \in SUBSET Medium : Lose(lost)
    \/ Settle \/ Return \/ Raise \/ PowerLoss

StoreSpec == StoreInit /\ [][StoreNext]_storeVars
=============================================================================
