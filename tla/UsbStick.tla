------------------------------ MODULE UsbStick ------------------------------
(* From the release pin to the prepared stick.  offline/release_meta.py    *)
(* write and .github/workflows/bundle.yml publish a bundle and pin it to an *)
(* ISO; tools/prepare-usb.ps1 brings both onto the stick: it fetches what   *)
(* is not there, unpacks the bundle into the checkout and mirrors that      *)
(* (sync-to-usb.ps1).  It may be stopped in every step, by an error, by its *)
(* user, or by an unplugged stick; it is then run again.                    *)
EXTENDS Bundle

CONSTANTS
    FaultKinds,   \* what may go wrong: "stop", "bad_copy", "lose"
    MaxFaults,    \* bound: how often it does
    MaxReleases,  \* bound: uploads and merged pins
    MaxRuns       \* bound: runs of prepare-usb.ps1

ASSUME StickAssumption ==
    /\ FaultKinds \subseteq {"stop", "bad_copy", "lose"} /\ "bundle" \notin Dates
    /\ MaxFaults \in Nat /\ MaxReleases \in Nat /\ MaxRuns \in Nat

VARIABLES
    asset,      \* the bundle that can be downloaded for each date
    pin,        \* release.json of the checkout
    cache,      \* the downloaded bundle of each name: a name holds the date
    offline,    \* offline/ of the checkout
    iso,        \* the ISO files on the stick
    vouched,    \* the state file on the stick: the ISO it vouches for
    stick,      \* gpu-triage/offline/ on the stick
    mirrored,   \* the stick has the directory offline/profiles
    place,      \* where the stick is plugged in
    run,        \* the running or the last prepare-usb.ps1
    result,     \* how that ended, until something is lost from the stick
    damaged,    \* history: what on the stick has other bytes than were written,
                \* the ISO of a date or something of the bundle
    count       \* of what is bounded

releaseVars == <<asset, pin>>
pcVars == <<cache, offline>>
stickVars == <<iso, vouched, stick, mirrored>>
usbVars == <<releaseVars, pcVars, stickVars, place, run, result, damaged, count>>

-----------------------------------------------------------------------------
(* The release.                                                            *)

Pin == [date : Dates, count : Nat, zip : Builds]

\* release_meta.py write: the ISO metadata and the manifest must be of one
\* date; the zip is whatever file its caller names.
CmdWrite(date, manifest, zip) ==
    IF DateOf[manifest] # date THEN {}
    ELSE {[date |-> date, count |-> CountOf[PackagesOf[manifest]], zip |-> zip]}

NoPin == [date |-> None, count |-> 0, zip |-> None]

Releasing == count.releases < MaxReleases /\ count' = [count EXCEPT !.releases = @ + 1]

\* gh release upload --clobber: a rebuilt bundle replaces the pinned one.
Upload(b) ==
    /\ Releasing
    /\ asset' = [asset EXCEPT ![DateOf[b]] = b]
    /\ UNCHANGED <<pin, pcVars, stickVars, place, run, result, damaged>>

\* The pull request with a release.json is merged, and the checkout updated.
MergePin ==
    /\ Releasing /\ run.at = "idle"
    /\ \E date \in Dates, manifest, zip \in Builds : pin' \in CmdWrite(date, manifest, zip)
    /\ UNCHANGED <<asset, pcVars, stickVars, place, run, result, damaged>>

-----------------------------------------------------------------------------
(* The checks of prepare-usb.ps1.                                          *)

\* Mutant: no bundle is complete without profiles.
BundleWithProfiles(dir, p) ==
    /\ \A part \in Parts : Named(dir, part)
    /\ dir["manifest"].state = "whole" /\ DateOf[dir["manifest"].build] = p.date
    /\ dir["sums"].state = "whole" /\ CountOf[PackagesOf[dir["sums"].build]] = p.count
    /\ Content("packages", dir["packages"].build) = Content("sums", dir["sums"].build)

\* Test-BundleComplete: names, counts and versions, and no hash.
BundleComplete(dir, p) ==
    /\ Named(dir, "manifest") /\ Named(dir, "sums")
    /\ dir["profiles"].state # "absent" \/ Named(dir, "psums") =>
           Named(dir, "profiles") /\ Named(dir, "psums")
    /\ Named(dir, "psums") => Named(dir, "helper") /\ dir["hsums"].state = "whole"
    /\ dir["manifest"].state = "whole" /\ DateOf[dir["manifest"].build] = p.date
    /\ dir["sums"].state = "whole" /\ CountOf[PackagesOf[dir["sums"].build]] = p.count
    /\ Named(dir, "packages")
    /\ Content("packages", dir["packages"].build) = Content("sums", dir["sums"].build)

\* Test-VerifiedByState trusts size and time; a copy keeps those of its source.
VerifiedByState(date) == vouched = date /\ iso[date] \in {"good", "bad"}

IsoReady(force) ==
    \/ ~force /\ VerifiedByState(pin.date)
    \/ iso[pin.date] = "good"

-----------------------------------------------------------------------------
(* A run of prepare-usb.ps1.                                               *)

\* The order of the zip, and of robocopy: files first, then the directories.
ZipOrder == <<"packages", "profiles", "helper", "manifest", "sums", "hsums", "psums">>
MirrorOrder == <<"hsums", "manifest", "psums", "sums", "helper", "packages", "profiles">>

NoRun == [at |-> "idle", part |-> 0, pin |-> NoPin, force |-> FALSE, bundle |-> FALSE]

RunState ==
    [at : {"idle", "iso", "fetch", "clear", "clear_rest", "expand", "mirror"}, part : 0..8,
     pin : Pin \union {NoPin}, force : BOOLEAN, bundle : BOOLEAN]

Goto(at) == run' = [run EXCEPT !.at = at, !.part = 1]
Finish(how) == run' = [run EXCEPT !.at = "idle", !.part = 0] /\ result' = how
Quiet == UNCHANGED <<releaseVars, place, damaged, count>>

AfterIso(bundle) == IF bundle THEN "mirror" ELSE "fetch"

\* What is in place already is found out first, and believed from then on.
PrepareStart(force) ==
    /\ run.at = "idle" /\ place = "pc"
    /\ count.runs < MaxRuns /\ count' = [count EXCEPT !.runs = @ + 1]
    /\ LET bundle == ~force /\ BundleComplete(offline, pin)
       IN  run' = [at |-> IF IsoReady(force) THEN AfterIso(bundle) ELSE "iso", part |-> 1,
                   pin |-> pin, force |-> force, bundle |-> bundle]
    /\ result' = "none"
    /\ UNCHANGED <<releaseVars, pcVars, stickVars, place, damaged>>

\* The cached ISO, verified, is copied, and the copy verified.
CopyIso ==
    /\ run.at = "iso"
    /\ iso' = [iso EXCEPT ![run.pin.date] = "good"]
    /\ damaged' = damaged \ {run.pin.date}
    /\ Goto(AfterIso(run.bundle))
    /\ UNCHANGED <<releaseVars, pcVars, vouched, stick, mirrored, place, result, count>>

\* Get-CachedFile: the cached zip, or a verified download under its name.
FetchBundle ==
    /\ run.at = "fetch"
    /\ LET zip == run.pin.zip
           name == DateOf[zip]
       IN  IF ~run.force /\ cache[name] = zip THEN Goto("clear") /\ UNCHANGED <<cache, result>>
           ELSE IF asset[name] = zip
                THEN cache' = [cache EXCEPT ![name] = zip] /\ Goto("clear") /\ UNCHANGED result
                ELSE cache' = [cache EXCEPT ![name] = IF run.force THEN @ ELSE None] /\ Finish("failed")
    /\ UNCHANGED <<offline, stickVars>> /\ Quiet

\* Expand-Bundle: the old bundle goes first, but for its helper.
ClearPackages ==
    /\ run.at = "clear"
    /\ offline' = [offline EXCEPT !["packages"] = Absent]
    /\ Goto("clear_rest")
    /\ UNCHANGED <<cache, stickVars, result>> /\ Quiet

\* Mutant: only what every bundle has is cleared.
ClearLegacyParts ==
    /\ run.at = "clear_rest"
    /\ offline' = [offline EXCEPT !["manifest"] = Absent, !["sums"] = Absent]
    /\ Goto("expand")
    /\ UNCHANGED <<cache, stickVars, result>> /\ Quiet

ClearRest ==
    /\ run.at = "clear_rest"
    /\ offline' = [part \in Parts |-> IF part \in {"helper", "hsums"} THEN offline[part] ELSE Absent]
    /\ Goto("expand")
    /\ UNCHANGED <<cache, stickVars, result>> /\ Quiet

Expand ==
    /\ run.at = "expand" /\ run.part <= Len(ZipOrder)
    /\ LET part == ZipOrder[run.part]
       IN  offline' = IF part \in PartsOf(run.pin.zip)
                      THEN [offline EXCEPT ![part] = Entire(run.pin.zip)] ELSE offline
    /\ run' = [run EXCEPT !.part = @ + 1]
    /\ UNCHANGED <<cache, stickVars, result>> /\ Quiet

Expanded ==
    /\ run.at = "expand" /\ run.part > Len(ZipOrder)
    /\ IF BundleComplete(offline, run.pin) THEN Goto("mirror") /\ UNCHANGED result
                                           ELSE Finish("failed")
    /\ UNCHANGED <<pcVars, stickVars>> /\ Quiet

\* robocopy /MIR: a part of the same build, size and time is left as it is.
UpToDate(part) ==
    stick[part].build = offline[part].build /\ stick[part].state \in {offline[part].state, "lost"}

Mirror ==
    /\ run.at = "mirror" /\ run.part <= Len(MirrorOrder)
    /\ LET part == MirrorOrder[run.part]
       IN  /\ stick' = IF UpToDate(part) THEN stick ELSE [stick EXCEPT ![part] = offline[part]]
           /\ mirrored' = (mirrored \/ part = "profiles")
    /\ run' = [run EXCEPT !.part = @ + 1]
    /\ UNCHANGED <<pcVars, iso, vouched, result>> /\ Quiet

\* Invoke-Check without the ISO's hash, and Write-State whatever it finds.
CheckStick ==
    /\ run.at = "mirror" /\ run.part > Len(MirrorOrder)
    /\ vouched' = run.pin.date
    /\ Finish(IF iso[run.pin.date] \in {"good", "bad"} /\ BundleComplete(stick, run.pin)
              THEN "ready" ELSE "failed")
    /\ UNCHANGED <<pcVars, iso, stick, mirrored>> /\ Quiet

PrepareStep ==
    CopyIso \/ FetchBundle \/ ClearPackages \/ ClearRest \/ Expand \/ Expanded \/ Mirror \/ CheckStick

-----------------------------------------------------------------------------
(* What goes wrong.                                                        *)

Faulty(kind) ==
    /\ kind \in FaultKinds
    /\ count.faults < MaxFaults /\ count' = [count EXCEPT !.faults = @ + 1]

\* The run ends before a step or in the middle of it, which leaves what it writes
\* cut off.
Stop ==
    /\ Faulty("stop") /\ run.at # "idle"
    /\ CASE run.at = "iso" ->
              /\ iso' \in {iso, [iso EXCEPT ![run.pin.date] = "torn"]}
              /\ UNCHANGED <<offline, stick>>
         [] run.at = "expand" /\ run.part <= Len(ZipOrder) ->
              /\ LET part == ZipOrder[run.part]
                     kept == IF part \in PartsOf(run.pin.zip) THEN CutOff(part, run.pin.zip) ELSE {}
                 IN  \E c \in {offline[part]} \union kept : offline' = [offline EXCEPT ![part] = c]
              /\ UNCHANGED <<iso, stick>>
         [] run.at = "mirror" /\ run.part <= Len(MirrorOrder) ->
              /\ LET part == MirrorOrder[run.part]
                     kept == IF UpToDate(part) \/ offline[part] = Absent THEN {}
                             ELSE CutOff(part, offline[part].build)
                 IN  \E c \in {stick[part]} \union kept : stick' = [stick EXCEPT ![part] = c]
              /\ UNCHANGED <<iso, offline>>
         [] OTHER -> UNCHANGED <<iso, offline, stick>>
    /\ Finish("failed")
    /\ UNCHANGED <<releaseVars, cache, vouched, mirrored, place, damaged>>

\* The stick does not hold what is copied: the ISO's hash says so.
BadCopy ==
    /\ Faulty("bad_copy") /\ run.at = "iso"
    /\ iso' = [iso EXCEPT ![run.pin.date] = "bad"]
    /\ damaged' = damaged \union {run.pin.date}
    /\ Finish("failed")
    /\ UNCHANGED <<releaseVars, pcVars, vouched, stick, mirrored, place>>

\* The stick is pulled out of the PC before what was written has reached it.
Lose ==
    /\ Faulty("lose") /\ run.at = "idle" /\ place = "pc"
    /\ \/ \E part \in Parts :
            /\ stick[part].state = "whole"
            /\ stick' = [stick EXCEPT ![part].state = "lost"]
            /\ damaged' = damaged \union {"bundle"}
            /\ UNCHANGED iso
       \/ \E date \in Dates :
            /\ iso[date] = "good" /\ iso' = [iso EXCEPT ![date] = "bad"]
            /\ damaged' = damaged \union {date}
            /\ UNCHANGED stick
    /\ result' = "none"
    /\ UNCHANGED <<releaseVars, pcVars, vouched, mirrored, place, run>>

\* A bundle is published and pinned; the stick and the PC have nothing yet.
UsbInit ==
    /\ \E b \in Builds :
        /\ asset = [d \in Dates |-> IF d = DateOf[b] THEN b ELSE None]
        /\ pin \in CmdWrite(DateOf[b], b, b)
    /\ cache = [d \in Dates |-> None]
    /\ offline = [part \in Parts |-> Absent]
    /\ iso = [d \in Dates |-> "none"] /\ vouched = None
    /\ stick = [part \in Parts |-> Absent] /\ mirrored = FALSE
    /\ place = "pc"
    /\ run = NoRun /\ result = "none" /\ damaged = {}
    /\ count = [faults |-> 0, releases |-> 0, runs |-> 0]

UsbStep ==
    \/ \E b \in Builds : Upload(b)
    \/ MergePin
    \/ \E force \in BOOLEAN : PrepareStart(force)
    \/ PrepareStep
    \/ Stop \/ BadCopy \/ Lose

UsbTypeOK ==
    /\ asset \in [Dates -> Builds \union {None}]
    /\ pin \in Pin
    /\ cache \in [Dates -> Builds \union {None}]
    /\ offline \in Directory /\ stick \in Directory
    /\ iso \in [Dates -> {"none", "good", "torn", "bad"}]
    /\ vouched \in Dates \union {None}
    /\ mirrored \in BOOLEAN /\ damaged \subseteq Dates \union {"bundle"}
    /\ place \in {"pc", "bench"}
    /\ run \in RunState
    /\ result \in {"none", "ready", "failed"}
    /\ count \in [faults : 0..MaxFaults, releases : 0..MaxReleases, runs : 0..MaxRuns]
=============================================================================
