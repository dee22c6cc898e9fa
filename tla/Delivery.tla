------------------------------ MODULE Delivery ------------------------------
(* From the release to the runtime in the live system: the stick of         *)
(* UsbStick is carried to the bench, booted there, and scripts/bootstrap.sh *)
(* (called by start.sh) verifies what is on it and installs the packages of *)
(* a runtime profile, once per live boot.  The stick may go back to the PC  *)
(* and be prepared again while the live system runs from memory.            *)
EXTENDS UsbStick

CONSTANTS
    Wanted,     \* the packages that each runtime profile names
    MaxBoots    \* bound: boots of the bench

Profiles == {"safe-runtime", "driver-bound-runtime"}

ASSUME DeliveryAssumption ==
    /\ Wanted["safe-runtime"] \subseteq Wanted["driver-bound-runtime"]
    /\ MaxBoots \in Nat

VARIABLES
    live,       \* the ISO that runs on the bench, with its kernel
    boots,      \* how often one was booted
    boot,       \* where bootstrap.sh is
    profile,    \* what it was called for
    outcome,    \* how it ended, for the stick as it is
    stamp,      \* /run/gpu-triage/bootstrap.ok
    installed   \* the packages of the bundle in the live system

liveVars == <<live, boots, boot, profile, outcome, stamp, installed>>
vars == <<usbVars, liveVars>>

\* No stamp: no kernel is None.
NoStamp == [kernel |-> None, profile |-> None, files |-> <<>>]

-----------------------------------------------------------------------------
(* bootstrap.sh.                                                           *)

\* A role profile on the stick, or the union of a bundle from before there were
\* profiles, which is told by the absence of all their traces.
HasProfile == Named(stick, "psums") /\ Named(stick, "profiles")
LegacyUnion(p) ==
    p = "driver-bound-runtime" /\ stick["psums"].state = "absent" /\ ~mirrored

BundleFound(p) ==
    stick["sums"].state # "absent" /\ stick["packages"].state # "absent" /\ (HasProfile \/ LegacyUnion(p))

\* The files whose bytes the stamp is made of.
Stamped == {"manifest", "sums", "psums", "hsums", "profiles"}
\* Mutant: the stamp is one for all profiles.
BundleIdForAll(p) ==
    [kernel |-> live, profile |-> None,
     files |-> [part \in Stamped \ {"profiles"} |->
                    <<stick[part].state, IF stick[part].build = None THEN None
                                         ELSE Content(part, stick[part].build)>>]]

\* bundle_id: the kernel, the bytes of the metadata, and the profile.
BundleId(p) ==
    [kernel |-> live, profile |-> p,
     files |-> [part \in Stamped |->
                    <<stick[part].state, IF stick[part].build = None THEN None
                                         ELSE Content(part, stick[part].build)>>]]

\* A manifest that names no kernel is not compared.
KernelFits ==
    stick["manifest"].state = "whole" => DateOf[stick["manifest"].build] = live

\* Mutant: the checksums of the profiles, which cover no package, have to do.
VerifiedByProfiles(p) ==
    IF LegacyUnion(p) THEN PackagesVerify(stick) ELSE ProfilesVerify(stick) /\ HelperVerifies(stick)

\* SHA256SUMS names every file of the profile.
ProfileCovered ==
    Content("profiles", stick["profiles"].build) = Content("sums", stick["sums"].build)

Verified(p) ==
    /\ PackagesVerify(stick)
    /\ ~LegacyUnion(p) => ProfilesVerify(stick) /\ HelperVerifies(stick) /\ ProfileCovered

\* Mutant: the doctor does not look at the helper.
DoctorOfPackages ==
    /\ stick["manifest"].state = "whole" /\ DateOf[stick["manifest"].build] = live
    /\ PackagesVerify(stick)
    /\ HasProfile /\ ProfilesVerify(stick)

\* run_doctor, where the bundle has role profiles.
Doctor ==
    /\ stick["manifest"].state = "whole" /\ DateOf[stick["manifest"].build] = live
    /\ PackagesVerify(stick)
    /\ HasProfile /\ ProfilesVerify(stick) /\ HelperVerifies(stick)

\* "again" is GPU_TRIAGE_FORCE_BOOTSTRAP=1, which asks for no stamp.
Bootstrap(p, again) ==
    IF ~BundleFound(p) THEN "refused"
    ELSE IF ~again /\ stamp = BundleId(p) THEN "ready"
    ELSE IF ~KernelFits THEN "mismatch"
    ELSE IF ~Verified(p) THEN "refused"
    ELSE "installing"

Names(p) == IF LegacyUnion(p) THEN UNION {Wanted[q] : q \in Profiles} ELSE Wanted[p]

Package(p, name) ==
    [files |-> PackagesOf[stick["packages"].build], name |-> name, for |-> p,
     sound |-> stick["packages"].state = "whole",
     legacy |-> LegacyUnion(p)]

AtBench == place = "bench" /\ live # None

Start(p, again) ==
    /\ AtBench /\ boot = "idle"
    /\ profile' = p
    /\ LET verdict == Bootstrap(p, again)
       IN  IF verdict = "installing" THEN boot' = "installing" /\ outcome' = "none"
                                     ELSE outcome' = verdict /\ UNCHANGED boot
    /\ UNCHANGED <<usbVars, live, boots, stamp, installed>>

\* pacman -U: all of it is installed, or it fails, or is killed in the middle.
Install ==
    /\ boot = "installing"
    /\ installed' = installed \union {Package(profile, name) : name \in Names(profile)}
    /\ boot' = "stamping"
    /\ UNCHANGED <<usbVars, live, boots, profile, outcome, stamp>>

InstallFails ==
    /\ boot = "installing"
    /\ \E some \in SUBSET Names(profile) :
        installed' = installed \union {Package(profile, name) : name \in some}
    /\ boot' = "idle" /\ outcome' = "failed"
    /\ UNCHANGED <<usbVars, live, boots, profile, stamp>>

WriteStamp ==
    /\ boot = "stamping"
    /\ stamp' = BundleId(profile)
    /\ boot' = "idle" /\ outcome' = "ready"
    /\ UNCHANGED <<usbVars, live, boots, profile, installed>>

\* Killed before the stamp is there.
StampFails ==
    /\ boot = "stamping"
    /\ boot' = "idle" /\ outcome' = "failed"
    /\ UNCHANGED <<usbVars, live, boots, profile, stamp, installed>>

-----------------------------------------------------------------------------
(* The bench.                                                              *)

\* The live system and what it was given are gone with the power.
PowerOn(date) ==
    /\ place = "bench" /\ live = None /\ boots < MaxBoots
    /\ iso[date] = "good"
    /\ live' = date /\ boots' = boots + 1
    /\ UNCHANGED <<usbVars, boot, profile, outcome, stamp, installed>>

\* Mutant: the stamp outlives the live system.
PowerOffKeepsStamp ==
    /\ live # None
    /\ live' = None /\ boot' = "idle" /\ outcome' = "none" /\ installed' = {}
    /\ profile' = None
    /\ UNCHANGED <<usbVars, boots, stamp>>

PowerOff ==
    /\ live # None
    /\ live' = None /\ boot' = "idle" /\ outcome' = "none" /\ stamp' = NoStamp /\ installed' = {}
    /\ profile' = None
    /\ UNCHANGED <<usbVars, boots>>

\* The stick is carried from one place to the other.
Carry ==
    /\ run.at = "idle" /\ boot = "idle"
    /\ place' = IF place = "pc" THEN "bench" ELSE "pc"
    /\ outcome' = "none" /\ profile' = None
    /\ UNCHANGED <<releaseVars, pcVars, stickVars, run, result, damaged, count, live, boots,
                   boot, stamp, installed>>

-----------------------------------------------------------------------------
Init ==
    /\ UsbInit
    /\ live = None /\ boots = 0
    /\ boot = "idle" /\ profile = None /\ outcome = "none" /\ stamp = NoStamp
    /\ installed = {}

Next ==
    \/ UsbStep /\ UNCHANGED liveVars
    \/ \E p \in Profiles, again \in BOOLEAN : Start(p, again)
    \/ Install \/ InstallFails \/ WriteStamp \/ StampFails
    \/ \E date \in Dates : PowerOn(date)
    \/ PowerOff \/ Carry

\* A run of prepare-usb.ps1 goes on until it ends or is stopped.
Spec == Init /\ [][Next]_vars /\ WF_vars(PrepareStep /\ UNCHANGED liveVars)

-----------------------------------------------------------------------------
(* What it is for.                                                         *)

TypeOK ==
    /\ UsbTypeOK
    /\ live \in Dates \union {None} /\ boots \in 0..MaxBoots
    /\ boot \in {"idle", "installing", "stamping"} /\ profile \in Profiles \union {None}
    /\ outcome \in {"none", "ready", "refused", "mismatch", "failed"}
    /\ stamp.kernel \in {None, live}
    /\ \A i \in installed : i.name \in Wanted["driver-bound-runtime"] /\ i.for \in Profiles

\* What bootstrap.sh installs is whole, belongs to the ISO that runs, and is
\* what the requested profile names: from a stick that was pulled out in the
\* middle of an update, carries parts of two bundles or lost bytes, nothing
\* else reaches pacman, and a safe-runtime start never gets a driver package
\* (bootstrap.sh:56-67, 96-143).  Of the legacy union no checksum covers the
\* manifest: it may be cut off, or of another bundle than the packages.
InstalledIsTrusted ==
    \A i \in installed :
        /\ i.sound
        /\ ~i.legacy => \E b \in Builds : PackagesOf[b] = i.files /\ DateOf[b] = live
        /\ i.for = "safe-runtime" => ~i.legacy
        /\ i.name \in Wanted[i.for]

\* A start that goes ahead, also one that the stamp lets skip everything, finds
\* the packages its profile wants of the bundle on the stick in the live system:
\* whatever other profile, bundle or interrupted installation came before it
\* (bootstrap.sh:33-46, 72-76, 154-166).
ReadyMeansInstalled ==
    outcome = "ready" =>
        \A name \in Wanted[profile] :
            \E i \in installed : i.name = name /\ i.files = PackagesOf[stick["sums"].build]

\* What prepare-usb.ps1 calls a ready stick holds the pinned ISO and a whole
\* bundle for it, whose parts are all of one kind: however often it was stopped
\* before, whatever bundle was unpacked or mirrored earlier, and also when
\* release.json pins a zip of another ISO.  Only the file the zip ends with may
\* have been cut off (prepare-usb.ps1:491-616, 942-1061).
ReadyStickMatchesPin ==
    result = "ready" =>
        /\ run.pin.date \notin damaged => iso[run.pin.date] = "good"
        /\ "bundle" \notin damaged =>
            /\ Matches(stick, "manifest", stick["manifest"].build)
            /\ DateOf[stick["manifest"].build] = run.pin.date
            /\ PackagesVerify(stick)
            /\ PackagesOf[stick["sums"].build] = PackagesOf[stick["manifest"].build]
            /\ stick["psums"].state = "whole" => ProfilesVerify(stick) /\ HelperVerifies(stick)
            /\ stick["psums"].state \in {"absent", "whole", "torn"}

\* doctor and bootstrap.sh judge by the same rules, but for one that only
\* bootstrap.sh has (ProfileCovered): what "gpu-triage doctor" passes with the
\* profiles of the bundle whose packages are there, and a ready stick with its
\* last file, starts with either profile on its ISO (safe_triage.py:69-139,
\* bootstrap.sh:48-143).
ReadyOrPassedStarts ==
    /\ AtBench
    /\ \/ Doctor /\ ProfileCovered
       \/ /\ result = "ready" /\ "bundle" \notin damaged
          /\ live = run.pin.date /\ stick["psums"].state = "whole"
    => \A p \in Profiles : Bootstrap(p, FALSE) \in {"ready", "installing"}

\* An interrupted run is made good by the next one: once nothing fails any more
\* and the pinned pair can be had, the run in progress ends with a ready stick,
\* whatever state earlier runs left the checkout, the cache and the stick in
\* (prepare-usb.ps1:354-355, 942-1061).
Obtainable(p) ==
    /\ DateOf[p.zip] = p.date /\ CountOf[PackagesOf[p.zip]] = p.count
    /\ asset[p.date] = p.zip

NothingFails == count.faults = MaxFaults /\ count.releases = MaxReleases /\ "bundle" \notin damaged

RerunHeals ==
    (run.at # "idle" /\ NothingFails /\ Obtainable(run.pin)) ~> (result = "ready")

-----------------------------------------------------------------------------
(* What the documents say and the code does not do.                        *)

\* PLAN-USB-VEREINFACHUNG.md:552, "Beschädigtes ISO wird im Normallauf ersetzt": a
\* run that ends with "USB stick ready." has not left a damaged ISO on it; it is
\* also what the check advises for one (prepare-usb.ps1:931, "Run prepare-usb.ps1
\* without -Check to repair it.").
DamagedIsoIsReplaced ==
    result = "ready" => iso[run.pin.date] # "bad"

\* README.md:207-209: a legacy bundle "kann nur ein bereits treibergebundener
\* Start" install in full; so such a start is not refused on a ready stick.
LegacyStarts ==
    AtBench /\ result = "ready" /\ live = run.pin.date => Bootstrap("driver-bound-runtime", FALSE) # "refused"

\* One state that refutes both.
ReadyToBoot == DamagedIsoIsReplaced \/ LegacyStarts
=============================================================================
