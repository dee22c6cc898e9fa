--------------------------- MODULE DeliveryProofs ---------------------------
(* For any builds, ISOs, faults and numbers of runs: only what was verified *)
(* is installed, and a start that goes ahead finds what its profile wants.  *)
EXTENDS Delivery, TLAPS

\* A copy that is there is one of a build.
Filled(dir) == \A part \in Parts : dir[part] = Absent \/ dir[part].build \in Builds

\* The live system has all that a profile wants of a bundle.
Given(p, files) == \A name \in Wanted[p] : \E i \in installed : i.name = name /\ i.files = files

\* What a run of prepare-usb.ps1 has while it goes on.
RunInv == run.at # "idle" => place = "pc" /\ run.pin \in Pin /\ run.part \in 1..8

\* Where stick and runs are, and that nothing is left of a boot that is over.
PlaceInv ==
    /\ RunInv
    /\ boot # "idle" \/ outcome = "ready" => AtBench /\ profile \in Profiles
    /\ live = None => installed = {} /\ stamp.kernel = None

\* What bootstrap.sh has checked holds as long as it needs it, and what it has
\* installed is there.
BootInv ==
    /\ boot # "idle" => BundleFound(profile) /\ KernelFits /\ Verified(profile)
    /\ boot = "stamping" \/ outcome = "ready" => Given(profile, PackagesOf[stick["sums"].build])

\* A stamp stands for a bundle whose packages are installed.
StampInv == stamp.kernel # None => Given(stamp.profile, stamp.files["sums"][2])

\* The inductive invariant.
IInv ==
    /\ TypeOK /\ Filled(stick) /\ Filled(offline)
    /\ PlaceInv /\ BootInv /\ StampInv /\ InstalledIsTrusted

-----------------------------------------------------------------------------
(* The stick.                                                              *)

\* A copy that was cut off is a copy of its build.
LEMMA CutOffIsCopy ==
    ASSUME NEW part \in Parts, NEW b \in Builds, NEW c \in CutOff(part, b)
    PROVE  c \in Copy /\ c.build \in Builds
BY DEF CutOff, Copy

\* A directory with another copy of a part.
LEMMA WithCopy ==
    ASSUME NEW dir \in Directory, Filled(dir), NEW part \in Parts, NEW c \in Copy,
           c = Absent \/ c.build \in Builds
    PROVE  [dir EXCEPT ![part] = c] \in Directory /\ Filled([dir EXCEPT ![part] = c])
BY DEF Directory, Filled

\* Copies that need no build, and the whole ones of a build.
LEMMA Copies ==
    /\ Absent \in Copy /\ Absent.state = "absent"
    /\ \A b \in Builds : Entire(b) \in Copy /\ Entire(b).build = b
BY DEF Absent, Entire, Copy

\* Both orders name parts, seven of them.
LEMMA Orders ==
    /\ Len(ZipOrder) = 7 /\ \A k \in 1..7 : ZipOrder[k] \in Parts
    /\ Len(MirrorOrder) = 7 /\ \A k \in 1..7 : MirrorOrder[k] \in Parts
BY DEF ZipOrder, MirrorOrder, Parts, Groups

\* A run that goes on, goes on with a part, or ends.
LEMMA RunMoves ==
    ASSUME run \in RunState
    PROVE  /\ \A at \in {"fetch", "clear", "clear_rest", "expand", "mirror"} : Goto(at) =>
                 run' \in RunState /\ run'.at = at /\ run'.part = 1 /\ run'.pin = run.pin
           /\ \A how : Finish(how) => run' \in RunState /\ run'.at = "idle" /\ result' = how
           /\ run.part \in 1..7 /\ run' = [run EXCEPT !.part = @ + 1] =>
                 run' \in RunState /\ run'.part \in 1..8 /\ run'.pin = run.pin /\ run'.at = run.at
<1>1. ASSUME NEW at \in {"fetch", "clear", "clear_rest", "expand", "mirror"}, Goto(at)
      PROVE  run' \in RunState /\ run'.at = at /\ run'.part = 1 /\ run'.pin = run.pin
    <2> DEFINE r == [run EXCEPT !.at = at]
    <2>1. r \in RunState /\ r.at = at /\ r.pin = run.pin
        BY DEF RunState
    <2>2. run' = [r EXCEPT !.part = 1]
        BY <1>1 DEF Goto, RunState
    <2> HIDE DEF r
    <2> QED BY <2>1, <2>2 DEF RunState
<1>2. ASSUME NEW how, Finish(how)
      PROVE  run' \in RunState /\ run'.at = "idle" /\ result' = how
    <2> DEFINE r == [run EXCEPT !.at = "idle"]
    <2>1. r \in RunState /\ r.at = "idle"
        BY DEF RunState
    <2>2. run' = [r EXCEPT !.part = 0] /\ result' = how
        BY <1>2 DEF Finish, RunState
    <2> HIDE DEF r
    <2> QED BY <2>1, <2>2 DEF RunState
<1>3. ASSUME run.part \in 1..7, run' = [run EXCEPT !.part = @ + 1]
      PROVE  run' \in RunState /\ run'.part \in 1..8 /\ run'.pin = run.pin /\ run'.at = run.at
    BY <1>3 DEF RunState
<1> QED BY <1>1, <1>2, <1>3

\* The stick and the checkout change only while the stick is at the PC.
LEMMA BenchIsQuiet ==
    PlaceInv /\ place = "bench" /\ UsbStep => UNCHANGED <<stick, mirrored, place, run>>
BY DEF PlaceInv, RunInv, UsbStep, Upload, MergePin, PrepareStart, PrepareStep, CopyIso, FetchBundle, ClearPackages,
   ClearRest, Expand, Expanded, Mirror, CheckStick, Stop, BadCopy, Lose, Faulty, pcVars, stickVars, releaseVars

\* No step of the release or the preparation moves the stick.
LEMMA UsbStaysInPlace == UsbStep => UNCHANGED place
BY DEF UsbStep, Upload, MergePin, PrepareStart, PrepareStep, CopyIso, FetchBundle, ClearPackages,
   ClearRest, Expand, Expanded, Mirror, CheckStick, Stop, BadCopy, Lose, Quiet, pcVars, stickVars, releaseVars

\* Every step of the preparation keeps its types.
LEMMA UsbTypeStep ==
    UsbTypeOK /\ Filled(stick) /\ Filled(offline) /\ PlaceInv /\ UsbStep
        => UsbTypeOK' /\ Filled(stick)' /\ Filled(offline)' /\ RunInv'
<1> SUFFICES ASSUME UsbTypeOK, Filled(stick), Filled(offline), PlaceInv, UsbStep
    PROVE UsbTypeOK' /\ Filled(stick)' /\ Filled(offline)' /\ RunInv'
    OBVIOUS
<1> USE BuildAssumption, StickAssumption DEF UsbTypeOK, RunInv, releaseVars, pcVars, stickVars, Quiet
<1>0. RunInv
    BY DEF PlaceInv
<1>1. CASE \E b \in Builds : Upload(b)
    BY <1>0, <1>1 DEF Upload, Releasing, Filled
<1>2. CASE MergePin
    BY <1>0, <1>2 DEF MergePin, Releasing, CmdWrite, Pin, Filled
<1>3. CASE \E force \in BOOLEAN : PrepareStart(force)
    BY <1>3 DEF PrepareStart, AfterIso, Filled, RunState
<1>4. CASE CopyIso
    <2>1. /\ Goto("fetch") \/ Goto("mirror")
          /\ run.at = "iso" /\ damaged' \subseteq damaged /\ iso' = [iso EXCEPT ![run.pin.date] = "good"]
          /\ UNCHANGED <<asset, pin, cache, offline, vouched, stick, mirrored, place, result, count>>
        BY <1>4 DEF CopyIso, AfterIso
    <2>2. run' \in RunState /\ run'.pin = run.pin /\ run'.part = 1
        BY <2>1, RunMoves
    <2>3. iso' \in [Dates -> {"none", "good", "torn", "bad"}]
        BY <2>1
    <2> QED BY <1>0, <2>1, <2>2, <2>3 DEF Filled
<1>5. CASE FetchBundle
    <2>1. /\ UNCHANGED <<offline, stick, asset, pin, iso, vouched, mirrored, place, damaged, count>>
          /\ run.at = "fetch" /\ ((Goto("clear") /\ UNCHANGED result) \/ Finish("failed"))
        BY <1>5 DEF FetchBundle
    <2>2. run.pin \in Pin /\ run.pin.zip \in Builds
        BY <1>0, <2>1 DEF Pin
    <2>3. cache' \in [Dates -> Builds \union {None}]
        BY <1>5, <2>2 DEF FetchBundle
    <2>4. run' \in RunState /\ (run'.at # "idle" => run'.pin = run.pin /\ run'.part = 1)
          /\ result' \in {"none", "ready", "failed"}
        BY <2>1, RunMoves
    <2> QED BY <1>0, <2>1, <2>2, <2>3, <2>4 DEF Filled
<1>6. CASE ClearPackages \/ ClearRest
    <2>1. /\ UNCHANGED <<cache, stick, asset, pin, iso, vouched, mirrored, place, damaged, count, result>>
          /\ run.at # "idle" /\ (Goto("clear_rest") \/ Goto("expand"))
        BY <1>6 DEF ClearPackages, ClearRest
    <2>2. "packages" \in Parts
        BY DEF Parts, Groups
    <2>3. offline' \in Directory /\ Filled(offline)'
        <3>1. CASE ClearPackages
            BY <2>2, <3>1, Copies, WithCopy DEF ClearPackages
        <3>2. CASE ClearRest
            BY <3>2, Copies DEF ClearRest, Directory, Filled
        <3> QED BY <1>6, <3>1, <3>2
    <2>4. run' \in RunState /\ run'.pin = run.pin /\ run'.part = 1
        BY <2>1, RunMoves
    <2> QED BY <1>0, <2>1, <2>3, <2>4 DEF Filled
<1>7. CASE Expand
    <2>1. /\ run.part \in 1..7 /\ run.pin.zip \in Builds /\ run.at = "expand"
          /\ UNCHANGED <<cache, stick, iso, vouched, mirrored, result, asset, pin, place, damaged, count>>
          /\ run' = [run EXCEPT !.part = @ + 1]
        BY <1>0, <1>7, Orders DEF Expand, Pin
    <2>2. ZipOrder[run.part] \in Parts
        BY <2>1, Orders
    <2>3. offline' \in Directory /\ Filled(offline)'
        BY <1>7, <2>1, <2>2, Copies, WithCopy DEF Expand
    <2>4. run' \in RunState /\ run'.part \in 1..8 /\ run'.pin = run.pin
        BY <2>1, RunMoves
    <2> QED BY <1>0, <2>1, <2>3, <2>4 DEF Filled
<1>8. CASE Expanded
    <2>1. /\ UNCHANGED <<cache, offline, stick, asset, pin, iso, vouched, mirrored, place, damaged, count>>
          /\ run.at = "expand" /\ ((Goto("mirror") /\ UNCHANGED result) \/ Finish("failed"))
        BY <1>8 DEF Expanded
    <2>2. run' \in RunState /\ (run'.at # "idle" => run'.pin = run.pin /\ run'.part = 1)
          /\ result' \in {"none", "ready", "failed"}
        BY <2>1, RunMoves
    <2> QED BY <1>0, <2>1, <2>2 DEF Filled
<1>9. CASE Mirror
    <2> DEFINE part == MirrorOrder[run.part]
    <2>1. run.part \in 1..7 /\ run.at = "mirror" /\ part \in Parts
        BY <1>0, <1>9, Orders DEF Mirror
    <2>2. offline[part] \in Copy /\ (offline[part] = Absent \/ offline[part].build \in Builds)
        BY <2>1 DEF Directory, Filled
    <2>3. /\ stick' \in {stick, [stick EXCEPT ![part] = offline[part]]} /\ mirrored' \in BOOLEAN
          /\ UNCHANGED <<cache, offline, iso, vouched, result, asset, pin, place, damaged, count>>
          /\ run' = [run EXCEPT !.part = @ + 1]
        BY <1>9 DEF Mirror
    <2>4. stick' \in Directory /\ Filled(stick)'
        <3>1. CASE stick' = stick
            BY <3>1 DEF Filled
        <3>2. CASE stick' = [stick EXCEPT ![part] = offline[part]]
            BY <2>1, <2>2, <3>2, WithCopy
        <3> QED BY <2>3, <3>1, <3>2
    <2>5. run' \in RunState /\ run'.part \in 1..8 /\ run'.pin = run.pin
        BY <2>1, <2>3, RunMoves
    <2> QED BY <1>0, <2>1, <2>3, <2>4, <2>5 DEF Filled
<1>10. CASE CheckStick
    <2>1. /\ run.at = "mirror" /\ vouched' = run.pin.date /\ (Finish("ready") \/ Finish("failed"))
          /\ UNCHANGED <<cache, offline, iso, stick, mirrored, asset, pin, place, damaged, count>>
        BY <1>10 DEF CheckStick
    <2>2. run' \in RunState /\ run'.at = "idle" /\ result' \in {"ready", "failed"}
        BY <2>1, RunMoves
    <2> QED BY <1>0, <2>1, <2>2 DEF Filled, Pin
<1>11. CASE Stop
    <2>1. run.pin \in Pin /\ run.pin.date \in Dates /\ run.pin.zip \in Builds /\ run.part \in 1..8
        BY <1>0, <1>11 DEF Stop, Pin
    <2>2. iso' \in [Dates -> {"none", "good", "torn", "bad"}]
        BY <1>11, <2>1 DEF Stop
    <2>3. offline' \in Directory /\ Filled(offline)'
        <3>1. CASE run.at = "expand" /\ run.part <= Len(ZipOrder)
            <4> DEFINE part == ZipOrder[run.part]
            <4>1. part \in Parts
                BY <2>1, <3>1, Orders
            <4>2. offline[part] \in Copy /\ (offline[part] = Absent \/ offline[part].build \in Builds)
                BY <4>1 DEF Directory, Filled
            <4>3. PICK c \in {offline[part]} \union CutOff(part, run.pin.zip) :
                    offline' = [offline EXCEPT ![part] = c]
                BY <1>11, <3>1 DEF Stop
            <4>4. c \in Copy /\ (c = Absent \/ c.build \in Builds)
                BY <2>1, <4>1, <4>2, <4>3, CutOffIsCopy
            <4> QED BY <4>1, <4>3, <4>4, WithCopy
        <3>2. CASE ~(run.at = "expand" /\ run.part <= Len(ZipOrder))
            <4>1. UNCHANGED offline
                BY <1>11, <3>2 DEF Stop
            <4> QED BY <4>1 DEF Filled
        <3> QED BY <3>1, <3>2
    <2>4. stick' \in Directory /\ Filled(stick)'
        <3>1. CASE run.at = "mirror" /\ run.part <= Len(MirrorOrder)
            <4> DEFINE part == MirrorOrder[run.part]
            <4>1. part \in Parts
                BY <2>1, <3>1, Orders
            <4>2. stick[part] \in Copy /\ (stick[part] = Absent \/ stick[part].build \in Builds)
                BY <4>1 DEF Directory, Filled
            <4>3. offline[part] \in Copy /\ (offline[part] = Absent \/ offline[part].build \in Builds)
                BY <4>1 DEF Directory, Filled
            <4>4. PICK c \in {stick[part]} \union (IF offline[part] = Absent THEN {} ELSE CutOff(part, offline[part].build)) :
                    stick' = [stick EXCEPT ![part] = c]
                BY <1>11, <3>1, Copies DEF Stop
            <4>5. c \in Copy /\ (c = Absent \/ c.build \in Builds)
                BY <4>1, <4>2, <4>3, <4>4, CutOffIsCopy
            <4> QED BY <4>1, <4>4, <4>5, WithCopy
        <3>2. CASE ~(run.at = "mirror" /\ run.part <= Len(MirrorOrder))
            <4>1. UNCHANGED stick
                BY <1>11, <3>2 DEF Stop
            <4> QED BY <4>1 DEF Filled
        <3> QED BY <3>1, <3>2
    <2>5. /\ Finish("failed") /\ UNCHANGED <<asset, pin, cache, vouched, mirrored, place, damaged>>
          /\ count' \in [faults : 0..MaxFaults, releases : 0..MaxReleases, runs : 0..MaxRuns]
        BY <1>11 DEF Stop, Faulty
    <2>6. run' \in RunState /\ run'.at = "idle" /\ result' = "failed"
        BY <2>5, RunMoves
    <2> QED BY <2>2, <2>3, <2>4, <2>5, <2>6
<1>12. CASE BadCopy
    <2>1. /\ Finish("failed") /\ UNCHANGED <<asset, pin, cache, offline, vouched, stick, mirrored, place>>
          /\ count' \in [faults : 0..MaxFaults, releases : 0..MaxReleases, runs : 0..MaxRuns]
          /\ iso' = [iso EXCEPT ![run.pin.date] = "bad"] /\ damaged' = damaged \union {run.pin.date}
        BY <1>12 DEF BadCopy, Faulty
    <2>2. run.pin.date \in Dates
        BY <1>0, <1>12 DEF BadCopy, Pin
    <2>3. run' \in RunState /\ run'.at = "idle" /\ result' = "failed"
        BY <2>1, RunMoves
    <2>4. iso' \in [Dates -> {"none", "good", "torn", "bad"}]
        BY <2>1
    <2> QED BY <2>1, <2>2, <2>3, <2>4 DEF Filled
<1>13. CASE Lose
    <2>1. /\ run.at = "idle" /\ result' = "none"
          /\ UNCHANGED <<asset, pin, cache, offline, vouched, mirrored, place, run>>
          /\ count' \in [faults : 0..MaxFaults, releases : 0..MaxReleases, runs : 0..MaxRuns]
        BY <1>13 DEF Lose, Faulty
    <2>2. damaged' \subseteq Dates \union {"bundle"} /\ iso' \in [Dates -> {"none", "good", "torn", "bad"}]
        BY <1>13 DEF Lose
    <2>3. stick' \in Directory /\ Filled(stick)'
        <3>1. CASE UNCHANGED stick
            BY <3>1 DEF Filled
        <3>2. CASE \E part \in Parts : stick[part].state = "whole"
                                      /\ stick' = [stick EXCEPT ![part].state = "lost"]
            <4>1. PICK part \in Parts : stick[part].state = "whole"
                                      /\ stick' = [stick EXCEPT ![part].state = "lost"]
                BY <3>2
            <4> DEFINE c == [stick[part] EXCEPT !.state = "lost"]
            <4>2. stick[part] \in Copy /\ stick[part].build \in Builds
                BY <4>1, Copies DEF Directory, Filled
            <4>3. c \in Copy /\ c.build \in Builds
                BY <4>2 DEF Copy
            <4>4. stick' = [stick EXCEPT ![part] = c]
                BY <4>1
            <4> QED BY <4>3, <4>4, WithCopy
        <3> QED BY <1>13, <3>1, <3>2 DEF Lose
    <2> QED BY <2>1, <2>2, <2>3 DEF Filled
<1> QED BY <1>1, <1>2, <1>3, <1>4, <1>5, <1>6, <1>7, <1>8, <1>9, <1>10, <1>11, <1>12, <1>13
        DEF UsbStep, PrepareStep

-----------------------------------------------------------------------------
(* bootstrap.sh.                                                           *)

\* What a profile is installed from, and what of.
LEMMA NamesOfProfile ==
    ASSUME NEW p \in Profiles
    PROVE  /\ Wanted[p] \subseteq Names(p) /\ Names(p) \subseteq Wanted["driver-bound-runtime"]
           /\ LegacyUnion(p) => p = "driver-bound-runtime"
           /\ ~LegacyUnion(p) => Names(p) = Wanted[p]
BY DeliveryAssumption DEF Names, Profiles, LegacyUnion

\* What the checksum files say together: SHA256SUMS covers the packages and the
\* profile, PROFILE-SHA256SUMS the profile and the manifest with the kernel.
LEMMA VerifiedIsOfKernel ==
    ASSUME Filled(stick), NEW p, Verified(p), KernelFits
    PROVE  /\ stick["packages"].state = "whole"
           /\ PackagesOf[stick["packages"].build] = PackagesOf[stick["sums"].build]
           /\ ~LegacyUnion(p) =>
                 \E b \in Builds : PackagesOf[b] = PackagesOf[stick["packages"].build] /\ DateOf[b] = live
<1>1. /\ stick["packages"].state = "whole"
      /\ PackagesOf[stick["packages"].build] = PackagesOf[stick["sums"].build]
    BY DEF Verified, PackagesVerify, Verifies, Matches, Content
<1>2. ASSUME ~LegacyUnion(p) PROVE
          \E b \in Builds : PackagesOf[b] = PackagesOf[stick["packages"].build] /\ DateOf[b] = live
    <2>1. ProfilesVerify(stick) /\ ProfileCovered
        BY <1>2 DEF Verified
    <2>2. /\ Matches(stick, "manifest", stick["psums"].build)
          /\ Matches(stick, "profiles", stick["psums"].build)
        BY <2>1 DEF ProfilesVerify, Verifies
    <2>3. /\ stick["manifest"].state = "whole" /\ stick["manifest"].build = stick["psums"].build
          /\ PackagesOf[stick["profiles"].build] = PackagesOf[stick["psums"].build]
        BY <2>2 DEF Matches, Content
    <2>4. PackagesOf[stick["profiles"].build] = PackagesOf[stick["sums"].build]
        BY <2>1 DEF ProfileCovered, Content
    <2>5. stick["manifest"].build \in Builds
        BY <2>3, Copies DEF Filled, Parts
    <2>6. DateOf[stick["manifest"].build] = live
        BY <2>3 DEF KernelFits
    <2> QED BY <1>1, <2>3, <2>4, <2>5, <2>6
<1> QED BY <1>1, <1>2

\* Packages that are installed from what was verified can be trusted, all of them
\* or some.
LEMMA InstallIsTrusted ==
    ASSUME IInv, boot = "installing", NEW some \in SUBSET Names(profile),
           installed' = installed \union {Package(profile, name) : name \in some}, live' = live
    PROVE  /\ InstalledIsTrusted'
           /\ \A i \in installed' : i.name \in Wanted["driver-bound-runtime"] /\ i.for \in Profiles
<1>1. profile \in Profiles /\ Verified(profile) /\ KernelFits /\ Filled(stick)
    BY DEF IInv, PlaceInv, BootInv
<1>2. ASSUME NEW i \in installed'
      PROVE  /\ i.sound /\ i.name \in Wanted[i.for] /\ i.for \in Profiles
             /\ i.name \in Wanted["driver-bound-runtime"]
             /\ i.for = "safe-runtime" => ~i.legacy
             /\ ~i.legacy => \E b \in Builds : PackagesOf[b] = i.files /\ DateOf[b] = live
    <2>1. CASE i \in installed
        BY <2>1 DEF IInv, InstalledIsTrusted, TypeOK
    <2>2. CASE i \notin installed
        <3>1. PICK name \in some : i = Package(profile, name)
            BY <1>2, <2>2
        <3>2. /\ i.files = PackagesOf[stick["packages"].build] /\ i.name = name /\ i.for = profile
              /\ i.sound = (stick["packages"].state = "whole") /\ i.legacy = LegacyUnion(profile)
            BY <3>1 DEF Package
        <3>3. name \in Names(profile)
            BY <3>1
        <3>4. /\ name \in Wanted["driver-bound-runtime"] /\ name \in Wanted[profile]
              /\ profile = "safe-runtime" => ~LegacyUnion(profile)
            BY <1>1, <3>3, NamesOfProfile
        <3> QED BY <1>1, <3>2, <3>4, VerifiedIsOfKernel
    <2> QED BY <2>1, <2>2
<1> QED BY <1>2 DEF InstalledIsTrusted

-----------------------------------------------------------------------------
(* The invariant.                                                          *)

\* While the stick and the live system stay as they are, so does what was checked.
LEMMA CheckedStays ==
    ASSUME UNCHANGED <<stick, mirrored, live, profile, installed>>
    PROVE  /\ BundleFound(profile)' = BundleFound(profile)
           /\ KernelFits' = KernelFits /\ Verified(profile)' = Verified(profile)
           /\ Names(profile)' = Names(profile)
           /\ Given(profile, PackagesOf[stick["sums"].build])' = Given(profile, PackagesOf[stick["sums"].build])
BY DEF BundleFound, HasProfile, LegacyUnion, KernelFits, Verified, ProfileCovered, Names, Given

\* Packages stay installed when more are.
LEMMA GivenStays ==
    ASSUME NEW p, NEW files, installed \subseteq installed', Given(p, files)
    PROVE  Given(p, files)'
BY DEF Given

\* The release and the preparation of the stick.
LEMMA UsbKeeps == IInv /\ UsbStep /\ UNCHANGED liveVars => IInv'
<1> SUFFICES ASSUME IInv, UsbStep, UNCHANGED liveVars PROVE IInv'
    OBVIOUS
<1> USE DEF liveVars
<1>1. UsbTypeOK' /\ Filled(stick)' /\ Filled(offline)' /\ RunInv'
    BY UsbTypeStep DEF IInv, TypeOK
<1>2. place' = place
    BY UsbStaysInPlace
<1>3. TypeOK'
    BY <1>1 DEF IInv, TypeOK
<1>4. PlaceInv'
    BY <1>1, <1>2 DEF IInv, PlaceInv, AtBench
<1>5. BootInv'
    <2>1. CASE boot # "idle" \/ outcome = "ready"
        <3>1. place = "bench"
            BY <2>1 DEF IInv, PlaceInv, AtBench
        <3>2. UNCHANGED <<stick, mirrored>>
            BY <3>1, BenchIsQuiet DEF IInv
        <3> QED BY <3>2, CheckedStays DEF IInv, BootInv
    <2>2. CASE boot = "idle" /\ outcome # "ready"
        BY <2>2 DEF BootInv
    <2> QED BY <2>1, <2>2
<1>6. StampInv' /\ InstalledIsTrusted'
    BY DEF IInv, StampInv, InstalledIsTrusted, Given
<1> QED BY <1>1, <1>3, <1>4, <1>5, <1>6 DEF IInv

\* A start of bootstrap.sh, which may find its work done.
LEMMA StartKeeps ==
    ASSUME IInv, NEW p \in Profiles, NEW again \in BOOLEAN, Start(p, again)
    PROVE  IInv'
<1>1. /\ AtBench /\ boot = "idle" /\ profile' = p /\ UNCHANGED <<usbVars, live, boots, stamp, installed>>
      /\ UNCHANGED <<stick, offline, mirrored, place, run>>
    BY DEF Start, usbVars, releaseVars, pcVars, stickVars
<1>2. \/ /\ BundleFound(p) /\ KernelFits /\ Verified(p) /\ boot' = "installing" /\ outcome' = "none"
      \/ /\ boot' = "idle" /\ outcome' \in {"refused", "mismatch"}
      \/ /\ boot' = "idle" /\ outcome' = "ready" /\ BundleFound(p) /\ stamp = BundleId(p)
    BY DEF Start, Bootstrap
<1>3. TypeOK' /\ Filled(stick)' /\ Filled(offline)'
    BY <1>1, <1>2 DEF IInv, TypeOK, UsbTypeOK, usbVars, releaseVars, pcVars, stickVars, Filled
<1>4. PlaceInv'
    BY <1>1, <1>2 DEF IInv, PlaceInv, RunInv, AtBench
<1>5. StampInv' /\ InstalledIsTrusted'
    BY <1>1 DEF IInv, StampInv, InstalledIsTrusted, Given
<1>6. BootInv'
    <2>1. CASE BundleFound(p) /\ KernelFits /\ Verified(p) /\ boot' = "installing" /\ outcome' = "none"
        <3>1. BundleFound(p)' /\ KernelFits' /\ Verified(p)'
            BY <1>1, <2>1 DEF BundleFound, HasProfile, LegacyUnion, KernelFits, Verified, ProfileCovered
        <3> QED BY <1>1, <2>1, <3>1 DEF BootInv, BundleFound, HasProfile, LegacyUnion, Verified
    <2>2. CASE boot' = "idle" /\ outcome' \in {"refused", "mismatch"}
        BY <2>2 DEF BootInv
    <2>3. CASE boot' = "idle" /\ outcome' = "ready" /\ BundleFound(p) /\ stamp = BundleId(p)
        <3>1. stick["sums"].build \in Builds
            <4>1. stick["sums"].state # "absent"
                BY <2>3 DEF BundleFound
            <4>2. Absent.state = "absent" /\ "sums" \in Parts
                BY DEF Absent, Parts
            <4> QED BY <4>1, <4>2 DEF IInv, Filled
        <3>2. stamp.kernel = live /\ stamp.profile = p
            BY <2>3 DEF BundleId
        <3>3. stamp.files["sums"][2] = PackagesOf[stick["sums"].build]
            BY <2>3, <3>1, BuildAssumption DEF BundleId, Stamped, Content
        <3>4. stamp.kernel # None
            BY <1>1, <3>2 DEF AtBench
        <3>5. Given(p, PackagesOf[stick["sums"].build])
            BY <3>2, <3>3, <3>4 DEF IInv, StampInv
        <3> QED BY <1>1, <2>3, <3>5 DEF BootInv, Given
    <2> QED BY <1>2, <2>1, <2>2, <2>3
<1> QED BY <1>3, <1>4, <1>5, <1>6 DEF IInv

\* The installation, all or some of it.
LEMMA InstallKeeps == IInv /\ (Install \/ InstallFails) => IInv'
<1> SUFFICES ASSUME IInv, Install \/ InstallFails PROVE IInv'
    OBVIOUS
<1>1. /\ boot = "installing" /\ UNCHANGED <<usbVars, live, boots, profile, stamp>>
      /\ UNCHANGED <<stick, offline, mirrored, place, run>>
    BY DEF Install, InstallFails, usbVars, releaseVars, pcVars, stickVars
<1>2. PICK some \in SUBSET Names(profile) :
        /\ installed' = installed \union {Package(profile, name) : name \in some}
        /\ \/ boot' = "stamping" /\ some = Names(profile) /\ UNCHANGED outcome
           \/ boot' = "idle" /\ outcome' = "failed"
    BY DEF Install, InstallFails
<1>3. InstalledIsTrusted' /\ \A i \in installed' : i.name \in Wanted["driver-bound-runtime"] /\ i.for \in Profiles
    BY <1>1, <1>2, InstallIsTrusted
<1>4. TypeOK' /\ Filled(stick)' /\ Filled(offline)'
    BY <1>1, <1>2, <1>3 DEF IInv, TypeOK, UsbTypeOK, usbVars, releaseVars, pcVars, stickVars, Filled
<1>5. AtBench /\ profile \in Profiles /\ live # None
    BY <1>1 DEF IInv, PlaceInv, AtBench
<1>6. PlaceInv'
    BY <1>1, <1>5 DEF IInv, PlaceInv, RunInv, AtBench
<1>7. StampInv'
    BY <1>1, <1>2, GivenStays DEF IInv, StampInv, Given
<1>8. BootInv'
    <2>1. CASE boot' = "stamping" /\ some = Names(profile)
        <3>1. BundleFound(profile)' /\ KernelFits' /\ Verified(profile)'
            BY <1>1 DEF IInv, BootInv, BundleFound, HasProfile, LegacyUnion, KernelFits, Verified, ProfileCovered
        <3>2. PackagesOf[stick["packages"].build] = PackagesOf[stick["sums"].build]
            BY <1>1, VerifiedIsOfKernel DEF IInv, BootInv
        <3>3. ASSUME NEW name \in Wanted[profile]
              PROVE  \E i \in installed' : i.name = name /\ i.files = PackagesOf[stick["sums"].build]
            <4>1. Package(profile, name) \in installed'
                BY <1>2, <1>5, <2>1, NamesOfProfile
            <4>2. Package(profile, name).name = name
                  /\ Package(profile, name).files = PackagesOf[stick["packages"].build]
                BY DEF Package
            <4> QED BY <3>2, <4>1, <4>2
        <3> QED BY <1>1, <3>1, <3>3 DEF BootInv, Given
    <2>2. CASE boot' = "idle" /\ outcome' = "failed"
        BY <2>2 DEF BootInv
    <2> QED BY <1>2, <2>1, <2>2
<1> QED BY <1>3, <1>4, <1>6, <1>7, <1>8 DEF IInv

\* The stamp is written, or not.
LEMMA StampKeeps == IInv /\ (WriteStamp \/ StampFails) => IInv'
<1> SUFFICES ASSUME IInv, WriteStamp \/ StampFails PROVE IInv'
    OBVIOUS
<1>1. /\ boot = "stamping" /\ boot' = "idle" /\ UNCHANGED <<usbVars, live, boots, profile, installed>>
      /\ UNCHANGED <<stick, offline, mirrored, place, run>>
      /\ \/ outcome' = "ready" /\ stamp' = BundleId(profile)
         \/ outcome' = "failed" /\ stamp' = stamp
    BY DEF WriteStamp, StampFails, usbVars, releaseVars, pcVars, stickVars
<1>2. /\ AtBench /\ profile \in Profiles /\ Verified(profile)
      /\ Given(profile, PackagesOf[stick["sums"].build])
    BY <1>1 DEF IInv, PlaceInv, BootInv
<1>3. BundleId(profile).kernel = live /\ BundleId(profile).profile = profile
    BY DEF BundleId
<1>4. TypeOK' /\ Filled(stick)' /\ Filled(offline)'
    BY <1>1, <1>3 DEF IInv, TypeOK, UsbTypeOK, usbVars, releaseVars, pcVars, stickVars, Filled
<1>5. PlaceInv'
    BY <1>1, <1>2 DEF IInv, PlaceInv, RunInv, AtBench
<1>6. BootInv' /\ InstalledIsTrusted'
    BY <1>1, <1>2 DEF IInv, BootInv, Given, InstalledIsTrusted
<1>7. StampInv'
    <2>1. CASE stamp' = BundleId(profile)
        <3>1. stick["sums"].build \in Builds
            <4>1. stick["sums"].state = "whole" /\ "sums" \in Parts /\ Absent.state = "absent"
                BY <1>2 DEF Verified, PackagesVerify, Verifies, Parts, Absent
            <4> QED BY <4>1 DEF IInv, Filled
        <3>2. BundleId(profile).files["sums"][2] = PackagesOf[stick["sums"].build]
            BY <3>1, BuildAssumption DEF BundleId, Stamped, Content
        <3>3. Given(profile, PackagesOf[stick["sums"].build])'
            BY <1>1, <1>2 DEF Given
        <3> QED BY <1>1, <1>2, <1>3, <2>1, <3>2, <3>3 DEF StampInv, Given
    <2>2. CASE stamp' = stamp
        BY <1>1, <2>2 DEF IInv, StampInv, Given
    <2> QED BY <1>1, <2>1, <2>2
<1> QED BY <1>4, <1>5, <1>6, <1>7 DEF IInv

\* The bench is switched on and off, and the stick carried.
LEMMA BenchKeeps == IInv /\ ((\E date \in Dates : PowerOn(date)) \/ PowerOff \/ Carry) => IInv'
<1> SUFFICES ASSUME IInv, (\E date \in Dates : PowerOn(date)) \/ PowerOff \/ Carry PROVE IInv'
    OBVIOUS
<1> USE DEF usbVars, releaseVars, pcVars, stickVars
<1>1. UNCHANGED <<releaseVars, pcVars, stickVars, run, result, damaged, count>> /\ place' \in {"pc", "bench"}
    BY DEF PowerOn, PowerOff, Carry, IInv, TypeOK, UsbTypeOK
<1>2. UsbTypeOK' /\ Filled(stick)' /\ Filled(offline)'
    BY <1>1 DEF IInv, TypeOK, UsbTypeOK, Filled
<1>3. CASE \E date \in Dates : PowerOn(date)
    <2>1. PICK date \in Dates : PowerOn(date)
        BY <1>3
    <2>2. installed = {} /\ stamp.kernel = None /\ boot = "idle" /\ outcome # "ready" /\ live = None
        BY <2>1 DEF IInv, PlaceInv, AtBench, PowerOn, TypeOK
    <2>3. date # None
        BY BuildAssumption
    <2>4. /\ live' = date /\ boots' = boots + 1 /\ boots < MaxBoots
          /\ UNCHANGED <<boot, profile, outcome, stamp, installed, place, run>>
        BY <2>1 DEF PowerOn
    <2>5. TypeOK'
        BY <1>2, <2>2, <2>4, DeliveryAssumption DEF IInv, TypeOK
    <2> QED BY <1>2, <2>2, <2>3, <2>4, <2>5
            DEF IInv, PlaceInv, RunInv, BootInv, StampInv, InstalledIsTrusted
<1>4. CASE PowerOff
    <2>1. /\ live' = None /\ boot' = "idle" /\ outcome' = "none" /\ stamp' = NoStamp /\ installed' = {}
          /\ profile' = None /\ UNCHANGED <<boots, place, run>>
        BY <1>4 DEF PowerOff
    <2>2. NoStamp.kernel = None
        BY DEF NoStamp
    <2> QED BY <1>2, <2>1, <2>2
            DEF IInv, TypeOK, PlaceInv, RunInv, BootInv, StampInv, InstalledIsTrusted
<1>5. CASE Carry
    <2>1. /\ run.at = "idle" /\ boot = "idle" /\ outcome' = "none" /\ profile' = None
          /\ UNCHANGED <<run, live, boots, boot, stamp, installed>>
        BY <1>5 DEF Carry
    <2> QED BY <1>2, <2>1
            DEF IInv, TypeOK, PlaceInv, RunInv, BootInv, StampInv, InstalledIsTrusted, Given
<1> QED BY <1>3, <1>4, <1>5

\* Nothing is there at first.
LEMMA InitInv == Init => IInv
<1> SUFFICES ASSUME Init PROVE IInv
    OBVIOUS
<1>1. PICK b \in Builds : /\ asset = [d \in Dates |-> IF d = DateOf[b] THEN b ELSE None]
                          /\ pin \in CmdWrite(DateOf[b], b, b)
    BY DEF Init, UsbInit
<1>2. pin \in Pin
    BY <1>1, BuildAssumption DEF CmdWrite, Pin
<1>3. stick \in Directory /\ offline \in Directory /\ Filled(stick) /\ Filled(offline)
    BY Copies DEF Init, UsbInit, Directory, Filled
<1>4. run \in RunState /\ run.at = "idle"
    BY DEF Init, UsbInit, NoRun, RunState
<1>5. count \in [faults : 0..MaxFaults, releases : 0..MaxReleases, runs : 0..MaxRuns]
    BY StickAssumption DEF Init, UsbInit
<1>6. UsbTypeOK
    BY <1>1, <1>2, <1>3, <1>4, <1>5 DEF UsbTypeOK, Init, UsbInit
<1>7. NoStamp.kernel = None
    BY DEF NoStamp
<1>8. TypeOK
    BY <1>6, <1>7, DeliveryAssumption DEF TypeOK, Init
<1> QED BY <1>3, <1>4, <1>7, <1>8
        DEF Init, IInv, PlaceInv, RunInv, BootInv, StampInv, InstalledIsTrusted

\* Every step keeps the invariant.
LEMMA StepKeeps == IInv /\ [Next]_vars => IInv'
<1> SUFFICES ASSUME IInv, [Next]_vars PROVE IInv'
    OBVIOUS
<1>1. CASE UNCHANGED vars
    BY <1>1 DEF vars, usbVars, releaseVars, pcVars, stickVars, liveVars, IInv, TypeOK, UsbTypeOK, Filled,
       PlaceInv, RunInv, AtBench, BootInv, BundleFound, HasProfile, LegacyUnion, KernelFits, Verified,
       ProfileCovered, StampInv, InstalledIsTrusted, Given
<1> QED BY <1>1, UsbKeeps, StartKeeps, InstallKeeps, StampKeeps, BenchKeeps DEF Next

-----------------------------------------------------------------------------
(* The theorems.                                                           *)

\* The invariant holds in every reachable state.
LEMMA IInvHolds == Spec => []IInv
BY InitInv, StepKeeps, PTL DEF Spec

\* Release, stick, checkout and live system stay within their types.
THEOREM TypeCorrect == Spec => []TypeOK
<1>1. IInv => TypeOK
    BY DEF IInv
<1> QED BY <1>1, IInvHolds, PTL

\* Whatever bundles are on the stick in part and however often it was pulled out
\* or its preparation stopped, what is installed was verified, is of the kernel
\* that runs and of the profile asked for (bootstrap.sh:56-67, 96-143).
THEOREM InstalledCanBeTrusted == Spec => []InstalledIsTrusted
<1>1. IInv => InstalledIsTrusted
    BY DEF IInv
<1> QED BY <1>1, IInvHolds, PTL

\* A start that goes ahead, with a stamp or without one, has what its profile
\* wants of the bundle on the stick (bootstrap.sh:33-46, 72-76, 154-166).
THEOREM ReadyHasPackages == Spec => []ReadyMeansInstalled
<1>1. IInv => ReadyMeansInstalled
    BY DEF IInv, BootInv, Given, ReadyMeansInstalled
<1> QED BY <1>1, IInvHolds, PTL

-----------------------------------------------------------------------------
(* What each prefix of the two orders leaves.                              *)

\* The parts of one build, whose last file may have been cut off.
OneBuild(dir, b) ==
    /\ \A part \in {"packages", "manifest", "sums"} : dir[part] = Entire(b)
    /\ IF b \in Legacy THEN dir["profiles"] = Absent /\ dir["psums"] = Absent
       ELSE /\ \A part \in {"profiles", "helper", "hsums"} : dir[part] = Entire(b)
            /\ dir["psums"].build = b /\ dir["psums"].state \in {"whole", "torn"}

\* What goes together in a directory that bundles are unpacked into, in the order
\* of their zip: a file that is there, whole or not, vouches for what comes before
\* it.  Only the packages may be gone, when an unpacking has just begun.
InOrder(dir) ==
    /\ dir["manifest"].state # "absent" =>
        LET b == dir["manifest"].build
        IN  /\ dir["packages"] \in {Absent, Entire(b)}
            /\ IF b \in Legacy THEN dir["profiles"] = Absent /\ dir["psums"] = Absent
               ELSE dir["profiles"] = Entire(b) /\ dir["helper"] = Entire(b)
    /\ dir["sums"].state # "absent" => dir["manifest"] = Entire(dir["sums"].build)
    /\ dir["psums"].state # "absent" =>
        LET b == dir["psums"].build
        IN  /\ dir["sums"] = Entire(b) /\ dir["hsums"] = Entire(b)
            /\ dir["psums"].state \in {"whole", "torn"}

\* The first n parts of the zip are there.  Of a legacy bundle there are three, and
\* an old helper may be left beside them.
Unpacked(dir, z, n) ==
    /\ dir["packages"] = IF n >= 1 THEN Entire(z) ELSE Absent
    /\ dir["profiles"] = IF n >= 2 /\ z \notin Legacy THEN Entire(z) ELSE Absent
    /\ n >= 3 /\ z \notin Legacy => dir["helper"] = Entire(z)
    /\ dir["manifest"] = IF n >= 4 THEN Entire(z) ELSE Absent
    /\ dir["sums"] = IF n >= 5 THEN Entire(z) ELSE Absent
    /\ n >= 6 /\ z \notin Legacy => dir["hsums"] = Entire(z)
    /\ dir["psums"] = IF n >= 7 /\ z \notin Legacy THEN Entire(z) ELSE Absent

NoneLost(dir) == \A part \in Parts : dir[part].state # "lost"

OfflineInv ==
    /\ InOrder(offline) /\ NoneLost(offline)
    /\ run.at = "expand" => Unpacked(offline, run.pin.zip, run.part - 1)

\* What is mirrored is one build, and the parts already mirrored are as they are in
\* the checkout, but for what was lost.
MirrorInv ==
    /\ run.at = "mirror" \/ (run.at = "iso" /\ run.bundle) =>
        \E b \in Builds : OneBuild(offline, b) /\ DateOf[b] = run.pin.date
    /\ run.at = "mirror" => \A j \in 1..7 : j < run.part => UpToDate(MirrorOrder[j])

\* What was lost is known as damaged, and a ready stick has one build.
StickInv ==
    /\ run.at # "idle" => result = "none"
    /\ \A part \in Parts : stick[part].state = "lost" => "bundle" \in damaged
    /\ \A d \in Dates : iso[d] = "bad" => d \in damaged
    /\ result = "ready" =>
        /\ run.pin.date \in Dates /\ iso[run.pin.date] \in {"good", "bad"}
        /\ "bundle" \notin damaged =>
            \E b \in Builds : OneBuild(stick, b) /\ DateOf[b] = run.pin.date

ReadyInv == OfflineInv /\ MirrorInv /\ StickInv

\* What names a build is that build's.
LEMMA EntireIs ==
    ASSUME NEW b, NEW c
    PROVE  /\ Entire(b) = Entire(c) => b = c
           /\ Entire(b).state = "whole" /\ Entire(b).build = b /\ Absent.state = "absent"
           /\ Entire(b) # Absent
<1>1. Entire(b).build = b /\ Entire(c).build = c
    BY DEF Entire
<1>2. Entire(b).state = "whole" /\ Absent.state = "absent"
    BY DEF Entire, Absent
<1> QED
    BY <1>1, <1>2

\* A copy is known by its build and its state.
LEMMA CopyIs ==
    ASSUME NEW c \in Copy, NEW d \in Copy
    PROVE  /\ c.build = d.build /\ c.state = d.state => c = d
           /\ c.state = "whole" => c = Entire(c.build)
BY DEF Copy, Entire

\* With the next part of the zip.
LEMMA UnpackMore ==
    ASSUME NEW dir \in Directory, NEW z \in Builds, NEW n \in 1..7, Unpacked(dir, z, n - 1)
    PROVE  Unpacked(IF ZipOrder[n] \in PartsOf(z) THEN [dir EXCEPT ![ZipOrder[n]] = Entire(z)]
                                                  ELSE dir, z, n)
<1> USE DEF Directory, Parts, Groups, PartsOf, ZipOrder, Unpacked
<1>1. CASE n = 1
    BY <1>1
<1>2. CASE n = 2
    BY <1>2
<1>3. CASE n = 3
    BY <1>3
<1>4. CASE n = 4
    BY <1>4
<1>5. CASE n = 5
    BY <1>5
<1>6. CASE n = 6
    BY <1>6
<1>7. CASE n = 7
    BY <1>7
<1> QED
    BY <1>1, <1>2, <1>3, <1>4, <1>5, <1>6, <1>7

\* Everything is in order after each part, and if the next one was cut off.
LEMMA UnpackedInOrder ==
    ASSUME NEW dir \in Directory, NEW z \in Builds, NEW n \in 0..7, Unpacked(dir, z, n)
    PROVE  InOrder(dir)
BY EntireIs DEF Unpacked, InOrder, Absent

\* Likewise in the middle of a part.
LEMMA CutOffInOrder ==
    ASSUME NEW dir \in Directory, NEW z \in Builds, NEW n \in 1..7, Unpacked(dir, z, n - 1),
           ZipOrder[n] \in PartsOf(z), NEW c \in CutOff(ZipOrder[n], z)
    PROVE  InOrder([dir EXCEPT ![ZipOrder[n]] = c])
<1>0. /\ c.build = z /\ c.state \in {"torn", "missing"}
      /\ ZipOrder[n] \notin Groups => c.state = "torn"
    BY DEF CutOff
<1>1. Absent.state = "absent" /\ Entire(z).build = z /\ Entire(z).state = "whole"
    BY EntireIs
<1> USE <1>0, <1>1 DEF Directory, Parts, Groups, PartsOf, ZipOrder, Unpacked, InOrder
<1>2. CASE n \in {1, 2, 3}
    BY <1>2
<1>3. CASE n = 4
    BY <1>3
<1>4. CASE n = 5
    BY <1>4
<1>5. CASE n = 6
    BY <1>5
<1>6. CASE n = 7
    BY <1>6
<1> QED
    BY <1>2, <1>3, <1>4, <1>5, <1>6

\* Test-BundleComplete accepts one build.
LEMMA CompleteIsOne ==
    ASSUME NEW dir \in Directory, Filled(dir), InOrder(dir), NEW p, BundleComplete(dir, p)
    PROVE  \E b \in Builds : OneBuild(dir, b) /\ DateOf[b] = p.date
<1> DEFINE b == dir["manifest"].build
<1>1. \A part \in Parts : dir[part] \in Copy
    BY DEF Directory
<1>2. {"manifest", "sums", "packages", "profiles", "helper", "hsums", "psums"} = Parts
    BY DEF Parts, Groups
<1>3. dir["manifest"] = Entire(b) /\ DateOf[b] = p.date /\ b \in Builds
    BY <1>1, <1>2, CopyIs, EntireIs DEF BundleComplete, Filled
<1>4. dir["sums"] = Entire(b)
    <2>1. dir["sums"] = Entire(dir["sums"].build)
        BY <1>1, <1>2, CopyIs DEF BundleComplete
    <2>2. dir["manifest"] = Entire(dir["sums"].build)
        BY <2>1, EntireIs DEF InOrder
    <2> QED
        BY <1>3, <2>1, <2>2, EntireIs
<1>5. dir["packages"] = Entire(b)
    <2>1. dir["packages"] # Absent
        BY EntireIs DEF BundleComplete, Named
    <2> QED
        BY <1>3, <2>1, EntireIs DEF InOrder
<1>6. CASE b \in Legacy
    <2>1. dir["profiles"] = Absent /\ dir["psums"] = Absent
        BY <1>3, <1>6, EntireIs DEF InOrder
    <2> QED
        BY <1>3, <1>4, <1>5, <1>6, <2>1 DEF OneBuild
<1>7. CASE b \notin Legacy
    <2>1. dir["profiles"] = Entire(b) /\ dir["helper"] = Entire(b)
        BY <1>3, <1>7, EntireIs DEF InOrder
    <2>2. dir["psums"].state # "absent"
        BY <2>1, EntireIs DEF BundleComplete, Named
    <2>3. /\ dir["sums"] = Entire(dir["psums"].build) /\ dir["hsums"] = Entire(dir["psums"].build)
          /\ dir["psums"].state \in {"whole", "torn"}
        BY <2>2 DEF InOrder
    <2>4. dir["psums"].build = b
        BY <1>4, <2>3, EntireIs
    <2> QED
        BY <1>3, <1>4, <1>5, <1>7, <2>1, <2>3, <2>4 DEF OneBuild
<1> QED
    BY <1>6, <1>7

\* The first run finds nothing.
LEMMA ReadyInit == Init => ReadyInv
<1> SUFFICES ASSUME Init PROVE ReadyInv
    OBVIOUS
<1>1. /\ offline = [part \in Parts |-> Absent] /\ stick = [part \in Parts |-> Absent]
      /\ run = NoRun /\ result = "none" /\ iso = [d \in Dates |-> "none"]
    BY DEF Init, UsbInit
<1>2. Absent.state = "absent"
    BY EntireIs
<1>3. OfflineInv
    BY <1>1, <1>2 DEF OfflineInv, InOrder, NoneLost, NoRun, Parts, Groups
<1>4. MirrorInv
    BY <1>1 DEF MirrorInv, NoRun
<1>5. StickInv
    BY <1>1, <1>2 DEF StickInv, NoRun
<1> QED
    BY <1>3, <1>4, <1>5 DEF ReadyInv

\* What unpacking leaves is in order, wherever it is stopped.
LEMMA OfflineKeeps ==
    ASSUME UsbTypeOK, RunInv, OfflineInv, UsbStep
    PROVE  OfflineInv'
<1>1. /\ run \in RunState /\ offline \in Directory
      /\ run.at # "idle" => run.pin \in Pin /\ run.pin.zip \in Builds /\ run.part \in 1..8
    BY DEF UsbTypeOK, RunInv, Pin
<1>2. ASSUME UNCHANGED offline, run'.at # "expand"
      PROVE  OfflineInv'
    BY <1>2 DEF OfflineInv
<1>3. CASE (\E b \in Builds : Upload(b)) \/ MergePin \/ Lose
    <2>1. UNCHANGED <<offline, run>>
        BY <1>3 DEF Upload, MergePin, Lose, pcVars
    <2> QED
        BY <2>1 DEF OfflineInv
<1>4. CASE \E force \in BOOLEAN : PrepareStart(force)
    <2>1. UNCHANGED offline /\ run'.at \in {"iso", "fetch", "mirror"}
        BY <1>4 DEF PrepareStart, AfterIso, pcVars
    <2> QED
        BY <1>2, <2>1
<1>5. CASE CopyIso
    <2>1. UNCHANGED offline /\ (Goto("fetch") \/ Goto("mirror"))
        BY <1>5 DEF CopyIso, AfterIso, pcVars
    <2> QED
        BY <1>1, <1>2, <2>1, RunMoves
<1>6. CASE FetchBundle
    <2>1. UNCHANGED offline /\ (Goto("clear") \/ Finish("failed"))
        BY <1>6 DEF FetchBundle
    <2> QED
        BY <1>1, <1>2, <2>1, RunMoves
<1>7. CASE ClearPackages
    <2>1. offline' = [offline EXCEPT !["packages"] = Absent] /\ run'.at = "clear_rest"
        BY <1>1, <1>7, RunMoves DEF ClearPackages
    <2>2. InOrder([offline EXCEPT !["packages"] = Absent])
        BY <1>1, EntireIs DEF OfflineInv, InOrder, Directory, Parts, Groups
    <2>3. NoneLost([offline EXCEPT !["packages"] = Absent])
        BY <1>1, EntireIs DEF OfflineInv, NoneLost, Directory
    <2> QED
        BY <2>1, <2>2, <2>3 DEF OfflineInv
<1>8. CASE ClearRest
    <2>1. /\ run.at = "clear_rest" /\ run'.at = "expand" /\ run'.part = 1 /\ run'.pin = run.pin
          /\ offline' = [part \in Parts |-> IF part \in {"helper", "hsums"} THEN offline[part] ELSE Absent]
        BY <1>1, <1>8, RunMoves DEF ClearRest
    <2>2. Unpacked(offline', run.pin.zip, 0)
        BY <2>1 DEF Unpacked, Parts, Groups, OfflineInv
    <2>3. NoneLost(offline')
        BY <2>1, EntireIs DEF OfflineInv, NoneLost
    <2>4. InOrder(offline')
        BY <2>2, EntireIs DEF Unpacked, InOrder
    <2> QED
        BY <2>1, <2>2, <2>3, <2>4 DEF OfflineInv
<1>9. CASE Expand
    <2> DEFINE n == run.part
               z == run.pin.zip
               more == IF ZipOrder[n] \in PartsOf(z) THEN [offline EXCEPT ![ZipOrder[n]] = Entire(z)]
                       ELSE offline
    <2>1. /\ n \in 1..7 /\ z \in Builds /\ run.at = "expand" /\ offline' = more
          /\ run' = [run EXCEPT !.part = @ + 1]
        BY <1>1, <1>9, Orders DEF Expand
    <2>2. run'.at = "expand" /\ run'.part = n + 1 /\ run'.pin = run.pin
        BY <1>1, <2>1 DEF RunState
    <2>3. Unpacked(offline, z, n - 1)
        BY <2>1 DEF OfflineInv
    <2>4. Unpacked(more, z, n)
        BY <1>1, <2>1, <2>3, UnpackMore
    <2>5. ZipOrder[n] \in Parts
        BY <2>1, Orders
    <2>6. more \in Directory /\ NoneLost(more)
        BY <1>1, <2>1, <2>5, EntireIs, Copies DEF OfflineInv, NoneLost, Directory
    <2>7. InOrder(more)
        BY <2>1, <2>4, <2>6, UnpackedInOrder
    <2>8. n + 1 - 1 = n
        BY <2>1
    <2> QED
        BY <2>1, <2>2, <2>4, <2>6, <2>7, <2>8 DEF OfflineInv
<1>10. CASE Expanded
    <2>1. UNCHANGED offline /\ (Goto("mirror") \/ Finish("failed"))
        BY <1>10 DEF Expanded, pcVars
    <2> QED
        BY <1>1, <1>2, <2>1, RunMoves
<1>11. CASE Mirror
    <2>1. UNCHANGED offline /\ run.at = "mirror" /\ run' = [run EXCEPT !.part = @ + 1]
        BY <1>11 DEF Mirror, pcVars
    <2>2. run'.at = "mirror"
        BY <1>1, <2>1 DEF RunState
    <2> QED
        BY <1>2, <2>1, <2>2
<1>12. CASE CheckStick \/ BadCopy
    <2>1. UNCHANGED offline /\ (Finish("ready") \/ Finish("failed"))
        BY <1>12 DEF CheckStick, BadCopy, pcVars
    <2> QED
        BY <1>1, <1>2, <2>1, RunMoves
<1>13. CASE Stop
    <2>1. run.at # "idle" /\ run'.at = "idle"
        BY <1>1, <1>13, RunMoves DEF Stop
    <2>2. CASE ~(run.at = "expand" /\ run.part <= Len(ZipOrder))
        <3>1. UNCHANGED offline
            BY <1>13, <2>2 DEF Stop
        <3> QED
            BY <1>2, <2>1, <3>1
    <2>3. CASE run.at = "expand" /\ run.part <= Len(ZipOrder)
        <3> DEFINE n == run.part
                   z == run.pin.zip
                   part == ZipOrder[n]
        <3>1. n \in 1..7 /\ z \in Builds /\ part \in Parts /\ Unpacked(offline, z, n - 1)
            BY <1>1, <2>3, Orders DEF OfflineInv
        <3>2. PICK c \in {offline[part]} \union (IF part \in PartsOf(z) THEN CutOff(part, z) ELSE {}) :
                    offline' = [offline EXCEPT ![part] = c]
            BY <1>13, <2>3 DEF Stop
        <3>3. CASE c = offline[part]
            <4>1. offline' = offline
                BY <1>1, <3>1, <3>2, <3>3 DEF Directory
            <4> QED
                BY <1>2, <2>1, <4>1
        <3>4. CASE part \in PartsOf(z) /\ c \in CutOff(part, z)
            <4>1. InOrder([offline EXCEPT ![part] = c])
                BY <1>1, <3>1, <3>4, CutOffInOrder
            <4>2. c.state # "lost"
                BY <3>4 DEF CutOff
            <4>3. NoneLost([offline EXCEPT ![part] = c])
                BY <1>1, <4>2 DEF OfflineInv, NoneLost, Directory
            <4> QED
                BY <2>1, <3>2, <4>1, <4>3 DEF OfflineInv
        <3> QED
            BY <3>2, <3>3, <3>4
    <2> QED
        BY <2>2, <2>3
<1> QED
    BY <1>3, <1>4, <1>5, <1>6, <1>7, <1>8, <1>9, <1>10, <1>11, <1>12, <1>13
    DEF UsbStep, PrepareStep

\* Only Expanded and PrepareStart begin a mirroring, both after Test-BundleComplete.
LEMMA MirrorKeeps ==
    ASSUME UsbTypeOK, Filled(offline), RunInv, OfflineInv, MirrorInv, UsbStep
    PROVE  MirrorInv'
<1>1. run \in RunState /\ offline \in Directory /\ InOrder(offline)
    BY DEF UsbTypeOK, OfflineInv
<1>2. ASSUME run'.at \notin {"mirror", "iso"}
      PROVE  MirrorInv'
    BY <1>2 DEF MirrorInv
<1>3. ASSUME UNCHANGED offline, run'.at = "mirror" => run'.part = 1,
             run'.at = "mirror" \/ (run'.at = "iso" /\ run'.bundle) =>
                \E b \in Builds : OneBuild(offline, b) /\ DateOf[b] = run'.pin.date
      PROVE  MirrorInv'
    BY <1>3 DEF MirrorInv
<1>4. CASE (\E b \in Builds : Upload(b)) \/ MergePin
    <2>1. UNCHANGED <<offline, run, stick>>
        BY <1>4 DEF Upload, MergePin, pcVars, stickVars
    <2> QED
        BY <2>1 DEF MirrorInv, UpToDate
<1>5. CASE \E force \in BOOLEAN : PrepareStart(force)
    <2>1. PICK force \in BOOLEAN : PrepareStart(force)
        BY <1>5
    <2> DEFINE bundle == ~force /\ BundleComplete(offline, pin)
    <2>2. /\ UNCHANGED offline /\ bundle \in BOOLEAN
          /\ run' = [at |-> IF IsoReady(force) THEN AfterIso(bundle) ELSE "iso", part |-> 1,
                     pin |-> pin, force |-> force, bundle |-> bundle]
        BY <2>1 DEF PrepareStart, pcVars
    <2> HIDE DEF bundle
    <2>3. run'.part = 1 /\ run'.pin = pin /\ run'.bundle = bundle
          /\ (run'.at = "mirror" => bundle)
        BY <2>2 DEF AfterIso
    <2>4. bundle => BundleComplete(offline, pin)
        BY DEF bundle
    <2>5. bundle => \E b \in Builds : OneBuild(offline, b) /\ DateOf[b] = pin.date
        BY <1>1, <2>4, CompleteIsOne
    <2> QED
        BY <1>3, <2>2, <2>3, <2>5
<1>6. CASE CopyIso
    <2>1. /\ UNCHANGED offline /\ run.at = "iso"
          /\ (Goto("fetch") \/ (Goto("mirror") /\ run.bundle))
        BY <1>6 DEF CopyIso, AfterIso, pcVars
    <2>2. CASE Goto("fetch")
        BY <1>1, <1>2, <2>2, RunMoves
    <2>3. CASE Goto("mirror") /\ run.bundle
        <3>1. run'.at = "mirror" /\ run'.part = 1 /\ run'.pin = run.pin
            BY <1>1, <2>3, RunMoves
        <3>2. \E b \in Builds : OneBuild(offline, b) /\ DateOf[b] = run.pin.date
            BY <2>1, <2>3 DEF MirrorInv
        <3> QED
            BY <1>3, <2>1, <3>1, <3>2
    <2> QED
        BY <2>1, <2>2, <2>3
<1>7. CASE FetchBundle \/ ClearPackages \/ ClearRest
    <2>1. Goto("clear") \/ Goto("clear_rest") \/ Goto("expand") \/ Finish("failed")
        BY <1>7 DEF FetchBundle, ClearPackages, ClearRest
    <2> QED
        BY <1>1, <1>2, <2>1, RunMoves
<1>8. CASE Expand
    <2>1. run' = [run EXCEPT !.part = @ + 1] /\ run.at = "expand"
        BY <1>8 DEF Expand
    <2>2. run'.at = "expand"
        BY <1>1, <2>1 DEF RunState
    <2> QED
        BY <1>2, <2>2
<1>9. CASE Expanded
    <2>1. CASE BundleComplete(offline, run.pin)
        <3>1. UNCHANGED offline /\ Goto("mirror")
            BY <1>9, <2>1 DEF Expanded, pcVars
        <3>2. run'.at = "mirror" /\ run'.part = 1 /\ run'.pin = run.pin
            BY <1>1, <3>1, RunMoves
        <3>3. \E b \in Builds : OneBuild(offline, b) /\ DateOf[b] = run.pin.date
            BY <1>1, <2>1, CompleteIsOne
        <3> QED
            BY <1>3, <3>1, <3>2, <3>3
    <2>2. CASE ~BundleComplete(offline, run.pin)
        <3>1. Finish("failed")
            BY <1>9, <2>2 DEF Expanded
        <3> QED
            BY <1>1, <1>2, <3>1, RunMoves
    <2> QED
        BY <2>1, <2>2
<1>10. CASE Mirror
    <2>0. PICK n, part : n = run.part /\ part = MirrorOrder[n]
        OBVIOUS
    <2>1. /\ run.at = "mirror" /\ n \in 1..7 /\ part \in Parts /\ UNCHANGED offline
          /\ run' = [run EXCEPT !.part = @ + 1]
          /\ stick' = IF UpToDate(part) THEN stick ELSE [stick EXCEPT ![part] = offline[part]]
        BY <1>10, <2>0, Orders DEF Mirror, RunInv, pcVars
    <2>2. run'.at = "mirror" /\ run'.part = n + 1 /\ run'.pin = run.pin
        BY <1>1, <2>0, <2>1 DEF RunState
    <2>3. \E b \in Builds : OneBuild(offline, b) /\ DateOf[b] = run.pin.date
        BY <2>1 DEF MirrorInv
    <2>4. stick \in Directory
        BY DEF UsbTypeOK
    <2>5. UpToDate(part)'
        <3>1. CASE UpToDate(part)
            BY <2>1, <3>1 DEF UpToDate
        <3>2. CASE ~UpToDate(part)
            <4>1. stick'[part] = offline[part] /\ offline' = offline
                BY <2>1, <2>4, <3>2 DEF Directory
            <4> QED
                BY <4>1 DEF UpToDate
        <3> QED
            BY <3>1, <3>2
    <2>6. ASSUME NEW j \in 1..7, j < n + 1
          PROVE  UpToDate(MirrorOrder[j])'
        <3>1. CASE MirrorOrder[j] = part
            BY <2>5, <3>1
        <3>2. CASE MirrorOrder[j] # part
            <4>1. UpToDate(MirrorOrder[j])
                BY <2>0, <2>1, <2>6, <3>2 DEF MirrorInv
            <4>2. MirrorOrder[j] \in Parts
                BY Orders
            <4>3. stick'[MirrorOrder[j]] = stick[MirrorOrder[j]]
                BY <2>1, <2>4, <3>2, <4>2 DEF Directory
            <4> QED
                BY <2>1, <4>1, <4>3 DEF UpToDate
        <3> QED
            BY <3>1, <3>2
    <2>7. \A j \in 1..7 : j < run'.part => UpToDate(MirrorOrder[j])'
        BY <2>2, <2>6
    <2> QED
        BY <2>1, <2>2, <2>3, <2>7 DEF MirrorInv
<1>11. CASE CheckStick \/ Stop \/ BadCopy \/ Lose
    <2>1. Finish("ready") \/ Finish("failed") \/ (run.at = "idle" /\ UNCHANGED run)
        BY <1>11 DEF CheckStick, Stop, BadCopy, Lose
    <2> QED
        BY <1>1, <1>2, <2>1, RunMoves
<1> QED
    BY <1>4, <1>5, <1>6, <1>7, <1>8, <1>9, <1>10, <1>11 DEF UsbStep, PrepareStep

\* Every part is mirrored once.
LEMMA MirrorsAll == \A part \in Parts : \E j \in 1..7 : MirrorOrder[j] = part
BY DEF Parts, Groups, MirrorOrder

\* A stick that is up to date in every part, and of which nothing was lost, is what
\* the checkout has.
LEMMA UpToDateIsSame ==
    ASSUME stick \in Directory, offline \in Directory, NoneLost(stick),
           \A part \in Parts : UpToDate(part)
    PROVE  stick = offline
<1>1. ASSUME NEW part \in Parts
      PROVE  stick[part] = offline[part]
    <2>1. stick[part] \in Copy /\ offline[part] \in Copy
        BY DEF Directory
    <2>2. stick[part].build = offline[part].build /\ stick[part].state = offline[part].state
        BY DEF UpToDate, NoneLost
    <2> QED
        BY <2>1, <2>2, CopyIs
<1> QED
    BY <1>1 DEF Directory

\* What is lost is known, and only CheckStick calls a stick ready, with all of it
\* mirrored.
LEMMA StickKeeps ==
    ASSUME UsbTypeOK, RunInv, OfflineInv, MirrorInv, StickInv, UsbStep
    PROVE  StickInv'
<1>1. /\ run \in RunState /\ stick \in Directory /\ offline \in Directory
      /\ run.at # "idle" => run.pin.date \in Dates /\ run.part \in 1..8
      /\ iso \in [Dates -> {"none", "good", "torn", "bad"}] /\ "bundle" \notin Dates
    BY StickAssumption DEF UsbTypeOK, RunInv, Pin
<1>2. ASSUME UNCHANGED <<stick, iso, damaged>>, run'.at # "idle" => result' = "none", result' # "ready"
      PROVE  StickInv'
    BY <1>2 DEF StickInv
<1>3. CASE (\E b \in Builds : Upload(b)) \/ MergePin
    <2>1. UNCHANGED <<stick, iso, damaged, run, result>>
        BY <1>3 DEF Upload, MergePin, stickVars
    <2> QED
        BY <2>1 DEF StickInv
<1>4. CASE \E force \in BOOLEAN : PrepareStart(force)
    <2>1. UNCHANGED <<stick, iso, damaged>> /\ result' = "none"
        BY <1>4 DEF PrepareStart, stickVars
    <2> QED
        BY <1>2, <2>1
<1>5. CASE CopyIso
    <2>1. /\ run.at = "iso" /\ result' = result /\ stick' = stick
          /\ iso' = [iso EXCEPT ![run.pin.date] = "good"] /\ damaged' = damaged \ {run.pin.date}
        BY <1>5 DEF CopyIso
    <2>2. result = "none"
        BY <2>1 DEF StickInv
    <2>3. \A part \in Parts : stick'[part].state = "lost" => "bundle" \in damaged'
        BY <1>1, <2>1 DEF StickInv
    <2>4. \A d \in Dates : iso'[d] = "bad" => d \in damaged'
        BY <1>1, <2>1 DEF StickInv
    <2> QED
        BY <2>1, <2>2, <2>3, <2>4 DEF StickInv
<1>6. CASE FetchBundle \/ ClearPackages \/ ClearRest \/ Expand \/ Expanded
    <2>1. /\ UNCHANGED <<stick, iso, damaged>> /\ run.at # "idle"
          /\ result' = result \/ Finish("failed")
        BY <1>6 DEF FetchBundle, ClearPackages, ClearRest, Expand, Expanded, stickVars, Quiet
    <2>2. result = "none"
        BY <2>1 DEF StickInv
    <2>3. result' = "none" \/ (run'.at = "idle" /\ result' = "failed")
        BY <1>1, <2>1, <2>2, RunMoves
    <2> QED
        BY <1>2, <2>1, <2>3
<1>7. CASE Mirror
    <2>1. PICK part \in Parts : stick' = stick \/ stick' = [stick EXCEPT ![part] = offline[part]]
        <3>1. run.part \in 1..7
            BY <1>1, <1>7, Orders DEF Mirror
        <3>2. MirrorOrder[run.part] \in Parts
            BY <3>1, Orders
        <3> QED
            BY <1>7, <3>2 DEF Mirror
    <2>2. UNCHANGED <<iso, damaged, result>> /\ run.at = "mirror"
        BY <1>7 DEF Mirror, Quiet
    <2>3. offline[part].state # "lost"
        BY DEF OfflineInv, NoneLost
    <2>4. \A p \in Parts : stick'[p].state = "lost" => "bundle" \in damaged'
        BY <1>1, <2>1, <2>2, <2>3 DEF StickInv, Directory
    <2>5. result' = "none"
        BY <2>2 DEF StickInv
    <2> QED
        BY <2>2, <2>4, <2>5 DEF StickInv
<1>8. CASE CheckStick
    <2>1. /\ run.at = "mirror" /\ run.part > Len(MirrorOrder)
          /\ UNCHANGED <<stick, iso, offline, damaged>>
          /\ Finish(IF iso[run.pin.date] \in {"good", "bad"} /\ BundleComplete(stick, run.pin)
                    THEN "ready" ELSE "failed")
        BY <1>8 DEF CheckStick, pcVars, Quiet
    <2>2. run'.at = "idle" /\ run'.pin = run.pin
        BY <1>1, <2>1 DEF Finish, RunState
    <2>3. result' = "ready" => iso[run.pin.date] \in {"good", "bad"}
        BY <2>1 DEF Finish
    <2>4. ASSUME "bundle" \notin damaged
          PROVE  \E b \in Builds : OneBuild(stick, b) /\ DateOf[b] = run.pin.date
        <3>1. \A j \in 1..7 : UpToDate(MirrorOrder[j])
            BY <1>1, <2>1, Orders DEF MirrorInv
        <3>2. \A part \in Parts : UpToDate(part)
            BY <3>1, MirrorsAll
        <3>3. NoneLost(stick)
            BY <2>4 DEF StickInv, NoneLost
        <3>4. stick = offline
            BY <1>1, <3>2, <3>3, UpToDateIsSame
        <3> QED
            BY <2>1, <3>4 DEF MirrorInv
    <2> QED
        BY <1>1, <2>1, <2>2, <2>3, <2>4 DEF StickInv
<1>9. CASE Stop
    <2>1. run.at # "idle" /\ UNCHANGED damaged /\ Finish("failed")
        BY <1>9 DEF Stop
    <2>2. run'.at = "idle" /\ result' = "failed"
        BY <1>1, <2>1, RunMoves
    <2>3. \A d \in Dates : iso'[d] = "bad" => d \in damaged'
        <3>1. iso' = iso \/ iso' = [iso EXCEPT ![run.pin.date] = "torn"]
            BY <1>9 DEF Stop
        <3> QED
            BY <1>1, <2>1, <3>1 DEF StickInv
    <2>4. ASSUME NEW p \in Parts, stick'[p].state = "lost"
          PROVE  "bundle" \in damaged'
        <3>1. CASE run.at = "mirror" /\ run.part <= Len(MirrorOrder)
            <4> DEFINE part == MirrorOrder[run.part]
            <4>1. part \in Parts
                BY <1>1, <3>1, Orders
            <4>2. PICK c \in {stick[part]} \union (IF UpToDate(part) \/ offline[part] = Absent THEN {}
                                                   ELSE CutOff(part, offline[part].build)) :
                        stick' = [stick EXCEPT ![part] = c]
                BY <1>9, <3>1 DEF Stop
            <4>3. c = stick[part] \/ c.state # "lost"
                BY <4>2 DEF CutOff
            <4> QED
                BY <1>1, <2>1, <2>4, <4>1, <4>2, <4>3 DEF StickInv, Directory
        <3>2. CASE ~(run.at = "mirror" /\ run.part <= Len(MirrorOrder))
            <4>1. UNCHANGED stick
                BY <1>9, <3>2 DEF Stop
            <4> QED
                BY <2>1, <2>4, <4>1 DEF StickInv
        <3> QED
            BY <3>1, <3>2
    <2> QED
        BY <2>2, <2>3, <2>4 DEF StickInv
<1>10. CASE BadCopy
    <2>1. /\ run.at = "iso" /\ UNCHANGED stick /\ Finish("failed")
          /\ iso' = [iso EXCEPT ![run.pin.date] = "bad"] /\ damaged' = damaged \union {run.pin.date}
        BY <1>10 DEF BadCopy
    <2>2. run'.at = "idle" /\ result' = "failed"
        BY <1>1, <2>1, RunMoves
    <2>3. \A d \in Dates : iso'[d] = "bad" => d \in damaged'
        BY <1>1, <2>1 DEF StickInv
    <2>4. \A part \in Parts : stick'[part].state = "lost" => "bundle" \in damaged'
        BY <2>1 DEF StickInv
    <2> QED
        BY <2>2, <2>3, <2>4 DEF StickInv
<1>11. CASE Lose
    <2>1. run.at = "idle" /\ UNCHANGED run /\ result' = "none"
        BY <1>11 DEF Lose
    <2>2. CASE \E part \in Parts : stick' = [stick EXCEPT ![part].state = "lost"]
                                  /\ damaged' = damaged \union {"bundle"} /\ UNCHANGED iso
        BY <2>1, <2>2 DEF StickInv
    <2>3. CASE \E date \in Dates : iso' = [iso EXCEPT ![date] = "bad"]
                                  /\ damaged' = damaged \union {date} /\ UNCHANGED stick
        BY <1>1, <2>1, <2>3 DEF StickInv
    <2> QED
        BY <1>11, <2>2, <2>3 DEF Lose
<1> QED
    BY <1>3, <1>4, <1>5, <1>6, <1>7, <1>8, <1>9, <1>10, <1>11 DEF UsbStep, PrepareStep

\* Nothing that happens on the bench changes the checkout or what is on the stick.
LEMMA ReadyStep == IInv /\ ReadyInv /\ [Next]_vars => ReadyInv'
<1> SUFFICES ASSUME IInv, ReadyInv, [Next]_vars PROVE ReadyInv'
    OBVIOUS
<1>1. CASE UsbStep
    <2>1. /\ UsbTypeOK /\ Filled(stick) /\ Filled(offline) /\ RunInv
          /\ OfflineInv /\ MirrorInv /\ StickInv
        BY DEF IInv, TypeOK, PlaceInv, ReadyInv
    <2> QED
        BY <1>1, <2>1, OfflineKeeps, MirrorKeeps, StickKeeps DEF ReadyInv
<1>2. CASE ~UsbStep
    <2>1. UNCHANGED <<offline, stick, iso, run, result, damaged>>
        BY <1>2 DEF Next, vars, usbVars, pcVars, stickVars, Start, Install, InstallFails, WriteStamp,
           StampFails, PowerOn, PowerOff, Carry
    <2> QED
        BY <2>1 DEF ReadyInv, OfflineInv, MirrorInv, StickInv, UpToDate
<1> QED
    BY <1>1, <1>2

\* What one build says of itself.
LEMMA OneBuildVerifies ==
    ASSUME NEW b \in Builds, OneBuild(stick, b)
    PROVE  /\ Matches(stick, "manifest", b) /\ stick["manifest"].build = b
           /\ PackagesVerify(stick) /\ stick["sums"].build = b
           /\ stick["psums"].state \in {"absent", "whole", "torn"}
           /\ stick["psums"].state = "whole" =>
                ProfilesVerify(stick) /\ HelperVerifies(stick) /\ HasProfile /\ ProfileCovered
<1>1. /\ Entire(b).state = "whole" /\ Entire(b).build = b /\ Absent.state = "absent"
      /\ \A part \in {"packages", "manifest", "sums"} : stick[part] = Entire(b)
    BY EntireIs DEF OneBuild
<1>2. Matches(stick, "manifest", b) /\ stick["manifest"].build = b
    BY <1>1 DEF Matches
<1>3. PackagesVerify(stick) /\ stick["sums"].build = b
    BY <1>1 DEF PackagesVerify, Verifies, Matches
<1>4. stick["psums"].state \in {"absent", "whole", "torn"}
    BY <1>1 DEF OneBuild
<1>5. ASSUME stick["psums"].state = "whole"
      PROVE  ProfilesVerify(stick) /\ HelperVerifies(stick) /\ HasProfile /\ ProfileCovered
    <2>1. /\ \A part \in {"profiles", "helper", "hsums"} : stick[part] = Entire(b)
          /\ stick["psums"].build = b
        BY <1>1, <1>5 DEF OneBuild
    <2>2. ProfilesVerify(stick)
        BY <1>1, <1>5, <2>1 DEF ProfilesVerify, Verifies, Matches
    <2>3. HelperVerifies(stick)
        BY <1>1, <2>1 DEF HelperVerifies, Verifies, Matches
    <2>4. HasProfile
        BY <1>1, <1>5, <2>1 DEF HasProfile, Named
    <2>5. ProfileCovered
        BY <1>1, <2>1 DEF ProfileCovered, Content
    <2> QED
        BY <2>2, <2>3, <2>4, <2>5
<1> QED
    BY <1>2, <1>3, <1>4, <1>5

\* What the doctor passes, and a profile of the bundle covers, is what
\* bootstrap.sh asks for.
LEMMA VerifiedStarts ==
    ASSUME stick["manifest"].state = "whole" => DateOf[stick["manifest"].build] = live,
           PackagesVerify(stick), HasProfile, ProfilesVerify(stick), HelperVerifies(stick),
           ProfileCovered, NEW p \in Profiles
    PROVE  Bootstrap(p, FALSE) \in {"ready", "installing"}
<1>1. stick["sums"].state # "absent" /\ stick["packages"].state # "absent"
    BY DEF PackagesVerify, Verifies, Matches
<1>2. BundleFound(p)
    BY <1>1 DEF BundleFound
<1>3. KernelFits
    BY DEF KernelFits
<1>4. Verified(p)
    BY DEF Verified
<1> QED
    BY <1>2, <1>3, <1>4 DEF Bootstrap

\* The second invariant holds in every reachable state.
LEMMA ReadyInvHolds == Spec => [](IInv /\ ReadyInv)
<1>1. IInv /\ ReadyInv /\ [Next]_vars => (IInv /\ ReadyInv)'
    BY StepKeeps, ReadyStep
<1> QED
    BY <1>1, InitInv, ReadyInit, PTL DEF Spec

\* However often a preparation was stopped, whatever bundle was on the stick or in
\* the checkout before, and whatever zip is pinned: a stick that prepare-usb.ps1
\* calls ready, and that has lost nothing, holds the pinned ISO and one whole
\* bundle made for it (prepare-usb.ps1:491-616, 942-1061).
THEOREM ReadyStickIsPinned == Spec => []ReadyStickMatchesPin
<1>1. ASSUME IInv, ReadyInv, result = "ready"
      PROVE  /\ run.pin.date \notin damaged => iso[run.pin.date] = "good"
             /\ "bundle" \notin damaged =>
                /\ Matches(stick, "manifest", stick["manifest"].build)
                /\ DateOf[stick["manifest"].build] = run.pin.date
                /\ PackagesVerify(stick)
                /\ PackagesOf[stick["sums"].build] = PackagesOf[stick["manifest"].build]
                /\ stick["psums"].state = "whole" => ProfilesVerify(stick) /\ HelperVerifies(stick)
                /\ stick["psums"].state \in {"absent", "whole", "torn"}
    <2>1. StickInv
        BY <1>1 DEF ReadyInv
    <2>2. run.pin.date \notin damaged => iso[run.pin.date] = "good"
        BY <1>1, <2>1 DEF StickInv
    <2>3. ASSUME "bundle" \notin damaged
          PROVE  \E b \in Builds : OneBuild(stick, b) /\ DateOf[b] = run.pin.date
        BY <1>1, <2>1, <2>3 DEF StickInv
    <2> QED
        BY <2>2, <2>3, OneBuildVerifies
<1>2. IInv /\ ReadyInv => ReadyStickMatchesPin
    BY <1>1 DEF ReadyStickMatchesPin
<1> QED BY <1>2, ReadyInvHolds, PTL

\* What the doctor passes, with the profiles of the bundle whose packages are
\* there, and a ready stick with its last file, starts with either profile on its
\* ISO (safe_triage.py:69-139, bootstrap.sh:48-143).
THEOREM ReadyOrPassedStart == Spec => []ReadyOrPassedStarts
<1>1. ASSUME IInv, ReadyInv, AtBench,
             \/ Doctor /\ ProfileCovered
             \/ /\ result = "ready" /\ "bundle" \notin damaged
                /\ live = run.pin.date /\ stick["psums"].state = "whole",
             NEW p \in Profiles
      PROVE  Bootstrap(p, FALSE) \in {"ready", "installing"}
    <2>1. CASE Doctor /\ ProfileCovered
        BY <2>1, VerifiedStarts DEF Doctor
    <2>2. CASE /\ result = "ready" /\ "bundle" \notin damaged
               /\ live = run.pin.date /\ stick["psums"].state = "whole"
        <3>1. PICK b \in Builds : OneBuild(stick, b) /\ DateOf[b] = run.pin.date
            BY <1>1, <2>2 DEF ReadyInv, StickInv
        <3> QED
            BY <2>2, <3>1, OneBuildVerifies, VerifiedStarts
    <2> QED
        BY <1>1, <2>1, <2>2
<1>2. IInv /\ ReadyInv => ReadyOrPassedStarts
    BY <1>1 DEF ReadyOrPassedStarts
<1> QED BY <1>2, ReadyInvHolds, PTL
===============================================================================
