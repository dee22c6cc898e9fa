------------------------------- MODULE Bundle -------------------------------
(* The offline bundle: the parts build_bundle.sh puts together, what a copy *)
(* of them can look like, and what the checksum files say of a copy.  A     *)
(* part is a file or a group of files; its bytes are known by the build     *)
(* that they come from, and two builds may share the bytes of a part.       *)
EXTENDS Naturals, Sequences, FiniteSets

CONSTANTS
    Dates,       \* of the official ISOs: each has a kernel and a snapshot of its own
    Builds,      \* the runs of build_bundle.sh
    DateOf,      \* the ISO that a build was made for
    PackagesOf,  \* the package files of a build: equal values are equal files
    HelperOf,    \* the native helper of a build
    CountOf,     \* BUNDLE_PACKAGES of a set of package files
    Legacy,      \* the builds made before there were runtime profiles
    None

ASSUME BuildAssumption ==
    /\ DateOf \in [Builds -> Dates] /\ Legacy \subseteq Builds
    /\ None \notin Builds \union Dates
    /\ \A b \in Builds : CountOf[PackagesOf[b]] \in Nat
    /\ \A b, c \in Builds : PackagesOf[b] = PackagesOf[c] => DateOf[b] = DateOf[c]

Groups == {"packages", "profiles", "helper"}
Parts == Groups \union {"manifest", "sums", "hsums", "psums"}

PartsOf(b) == IF b \in Legacy THEN {"packages", "manifest", "sums"} ELSE Parts

\* The bytes of a part.  The profiles and SHA256SUMS name the package files.
Content(part, b) ==
    CASE part \in {"packages", "profiles", "sums"} -> PackagesOf[b]
      [] part \in {"helper", "hsums"} -> HelperOf[b]
      [] part \in {"manifest", "psums"} -> b

\* A copy of a part.  "torn" is a write that was cut off: all the names are
\* there; "missing" lacks files of a group.  "lost" has the size and the time of
\* a whole copy and other bytes.
Copy == [build : Builds \union {None},
         state : {"absent", "whole", "torn", "missing", "lost"}]
Absent == [build |-> None, state |-> "absent"]
Entire(b) == [build |-> b, state |-> "whole"]
CutOff(part, b) ==
    {[build |-> b, state |-> s] : s \in {"torn"} \union (IF part \in Groups THEN {"missing"} ELSE {})}

Directory == [Parts -> Copy]
Named(dir, part) == dir[part].state \notin {"absent", "missing"}

\* What a checksum file of build b says of a part.
Matches(dir, part, b) ==
    dir[part].state = "whole" /\ Content(part, dir[part].build) = Content(part, b)

\* sha256sum -c of a checksum file over the parts it covers.
Verifies(dir, file, covered) ==
    /\ dir[file].state = "whole"
    /\ \A part \in covered : Matches(dir, part, dir[file].build)

PackagesVerify(dir) == Verifies(dir, "sums", {"packages"})
ProfilesVerify(dir) == Verifies(dir, "psums", {"manifest", "profiles", "hsums"})
HelperVerifies(dir) == Verifies(dir, "hsums", {"helper"})
=============================================================================
