# A TLA+ model of gpu-triage

gpu-triage tests one suspect graphics card, chosen by its PCI address, on a
machine booted from a live USB stick. It has to leave usable evidence even when
the card hangs the machine, and it must not touch a card that drives a display
or that the boot was meant to keep away from its driver. This directory holds a
model of the parts of the program on which that depends, model checks of it on
small instances, and proofs for every instance.

## The system

| Component | Source | State | Interacts with |
| --- | --- | --- | --- |
| Checkpoint writer | `app/reporting.py` | which of two media are in use, pending sidecars, the files on the media | called by the state machine; media fail, power is lost |
| Triage state machine, verdict | `app/safe_triage.py`, `app/triage_model.py` | stage, matrix, target as looked up | reads the machine through the collectors, saves through the writer |
| Command line | `app/gpu_diag.py` | exit code | starts the state machine |
| Read-only collectors | `app/collectors.py` | none (sysfs, journal, pstore are read) | machine under test |
| Driver-bound collectors, evidence | `app/driver_probe.py` | none; before/after snapshots are compared | driver, kernel log |
| Helper protocol | `app/vram_helper.py` | none; the event stream of one process | native helper |
| Native VRAM helper | `vram-helper/*.c` | error summary, experiment statuses | Vulkan device, its reader through a pipe |
| ASIC inference | `app/asic_inference.py` | none; profile catalogue | error records of the helper |
| Legacy memtest | `app/legacy_vram.py`, `app/driver_probe.py` | a child process, its pipe and its deadlines | `memtest_vulkan`; no longer called by a triage run |
| Boot quarantine | `liveiso/.../gpu-triage-guard` | `driver_override`, marker files | kernel driver core |
| Launcher, bootstrap | `go.sh`, `start.sh`, `scripts/bootstrap.sh` | mounts, `/run` stamp, installed packages | stick, pacman |
| Bundle, release pin | `offline/*` | manifest, hashes, `release.json` | build workflow |
| USB preparation | `tools/*.ps1` | download cache and its state file | network, Ventoy |

What is hard about it, each with its line in `PROJECT.json` under `hazards`:

- **Crashes are the normal case.** A hang of the card takes the machine with it.
  What the stick holds then is the only evidence, so the order of `os.replace`,
  `fsync` and directory syncs matters, and so does the stage the report names.
- **Media fail half-way.** The stick may turn read-only between two files of one
  report. The run goes on with the mirror in `/run`.
- **The machine changes while it is looked at.** Cards fall off the bus, drivers
  bind, displays are plugged. Each fact is read at another time.
- **A verdict is put together over five stages** from a dozen results, some of
  which overwrite others, and each of which may be missing.
- **Processes are stopped from outside**, by time limits, signals and Ctrl-C, at
  any point of their output.
- **The stick is written on one machine and believed on another.** Preparing it
  may be stopped anywhere and is then repeated; copies are compared by name, size
  and time on one side, by hash on the other; releases change meanwhile.

## The modules

| Module | Models | Kind |
| --- | --- | --- |
| `ReportStore` | what a save promises | abstract specification |
| `CheckpointWriter` | `CheckpointWriter` of `reporting.py`, I/O by I/O | detailed; implements `ReportStore` |
| `CheckpointWriterProofs` | its theorems | proofs |
| `SafeTriage` | one run of `triage`, from arguments to exit code, over `ReportStore` and `HelperRun` | state machine |
| `SafeTriageProofs` | its theorems | proofs |
| `HelperRun` | what Stage 4 may be told of one helper run | abstract specification |
| `VramHelper` | the native helper's process, line by line of its output | detailed |
| `HelperProtocol` | `phase4_helper`, the time limit and the parser, around `VramHelper` | composition; implements `HelperRun` |
| `HelperProtocolProofs` | its theorems | proofs |
| `Evidence` | AER counters and kernel log, before and after, and what is made of the difference | state machine and pure functions |
| `EvidenceProofs` | its theorems | proofs |
| `ErrorSummary` | `gt_summary_add` and the statistics of `analysis.c` | state machine and pure functions |
| `ErrorSummaryProofs` | the lemmas on its records, masks and statistics | proofs |
| `AsicInference` | profiles and `infer_channel_lane`, over `ErrorSummary` | composition |
| `AsicInferenceProofs` | the theorems on both | proofs |
| `LegacyMemtest` | `vulkan_identity`'s mapping and `run_legacy_memtest`, with memtest as its environment | state machine |
| `LegacyMemtestProofs` | its theorems | proofs |
| `Bundle` | the parts of an offline bundle, copies of them, what the checksum files say | data |
| `UsbStick` | release pin, `prepare-usb.ps1` and `sync-to-usb.ps1`, over `Bundle` | state machine |
| `Delivery` | `bootstrap.sh`, `doctor` and the bench, over `UsbStick` | composition |
| `DeliveryProofs` | its theorems | proofs |
| `MC*` | instances for TLC | configurations |

The two large parts that `SafeTriage` only sees from outside, a save and a helper
run, are abstract specifications there (`Store == INSTANCE ReportStore`,
`Helper == INSTANCE HelperRun`), and the detailed modules are shown to implement
just these. What `Evidence` computes is a nondeterministic outcome in
`SafeTriage`, whose `GatherEvidence` allows every status that `AerStatus` and
`FailureSignal` can have.

### ReportStore and CheckpointWriter

`CheckpointWriter` has one action per I/O of `checkpoint()`: the sidecar flush,
the two `atomic_write`s, the directory sync, the `OSError` that takes a medium
out of use, the next attempt, return and raise; and one for `artifact()`. `pc`
is where the writer is, `todo` the destinations left of the `for` loop,
`attempt`, `changed`, `avail`, `pending` and `persistence` are the variables of
the same or a similar name in the code.

A medium is two functions from files to contents. `vis` is what a reader sees
now. `survive` is the *set* of contents a power loss may leave, for the primary
medium: `os.replace` adds one, and adds `Torn` if the data was never fsynced; a
directory sync leaves the visible one alone. `PowerLoss` picks, and clears the
mirror, which is in RAM. This is what POSIX allows a journalling file system to
do; a FAT or exFAT stick, whose rename is not atomic across a power loss, can do
worse, and nothing here speaks of it.

A content is the number of the checkpoint it belongs to and the media that
`report.persistence` names. Everything else of a report is left out.

`ReportStore` is the same seen from outside: `Begin`, any number of `Land`s of
the report on a medium, `Settle` on the primary, `Lose` of media, `Return` or
`Raise`. A save that returns has reached every medium left and cannot be lost
from the primary one. `CheckpointWriter` implements it twice, through its JSON
files and through its Markdown files.

### SafeTriage

`pc` is the place in `run_pre_driver_triage` (`run_safe_cli` and `main` give the
exit code). Each `writer.checkpoint()` is `Store!Begin` followed by steps of the
store at one of the `*_save` places; every collector, probe and the helper is one
action that picks an outcome. `since`, `helper.clean` and `after.aer_readable`
are history: the program does not look at them, the properties do.

What is abstracted:

- The matrix keeps only the rows that can change the verdict. `pci_enumeration`
  and `target_identity` are PASS whenever the matrix exists; the other rows left
  out are neither required nor ever FAIL.
- Link and AER rows of Stage 1 are PASS or WARN (UNAVAILABLE counts as WARN:
  neither fails, neither passes). An experiment is PASS, FAIL or INCONCLUSIVE.
- The quarantine, the blacklist and the presence of other cards are one constant
  `boot`: quarantine outweighs the blacklist in `driver_intent`, and peers matter
  with the blacklist only. They do not change during a run.
- "Not found" and "not a supported device" are the same card, `none`; both abort.
- The program's pure computations take no time: Ctrl-C, power loss and changes of
  the machine happen while it reads, runs a command or saves.
- The machine changes only up to the start of the helper: identity, binding and
  display are not read again after it.
- Sidecars matter here only through the media they may cost.

### VramHelper and HelperProtocol

`VramHelper` is the C program. `at` is the place in `main` and `run_hardware`;
`status`, `errors`, `lost`, `total` and `recorded` are variables of the code. One
action writes at most one line to `stream`, so that a kill or crash may come
between any two lines; a kill in the middle of a line makes the output `spoilt`,
as does a line of a driver on standard error, which shares the pipe. A submission
succeeds, fails, or loses the device. `Enumerations` are the devices Vulkan lists
with the card's IDs: a twin card, one card listed by two drivers, one that tells
no PCI address. `verified` is history: the experiments compared to the end.

`stalled` stands for everything that outlasts the runner's margin of 30 seconds:
a driver that hangs, and the stride statistics, whose time grows with the fourth
power of the bad offsets. Only then can `Kill` happen: the helper keeps its own
time limit otherwise (`TimeLimit`).

`HelperProtocol` starts the process, takes its output when it ends or is killed,
and either makes a report of it or refuses it. What the parser checks of single
fields (types, ranges, the echo of the limits) is left out: the helper writes
them as it was told to. The words compared, patterns and shaders are left out;
a comparison finds any number of mismatches. The helper presets 95 degrees when
the runner leaves the limit out, which it does for `--vram-max-temp-c 0`:
`NotGiven` in `MaxTemp`.

### Evidence

Counters and log are read one after the other, before and after the work, while `Event`s
go on: an error is counted on the card or on a bridge, the card falls off the bus and
comes back (with its counters at 0), a line is logged. `pci_chain` reaches the bridges
through the card, so `ReadCounters` has nothing at all when the card is gone. The
journal keeps all lines and the ring buffer the last `RingSize`; the two write a line
differently, so that each line read carries its source. In `new_log_lines` every old
line takes away the first new one that equals it: what is left, `NewLines`, are the
places of the second log whose rank among equal lines is above the number of those in
the first. `happened`, `renewed` and `mark` are history. A counter is its file and
whether its name contains "fatal", which is what `classify_aer_delta` looks at.

### ErrorSummary and AsicInference

`Comparisons` lists the calls of `compare_words` in order, each with experiment,
allocation, pass and reread; words differ at increasing offsets in each. `Count`,
`Track` and `Record` are what one differing word does; `errors` is history, and
the reference definitions of the properties are stated over it. A word has few
bits, and a way to differ is the set of bits that became 1 and the set that
became 0. The statistics are computed as the code does, pair by pair in the
order in which offsets failed, with a recursive function for each of the two loops
(`StrideCandidate` and `BestFrom`; `Try` is their body), and over sorted offsets
(`ClusterCount`; `Sorted` is what the insertion sort leaves).

`AsicInference` reads the profile files when it is called: `Conclude` picks a
catalogue and whether the device was lost. `Valid` is `validate_profile` for all
that is about addresses, lanes and fixtures; what it asks of sources, format and
versions is the flag `well_formed`, and the checks of the helper's units and
versions the flag `semantics`. Two identical copies of one file cannot be
written down in a set: the code refuses them like any two of one name.

### LegacyMemtest

`view` is what Vulkan enumerates, as entries of a device and the extension that
tells its PCI address. `Identify` is `vulkan_identity`; the two gates
(`legacy_memtest` and the start of `run_legacy_memtest`) are `Proven`. Of the
runner, `pc` is the loop over the selector, the three waits of `communicate()` and
the tail they return; `listed`, `answered` (the code's `selected_index`), `unsafe`
and `selected` are its variables, and `said` is what of memtest's text the verdict
looks for. `consume` is `Hear`. `pipe` is what memtest printed and the runner has
not read. A line is one of the kinds that the code's patterns distinguish, and,
for a device, its bus and device number: the domain is not in it. The verdict reads
the last 2 MiB of the output in the code, all of it in the model.

memtest is external: `prog`, `listing`, `tested`, `found`. It lists some of the view
in any order, takes the entry it was told or, when its prompt runs out, the first,
finds errors, ends, crashes or hangs, and obeys no signal for sure but SIGKILL.
Both deadlines are one choice, `Interrupt`, at any time. `DeviceAssumption` says that
a CPU renderer never has the bus and device number of the target; without it
memtest could list lavapipe in the place of the card.

A call that raises leaves by `raised`: a log medium that fails (`LogFails`), and a
prompt that is heard only in the tail, when memtest's input is closed
(`legacy_vram.py:143`, `:183`; its `ValueError` is not among what is caught).

### Bundle, UsbStick and Delivery

A bundle has seven parts, a part is a file or a group of files, and its bytes are
known by the build they come from; two builds may share the packages or the
helper. A copy is absent, whole, cut off (`torn`), without some of its files
(`missing`) or has lost bytes but not size and time (`lost`). `Verifies` is
`sha256sum -c`.

`UsbStick` has `release_meta.py write`, the upload and the merge of the pin as
actions of a maintainer, and one action for each thing that `prepare-usb.ps1` writes:
ISO, cache, the two halves of `Expand-Bundle`'s clearing, each part unpacked and each
part mirrored, the check and the state file. `run` holds what the script found out
at its start and believes from then on. The order of the parts is that of the zip
(as `build_bundle.sh` lists them) and of `robocopy` (files of a directory first,
then subdirectories). `Stop` ends the run before any of these steps or in it, with
what it was writing cut off. `Lose` pulls the stick before what was written has reached it.
The network is what can be downloaded for a date, `asset`; a failed download is a
`Stop`. `vouched` is the state file.

`Delivery` carries the stick to the bench. `Bootstrap` is everything `bootstrap.sh`
decides before it installs: bundle found, stamp, kernel, checksums, and that
`SHA256SUMS` names every file of the profile (`ProfileCovered`). `Install`,
`InstallFails`, `WriteStamp` and `StampFails` are the rest of it, `BundleId` the stamp.
The live system and all it was given are gone with the power. `Doctor` is what
`run_doctor` asks of a bundle with role profiles. `damaged` is history.

## Runs

| Run | Instance | What it shows |
| --- | --- | --- |
| `checkpoint_writer` | 2 sidecars, 3 checkpoints; 41 413 states | types, durability, order, no torn file, failed media untouched, both refinements, every call ends |
| `safe_triage` | 2 experiments, 1 change; 2.8 million states | verdict, exit code and reports agree; gates hold; the stage is told before the work and after a crash; every run gets to an exit code |
| `vram_helper` | 2 passes, 3 mismatches, 6 enumerations; 767 376 states | only the proven card is used, an accepted report is complete and true, a mismatch fails, `HelperRun` is implemented, the call ends |
| `evidence` | card and bridge, 3 counters, 3 lines, 4 events; 309 821 states | differences of counters and log are neither invented nor lost |
| `diagnosis` | 3 comparisons, 4 offsets, 4 errors, 9 catalogues; 322 883 states | totals are complete, statistics equal their definitions, inference is honest about what it covers |
| `legacy_memtest` | target, twin, CPU renderer, up to 4 entries; 199 450 states | a verdict is about the target, no error is lost in the pipe, the call ends and leaves no memtest behind |
| `delivery` | 3 builds of 2 ISOs, 2 releases, 2 runs, 1 boot, 1 fault; 1.2 million states | what is installed is trusted, what is ready is installed, a ready stick is what the pin says and starts, a rerun heals an interrupted one |
| `failed_primary_pair`, `carried_out`, `totals_preserved`, `aer_severity`, `ready_to_boot` | instances of the above | findings 1 to 5 |

Several properties are conjunctions of facts that belong together, stated in named
parts: `StageIsTold` (`WorkIsAnnounced`, `CrashTellsStage`), `AcceptedIsTrue`,
`StatisticsAreTrue`, `CounterDeltasAreTrue`, `LogDeltaIsTrue`.

Why the bounds are enough. Three checkpoints give a file a content before the
last one that is itself not the first, and allow a checkpoint after a raise. Two
sidecars allow one to be pending while the other is settled. Two experiments are
the fewest of which one can pass while the other does not; rows of experiments
are treated alike. One change of the machine makes a fit card unfit at any point,
or an unfit one fit; two changes would be needed to hide one from the program,
and a card that was fit at each look is one the code accepts.

Two passes let a limit or a loss of the device fall between them. Three
mismatches exceed both record limits, the output limit and what the statistics
can afford. Four events are a loss of the card, its return, and an error before
and after it, or twice as many lines as the ring holds. The three comparisons
have a pass below and one above eight, the masks' width, both allocations and
both rereads; four offsets are one more than are tracked, four errors one more
than are recorded, and their distances hold a tie of strides and a gap of just
the cluster limit.

Four entries are the target and two others with one to spare: the target shown by
two drivers, its twin and a CPU renderer. Memtest lists any of them in any order,
so that the list may lack the target, begin with another card, or hold the twin
alone, which prints the same bus and device number.

The three builds are the fewest that differ in all that the code tells apart: with
and without profiles, same packages and another manifest, other packages of the same
number, another helper. Two releases are a rebuilt bundle and its pin, or two pins;
two runs one that is stopped and one that heals; one boot is enough, as its
end takes stamp and packages along, and `PowerOff` may come anywhere. Two faults, and
two faults with three runs, three releases and one helper for all builds, were
explored too (8.0 and 9.3 million states, too long to be run each time). The latter
is the smallest instance in which two updates are stopped on one stick, and where
`ProfileCovered` matters; `InstalledIsTrusted` and `ReadyMeansInstalled` are proved for
all bounds.

Deadlock is not checked: a run ends, and the media keep what they have.

**Fairness.** The writer is straight-line code of one thread; a call returns or
raises `OSError`, so `CheckpointWriter` is weakly fair for its own steps. In
`SafeTriage` the program's steps are weakly fair because `default_run` gives each
command a time limit, and the saves because `CallEnds` was checked. Nothing is
assumed of media, power, the user or the machine. A process that cannot be killed
(in uninterruptible sleep) is a power loss to the model: the run never ends and
the machine is switched off. In `HelperProtocol` the Python side is weakly fair for
the same reason, and the helper goes on until it stalls: its loops are bounded
and every wait for the device returns or hangs in the driver, which is
`DriverHangs`. Neither needs the helper to end. In `LegacyMemtest` the runner is
weakly fair, one thread under two deadlines and with two timed waits before SIGKILL;
of memtest only that it does not outlive that. In `Delivery` a run of
`prepare-usb.ps1` goes on until it ends or is stopped; nobody is assumed to start one,
to boot or to merge. `Evidence`, `ErrorSummary` and `AsicInference` state safety only.

## What the runs found

Each finding quotes the document it contradicts in `PROJECT.json` under `findings`.

1. `FailedPrimaryKeepsPair`: a medium that fails between the two replacements is
   left with the JSON of one checkpoint and the Markdown of another.
2. `CarriedOut`: one run with Overall PASS refutes both of its halves. The helper was
   killed at its time limit after its summary, crashed, or ignored its limits, and
   no AER counter could be read.
3. `AerSeverity`: the AER row is FAIL for a correctable error, of the counter
   `NonFatalErr`; and it is PASS with a fatal one, as a card that is gone takes the
   counters of its bridges with it.
4. `TotalsArePreserved`: a card with many bad offsets is reported UNAVAILABLE,
   because the helper is killed over its statistics before it writes them.
5. `ReadyToBoot`: one stick refutes both of its halves. Its ISO has lost bytes and is
   called ready, and a legacy bundle on it cannot be started on a bound card, as the
   checkout always brings the directory `offline/profiles` along.

Other places where code and documents, or two parts of the code, do not agree. They
are in the models as they are in the code, and the properties leave room for them:

- `LegacyMemtest`: a failing log medium ends the call with an exception and memtest
  goes on (`legacy_vram.py:163-183`); so does the prompt heard in the tail, though
  memtest is gone by then. `CallEnds` allows `raised`.
- `bootstrap.sh:97` does not compare the kernel when the manifest cannot be read;
  role profiles vouch for the manifest, the legacy union does not. So if the only two
  updates of a stick were both stopped, the second right after `manifest.env`, the
  packages of the first are installed under the kernel of the second. Hence `legacy`
  in `InstalledIsTrusted`.
- `doctor` does not look whether `SHA256SUMS` names the files of the profile, as
  `bootstrap.sh:139` does. A stick with a whole bundle, an update of it stopped after the
  packages and a way back stopped after `PROFILE-SHA256SUMS` passes `doctor` if both have
  the same helper, and `bootstrap.sh` refuses it. Hence `ProfileCovered` in
  `ReadyOrPassedStarts`.
- The zip ends with `PROFILE-SHA256SUMS`. Unpacking that is cut off in this file
  passes the check of names, and such a stick is called ready, though bootstrap
  refuses it. Hence `"torn"` in `ReadyStickMatchesPin`.
- What is mirrored is compared by size and time, so that bytes lost on the stick
  stay lost, with `-Force` too; only the hashes at boot find them.
- `release_meta.py write` compares ISO metadata and manifest, never the zip, which
  `PLAN-USB-VEREINFACHUNG.md:358-361` asks for; and the upload replaces the pinned
  asset before the pin is merged. `RerunHeals` is about pins that can be had.
- The stamp does not cover the packages or the helper, only the files that list
  them; and there is one, so that alternating profiles install again each time.
- `README.md:205` still speaks of a pinned bundle of 2026.08.01; `release.json` pins
  one for 2026.09.01.

## Proofs

`CheckpointWriterProofs` proves, for any finite or infinite set of sidecars and
any bound on checkpoints, from `SidecarsAssumption` (no sidecar has the name of a
main file) and `MaxReportsAssumption`:

- `TypeCorrect`, `AckedReportIsDurable`, `SidecarsAreOrdered`,
  `MainFilesAreWhole`, `FailedMediumStaysUntouched`;
- `WriterImplementsStore` and `MarkdownImplementsStore`: every behaviour of the writer
  is one of the store, seen through the JSON files and through the Markdown ones. The
  steps are proved once, for any main file (`Store(f)`).

None of the properties is inductive by itself. `IInv` adds:

- `AttemptInv`: a second attempt means that a medium failed in the first, so a
  failure in the second leaves none. This is why two attempts suffice and the
  third of `range(3)` never runs.
- `MediaInv`: main files are always fsynced before they are visible, and what is
  visible may survive. So a directory sync settles them.
- `PendingInv`: a sidecar of a primary medium in use that a power loss could still
  take is in `_pending_artifacts`, and none is once the flush is done.
- `ProgressInv`: destinations done in this attempt hold what it writes.
- `CallerInv`: between calls there is a medium left.

`SafeTriageProofs` proves, for any set of experiments and any number of changes of
the machine, from `ExperimentsAssumption` (no experiment has the name of another row)
and `MaxChangesAssumption`, all of `SafeTriage`'s invariants: `TypeCorrect`,
`GuardedRunStaysPreDriver`, `WorkStartsOnConfirmedTarget`, `PassRestsOnEvidence`,
`FailureIsVerdict`, `StageOutlivesCrash` and `ExitCodeTellsReport`. The store is what
`ReportStore` promises, which is what `WriterImplementsStore` proves of the writer's
JSON files. `IInv` consists of:

- `StoreInv`: what `want`, `status` and the media hold at each place. Where driver
  work runs, the report as it is has reached every medium left, durably.
- `GateInv`: a guarded run is at no driver-bound place, and no report that is,
  is being saved or may be read from a medium names one of its stages.
- `ConfirmInv`: how long ago an unfit card can have become unfit, at each place
  between a look at it and the work.
- `CrashInv`: once the helper was started, no report left on the primary medium is of
  an earlier stage, which is what `CrashTellsStage` needs in the middle of a save.
- `EvidenceInv`: at the places where a verdict is drawn, the rows of the matrix say
  what helper, counters and log have said; the only row of an experiment that changes
  on the way goes from PASS to INCONCLUSIVE.
- `VerdictInv`: a PASS, in memory or on any medium, goes with the whole evidence and
  is found only after the verdict; a failure seen is the verdict from there on.

`LegacyMemtestProofs` proves, for any devices and any enumeration and from
`DeviceAssumption`: `TypeCorrect`, `VerdictNamesTarget` and `ErrorsReachVerdict`. Its
`IInv` is `ListingInv` (lines heard and lines in the pipe are together the list that
memtest printed), `IdentityInv` (a memtest that was started has a view of one
graphics card), `ProgInv`, `HeardInv` (what memtest did is heard or in the pipe) and
`ResultInv` (a result is the verdict over an empty pipe).

`HelperProtocolProofs` proves, for any passes, mismatches, options, sensor readings and
enumerations, from `PassesAssumption`, `MaxMismatchesAssumption`, `OptionsAssumption`
and `EnumerationsAssumption`: `TypeCorrect`, `TargetOnly`, `AcceptedReportIsTrue`,
`MismatchIsKept` and `HelperImplementsRun`, which is what makes `SafeTriage`'s use of
`HelperRun` sound for any helper run. Its `IInv` is:

- `PlaceInv`: which experiment is at work where, that the device is the card asked for
  once there is one, and that a process that ended has the exit code of its state.
- `WorkInv`: the total is the sum of the experiments' errors, an experiment that was not
  reached has none, and one that was reported says FAIL exactly for errors on a device
  that was kept, PASS only for what was verified.
- `StreamInv`: what the lines say, wherever the process was stopped. The summary is
  the state at the end, which does not change any more, so a cut output tells
  no less than the whole one or has no summary.
- `LinesInv`: which lines there are if no signal ended the process. Without it an output
  of a process that ended by itself could still be refused (`CompleteOutput`).
- `CallInv`: what the reader holds is what was written, and the result is
  `parse_helper_jsonl` of it.

`EvidenceProofs` proves, for any chain of devices, any counters, any lines and any ring
buffer, from `EndpointAssumption`, `CountersAssumption`, `LogLinesAssumption` and
`BoundsAssumption`: `TypeCorrect`, `DeltasAreTrue` and `LogDeltaHolds`. The invariants
behind them say what has been read at each place of the reading:

- `CountInv`: a counter reads now what it read first and the errors since, but for a
  card that came back, which counts from there on (`Tells`); a card that was not there
  first and is now did come back (`FoundAgain`).
- `LogInv`: each log read is the log of that time without the lines that the ring
  buffer had lost (`Has`, `Skipped`). What `new_log_lines` keeps is then counted by
  rank: of n equal lines, those of a rank above m are n - m (`RankCount`).

`ErrorSummaryProofs` and `AsicInferenceProofs` prove, for any comparisons, offsets, ways
to differ, limits and catalogues, from `ComparisonsAssumption`, `OffsetsAssumption`,
`FlipsAssumption`, `LimitsAssumption`, `CardAssumption` and `CatalogsAssumption`:
`TypeCorrect`, `TotalsComplete`, `StatisticsReal`, `CoverageHonest` and
`MoreFilesHarmless`. Their `IInv` is:

- `EndsInv` and `HistogramInv`: first, last and the counts of each bit are those of every
  word that came back wrong; `RecordInv`: the records are the first of these words.
- `TrackInv`: the offsets tracked are different, each failed, and one that is not tracked
  failed only once the table was full of earlier ones. Without the last part an offset
  could count as reproducible on what was seen of it after the table was full. The masks
  tell all that was seen of an offset in the table.
- `ConclusionInv`: what was inferred is what catalogue and summary, both as they still
  are, lead to.

The statistics are loops over the table. That the recursive functions exist is
`LoopRuns`. What holds after each round is shown by `Counting`: a set of numbers with 0
in it, and with each number the next, has them all, as there is no least one outside
(`LeastExists`). `StrideIsBest` says that the two loops leave a distance no other
beats; the clusters are counted over `Sorted`, which exists (`OrderExists`).

`DeliveryProofs` proves, for any builds, ISOs, faults and bounds, from
`BuildAssumption` (a build is of one ISO, and builds with the same package files are of
the same one), `StickAssumption` ("bundle" is no date, and the faults are three) and
`DeliveryAssumption` (what the safe profile names, the other does): `TypeCorrect`,
`InstalledCanBeTrusted`, `ReadyHasPackages`, `ReadyStickIsPinned` and
`ReadyOrPassedStart`. The first three need nothing of the order in which parts are
written, only that a copy that is there is of some build (`Filled`). Their `IInv` is:

- `PlaceInv`: a run of `prepare-usb.ps1` goes on only at the PC, a start only at the
  bench, and a system that is off has neither packages nor stamp.
- `BootInv`: what `bootstrap.sh` has verified still holds while it installs, and
  what it installed is there while it writes the stamp and after it.
- `StampInv`: the bundle that a stamp stands for is installed for its profile. The
  stick may be another one by then, so this is about the stamp's own bytes.

The last two rest on the orders, and on `ReadyInv` on top of it:

- `OfflineInv`: what each prefix of the zip leaves in the checkout (`Unpacked`), whatever
  an earlier run had left there, and that a part vouches for those before it (`InOrder`).
  The checkout is on the PC, where nothing is lost.
- `MirrorInv`: what is mirrored is one build of the pinned date, and the parts mirrored
  so far are as they are in the checkout.
- `StickInv`: what was lost on the stick is in `damaged`, and a stick called ready has
  one build of the pinned date and its ISO.

Only model-checked: liveness, which is `CallEnds` of `CheckpointWriter`, `HelperProtocol`
and `LegacyMemtest`, `RunEnds` of `SafeTriage` and `RerunHeals` of `Delivery`. It needs
fairness, and with it ENABLED, which the provers used here do not know. Every invariant,
action property and refinement that a passing run checks is a theorem. The five
runs that end with a violation are counterexamples and stay with the model checker.

## What is left

- `SafeTriage` takes from `Evidence` only the statuses its functions can have. That a
  run which saw a severe error ends as FAIL is proved in two halves, `DeltasAreTrue` and
  `FailureIsVerdict`, which no theorem joins.
- Likewise, `legacy` in `InstalledIsTrusted` and `ProfileCovered` in `ReadyOrPassedStarts`
  stand for what the code does today; with the checks that the section above names in
  place, both would be worth proving without them.
- The boot quarantine, should a build install it.

## Not modelled

- **Report rendering**: `markdown_report`, `_bounded_bytes`, the layout of sidecars. They
  format what the report holds already; that a write fails is an outcome in
  `CheckpointWriter` and `SafeTriage`.
- **`list` and most of `doctor`**: they read and print. The part of `doctor` that has to
  agree with `bootstrap.sh` is `Doctor` of `Delivery`.
- **`gpu_diag.py` below its command line**: its quick and memtest code is not reached from
  `main` any more.
- **Boot quarantine**: a prototype hook that no build installs (`liveiso/README.md`). Its
  outcome is the constant `boot` of `SafeTriage`.
- **Launchers** (`go.sh`, `start.sh`): a chain of mounts and tests whose hazards are in
  `mount(8)` and Ventoy's device mapper.
- **How `build_bundle.sh` resolves packages, `release_meta.py iso`, installing Ventoy,
  choosing the drive**: they depend on pacman, archive servers, Windows and the user.
- **Vulkan set-up, patterns, shaders, telemetry**: one step that may fail, any number of
  mismatches, or only read.
