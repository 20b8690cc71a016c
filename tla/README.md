# update_engine: specifications, model checking and proofs

update_engine downloads an operating system image, writes it to the slot that is not
running, verifies it and switches slots, so that the device can always boot. This
directory holds TLA+ models of that program, the TLC configurations that check them on
small instances, and proofs that TLAPS checks for every value of the constants.
`PROJECT.json` maps every definition to the lines it models. Paths below are relative to
`src/`.

## Inventory

| Part | State | Operations | Talks to |
|---|---|---|---|
| ActionProcessor (`common/`) | queue, current action, suspended, saved code | enqueue, start, stop, suspend, resume, ActionComplete | actions and a delegate, by synchronous callbacks |
| UpdateAttempterAndroid (`aosp/update_attempter_android.cc`) | status, install plan, cleanup result | ApplyPayload, Suspend, Resume, Cancel, ResetStatus, CleanupSuccessfulUpdate, AllocateSpaceForPayload | processor, preferences, boot control, posted tasks |
| UpdateBootFlagsAction | two static flags | perform, terminate, late callback | boot control, asynchronously |
| CleanupPreviousUpdateAction | running, one scheduled task | start, stop, wait for boot, slot and merge | SnapshotManager, timers |
| DownloadAction | code, writer | perform, ReceivedBytes, complete, terminate, suspend | fetcher, DeltaPerformer |
| HTTP fetchers (`libcurl_http_fetcher.cc`, `common/multi_range_http_fetcher.cc`) | offsets, retries, paused, terminating | begin, pause, terminate, timeouts | libcurl callbacks, DownloadAction |
| DeltaPerformer (`payload_consumer/`) | next operation, partition, buffer, two digests | Write, checkpoint, resume, verify | partition writers, preferences |
| Partition writers, extent writers | target, cache, COW labels | Init, five kinds of operation, checkpoint, Close | block devices, COW |
| FilesystemVerifierAction | partition, offset, hash | hash, write verity, source check | block devices, posted steps |
| PostinstallRunnerAction, Subprocess | partition, running command | mount, run, suspend, terminate, complete | child processes, boot control |
| DynamicPartitionControlAndroid | mapped devices, target supports snapshots | prepare, map, finish, reset | SnapshotManager, lpmetadata |
| Preferences | files | get, set, delete | file system |
| ChromeOS attempter, Omaha actions, PayloadState, P2P (`cros/`) | status, scheduled check, URL index, failure and attempt counts, back-off, waiting periods | schedule, check, update, install DLCs, error events, rollback | update manager, Omaha server, peers, processor |
| Update manager | cached variables, evaluation and its deadlines | async policy request, re-evaluate, expire | providers, event loop |
| Payload generator, scripts | worker threads, blob file (host tools) | build, check and apply payloads | files |
| Services, clients, metrics, logging | observers | forward, report | binder, D-Bus |

The hard behaviours: one thread with posted tasks and callbacks that outlive the action
that asked for them; actions that finish while suspended; crashes and power cuts between
two writes; failures that are only logged; retries and timeouts of transfers; a reboot
that may roll back. What makes the parts correct is that the status and the processor
agree, that the bootloader's choice is always an intact image, that what the preferences
promise is on the target, that retries are bounded and that everything started ends.

## Modules

### The Android daemon and its download

**ActionProcessor** is `common/action_processor.cc`: the variables are its fields, the
actions its public methods, `ActionComplete` included with the start of the next action.
**ActionProcessorClient** adds a client that calls in any order, actions that complete
with any code at any time, and what the delegate was told.

**UpdateAttempter** extends ActionProcessor with the Android daemon, the six actions of
an update, the preferences, and, marked external, the SnapshotManager and the boot
control HAL. The daemon has one thread; `call` says what it is inside of, so that a
crash can come between the steps of ResetStatus or of the slot switch. `tasks` is the
message loop. An image is its payload, how much of the data is there, and whether verity
data is. **MCUpdateAttempter** gives actions identities.

**DeltaPerformer** has the detail of the download: operations, partitions, both digests
and every preference write of a checkpoint as a step that may fail or be the last. A
digest is the length of the prefix it covers. **MCDeltaPerformer** has three partitions,
one without operations, and operations without data. The build is an official one (hash
checks mandatory), there is one payload in the plan, and ShouldCancel is false, as on
Android. The code ignores the results of two calls of a checkpoint; the constant
`Unnoticed` says which of them may fail (see below). **ResumableUpdate** is the abstract
specification: an update that is interrupted goes on with exactly one state that was
saved, of the same payload, or begins anew; saving and dropping are one step each.
DeltaPerformer implements it (property `GoesOnWhereSaved`, theorem
`ImplementsResumableUpdate`): what is saved is the record of the five preferences while
NextOperation is positive, and nothing otherwise.

### Transfers

**MultiRangeHttpFetcher**, **LibcurlHttpFetcher** and **FileFetcher** are the fetchers
of the same names. A method of the first runs inside a call of a base fetcher and calls
it back; it is an operator from state to state, whose field `begin` says that its last
act is a `BeginTransfer`. `conn` is libcurl and the server, external: whole or cut
short, failing at any time. **HttpFetcher** puts a DownloadAction on top, which pauses,
resumes and terminates between two callbacks. **Transfer** is the abstract
specification, what `HttpFetcherDelegate` promises: the bytes asked for, each once and
in order, then one end. HttpFetcher implements it (`INSTANCE Transfer WITH`, property
`KeepsPromise`, theorem `FetchersKeepPromise`).

### The actions of an update

**ActionHost** extends ActionProcessor with the thread that runs actions.
**CleanupPreviousUpdateAction**, **FilesystemVerifierAction**,
**PostinstallRunnerAction** and **Subprocess** have one action per method, task and
callback of their sources. **InstallActions** puts them on one processor with a user who
suspends and cancels and a daemon that crashes. UpdateAttempter has the same actions in
fewer steps; the detail is here, the daemon is there.

### ChromeOS

**ChromeosUpdateAttempter** is `cros/update_attempter.cc` with the Omaha actions and the
download by how they end. `ua` is the attempter and the update manager, `slot` the other
slot and which one is active. **UpdateManager** has the asynchronous requests,
**PayloadState** the URLs, counters, exclusions and back-offs, **Scattering** the
waiting periods of managed devices. The last three are records that the operators map to
the next.

### From images to images

**ExtentRanges** (with SplitSourceCopy, which splits a list of extents), **ExtentUtils**
(`extent_utils.cc`), **ABGenerator** (operations and the blob file),
**MergeSequenceGenerator** and **PayloadFile** (with `checker.py` and `applier.py`) are
the operators of **PayloadGenerator**, in which the worker threads of all partitions
store one blob a step. **FileDescriptors** and **PartitionWriter** are what
**PayloadInstall** installs that payload with, on a device with partitions of its own,
with dm-snapshots or with COWs, in pieces of half blocks and with crashes. An image maps
blocks to contents; a hash is what was hashed; REPLACE_XZ stands for REPLACE_BZ too, and
DIFF for bsdiff and puffdiff.

### Proofs and instances

**ActionProcessorProofs**, **UpdateAttempterProofs**, **DeltaPerformerProofs**,
**HttpFetcherProofs**, **InstallActionsProofs**, **ChromeosUpdateAttempterProofs**,
**ExtentRangesProofs** and **PayloadGeneratorProofs** hold the theorems and their
lemmas. The **MC** modules give the constants their values.

## Runs

| Run | Checks | Result |
|---|---|---|
| `action_processor` | IsRunning is exact; nothing queued behind a failure runs; ProcessingDone has the last code; a processing ends | holds |
| `update_attempter` | status against processor; late callbacks; the image the bootloader picks; the reboot marker; success means the next boot; every update ends | holds, **under the assumption below** |
| `delta_performer` | resume point; digests; complete application; bounded resumes; implements ResumableUpdate; completion | holds, **under the assumption below** |
| `http_fetcher` | implements Transfer; CHECKs hold; one pending event; paused means silent; every transfer ends, with one exception stated below | holds |
| `update_actions` | no task, child or mount outlives its action; only a verified image becomes active; merges only after a good boot; powerwash undone; every session ends | holds, **under the assumption below** |
| `chromeos_update_attempter` | package and URL index; always scheduled; reboot marker; half-written slot never boots; installs in the end | holds, **under the assumption below** |
| `payload_generator` | payload makes the target, merges in place, host tools agree, the device ends with the image or an error; ExtentRanges against a set of blocks | holds |
| `network_released` | the network is released when the attempt is over | violated |
| `idle_reset` | an intact image after ResetStatus while idle | violated |
| `end_of_install_label` | every COW has the label the verifier opens it at | violated |
| `attempt_ends` | a terminated download completes | violated |
| `unreachable_package` | a URL that delivers nothing is given up | violated |

### What `update_attempter` assumes

The code does not guard against six calls or failures that do harm in some states. The
constant `Undisciplined` names the ones a run admits. The passing run admits none, so it
shows that the daemon is safe *when clients and the HAL avoid them*, not that it is safe
whatever they do. Each one alone breaks a property:

| Element | What is admitted | Breaks |
|---|---|---|
| `Start` | a call between ApplyPayload and the posted start | TasksFindTheirAction |
| `IdleReset` | ResetStatus when idle with the target slot active | BootsIntactImage |
| `Cleanup` | CleanupSuccessfulUpdate when a reboot is needed | RebootNeededIsKept |
| `Allocate` | AllocateSpaceForPayload when not idle or with the target slot active | BootsIntactImage |
| `SetActiveFails` | SetActiveBootSlot failing in ResetStatus on Virtual A/B | BootsIntactImage |
| `MarkFails` | MarkSlotUnbootable failing while the target slot is active | BootsIntactImage |

`IdleReset` is kept as a run because the README of the repository promises the opposite;
the others are listed as hazards. The theorems name the elements they exclude: the types
need none excluded, status and tasks only `Start`, the marker `Start` and `Cleanup`, the
boot properties all but `Cleanup`.

### What `delta_performer` and `update_actions` assume

The code ignores the results of some calls and goes on. The constant `Unnoticed` names
the calls that may fail so; it is empty in the runs. What each element breaks:

| Module | Element | What may fail | Breaks |
|---|---|---|---|
| DeltaPerformer | `Reset` | the quick reset at the head of a checkpoint (`delta_performer.cc:1412`) | ResumePointIsConsistent, DigestedOnceInOrder, AppliedCompletely, GoesOnWhereSaved |
| DeltaPerformer | `Writer` | the label or the flush of a checkpoint (`vabc_partition_writer.cc:159`, `partition_writer.cc:654`) | ResumePointIsConsistent, AppliedCompletely |
| InstallActions | `MarkSlotUnbootable` | marking the target slot before it is written (`download_action.cc:85`) | BootsWhatWasVerified |
| InstallActions | `CancelPowerwash` | taking the powerwash back after a failure (`postinstall_runner_action.cc:400`) | PowerwashUndone |

With `Reset` an attempt that is interrupted inside the checkpoint resumes with the old
operation number and digests or offsets of the new checkpoint. With either element of
DeltaPerformer a download can be reported complete with operations missing on the
target, since VerifyPayload looks at the payload's hashes only; FilesystemVerifierAction
would find it.

### What `http_fetcher` excepts

Connections may fail any number of times. The limits of retries end a transfer all the
same, but for one behaviour, `RetriesForEver`: once a host could not be resolved the
fetcher is in the state kRetry, in which every end of a connection without a response
raises the limit that it counts against by one. While connections fail without a
response, and not because the host cannot be resolved, it retries for ever. A response,
a second failure to resolve the host or a termination ends this.

### What `chromeos_update_attempter` assumes

`Undisciplined` is empty there too. `MarkFails`: MarkSlotUnbootable fails, which is only
logged; the slot is then written while it is bootable, and after a crash a rollback
makes the half-written slot active, which breaks BootsWholeImage. A SetActiveBootSlot
that fails after it has raised the priority of the slot is part of the run. `Refused`:
AttemptRollback is refused while a DLC is being installed; `Rollback()` clears
`is_install_` before `CanRollback()` can refuse, so the installation ends in
UPDATED_NEED_REBOOT, although the log of its end says that no reboot is needed.
`Partitions`: a rollback fails after `set_delegate` while a ping is in flight, whose end
then looks like a finished update. Each of these two alone breaks RebootPending. The
lookup of a peer is taken to be made: `LookupPayloadViaP2P` returns without a lookup,
and so without an end of the action, for a package hash that is not hexadecimal. The
build is an official one and at most two failures, crashes or client calls happen.

### The five violations

- `network_released`: `TerminateUpdateAndNotify` returns early in
  CLEANUP_PREVIOUS_UPDATE, a status an update also passes through.
- `idle_reset`: postinstall completes while suspended, the update is cancelled,
  ResetStatus deletes the snapshots of the slot that is now active.
- `end_of_install_label`: a crash after the last checkpoint of a partition and before
  its label. That a missing label is refused is libsnapshot's doing, which is not in
  this repository.
- `attempt_ends`: `FinishedInstallOps()` fails, `Write` returns false with kSuccess.
- `unreachable_package`: the bytes of the first package reset the failure count that the
  second one's dead URL raised, in every attempt.

### Bounds

Four actions allow a queue behind a failure behind a suspension. Two attempts of two
payloads, one crash and three boots allow an update, its rollback or merge, and a second
update of the other payload. Five operations in three partitions allow a checkpoint
inside, at the end of and between partitions; three faults allow a failed resume of a
resumed update; a limit of two resumes is reached.

A file of five bytes, chunks of three, two proxies and small limits of retries, with any
number of failures, let ranges be cut inside a chunk, retried and resumed with another
proxy. Beyond `NoNetworkBound` the model lowers the count of retries without a network
where the code raises their limit, which leaves as many. Three partitions, four children
and two sessions let a verifier remap, fail and run again beside a suspended child.
Three packages with bad first URLs, a delta that fails, limits of one or two, and two
units of trouble reach every exclusion, back-off and fall-back. Images of up to seven
blocks in every arrangement of moved, zero, compressible and diffable blocks have
cycles, self-overlaps and extents split by every limit; a cache of two blocks is smaller
than an operation; two restarts resume a resumed installation.

### Fairness

`action_processor`: an action that is not suspended completes, and a suspended processor
is resumed. `update_attempter`: the main loop runs tasks and delivers events, and a
suspended update is resumed; `UpdateEnds` speaks only of behaviours that are not
suspended for ever. It also takes every download to end with a code, which
`attempt_ends` shows is not always so, and every postinstall command to exit.
`delta_performer`: the loop runs and the client applies the same payload again; faults
are not fair and are bounded. `UpdateCompletes` excepts the download that is left
terminated without a code. `http_fetcher`: the loop runs, libcurl makes progress, and a
paused transfer is resumed; nothing is assumed about failures. `update_actions`: the
boot completes and its slot gets marked, a merge ends, children exit, a suspended
session is resumed. `chromeos_update_attempter`: the loop, the network's answers and the
clock; client calls, failures and policy changes are not fair. CHECK_DEADLOCK is off
where a system may stop: all sessions used, no slots to update, payload installed.

## Proofs

**ActionProcessorProofs** proves the three safety invariants of `action_processor`, and
the types of its variables, for any number of actions and codes. The inductive invariant
adds that the saved code is the last one while suspended without an action, and that
queued actions are numbered below the next one.

**UpdateAttempterProofs** proves the five safety properties of `update_attempter` and
its type invariant for any number of attempts, crashes and boots and every set of
payloads, from `BoundsAssumption`, `CodesAssumption`, `KindsAssumption` and
`DevicesAssumption`. StatusMatchesProcessor and TasksFindTheirAction follow from
`ProcInv`: the queue is what is left of one attempt's actions (`QueueInv`), the call the
thread is in belongs to the current one (`CallInv`), at most one callback of a boot
flags action is posted and no other such action is performed before it ran (`TasksInv`),
and the status tells the stage (`StatusInv`). `MarkerInv` adds that the marker is never
of a boot to come. BootsIntactImage is far from inductive. `DeviceInv` says that the
running slot is intact and the other one too once the bootloader would take it
(`SlotsInv`), that snapshots that are still written, were rolled back or are run from
belong to a device that boots what it runs (`SnapshotsInv`), and for each stage of the
pipeline what the stages before it have seen to (`PipelineInv`): no merge and no rolled
back snapshot is left once the plan is handed on, the bootloader stays with the running
slot from the download to the slot switch, and postinstall finds the whole image of the
plan's payload. ReportedSuccessBoots is an action property proved from all three.

**DeltaPerformerProofs** proves the type invariant and the four safety invariants of
`delta_performer` for every payload, layout and number of faults, from
`PayloadAssumption` (operations and offsets are ordered; the signature is not empty) and
`BoundAssumption`, with the hypothesis `Unnoticed = {}`. ResumePointIsConsistent is not
inductive: a checkpoint is written in steps, so `CheckpointInv` says which preferences
already match memory while NextOperation is invalid, `DigestInv` that memory is itself
right, `WriterInv` and `StorageInv` that partitions behind the current one are complete,
`AttemptInv` that all of it is about one payload, `SignatureInv` and `FailuresInv` the
same for the signature and the count of resumes. The proof has one lemma per action and
in it one step per conjunct, after the facts about the layout, about opening, writing
and closing a partition and about what does not change.

The same invariant gives the refinement of ResumableUpdate: each step of DeltaPerformer
changes only what one action of ResumableUpdate changes, or nothing of it. A checkpoint
drops the saved state with its first write and saves the new one with its last, and
`CheckpointInv` says that all five preferences are of one moment then; `SignatureInv`
covers the one write whose failure goes unnoticed, that of the signature, for which
`Save` leaves it out.

**HttpFetcherProofs** proves the three safety properties of `http_fetcher` and that
HttpFetcher implements Transfer, for every file, request, chunk and buffer and any
number of proxies, retries and failures. `RequestsAssumption` is what
`DownloadAction::StartDownloading` and `AddRange` ensure: at most two ranges, of which
only the last may lack a length. Two ranges also make the joining of the requested
positions a case distinction instead of an induction. `Settled` is the invariant of
MultiRangeHttpFetcher and the DownloadAction between two callbacks: what was handed over
is a beginning of what is wanted, as long as the ranges before the current one and what
was received of it. `Calling` is its weaker form inside a callback, when more may have
come than the range has, and `Answer` and `Taken` are what the methods return.
`CurlOK` ties `bytes_downloaded_` of LibcurlHttpFetcher and the position of its
connection to that place, and says that one thing is waited for; `FileOK` does the same
for FileFetcher, whose running ranges all have a length. Each step then either leaves
the view of Transfer alone or is its `Progress`.

**InstallActionsProofs** proves the six safety properties of `update_actions` for every
list of partitions, plan and image and any number of sessions and interruptions, from
`PartitionsAssumption` (only a partition that is not empty has verity data),
`ImagesAssumption` (there is nothing wrong with an empty partition) and the types of the
other constants. `QueueInv` and `CallInv` are those of the processor. `CleanupInv`,
`VerifierInv` and `PostInv` say that what an action left pending belongs to the current
action, `ImageInv` that what the verifier has hashed it has hashed through devices that
show the verity data and that its verdict so far is true, `SlotInv` that postinstall
only runs on an image that is verified, `MountInv` that what is mounted is the program's
or was left by a crash. OnlyVerifiedImagesBoot has the hypothesis that
`MarkSlotUnbootable` is not in `Unnoticed`, FailureUndoesPowerwash that
`CancelPowerwash` is not; the other four hold whatever fails unnoticed. The lemmas take
the actions one by one: what an action does when it ends, when it goes on, and that each
other one is not concerned.

**ChromeosUpdateAttempterProofs** proves BootsWholeImage, for every server, URL, policy
and number of failures, if `MarkFails` is not in `Undisciplined`, and RebootPending if
that is empty. Neither is inductive. `StatusInv` ties the status to what the processor
runs, `SlotInv` says that the slot cannot be booted from the start of a download to the
end of its installation and that a rollback has found a slot that can be, and
`RebootInv` that the DLC flag of the attempter is the one of the request and that a ping
has no delegate. There is one lemma per method and one per action. StaysScheduled
follows from that invariant, strengthened by `Asked` (there is one request exactly while
the attempter waits, and one that sleeps has been notified of a forced check) and
`Heard` (whatever runs has its delegate). It needs the aborts: where OnUpdateScheduled
would leave nothing scheduled, its CHECK restarts the daemon. IndexInRange, that the
indices of the package and of the URL are within bounds wherever the model reads through
them, follows from `IndexInv` (the read of UpdateCurrentDownloadSource, which feeds
metrics, is not in the model): there is one list of candidate URLs per package of the
response, the index is one of theirs unless there are none, and during a download the
URL index is one of the package's, if the policy has left it any. Each method either
restarts the indices or leaves the packages and the index alone, whatever the server
answers and however many packages, URLs and failures there are.

**ExtentRangesProofs** and **PayloadGeneratorProofs** are about the data that all
operations are made of, for images of any size and lists of any length. The loops of the
code are recursive functions over the list they go through. Induction over such a list
is proved from one fact about sets, that a set of numbers has a least element, so that
no theorem with an operator as its parameter is needed. ExtentRangesProofs shows for
each loop what it returns: AddExtent merges the extents that overlap or touch into one,
SubtractExtent leaves the rest of each, FilterExtentRanges and GetExtentsForBlockCount
name exactly the blocks that they should, in order, and the parts that SplitSourceCopy
makes read what the whole would have copied there. `RangesInv` says that an ExtentRanges
is a set of extents that neither overlap nor touch, that they are the blocks, and that
`blocks_` counts them; every addition and subtraction keeps it, and RangesAreExact
follows for every sequence of them.

PayloadGeneratorProofs has two more results, about `MergeSequenceGenerator::Generate()`
as the worker threads run it, for any number of operations. `SequenceInv` is the
invariant of its loop: each operation is merged, raw or left; what is left is free or
counted; a count is the number of operations left that read what it writes; and nothing
left reads what an operation of the sequence has written. MergeLoopCounts says that
every round keeps it. MergeSequenceIsFound says that every round makes fewer operations
left, so that the loop ends even with cycles, that it never reaches a count that is not
expected, and that what ValidateSequence() checks at the end always holds. The
hypothesis, `WriteApart`, is what Create() establishes: operations in the order of their
destinations, which are disjoint. The run `payload_generator` checks it, with
`SequenceInv`, for every list that its images lead to, as part of MergesInPlace.

TLC has checked the inductive invariants of UpdateAttempterProofs, HttpFetcherProofs and
InstallActionsProofs on instances of the size of their runs, and SequenceInv in its run.

Only model-checked: PayloadMakesTarget, PayloadInstalls, HostToolsAgree, and of
MergesInPlace that the generated operations write apart and what the merged image is.
They are about whole payloads, which the code sorts, filters and concatenates with
functions as parameters (SortSeq, SelectSeq, FlattenSeq and FoldLeft here); what those
return is beyond the installed provers. All liveness is only model-checked too, as
fairness and ENABLED are out of reach.

## What the models show beside the properties

Behaviours of the code met while modelling, kept in the models or excepted by name:

- Generator: a failed StoreBlob goes unnoticed in `ChunkProcessor::ProcessChunk` and
  `AddDataAndSetType`; `PayloadMakesTarget` excepts it (`file.lost`). `checker.py`
  refuses deltas in which only some partitions have an old image, and `applier.py` fails
  on payloads whose verity data the device makes.
- Device: `VABCPartitionWriter::Init` ignores the result of `WriteAllCowOps`;
  `PartitionWriter::CheckpointUpdateProgress` drops that of `Flush()`. `EncodeFEC` reads
  and writes through one descriptor, right only because `PReadAll` restores the
  position. With a bad source block, devices with snapshots fail verification in spite
  of error correction.
- Checkpoints: a quick reset, a label or a flush that fails is ignored, which the tables
  above follow up.
- Fetchers: LibcurlHttpFetcher may retry for ever after a host that could not be
  resolved (`RetriesForEver`). FileFetcher delivers the read in flight when paused, and
  its CleanUp between ranges lifts the pause; without a length it delivers nothing and
  reports success. A retry may ask past the end of the range, which
  MultiRangeHttpFetcher trims.
- Actions: the verifier unmaps partitions whose descriptor is still open, and leaves
  devices mapped when writing verity data fails; a postinstall program that exits before
  SIGSTOP lets the next one run unstopped; kUpdatedButNotActive and a cancellation keep
  the powerwash.
- ChromeOS: ResetStatus with a ping in flight and then a check, and a
  CalculateUpdateParams that fails, abort the daemon, which restarts. CheckForUpdate
  after CheckForInstall drops the installation. A new response deletes the scattering
  prefs just written. A peer's bad payload is charged to the HTTP URL. If the policy
  forbids all URLs of a package that follows the first one, an empty URL is fetched, and
  what is excluded after the failures is its name. A crash between the slot switch and
  ProcessingDone leaves the new slot active without a marker.

## Plan

1. The downloads of UpdateAttempter as those of ResumableUpdate, and its other actions
   as those of InstallActions.
2. DynamicPartitionControlAndroid with the metadata and the mapped devices; preferences
   with torn writes (`prefs.cc` writes files in place); files shared over p2p.

## Not modelled

The services, clients and the sideload program forward calls; providers adapt system
services; metrics, logging and the certificate checker report. File-system readers,
signing and command lines of the generator, protobuf parsing, decompression and
cryptography convert data without control: a model would restate a format or a library.
What DynamicPartitionControlAndroid does beyond its effects on slots and snapshots is
decided by libsnapshot and liblp, which are not in the repository. Left out of modelled
parts: ping days, cohorts, rollback versions and XML of Omaha, what only feeds metrics,
p2p files, EstimateCowSize, sparse holes other than in an ExtentRanges, discarded
partition tails and errors of the target device. CleanupPreviousUpdateAction is that of
the daemon on Virtual A/B: the recovery build, which skips its two waits, and devices
without Virtual A/B, which get a NoOpAction instead, are left out. On a start the daemon
compares the build version and the slot with those of the last one; the model compares
the slot only, as if nobody flashed the slot that runs. The timeout of a poll and the
expiry of an evaluation are one action of UpdateManager. MergeSequenceGenerator is not
checked for dropping as few operations as possible. Start blocks are compared as 32-bit
numbers when operations are sorted, which matters from 16 TiB on.

The map covers about a tenth of all lines under `src/`. Two fifths of those are unit
tests, mocks and test tools, and much of the rest is what this section names, headers
and logging; the definitions name only the lines they translate.
