--------------------------- MODULE UpdateAttempter ---------------------------
(***************************************************************************)
(* UpdateAttempterAndroid (aosp/update_attempter_android.cc) composed with *)
(* the ActionProcessor it drives, the six actions of an update pipeline,   *)
(* the preferences that survive a crash of the daemon, and the boot        *)
(* control, snapshots and slot images that survive a reboot.               *)
(*                                                                         *)
(* The daemon has one thread.  call names the call that thread is inside   *)
(* of; while it is not "none" no other call, task or event is handled, but *)
(* the daemon may crash and the device may lose power.  Posted tasks run   *)
(* in the order they were posted.                                          *)
(***************************************************************************)
EXTENDS ActionProcessor, FiniteSets

CONSTANTS
    Payloads,       \* payload ids (file hash and metadata hash)
    NoPayload,      \* the empty payload id
    Devices,        \* subset of BOOLEAN: is Virtual A/B enabled
    Undisciplined,  \* calls, and failures of the boot control HAL, that happen
                    \* even in the states they do harm in, which the code does
                    \* not check for
    MaxAttempts,    \* bound: ApplyPayload calls that are accepted
    MaxCrashes,     \* bound: crashes of the daemon
    MaxBoots        \* bound: boot ids, the first boot included

ASSUME NoPayloadAssumption == NoPayload \notin Payloads
ASSUME UndisciplinedAssumption ==
    Undisciplined \subseteq {"Start", "IdleReset", "Cleanup", "Allocate",
                            "SetActiveFails", "MarkFails"}
ASSUME DevicesAssumption == Devices \subseteq BOOLEAN
ASSUME BoundsAssumption ==
    MaxAttempts \in Nat /\ MaxCrashes \in Nat /\ MaxBoots \in Nat \ {0}
ASSUME CodesAssumption ==
    /\ kSuccess = "kSuccess"
    /\ {"kError", "kUpdatedButNotActive", "kFilesystemVerifierError",
        "kDownloadStateInitializationError"} \subseteq ErrorCodes

VARIABLES
    status,         \* status_
    call,           \* what the main thread is executing
    tasks,          \* posted tasks, oldest first
    bootFlags,      \* UpdateBootFlagsAction's static members
    plan,           \* install_plan_
    writing,        \* the DeltaPerformer has prepared the partitions
    network,        \* the process is bound to a network of the client's
    cleanupCode,    \* cleanup_previous_update_code_, or NoCode
    prefs,          \* the preferences
    snap,           \* SnapshotManager's state, external
    boot,           \* boot control HAL and boot id, external
    image,          \* what each slot holds
    vab,            \* GetVirtualAbFeatureFlag().IsEnabled()
    attempts,       \* accepted ApplyPayload calls
    crashes         \* crashes so far

daemonVars == <<status, tasks, bootFlags, plan, writing, network, cleanupCode>>
deviceVars == <<prefs, snap, boot, image>>
boundVars == <<vab, attempts, crashes>>
vars == <<procVars, daemonVars, call, deviceVars, boundVars>>

NoCode == "none"
Slots == {0, 1}
Kinds == {"BootFlags", "Cleanup", "InstallPlan", "Download", "Verifier", "Postinstall"}
ASSUME KindsAssumption == Kinds \X (0..MaxAttempts) \subseteq Actions
Statuses == {"IDLE", "UPDATE_AVAILABLE", "CLEANUP_PREVIOUS_UPDATE", "DOWNLOADING",
             "VERIFYING", "FINALIZING", "UPDATED_NEED_REBOOT"}
Calls == {"none", "PerformAction", "SetActiveBootSlot", "CompletePostinstall",
          "ResetUpdate", "ResetUpdateFailed", "DeleteMarker", "DeleteMarkerFailed"}

GetCurrentSlot == boot.slot
GetTargetSlot == 1 - boot.slot
Kind == IF current = NoAction THEN "none" ELSE current[1]
Images == [of : Payloads \cup {NoPayload}, data : {"none", "partial", "complete"},
           verity : BOOLEAN]
NoImage == [of |-> NoPayload, data |-> "none", verity |-> FALSE]
Intact(i) == i.data = "complete" /\ i.verity

(* Every variable of the daemon, the preferences and the device has its    *)
(* type.                                                                   *)
TypeOK ==
    /\ ProcTypeOK
    /\ status \in Statuses
    /\ call \in Calls
    /\ tasks \in Seq([task : {"StartProcessing", "BootFlagsDone"},
                      owner : Actions \cup {NoAction}])
    /\ bootFlags \in [updated : BOOLEAN, running : BOOLEAN]
    /\ plan \in [payload : Payloads \cup {NoPayload}, isResume : BOOLEAN,
                 writeVerity : BOOLEAN, switchSlot : BOOLEAN]
    /\ {writing, network, vab} \subseteq BOOLEAN
    /\ cleanupCode \in ErrorCodes \cup {NoCode}
    /\ prefs \in [hash : Payloads \cup {NoPayload}, prepared : Payloads \cup {NoPayload},
                  progress : {"none", "partial", "complete"}, verity : BOOLEAN,
                  marker : 0..MaxBoots, prevSlot : Slots]
    /\ snap \in [state : {"None", "Initiated", "Unverified", "Merging"},
                 source : Slots, rolledBack : BOOLEAN]
    /\ boot \in [id : 1..MaxBoots, slot : Slots, active : Slots, bootable : SUBSET Slots]
    /\ image \in [Slots -> Images]
    /\ attempts \in 0..MaxAttempts
    /\ crashes \in 0..MaxCrashes

-----------------------------------------------------------------------------
(* Preferences and snapshots, as the update pipeline and the service calls *)
(* change them.                                                            *)

(* DeltaPerformer::ResetUpdateProgress(prefs, false, skip).                *)
ResetUpdateProgress(p, skip) ==
    [p EXCEPT !.progress = "none",
              !.verity = FALSE,
              !.prepared = IF skip THEN @ ELSE NoPayload]

(* SnapshotManager::CancelUpdate refuses once the device runs from the     *)
(* snapshots or they are being merged.                                     *)
CanCancelSnapshots ==
    \/ snap.state \in {"None", "Initiated"}
    \/ snap.state = "Unverified" /\ snap.source = GetCurrentSlot

SnapNone == [state |-> "None", source |-> 0, rolledBack |-> FALSE]

(* The snapshots are gone, and with them what was written to the target.   *)
DropSnapshots ==
    /\ snap' = SnapNone
    /\ image' = IF snap.state = "None" THEN image
                ELSE [image EXCEPT ![GetTargetSlot] = NoImage]

(* DynamicPartitionControlAndroid::ResetUpdate: the progress goes first,   *)
(* then the snapshots, unless they are in use.                             *)
ResetUpdate(p) ==
    \/ /\ vab
       /\ prefs' = ResetUpdateProgress(p, FALSE)
       /\ IF CanCancelSnapshots THEN DropSnapshots ELSE UNCHANGED <<snap, image>>
    \/ /\ ~vab
       /\ prefs' = p
       /\ UNCHANGED <<snap, image>>

(* The target is laid out anew: BeginUpdate drops the old snapshots.       *)
LayOutTarget ==
    /\ CanCancelSnapshots
    /\ snap' = IF vab THEN [SnapNone EXCEPT !.state = "Initiated", !.source = GetCurrentSlot]
               ELSE snap
    /\ image' = [image EXCEPT ![GetTargetSlot] = NoImage]

(* DeltaPerformer::PreparePartitionsForUpdate: partitions prepared for the *)
(* same payload are used as they are; otherwise the old update's progress  *)
(* and snapshots go, and the target is laid out anew.                      *)
PreparePartitionsForUpdate(hash) ==
    \/ /\ prefs.prepared = hash
       /\ UNCHANGED <<prefs, snap, image>>
    \/ /\ prefs.prepared # hash
       /\ LayOutTarget
       /\ prefs' = [ResetUpdateProgress(prefs, FALSE) EXCEPT !.prepared = hash]

(* It fails before or after the target has been touched; the progress is   *)
(* gone in both cases.                                                     *)
PreparePartitionsFails(hash) ==
    /\ prefs.prepared # hash
    /\ LayOutTarget \/ UNCHANGED <<snap, image>>

-----------------------------------------------------------------------------
(* The delegate of the processor.                                          *)

(* ActionCompleted: the status and preferences after an action of kind k.  *)
StatusAfter(k, code) ==
    CASE code # kSuccess -> status
      [] k = "BootFlags" -> "CLEANUP_PREVIOUS_UPDATE"
      [] k = "Download"  -> "VERIFYING"
      [] k = "Verifier"  -> "FINALIZING"
      [] OTHER           -> status

PrefsAfter(k, code, p) ==
    IF k = "Verifier" /\ code = kSuccess THEN [p EXCEPT !.verity = TRUE] ELSE p

ResetCodes == {"kFilesystemVerifierError", "kDownloadStateInitializationError"}

(* Faulty variants of TerminateUpdateAndNotify: returning from a cleanup   *)
(* without going back to idle; every code that counts as a success of the  *)
(* postinstall step counts as an applied update.                           *)
TerminateUpdateStaysInCleanup(st, code) ==
    \/ st \in {"IDLE", "CLEANUP_PREVIOUS_UPDATE"} /\ status' = st /\ UNCHANGED network
    \/ /\ st \notin {"IDLE", "CLEANUP_PREVIOUS_UPDATE"}
       /\ status' = IF code = kSuccess THEN "UPDATED_NEED_REBOOT" ELSE "IDLE"
       /\ network' = FALSE

TerminateUpdateNotActive(st, code) ==
    LET quiet == st \in {"IDLE", "CLEANUP_PREVIOUS_UPDATE"} IN
    /\ status' = IF ~quiet /\ code \in {kSuccess, "kUpdatedButNotActive"}
                 THEN "UPDATED_NEED_REBOOT" ELSE "IDLE"
    /\ network' = IF quiet THEN network ELSE FALSE

(* TerminateUpdateAndNotify(code), called with status st.                  *)
TerminateUpdateAndNotify(st, code) ==
    LET quiet == st \in {"IDLE", "CLEANUP_PREVIOUS_UPDATE"} IN
    /\ status' = IF ~quiet /\ code = kSuccess THEN "UPDATED_NEED_REBOOT" ELSE "IDLE"
    /\ network' = IF quiet THEN network ELSE FALSE

(* The preferences after ProcessingDone(code) with status st: the marker   *)
(* of a completed update, or progress thrown away.                         *)
PrefsDone(st, code, p) ==
    IF st = "CLEANUP_PREVIOUS_UPDATE" THEN p
    ELSE CASE code = kSuccess -> [p EXCEPT !.marker = boot.id]
           [] code \in ResetCodes -> ResetUpdateProgress(p, FALSE)
           [] OTHER -> p

ProcessingDone(st, code, p) ==
    /\ prefs' = PrefsDone(st, code, p)
    /\ TerminateUpdateAndNotify(st, code)

(* The next action's PerformAction is called before anything else happens. *)
CallPerform == call' = IF current' = NoAction THEN "none" ELSE "PerformAction"

(* processor_->ActionComplete(this, code) by the current action, with the  *)
(* preferences p the action leaves behind.                                 *)
Completed(code, p) ==
    LET st == StatusAfter(Kind, code)
        pr == PrefsAfter(Kind, code, p)
    IN
    /\ ActionComplete(code)
    /\ IF ~suspended /\ current' = NoAction
       THEN ProcessingDone(st, code, pr)
       ELSE status' = st /\ prefs' = pr /\ UNCHANGED network
    /\ CallPerform
    /\ cleanupCode' = IF Kind = "Cleanup" THEN code ELSE cleanupCode

-----------------------------------------------------------------------------
(* Start of the daemon.                                                    *)

(* A CleanupPreviousUpdateAction outside an update pipeline.               *)
CleanupOnly == <<"Cleanup", 0>>

UpdateCompletedOnThisBoot(b, p) == p.marker = b.id

(* UpdatePrefsAndReportUpdateMetricsOnReboot: a new build in a new slot    *)
(* makes any progress worthless.  The build in a slot is taken to change   *)
(* by an update only, not by flashing the slot that runs.                  *)
PrefsOnReboot(b, p) ==
    IF b.slot = p.prevSlot THEN p
    ELSE [ResetUpdateProgress(p, FALSE) EXCEPT !.prevSlot = b.slot]

(* A new process: members at their initial values, then Init(), which goes *)
(* back to waiting for the reboot or schedules the cleanup of the previous *)
(* update and starts it.                                                   *)
InitDaemon(b, p) ==
    LET needReboot == UpdateCompletedOnThisBoot(b, p) IN
    /\ status' = IF needReboot THEN "UPDATED_NEED_REBOOT" ELSE "CLEANUP_PREVIOUS_UPDATE"
    /\ prefs' = IF needReboot THEN p ELSE PrefsOnReboot(b, p)
    /\ actions' = << >>
    /\ current' = IF needReboot THEN NoAction ELSE CleanupOnly
    /\ CallPerform
    /\ suspended' = FALSE
    /\ suspendedErrorCode' = kSuccess
    /\ tasks' = << >>
    /\ bootFlags' = [updated |-> FALSE, running |-> FALSE]
    /\ plan' = [payload |-> NoPayload, isResume |-> FALSE,
                writeVerity |-> FALSE, switchSlot |-> FALSE]
    /\ writing' = FALSE
    /\ network' = FALSE
    /\ cleanupCode' = NoCode

(* A device that left the factory: slot 0 runs, the other slot is empty,   *)
(* and the daemon has just started for the first time.                     *)
Init ==
    /\ vab \in Devices
    /\ status = "CLEANUP_PREVIOUS_UPDATE"
    /\ actions = << >>
    /\ current = CleanupOnly
    /\ call = "PerformAction"
    /\ suspended = FALSE
    /\ suspendedErrorCode = kSuccess
    /\ tasks = << >>
    /\ bootFlags = [updated |-> FALSE, running |-> FALSE]
    /\ plan = [payload |-> NoPayload, isResume |-> FALSE,
               writeVerity |-> FALSE, switchSlot |-> FALSE]
    /\ writing = FALSE
    /\ network = FALSE
    /\ cleanupCode = NoCode
    /\ prefs = [hash |-> NoPayload, prepared |-> NoPayload, progress |-> "none",
                verity |-> FALSE, marker |-> 0, prevSlot |-> 0]
    /\ snap = SnapNone
    /\ boot = [id |-> 1, slot |-> 0, active |-> 0, bootable |-> {0}]
    /\ image = [s \in Slots |-> IF s = 0 THEN [NoImage EXCEPT !.data = "complete",
                                                              !.verity = TRUE]
                                ELSE NoImage]
    /\ attempts = 0
    /\ crashes = 0

Crash ==
    /\ crashes < MaxCrashes
    /\ crashes' = crashes + 1
    /\ InitDaemon(boot, prefs)
    /\ UNCHANGED <<snap, boot, image, vab, attempts>>

(* The bootloader takes the active slot if it may be booted.               *)
BootSlot == IF boot.active \in boot.bootable THEN boot.active ELSE 1 - boot.active

(* A reboot, asked for or not.  A slot that was not running before may     *)
(* fail to boot; the bootloader then falls back to the other one, and the  *)
(* rollback indicator tells the snapshots' owner.                          *)
Reboot ==
    /\ boot.id < MaxBoots
    /\ \E ok \in BOOLEAN :
        LET up == BootSlot = GetCurrentSlot \/ (ok /\ Intact(image[BootSlot]))
            b == [boot EXCEPT
                    !.id = @ + 1,
                    !.slot = IF up THEN BootSlot ELSE GetCurrentSlot,
                    !.bootable = IF up THEN @ ELSE @ \ {BootSlot}]
        IN
        /\ boot' = b
        /\ snap' = IF up THEN snap
                   ELSE [snap EXCEPT !.rolledBack = snap.state = "Unverified"]
        /\ InitDaemon(b, prefs)
    /\ UNCHANGED <<image, boundVars>>

-----------------------------------------------------------------------------
(* Calls of clients.  A call is handled when the main thread is idle.      *)

StartPending == \E i \in 1..Len(tasks) : tasks[i].task = "StartProcessing"

(* The client waits until the processing it asked for has started.         *)
ClientReady == call = "none" /\ (StartPending => "Start" \in Undisciplined)

CanResumeUpdate(p) == prefs.progress # "none" /\ prefs.hash = p

(* The install plan of a request, with whether to switch slots as its      *)
(* headers give it.  Unless this is a resume the progress is reset.  A     *)
(* resume may be refused because too many resumes failed.                  *)
SetupInstallPlan(p, switch, isResume) ==
    /\ ClientReady
    /\ status # "UPDATED_NEED_REBOOT"
    /\ ~IsRunning
    /\ isResume => CanResumeUpdate(p)
    /\ plan' = [payload |-> p, isResume |-> isResume,
                writeVerity |-> ~(isResume /\ prefs.verity), switchSlot |-> switch]
    /\ prefs' = IF isResume THEN prefs
                ELSE [ResetUpdateProgress(prefs, TRUE) EXCEPT !.hash = p]

(* The client's network cannot be bound: the call fails after the plan and *)
(* the preferences have changed.                                           *)
ApplyPayloadFails(p, switch, isResume) ==
    /\ SetupInstallPlan(p, switch, isResume)
    /\ UNCHANGED <<procVars, status, tasks, bootFlags, writing, network, cleanupCode,
                   call, snap, boot, image, boundVars>>

(* net: the headers name a network for the download.                       *)
ApplyPayload(p, net, switch, isResume) ==
    /\ attempts < MaxAttempts
    /\ SetupInstallPlan(p, switch, isResume)
    /\ network' = (network \/ net)
    /\ attempts' = attempts + 1
    /\ EnqueueActions(<< <<"BootFlags", attempts'>>, <<"Cleanup", attempts'>>,
                         <<"InstallPlan", attempts'>>, <<"Download", attempts'>>,
                         <<"Verifier", attempts'>>, <<"Postinstall", attempts'>> >>)
    /\ status' = "UPDATE_AVAILABLE"
    /\ tasks' = Append(tasks, [task |-> "StartProcessing", owner |-> NoAction])
    /\ UNCHANGED <<call, bootFlags, writing, cleanupCode, snap, boot, image, vab, crashes>>

SuspendUpdate ==
    /\ call = "none"
    /\ SuspendProcessing
    /\ UNCHANGED <<daemonVars, call, deviceVars, boundVars>>

ResumeUpdate ==
    /\ call = "none"
    /\ ResumeProcessing
    /\ IF current' = NoAction
       THEN ProcessingDone(status, suspendedErrorCode, prefs)
       ELSE UNCHANGED <<status, prefs, network>>
    /\ call' = IF current = NoAction /\ current' # NoAction THEN "PerformAction" ELSE "none"
    /\ UNCHANGED <<tasks, bootFlags, plan, writing, cleanupCode, snap, boot, image, boundVars>>

(* Faulty variant: the boot flags action's TerminateProcessing is missing. *)
CancelUpdateLeavesRunning ==
    /\ call = "none"
    /\ StopProcessing
    /\ TerminateUpdateAndNotify(status, "kUserCanceled")
    /\ UNCHANGED <<call, bootFlags, tasks, plan, writing, cleanupCode, deviceVars, boundVars>>

(* The current action's TerminateProcessing, the end of the queue, and     *)
(* ProcessingStopped.                                                      *)
CancelUpdate ==
    /\ call = "none"
    /\ StopProcessing
    /\ bootFlags' = IF Kind = "BootFlags" THEN [bootFlags EXCEPT !.running = FALSE]
                    ELSE bootFlags
    /\ TerminateUpdateAndNotify(status, "kUserCanceled")
    /\ UNCHANGED <<call, tasks, plan, writing, cleanupCode, deviceVars, boundVars>>

(* ResetStatus when idle only frees the space of an unfinished update.     *)
ResetStatusIdle ==
    /\ ClientReady
    /\ status = "IDLE"
    /\ boot.active = GetCurrentSlot \/ "IdleReset" \in Undisciplined
    /\ ResetUpdate(prefs)
    /\ UNCHANGED <<procVars, daemonVars, call, boot, boundVars>>

(* Faulty variant: slots numbered from one.                                *)
SetActiveBootSlotFromOne(s) ==
    boot' = [boot EXCEPT !.active = s + 1, !.bootable = @ \cup {s}]

(* BootControl's SetActiveBootSlot also makes the slot bootable.           *)
SetActiveBootSlot(s) == boot' = [boot EXCEPT !.active = s, !.bootable = @ \cup {s}]

(* ResetStatus of an applied update: the current slot becomes the active   *)
(* one first, and is marked successful; then the snapshots go; the marker  *)
(* last.  A step that fails does not keep the next ones from being taken.  *)
ResetStatusApplied ==
    /\ call = "none"
    /\ status = "UPDATED_NEED_REBOOT"
    /\ \/ SetActiveBootSlot(GetCurrentSlot) /\ call' \in {"ResetUpdate", "ResetUpdateFailed"}
       \/ /\ ~vab \/ "SetActiveFails" \in Undisciplined
          /\ UNCHANGED boot
          /\ call' = "ResetUpdateFailed"
    /\ UNCHANGED <<procVars, daemonVars, prefs, snap, image, boundVars>>

ResetStatusSnapshots ==
    /\ call \in {"ResetUpdate", "ResetUpdateFailed"}
    /\ \/ /\ ResetUpdate(prefs)
          /\ call' = IF call = "ResetUpdate" THEN "DeleteMarker" ELSE "DeleteMarkerFailed"
       \/ UNCHANGED <<prefs, snap, image>> /\ call' = "DeleteMarkerFailed"
    /\ UNCHANGED <<procVars, daemonVars, boot, boundVars>>

(* Faulty variant: the marker stays behind.                                *)
ResetStatusKeepsMarker ==
    /\ call \in {"DeleteMarker", "DeleteMarkerFailed"}
    /\ status' = IF call = "DeleteMarker" THEN "IDLE" ELSE status
    /\ call' = "none"
    /\ UNCHANGED <<procVars, tasks, bootFlags, plan, writing, network, cleanupCode,
                   deviceVars, boundVars>>

ResetStatusMarker ==
    /\ call \in {"DeleteMarker", "DeleteMarkerFailed"}
    /\ \/ /\ prefs' = [prefs EXCEPT !.marker = 0]
          /\ status' = IF call = "DeleteMarker" THEN "IDLE" ELSE status
       \/ UNCHANGED <<prefs, status>>
    /\ call' = "none"
    /\ UNCHANGED <<procVars, tasks, bootFlags, plan, writing, network, cleanupCode,
                   snap, boot, image, boundVars>>

(* AllocateSpaceForPayload has no guard on the status at all.              *)
AllocateSpaceForPayload(p) ==
    /\ ClientReady
    /\ (status = "IDLE" /\ boot.active = GetCurrentSlot) \/ "Allocate" \in Undisciplined
    /\ \/ PreparePartitionsForUpdate(p)
       \/ PreparePartitionsFails(p) /\ prefs' = ResetUpdateProgress(prefs, FALSE)
    /\ UNCHANGED <<procVars, daemonVars, call, boot, boundVars>>

(* CleanupSuccessfulUpdate: does nothing once a cleanup has completed, and *)
(* leaves it to the running processing if there is one.                    *)
CleanupSuccessfulUpdate ==
    /\ ClientReady
    /\ status # "UPDATED_NEED_REBOOT" \/ "Cleanup" \in Undisciplined
    /\ cleanupCode = NoCode
    /\ ~IsRunning
    /\ PerformFront(actions \o <<CleanupOnly>>)
    /\ status' = "CLEANUP_PREVIOUS_UPDATE"
    /\ CallPerform
    /\ UNCHANGED <<suspended, suspendedErrorCode, tasks, bootFlags, plan, writing,
                   network, cleanupCode, deviceVars, boundVars>>

-----------------------------------------------------------------------------
(* Posted tasks.                                                           *)

RunStartProcessing ==
    /\ call = "none"
    /\ tasks # << >> /\ Head(tasks).task = "StartProcessing"
    /\ tasks' = Tail(tasks)
    /\ StartProcessing
    /\ CallPerform
    /\ UNCHANGED <<status, bootFlags, plan, writing, network, cleanupCode,
                   deviceVars, boundVars>>

(* UpdateBootFlagsAction::CompleteUpdateBootFlags, a callback that holds   *)
(* an unretained pointer to the action that asked for it.                  *)
RunBootFlagsDone ==
    /\ call = "none"
    /\ tasks # << >> /\ Head(tasks).task = "BootFlagsDone"
    /\ tasks' = Tail(tasks)
    /\ \/ /\ ~bootFlags.running
          /\ UNCHANGED <<procVars, bootFlags, call, status, prefs, network, cleanupCode>>
       \/ /\ bootFlags.running
          /\ bootFlags' = [updated |-> TRUE, running |-> FALSE]
          /\ Completed(kSuccess, prefs)
    /\ UNCHANGED <<plan, writing, snap, boot, image, boundVars>>

-----------------------------------------------------------------------------
(* The actions of the pipeline.                                            *)

(* Faulty variant: "nothing to do" without completing the action.          *)
PerformBootFlagsReturns ==
    /\ call = "PerformAction" /\ Kind = "BootFlags"
    /\ call' = "none"
    /\ \/ /\ bootFlags.running \/ bootFlags.updated
          /\ UNCHANGED <<bootFlags, tasks>>
       \/ /\ ~bootFlags.running /\ ~bootFlags.updated
          /\ bootFlags' = [bootFlags EXCEPT !.running = TRUE]
          /\ tasks' = Append(tasks, [task |-> "BootFlagsDone", owner |-> current])
    /\ UNCHANGED <<procVars, status, plan, writing, network, cleanupCode, deviceVars, boundVars>>

(* UpdateBootFlagsAction::PerformAction: nothing to do, wait for the HAL   *)
(* to mark the slot as successful, or go on if it refuses to.              *)
PerformBootFlags ==
    /\ call = "PerformAction" /\ Kind = "BootFlags"
    /\ \/ /\ bootFlags.running \/ bootFlags.updated
          /\ Completed(kSuccess, prefs)
          /\ UNCHANGED <<bootFlags, tasks>>
       \/ /\ ~bootFlags.running /\ ~bootFlags.updated
          /\ bootFlags' = [bootFlags EXCEPT !.running = TRUE]
          /\ tasks' = Append(tasks, [task |-> "BootFlagsDone", owner |-> current])
          /\ call' = "none"
          /\ UNCHANGED <<procVars, status, prefs, network, cleanupCode>>
       \/ /\ ~bootFlags.running /\ ~bootFlags.updated
          /\ bootFlags' = [bootFlags EXCEPT !.updated = TRUE]
          /\ Completed(kSuccess, prefs)
          /\ UNCHANGED tasks
    /\ UNCHANGED <<plan, writing, snap, boot, image, boundVars>>

(* CleanupPreviousUpdateAction::StartActionInternal: without Virtual A/B   *)
(* there is nothing to do, otherwise it waits for the boot to complete.    *)
PerformCleanup ==
    /\ call = "PerformAction" /\ Kind = "Cleanup"
    /\ \/ ~vab /\ Completed(kSuccess, prefs)
       \/ vab /\ call' = "none" /\ UNCHANGED <<procVars, status, prefs, network, cleanupCode>>
    /\ UNCHANGED <<tasks, bootFlags, plan, writing, snap, boot, image, boundVars>>

(* InstallPlanAction completes at once.                                    *)
PerformInstallPlan ==
    /\ call = "PerformAction" /\ Kind = "InstallPlan"
    /\ Completed(kSuccess, prefs)
    /\ UNCHANGED <<tasks, bootFlags, plan, writing, snap, boot, image, boundVars>>

(* Faulty variant: the target stays bootable while it is written.          *)
PerformDownloadUnmarked ==
    /\ call = "PerformAction" /\ Kind = "Download"
    /\ writing' = FALSE
    /\ call' = "none"
    /\ UNCHANGED <<procVars, status, tasks, bootFlags, plan, network, cleanupCode,
                   deviceVars, boundVars>>

(* DownloadAction::PerformAction marks the target unbootable before a byte *)
(* is written to it, and starts the transfer even if that fails.           *)
PerformDownload ==
    /\ call = "PerformAction" /\ Kind = "Download"
    /\ \/ boot' = [boot EXCEPT !.bootable = @ \ {GetTargetSlot}]
       \/ /\ boot.active = GetCurrentSlot \/ "MarkFails" \in Undisciplined
          /\ UNCHANGED boot
    /\ writing' = FALSE
    /\ call' = "none"
    /\ UNCHANGED <<procVars, status, tasks, bootFlags, plan, network, cleanupCode,
                   prefs, snap, image, boundVars>>

PerformAsync ==
    /\ call = "PerformAction" /\ Kind \in {"Verifier", "Postinstall"}
    /\ call' = "none"
    /\ UNCHANGED <<procVars, daemonVars, deviceVars, boundVars>>

(* The current action handles an event of its own.                         *)
Works(k) == call = "none" /\ Kind = k /\ ~suspended

(* CleanupPreviousUpdateAction::WaitForMergeOrSchedule, one branch per     *)
(* state that leads to ActionComplete.                                     *)
CleanupDone ==
    /\ Works("Cleanup")
    /\ vab
    /\ \/ /\ \/ snap.state \in {"None", "Initiated"}
             \/ snap.state = "Unverified" /\ snap.source = GetCurrentSlot /\ ~snap.rolledBack
          /\ Completed(kSuccess, prefs)
          /\ UNCHANGED <<snap, image>>
       \/ /\ snap.state = "Unverified" /\ snap.rolledBack
          /\ DropSnapshots
          /\ Completed(kSuccess, ResetUpdateProgress(prefs, FALSE))
       \/ /\ snap.state = "Merging"
          /\ snap' = SnapNone
          /\ Completed(kSuccess, prefs)
          /\ UNCHANGED image
       \/ /\ Completed("kError", prefs)
          /\ UNCHANGED <<snap, image>>
    /\ UNCHANGED <<tasks, bootFlags, plan, writing, boot, boundVars>>

(* CleanupPreviousUpdateAction::InitiateMergeAndWait in the new slot: from *)
(* now on the old slot's image is being overwritten.                       *)
InitiateMerge ==
    /\ Works("Cleanup")
    /\ vab
    /\ snap.state = "Unverified" /\ snap.source # GetCurrentSlot
    /\ snap' = [snap EXCEPT !.state = "Merging"]
    /\ image' = [image EXCEPT ![snap.source] = NoImage]
    /\ UNCHANGED <<procVars, daemonVars, call, prefs, boot, boundVars>>

(* The manifest is there and DeltaPerformer prepares the partitions for    *)
(* it.  Bytes received turn the status to DOWNLOADING; a manifest that a   *)
(* resumed update finds in the preferences does not.                       *)
DownloadPrepare ==
    /\ Works("Download")
    /\ ~writing
    /\ status' = "DOWNLOADING" \/ (plan.isResume /\ status' = status)
    /\ PreparePartitionsForUpdate(prefs.hash)
    /\ writing' = TRUE
    /\ UNCHANGED <<procVars, call, tasks, bootFlags, plan, network, cleanupCode,
                   boot, boundVars>>

(* What the target holds when an operation is applied on top of what the   *)
(* preferences say has been applied: operations that continue the wrong    *)
(* image, or none, leave a mixture of two updates.                         *)
Written(i) ==
    IF prefs.progress = "none"
    THEN [of |-> plan.payload, data |-> "partial", verity |-> FALSE]
    ELSE [i EXCEPT !.of = IF i.of = plan.payload /\ i.data # "none" THEN @ ELSE NoPayload,
                   !.data = IF @ = "none" THEN "partial" ELSE @]

(* DeltaPerformer::Write applies operations, and may checkpoint.           *)
DownloadWrite ==
    /\ Works("Download")
    /\ writing
    /\ prefs.progress # "complete"
    /\ image' = [image EXCEPT ![GetTargetSlot] = Written(@)]
    /\ \E checkpoint \in BOOLEAN :
          prefs' = IF checkpoint THEN [prefs EXCEPT !.progress = "partial"] ELSE prefs
    /\ status' = "DOWNLOADING"
    /\ UNCHANGED <<procVars, tasks, bootFlags, plan, writing, network, cleanupCode,
                   call, snap, boot, boundVars>>

(* DownloadAction::TransferComplete with a payload that verifies: every    *)
(* operation has been applied and checkpointed.                            *)
DownloadComplete ==
    /\ Works("Download")
    /\ writing
    /\ image' = [image EXCEPT ![GetTargetSlot] =
                    IF prefs.progress = "complete" THEN @
                    ELSE [Written(@) EXCEPT !.data = "complete"]]
    /\ Completed(kSuccess, [prefs EXCEPT !.progress = "complete"])
    /\ UNCHANGED <<tasks, bootFlags, plan, writing, snap, boot, boundVars>>

(* The transfer, the preparation of the partitions, the resumed state or   *)
(* an operation fails.                                                     *)
DownloadFails ==
    /\ Works("Download")
    /\ \/ /\ \E code \in {"kError", "kDownloadStateInitializationError"} : Completed(code, prefs)
          /\ UNCHANGED <<snap, image>>
       \/ /\ ~writing
          /\ PreparePartitionsFails(prefs.hash)
          /\ Completed("kError", ResetUpdateProgress(prefs, FALSE))
    /\ UNCHANGED <<tasks, bootFlags, plan, writing, boot, boundVars>>

(* FilesystemVerifierAction writes the verity data if the plan says so and *)
(* compares the whole image with the hashes of the manifest.               *)
VerifierDone ==
    LET i == [image[GetTargetSlot] EXCEPT !.verity = @ \/ plan.writeVerity] IN
    /\ Works("Verifier")
    /\ image' = [image EXCEPT ![GetTargetSlot] = i]
    /\ \/ Intact(i) /\ i.of = plan.payload /\ Completed(kSuccess, prefs)
       \/ Completed("kFilesystemVerifierError", prefs)
    /\ UNCHANGED <<tasks, bootFlags, plan, writing, snap, boot, boundVars>>

(* The last postinstall command exits, also while suspended: a command     *)
(* that exited before it was stopped is reported after.  A success goes on *)
(* with FinishUpdate.                                                      *)
PostinstallDone ==
    /\ call = "none" /\ Kind = "Postinstall"
    /\ \/ /\ plan.switchSlot
          /\ snap' = IF snap.state = "Initiated" THEN [snap EXCEPT !.state = "Unverified"]
                     ELSE snap
          /\ call' = "SetActiveBootSlot"
          /\ UNCHANGED <<procVars, status, prefs, network, cleanupCode>>
       \/ /\ ~plan.switchSlot
          /\ Completed("kUpdatedButNotActive", prefs)
          /\ UNCHANGED snap
       \/ /\ Completed("kError", prefs)
          /\ UNCHANGED snap
    /\ UNCHANGED <<tasks, bootFlags, plan, writing, boot, image, boundVars>>

(* PostinstallRunnerAction::CompletePostinstall switches the slots, or     *)
(* fails to, in which case the update fails ...                            *)
PostinstallSwitch ==
    /\ call = "SetActiveBootSlot"
    /\ \/ /\ SetActiveBootSlot(GetTargetSlot)
          /\ call' = "CompletePostinstall"
          /\ UNCHANGED <<procVars, status, prefs, network, cleanupCode>>
       \/ /\ Completed("kError", prefs)
          /\ UNCHANGED boot
    /\ UNCHANGED <<tasks, bootFlags, plan, writing, snap, image, boundVars>>

(* ... and only then completes, which writes the completed marker.         *)
PostinstallCompletes ==
    /\ call = "CompletePostinstall"
    /\ Completed(kSuccess, prefs)
    /\ UNCHANGED <<tasks, bootFlags, plan, writing, snap, boot, image, boundVars>>

-----------------------------------------------------------------------------
Client ==
    \/ \E p \in Payloads, net, switch, isResume \in BOOLEAN :
          ApplyPayload(p, net, switch, isResume)
    \/ \E p \in Payloads, switch, isResume \in BOOLEAN : ApplyPayloadFails(p, switch, isResume)
    \/ SuspendUpdate
    \/ CancelUpdate
    \/ ResetStatusIdle
    \/ ResetStatusApplied
    \/ CleanupSuccessfulUpdate
    \/ \E p \in Payloads : AllocateSpaceForPayload(p)

Perform ==
    \/ PerformBootFlags
    \/ PerformCleanup
    \/ PerformInstallPlan
    \/ PerformDownload
    \/ PerformAsync

Work ==
    \/ CleanupDone
    \/ InitiateMerge
    \/ DownloadPrepare
    \/ DownloadWrite
    \/ DownloadComplete
    \/ DownloadFails
    \/ VerifierDone
    \/ PostinstallDone

Internal ==
    \/ Perform
    \/ Work
    \/ RunStartProcessing
    \/ RunBootFlagsDone
    \/ ResetStatusSnapshots
    \/ ResetStatusMarker
    \/ PostinstallSwitch
    \/ PostinstallCompletes

Next == Client \/ ResumeUpdate \/ Internal \/ Crash \/ Reboot

Spec == Init /\ [][Next]_vars

(* The main loop runs posted tasks and delivers events, every action of    *)
(* the pipeline waits for something that finishes or times out, and a      *)
(* suspended update is resumed.                                            *)
FairSpec == Spec /\ WF_vars(Internal) /\ WF_vars(ResumeUpdate)

-----------------------------------------------------------------------------
Resting == status \in {"IDLE", "UPDATED_NEED_REBOOT"}

(* The status clients see agrees with the processor: it rests exactly when *)
(* nothing is being processed or about to be, whatever the order of calls, *)
(* completions, suspensions and crashes.                                   *)
StatusMatchesProcessor ==
    call \in {"none", "PerformAction"} => (Resting <=> ~IsRunning /\ ~StartPending)

(* CHECK(!IsRunning()) of StartProcessing and CHECK_EQ(actionptr,          *)
(* current_action_) of ActionComplete hold when the posted tasks run: a    *)
(* callback of a boot flags action that was cancelled never reaches a      *)
(* later attempt's action.                                                 *)
TasksFindTheirAction ==
    call = "none" /\ tasks # << >> =>
        /\ Head(tasks).task = "StartProcessing" => ~IsRunning
        /\ Head(tasks).task = "BootFlagsDone" /\ bootFlags.running =>
              Head(tasks).owner = current

(* Whatever is interrupted, the slot the bootloader would pick holds a     *)
(* complete and verified image: "If the update fails to apply, the user is *)
(* not affected" (README.md).                                              *)
BootsIntactImage == Intact(image[BootSlot])

(* "In case of update_engine restart without a reboot we need to restore   *)
(* the reboot needed state" (Init): as long as the marker of this boot is  *)
(* there, the status is UPDATED_NEED_REBOOT.                               *)
RebootNeededIsKept ==
    call = "none" /\ UpdateCompletedOnThisBoot(boot, prefs) => status = "UPDATED_NEED_REBOOT"

(* A client is told that a reboot is needed only when the next boot really *)
(* goes to the slot just written, with the payload that was asked for.     *)
SuccessMeansNextBoot ==
    [][status # "UPDATED_NEED_REBOOT" /\ status' = "UPDATED_NEED_REBOOT" /\ crashes' = crashes
        => BootSlot = GetTargetSlot /\ image[BootSlot].of = plan.payload]_vars

(* An update that was started, a cleanup included, ends and the status     *)
(* rests, unless clients suspend it over and over.                         *)
UpdateEnds == <>[]~suspended => (~Resting ~> Resting)

(* "The network id is only applicable to one download attempt and once     *)
(* it's done the network id should not be re-used anymore"                 *)
(* (TerminateUpdateAndNotify).                                             *)
NetworkReleased == call = "none" /\ Resting => ~network
=============================================================================
