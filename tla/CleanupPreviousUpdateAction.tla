-------------------- MODULE CleanupPreviousUpdateAction --------------------
(***************************************************************************)
(* CleanupPreviousUpdateAction (aosp/cleanup_previous_update_action.cc):   *)
(* once the boot has completed and the slot is marked successful, it has   *)
(* SnapshotManager merge the snapshots of the update the device runs from, *)
(* polling with tasks of its own.  The daemon is modelled, not the build   *)
(* for recovery, where kIsRecovery skips the two waits.  The device has    *)
(* Virtual A/B: without it GetCleanupPreviousUpdateAction                  *)
(* (aosp/dynamic_partition_control_android.cc) hands out a NoOpAction, and *)
(* the early end of StartActionInternal is not reached.                    *)
(***************************************************************************)
EXTENDS ActionHost

Cleanup == "CleanupPreviousUpdateAction"

VARIABLES
    cleanup,    \* running_, scheduled_task_, metadata_device_, cancel_failed_
    snap,       \* SnapshotManager's UpdateState, external
    system      \* sys.boot_completed and IsSlotMarkedSuccessful, external

cleanupVars == <<cleanup, snap, system>>

NewCleanup == [running |-> FALSE, task |-> "none", metadata |-> FALSE,
               cancelFailed |-> FALSE]

CleanupInit ==
    /\ cleanup = NewCleanup
    /\ snap \in {"None", "Initiated", "Unverified", "Merging", "Cancelled"}
    /\ system \in [booted : BOOLEAN, marked : BOOLEAN]

StopActionInternal(c) == [c EXCEPT !.running = FALSE, !.task = "none"]

(* ActionComplete, with ActionCompleted, which the processor calls back.   *)
CleanupCompletes(c, code) ==
    /\ cleanup' = [StopActionInternal(c) EXCEPT !.metadata = FALSE]
    /\ Complete(code)

(* PostDelayedTask and CheckTaskScheduled; every caller is running_.       *)
Schedule(c, task) ==
    \/ cleanup' = [c EXCEPT !.task = task] /\ Return
    \/ CleanupCompletes(c, "kError")

(* BeforeCancel, called by ProcessUpdateState for an update that was       *)
(* cancelled: when its progress cannot be reset the snapshots are kept.    *)
Cancelled(c) ==
    \/ snap' = "None" /\ CleanupCompletes(c, IF c.cancelFailed THEN "kError" ELSE "kSuccess")
    \/ snap' = snap /\ CleanupCompletes([c EXCEPT !.cancelFailed = TRUE], "kError")

(* InitiateMergeAndWait: not while a DSU runs.  When InitiateMerge fails   *)
(* the update has not been booted yet, or somebody else has begun to merge.*)
InitiateMergeAndWait(c) ==
    \/ snap' = snap /\ CleanupCompletes(c, "kError")
    \/ snap' = "Merging" /\ Schedule(c, "merge")
    \/ snap' = snap /\ CleanupCompletes(c, "kSuccess")

WaitForMergeOrSchedule(c) ==
    \/ /\ snap = "None"
       /\ UNCHANGED snap
       /\ \E code \in {"kSuccess", "kError"} : CleanupCompletes(c, code)
    \/ snap = "Initiated" /\ UNCHANGED snap /\ CleanupCompletes(c, "kSuccess")
    \/ snap = "Unverified" /\ InitiateMergeAndWait(c)
    \/ snap = "Merging" /\ UNCHANGED snap /\ Schedule(c, "merge")
    \/ snap = "MergeNeedsReboot" /\ UNCHANGED snap /\ CleanupCompletes(c, "kError")
    \/ snap = "MergeCompleted" /\ snap' = "None" /\ CleanupCompletes(c, "kSuccess")
    \/ snap = "MergeFailed" /\ UNCHANGED snap /\ CleanupCompletes(c, "kDeviceCorrupted")
    \/ snap = "Cancelled" /\ Cancelled(c)

(* Faulty variant: the slot need not be marked successful.                 *)
CheckSlotMarkedSuccessfulOrMerge(c) ==
    \/ UNCHANGED snap /\ CleanupCompletes(c, "kError")
    \/ WaitForMergeOrSchedule([c EXCEPT !.metadata = TRUE])

(* Once the slot is marked successful /metadata is mounted, if it can be.  *)
CheckSlotMarkedSuccessfulOrSchedule(c) ==
    \/ ~system.marked /\ UNCHANGED snap /\ Schedule(c, "slot")
    \/ system.marked /\ ~c.metadata /\ UNCHANGED snap /\ CleanupCompletes(c, "kError")
    \/ system.marked /\ WaitForMergeOrSchedule([c EXCEPT !.metadata = TRUE])

WaitBootCompletedOrSchedule(c) ==
    \/ ~system.booted /\ UNCHANGED snap /\ Schedule(c, "boot")
    \/ system.booted /\ CheckSlotMarkedSuccessfulOrSchedule(c)

(* PerformAction and ResumeAction.                                         *)
StartActionInternal ==
    /\ Inside(Cleanup, "PerformAction") \/ Inside(Cleanup, "ResumeAction")
    /\ WaitBootCompletedOrSchedule([cleanup EXCEPT !.running = TRUE])
    /\ UNCHANGED system

(* A delayed task runs, and acknowledges that it has run.  A task of an    *)
(* action that is not running_ returns at once.                            *)
RunCleanupTask ==
    /\ cleanup.task # "none" /\ call = "none"
    /\ LET c == [cleanup EXCEPT !.task = "none"]
       IN  \/ c.running /\ cleanup.task = "boot" /\ WaitBootCompletedOrSchedule(c)
           \/ c.running /\ cleanup.task = "slot" /\ CheckSlotMarkedSuccessfulOrSchedule(c)
           \/ c.running /\ cleanup.task = "merge" /\ WaitForMergeOrSchedule(c)
           \/ ~c.running /\ cleanup' = c /\ Return /\ UNCHANGED snap
    /\ UNCHANGED system

(* Outside the daemon: the boot completes, update_verifier marks the slot, *)
(* and a merge ends.                                                       *)
SystemMoves ==
    /\ \/ ~system.booted /\ system' = [system EXCEPT !.booted = TRUE] /\ UNCHANGED snap
       \/ ~system.marked /\ system' = [system EXCEPT !.marked = TRUE] /\ UNCHANGED snap
       \/ /\ snap = "Merging"
          /\ snap' \in {"MergeCompleted", "MergeFailed", "MergeNeedsReboot"}
          /\ UNCHANGED system
    /\ UNCHANGED <<cleanup, hostVars>>
=============================================================================
