--------------------------- MODULE InstallActions ---------------------------
(***************************************************************************)
(* The actions of one update on one ActionProcessor: clean up after the    *)
(* previous update, download (external here; DeltaPerformer has it in      *)
(* detail), verify, postinstall.  The user suspends, resumes and cancels   *)
(* at any point between two callbacks, the daemon may crash, and the next  *)
(* attempt starts over with new actions on the same device.                *)
(***************************************************************************)
EXTENDS PostinstallRunnerAction, CleanupPreviousUpdateAction

CONSTANTS
    Plans,          \* the install plans an attempt may be given
    Images,         \* what a download may leave on the device
    MaxSessions,    \* attempts in a behaviour
    MaxInterrupts   \* suspensions, and crashes, in a behaviour

ASSUME BoundsAssumption == MaxSessions \in Nat /\ MaxInterrupts \in Nat

Download == "DownloadAction"
Pipeline == <<Cleanup, Download, Verifier, Postinstall>>

ASSUME PipelineAssumption == {Cleanup, Download, Verifier, Postinstall} \subseteq Actions
ASSUME SuccessAssumption == kSuccess = "kSuccess"

ASSUME PlansAssumption ==
    Plans \subseteq [writeVerity : BOOLEAN, compression : BOOLEAN, powerwash : BOOLEAN,
                    switchSlot : BOOLEAN, runPostInstall : BOOLEAN, hasUrl : BOOLEAN,
                    untouched : BOOLEAN]

(* There is nothing wrong with an empty partition.                         *)
ASSUME ImagesAssumption ==
    /\ Images \subseteq [target : SUBSET Parts, source : SUBSET Parts]
    /\ \A i \in Images, p \in Parts : Partitions[p].size = 0 => p \in i.target

VARIABLE spent      \* attempts, suspensions and crashes so far

vars == <<hostVars, cleanupVars, verifierVars, postVars, plan, spent>>

Init ==
    /\ ProcInit /\ call = "none" /\ outcome = "none"
    /\ CleanupInit
    /\ plan \in Plans
    /\ image = [target |-> {}, source |-> {}, verity |-> {}]
    /\ mapping = Unmapped
    /\ verifier = NewVerifier
    /\ SubprocessInit
    /\ post = NewPost /\ mounts = << >> /\ powerwash = FALSE /\ active = FALSE
    /\ spent = [sessions |-> 0, suspends |-> 0, crashes |-> 0]

(* A new attempt: new actions are enqueued, and the first one performed.   *)
Start ==
    /\ ~IsRunning /\ spent.sessions < MaxSessions
    /\ spent' = [spent EXCEPT !.sessions = @ + 1]
    /\ plan' \in Plans
    /\ PerformFront(Pipeline) /\ UNCHANGED <<suspended, suspendedErrorCode>>
    /\ call' = "PerformAction" /\ outcome' = "none"
    /\ cleanup' = NewCleanup /\ verifier' = NewVerifier /\ post' = NewPost
    /\ UNCHANGED <<snap, system, image, mapping, children, mounts, powerwash, active>>

(* DownloadAction, whose details DeltaPerformer has: PerformAction marks   *)
(* the target slot unbootable and goes on whether it could or not; the     *)
(* transfer leaves some image, with the devices unmapped, or fails.        *)
DownloadStep ==
    /\ Inside(Download, "PerformAction")
    /\ image' \in {[target |-> i.target, source |-> i.source, verity |->
                     {p \in Parts : ~(plan.writeVerity /\ Partitions[p].verity)}] : i \in Images}
    /\ mapping' = Unmapped
    /\ \E marked \in Results("MarkSlotUnbootable") : active' = (active /\ ~marked)
    /\ \E code \in {"kSuccess", "kDownloadTransferError"} : Complete(code)
    /\ UNCHANGED <<cleanupVars, children, post, mounts, powerwash, verifier, plan, spent>>

CleanupStep ==
    /\ StartActionInternal \/ RunCleanupTask
    /\ UNCHANGED <<verifierVars, postVars, plan, spent>>

Environment ==
    \/ SystemMoves /\ UNCHANGED <<verifierVars, postVars, plan, spent>>
    \/ /\ ChildExits
       /\ UNCHANGED <<hostVars, cleanupVars, verifierVars, post, mounts, powerwash, active, plan, spent>>

(* SuspendProcessing and ResumeProcessing with the call of the action's    *)
(* method.  FilesystemVerifierAction has neither and goes on hashing.      *)
Suspend ==
    /\ call = "none" /\ spent.suspends < MaxInterrupts
    /\ SuspendProcessing
    /\ spent' = [spent EXCEPT !.suspends = @ + 1]
    /\ cleanup' = IF current = Cleanup THEN StopActionInternal(cleanup) ELSE cleanup
    /\ \/ current = Postinstall /\ PostSuspendAction
       \/ current # Postinstall /\ UNCHANGED postVars
    /\ UNCHANGED <<call, outcome, snap, system, verifierVars, plan>>

Resume ==
    /\ call = "none"
    /\ ResumeProcessing
    /\ call' = CASE current = NoAction -> Perform
                 [] current = Cleanup -> "ResumeAction"
                 [] OTHER -> "none"
    /\ \/ current = Postinstall /\ PostResumeAction
       \/ current # Postinstall /\ UNCHANGED postVars
    /\ UNCHANGED <<outcome, cleanupVars, verifierVars, plan, spent>>

(* StopProcessing, with TerminateProcessing; the actions are destroyed,    *)
(* and with them their pending tasks.                                      *)
Stop ==
    /\ call = "none"
    /\ StopProcessing
    /\ outcome' = "stopped"
    /\ cleanup' = NewCleanup
    /\ \/ current = Verifier /\ Released(verifier)
       \/ current # Verifier /\ UNCHANGED <<verifier, mapping>>
    /\ \/ current = Postinstall /\ PostTerminateProcessing
       \/ current # Postinstall /\ UNCHANGED postVars
    /\ UNCHANGED <<call, snap, system, image, plan, spent>>

(* The daemon dies and starts again.  What the kernel and the storage hold *)
(* stays; children go on without it.                                       *)
Crash ==
    /\ IsRunning /\ spent.crashes < MaxInterrupts
    /\ spent' = [spent EXCEPT !.crashes = @ + 1]
    /\ actions' = << >> /\ current' = NoAction /\ suspended' = FALSE
    /\ suspendedErrorCode' = kSuccess
    /\ call' = "none" /\ outcome' = "crashed"
    /\ cleanup' = NewCleanup /\ verifier' = NewVerifier /\ post' = NewPost
    /\ children' = [p \in Pids |-> IF children[p].state = "none" THEN NoChild
                                   ELSE [NoChild EXCEPT !.state = "reaped"]]
    /\ UNCHANGED <<snap, system, image, mapping, mounts, powerwash, active, plan>>

Moves ==
    \/ CleanupStep
    \/ DownloadStep
    \/ VerifierStep /\ UNCHANGED <<cleanupVars, postVars, plan, spent>>
    \/ PostStep /\ UNCHANGED <<cleanupVars, spent>>
    \/ Environment

Next == Moves \/ Start \/ Suspend \/ Resume \/ Stop \/ Crash

Spec == Init /\ [][Next]_vars
FairSpec == Spec /\ WF_vars(Moves)

-----------------------------------------------------------------------------
(* Tasks and callbacks are bound to an unretained pointer to their action. *)
(* So none is left when its action is not the current one any more: not    *)
(* after it completed, was suspended and completed, or was cancelled while *)
(* a child was stopped or had just exited.                                 *)
NothingOutlivesItsAction ==
    /\ cleanup.task # "none" => current = Cleanup /\ cleanup.running /\ ~suspended
    /\ cleanup.metadata => current = Cleanup
    /\ verifier.task # NoTask => current = Verifier
    /\ verifier.fd # "none" => current = Verifier
    /\ \A p \in Pids : children[p].callback => current = Postinstall /\ post.command = p

(* While a postinstall program runs, the partition it belongs to is what   *)
(* is mounted, alone; once the action is over nothing stays mounted, but   *)
(* for what a crash has left behind.                                       *)
OneMount ==
    /\ Len(mounts) <= 1
    /\ post.command # 0 => mounts = <<post.index>>
    /\ mounts # << >> /\ spent.crashes = 0 => post.command # 0

(* Postinstall runs, and the slot is the one to boot, only with an image   *)
(* whose partitions are all right and whose verity data is in place, as    *)
(* the boot will find them.  It depends on MarkSlotUnbootable: a download  *)
(* that goes on after it has failed overwrites the image of a slot that an *)
(* earlier attempt has switched to.                                        *)
BootsWhatWasVerified ==
    current = Postinstall \/ active => image.target = Parts /\ image.verity = Parts

(* A target that is right is never reported wrong: it is hashed through    *)
(* devices that show the verity data just written.  The source is blamed   *)
(* only when it is wrong.                                                  *)
NoFalseAlarm ==
    /\ outcome = "kNewRootfsVerificationError" => image.target # Parts
    /\ outcome = "kDownloadStateInitializationError" => image.source # Parts

(* Merging gives up the old slot, so it never begins before the boot has   *)
(* completed and the slot is marked successful, across suspensions,        *)
(* cancellations and crashes.                                              *)
MergesOnlyAfterGoodBoot ==
    [][snap # "Merging" /\ snap' = "Merging" => system.booted /\ system.marked]_vars

(* A postinstall that scheduled a powerwash and fails, at whatever point,  *)
(* leaves none scheduled, if CancelPowerwash, whose result is ignored,     *)
(* does its work.                                                          *)
PowerwashUndone ==
    [][post'.scheduled /\ current = Postinstall /\ current' = NoAction
         /\ outcome' \notin {"kSuccess", "kUpdatedButNotActive", "stopped", "crashed"}
       => ~powerwash']_vars

(* An attempt that is not left suspended for ever ends.                    *)
SessionEnds == <>[](~suspended) => [](IsRunning => <>(~IsRunning))
=============================================================================
