------------------------ MODULE InstallActionsProofs ------------------------
(***************************************************************************)
(* Proofs about InstallActions, for every list of partitions, every set of *)
(* plans and images, and any number of attempts, suspensions, cancels and  *)
(* crashes: nothing outlives its action, one file system is mounted at a   *)
(* time, the slot is switched only to an image that was verified, a right  *)
(* image is never reported wrong, merging waits for a good boot, and a     *)
(* failed postinstall leaves no powerwash behind.                          *)
(***************************************************************************)
EXTENDS InstallActions, TLAPS

(* The action that runs or, when it completed while suspended, the one     *)
(* that comes next.                                                        *)
Stage == IF current # NoAction \/ actions = << >> THEN current ELSE Head(actions)

(* The queue is what is left of the pipeline.  Nothing runs while more is  *)
(* queued only in a suspension.                                            *)
QueueInv ==
    /\ suspended \in BOOLEAN
    /\ \/ current = NoAction /\ actions = << >>
       \/ current = Cleanup /\ actions = <<Download, Verifier, Postinstall>>
       \/ current = Download /\ actions = <<Verifier, Postinstall>>
       \/ current = Verifier /\ actions = <<Postinstall>>
       \/ current = Postinstall /\ actions = << >>
       \/ /\ current = NoAction /\ suspended
          /\ \/ actions = <<Download, Verifier, Postinstall>>
             \/ actions = <<Verifier, Postinstall>>
             \/ actions = <<Postinstall>>

(* The thread is inside a method of the current action only, and no action *)
(* is performed or resumed while suspended.                                *)
CallInv ==
    /\ call # "none" => current # NoAction
    /\ call \in {"PerformAction", "ResumeAction"} => ~suspended
    /\ call = "ResumeAction" => current = Cleanup
    /\ call \in {"StartPartitionHashing", "HashPartition"} => current = Verifier
    /\ call = "PerformPartitionPostinstall" => current = Postinstall

(* The cleanup action's task belongs to a running action that is not       *)
(* suspended, and is as far as the boot has come.                          *)
CleanupStates ==
    [running : BOOLEAN, task : {"none", "boot", "slot", "merge"},
     metadata : BOOLEAN, cancelFailed : BOOLEAN]

CleanupInv ==
    /\ cleanup \in CleanupStates
    /\ system \in [booted : BOOLEAN, marked : BOOLEAN]
    /\ cleanup.task # "none" => cleanup.running
    /\ cleanup.running => current = Cleanup /\ ~suspended
    /\ cleanup.metadata => current = Cleanup
    /\ cleanup.task \in {"slot", "merge"} => system.booted
    /\ cleanup.task = "merge" => system.marked

(* The verifier has work pending only while it is the current action, and  *)
(* between two partitions it has none.                                     *)
VerifierStates ==
    [index : Nat \ {0}, step : {"target", "source"}, fd : {"none", "cow", "view", "path"},
     task : [op : {"none", "hash", "verity"}, at : Nat], good : BOOLEAN]

VerifierInv ==
    /\ plan \in Plans
    /\ verifier \in VerifierStates
    /\ verifier.task.op = "none" => verifier.task = NoTask
    /\ verifier.task.op = "verity" => verifier.fd # "view"
    /\ verifier.task # NoTask \/ verifier.fd # "none" => current = Verifier
    /\ verifier.task # NoTask => verifier.index \in Parts
    /\ current = Verifier /\ (verifier.task.at = 0 \/ verifier.task.op = "verity")
         => verifier.good
    /\ Stage \in {Cleanup, Download} \/ (Stage = Verifier /\ current = NoAction)
         => verifier = NewVerifier
    /\ call \in {"PerformAction", "StartPartitionHashing"}
         => verifier.task = NoTask /\ verifier.fd = "none"

(* The blocks of partition v.index before at have been hashed, through     *)
(* devices that show its verity data, and good tells the truth about them. *)
HashedSoFar(v, at, i, m) ==
    /\ v.step = "target" =>
          /\ v.index \in i.verity
          /\ v.fd = "view" => v.index \in m.shows
          /\ v.good /\ at > 0 => v.index \in i.target
          /\ ~v.good => v.index \notin i.target
    /\ v.step = "source" /\ ~v.good => v.index \notin i.source

(* What the verifier has found out about the partitions so far is true.    *)
ImageInv ==
    /\ image \in [target : SUBSET Parts, source : SUBSET Parts, verity : SUBSET Parts]
    /\ mapping \in [up : BOOLEAN, shows : SUBSET Parts]
    /\ mapping.shows \subseteq image.verity
    /\ Stage = Verifier => \A p \in Parts :
          /\ Partitions[p].size = 0 => p \in image.target
          /\ ~(plan.writeVerity /\ Partitions[p].verity) => p \in image.verity
          /\ p < verifier.index => p \in image.target /\ p \in image.verity
    /\ verifier.step = "source" /\ current = Verifier => verifier.index \notin image.target
    /\ verifier.task.op = "hash" => HashedSoFar(verifier, verifier.task.at, image, mapping)

(* The DownloadAction can mark the slot it writes to.                      *)
Marks == "MarkSlotUnbootable" \notin Unnoticed

(* An image on which postinstall runs, or which will boot, is verified,    *)
(* and a slot that is switched stays so until the next download.           *)
SlotInv ==
    /\ Stage = Postinstall => image.target = Parts /\ image.verity = Parts
    /\ Marks /\ active => image.target = Parts /\ image.verity = Parts
    /\ Marks /\ active => Stage \in {NoAction, Cleanup, Download}
    /\ active \in BOOLEAN
    /\ NoFalseAlarm

(* The one child with a callback is the command the action waits for.      *)
IsPost(p) ==
    /\ p = [index |-> p.index, command |-> p.command,
            stopped |-> p.stopped, scheduled |-> p.scheduled]
    /\ p.command \in Nat

ChildStates ==
    [Pids -> [state : {"none", "running", "stopped", "exited", "reaped"},
              callback : BOOLEAN, status : ExitCodes \cup {0}]]

PostInv ==
    /\ IsPost(post)
    /\ post.command # 0 => current = Postinstall /\ call = "none" /\ post.command \in Pids
    /\ children \in ChildStates
    /\ \A p \in Pids : children[p].callback => post.command = p

(* At most one file system is mounted: the command's, or what a crash left.*)
MountInv ==
    /\ mounts = << >> \/ \E i : mounts = <<i>>
    /\ post.command # 0 => mounts = <<post.index>>
    /\ spent \in [sessions : Nat, suspends : Nat, crashes : Nat]
    /\ mounts # << >> /\ spent.crashes = 0 => post.command # 0

Inv ==
    /\ QueueInv /\ CallInv /\ CleanupInv /\ VerifierInv
    /\ ImageInv /\ SlotInv /\ PostInv /\ MountInv

-----------------------------------------------------------------------------
(* The actions are different, and none is the null pointer.                *)
LEMMA Names ==
    /\ NoAction \notin {Cleanup, Download, Verifier, Postinstall}
    /\ Cleanup \notin {Download, Verifier, Postinstall}
    /\ Download \notin {Verifier, Postinstall}
    /\ Verifier # Postinstall
<1>1. /\ Cleanup \notin {Download, Verifier, Postinstall}
      /\ Download \notin {Verifier, Postinstall} /\ Verifier # Postinstall
  BY DEF Cleanup, Download, Verifier, Postinstall
<1> QED
  BY <1>1, PipelineAssumption, NoActionAssumption

(* The stage after the one of action a, when a succeeds.                   *)
After(a) ==
    CASE a = Cleanup -> Download
      [] a = Download -> Verifier
      [] a = Verifier -> Postinstall
      [] OTHER -> NoAction

(* Taking the front off what is left of the pipeline.                      *)
LEMMA Fronts ==
    ASSUME NEW a, NEW b, NEW c
    PROVE  /\ Head(<<a>>) = a /\ Tail(<<a>>) = << >>
           /\ Head(<<a, b>>) = a /\ Tail(<<a, b>>) = <<b>>
           /\ Head(<<a, b, c>>) = a /\ Tail(<<a, b, c>>) = <<b, c>>
OBVIOUS

(* What the stage says about the queue.                                    *)
LEMMA StageOfQueue ==
    ASSUME QueueInv
    PROVE  /\ current # NoAction => Stage = current
           /\ current = NoAction /\ Stage # NoAction => suspended
           /\ Stage \in {NoAction, Cleanup, Download, Verifier, Postinstall}
           /\ Stage = Cleanup => current = Cleanup
           /\ Stage = NoAction => actions = << >>
BY Names DEF QueueInv, Stage

(* ActionComplete of the current action: its stage is over, and the next   *)
(* one has come if it succeeded.  The next action is performed at once     *)
(* unless the processor is suspended.                                      *)
LEMMA CompleteMovesOn ==
    ASSUME QueueInv, NEW code, Complete(code)
    PROVE  /\ QueueInv' /\ CallInv'
           /\ current # NoAction /\ current' # current
           /\ suspended' = suspended /\ outcome' = code
           /\ Stage' = IF code = kSuccess THEN After(current) ELSE NoAction
           /\ current' \in {NoAction, Stage'}
           /\ call' \in {"none", "PerformAction"}
           /\ call' = "PerformAction" <=> current' # NoAction
<1>1. /\ current # NoAction /\ suspended' = suspended /\ outcome' = code
      /\ call' = IF current' # NoAction THEN "PerformAction" ELSE "none"
  BY DEF Complete, ActionComplete, Perform
<1> DEFINE queue == IF code = kSuccess THEN actions ELSE << >>
<1>2. CASE suspended
  <2>1. actions' = queue /\ current' = NoAction
    BY <1>2 DEF Complete, ActionComplete
  <2> QED
    BY <1>1, <1>2, <2>1, Names DEF QueueInv, CallInv, Stage, After
<1>3. CASE ~suspended
  <2>1. \/ queue = << >> /\ actions' = << >> /\ current' = NoAction
        \/ queue # << >> /\ current' = Head(queue) /\ actions' = Tail(queue)
    BY <1>3 DEF Complete, ActionComplete, StartNextActionOrFinish, PerformFront
  <2>2. CASE queue = << >>
    BY <1>1, <1>3, <2>1, <2>2, Names DEF QueueInv, CallInv, Stage, After
  <2>3. CASE queue # << >>
    <3>1. code = kSuccess /\ current' = Head(actions) /\ actions' = Tail(actions) /\ actions # << >>
      BY <2>1, <2>3
    <3>2. \/ current = Cleanup /\ current' = Download /\ actions' = <<Verifier, Postinstall>>
          \/ current = Download /\ current' = Verifier /\ actions' = <<Postinstall>>
          \/ current = Verifier /\ current' = Postinstall /\ actions' = << >>
      <4>1. CASE actions = <<Download, Verifier, Postinstall>> /\ current = Cleanup
        BY <3>1, <4>1, Fronts
      <4>2. CASE actions = <<Verifier, Postinstall>> /\ current = Download
        BY <3>1, <4>2, Fronts
      <4>3. CASE actions = <<Postinstall>> /\ current = Verifier
        BY <3>1, <4>3, Fronts
      <4> QED
        BY <1>1, <3>1, <4>1, <4>2, <4>3 DEF QueueInv
    <3> QED
      BY <1>1, <1>3, <3>1, <3>2, Names DEF QueueInv, CallInv, Stage, After
  <2> QED
    BY <2>2, <2>3
<1> QED
  BY <1>2, <1>3 DEF QueueInv

(* A method that returns without completing its action leaves the          *)
(* processor alone.                                                        *)
LEMMA CallsStay ==
    ASSUME QueueInv, NEW method, Calls(method)
    PROVE  /\ QueueInv' /\ Stage' = Stage /\ call' = method
           /\ current' = current /\ suspended' = suspended /\ outcome' = outcome
BY DEF Calls, procVars, QueueInv, Stage

-----------------------------------------------------------------------------
(* A step of the cleanup action either completes it, with nothing left, or *)
(* leaves one task behind that fits what the system has reached.           *)
CleanupCodes == {"kSuccess", "kError", "kDeviceCorrupted"}

CleanupOver ==
    /\ \E code \in CleanupCodes : Complete(code)
    /\ cleanup' \in CleanupStates /\ ~cleanup'.running
    /\ cleanup'.task = "none" /\ ~cleanup'.metadata

CleanupGoesOn ==
    \/ CleanupOver
    \/ /\ Return
       /\ cleanup' \in CleanupStates /\ cleanup'.running
       /\ cleanup'.task \in {"slot", "merge"} => system.booted
       /\ cleanup'.task = "merge" => system.marked

(* ActionComplete of the cleanup action leaves nothing of it behind.       *)
LEMMA CleanupEnds ==
    ASSUME NEW c \in CleanupStates, NEW code \in CleanupCodes, CleanupCompletes(c, code)
    PROVE  CleanupOver
<1>1. cleanup' = [[c EXCEPT !.running = FALSE, !.task = "none"] EXCEPT !.metadata = FALSE]
  BY DEF CleanupCompletes, StopActionInternal
<1>2. /\ cleanup' \in CleanupStates /\ ~cleanup'.running
      /\ cleanup'.task = "none" /\ ~cleanup'.metadata
  BY <1>1, Zenon DEF CleanupStates
<1> QED
  BY <1>2 DEF CleanupOver, CleanupCompletes

(* PostDelayedTask succeeds or the action completes.                       *)
LEMMA SchedulingGoesOn ==
    ASSUME NEW c \in CleanupStates, c.running, NEW task \in {"boot", "slot", "merge"},
           task # "boot" => system.booted, task = "merge" => system.marked,
           Schedule(c, task)
    PROVE  CleanupGoesOn
<1>1. CASE cleanup' = [c EXCEPT !.task = task] /\ Return
  <2>1. cleanup' \in CleanupStates /\ cleanup'.running /\ cleanup'.task = task
    BY <1>1 DEF CleanupStates
  <2> QED
    BY <1>1, <2>1 DEF CleanupGoesOn
<1>2. CASE CleanupCompletes(c, "kError")
  BY <1>2, CleanupEnds DEF CleanupGoesOn, CleanupCodes
<1> QED
  BY <1>1, <1>2 DEF Schedule

(* WaitForMergeOrSchedule, whatever state the snapshots are in.            *)
LEMMA MergingGoesOn ==
    ASSUME NEW c \in CleanupStates, c.running, system.booted, system.marked,
           WaitForMergeOrSchedule(c)
    PROVE  CleanupGoesOn
<1>1. \/ Schedule(c, "merge")
      \/ \E code \in CleanupCodes : CleanupCompletes(c, code)
      \/ CleanupCompletes([c EXCEPT !.cancelFailed = TRUE], "kError")
  BY DEF WaitForMergeOrSchedule, InitiateMergeAndWait, Cancelled, CleanupCodes
<1>2. [c EXCEPT !.cancelFailed = TRUE] \in CleanupStates
  BY Zenon DEF CleanupStates
<1> QED
  BY <1>1, <1>2, SchedulingGoesOn, CleanupEnds DEF CleanupGoesOn, CleanupCodes

(* CheckSlotMarkedSuccessfulOrSchedule, once the boot has completed.       *)
LEMMA SlotCheckGoesOn ==
    ASSUME NEW c \in CleanupStates, c.running, system.booted,
           CheckSlotMarkedSuccessfulOrSchedule(c)
    PROVE  CleanupGoesOn
<1>1. \/ Schedule(c, "slot")
      \/ CleanupCompletes(c, "kError")
      \/ system.marked /\ WaitForMergeOrSchedule([c EXCEPT !.metadata = TRUE])
  BY DEF CheckSlotMarkedSuccessfulOrSchedule
<1> DEFINE d == [c EXCEPT !.metadata = TRUE]
<1>2. d \in CleanupStates /\ d.running
  BY Zenon DEF CleanupStates
<1> HIDE DEF d
<1>3. CASE system.marked /\ WaitForMergeOrSchedule(d)
  BY <1>2, <1>3, MergingGoesOn
<1> QED
  BY <1>1, <1>3, SchedulingGoesOn, CleanupEnds DEF CleanupGoesOn, CleanupCodes, d

(* WaitBootCompletedOrSchedule, at any time.                               *)
LEMMA BootCheckGoesOn ==
    ASSUME NEW c \in CleanupStates, c.running, WaitBootCompletedOrSchedule(c)
    PROVE  CleanupGoesOn
BY SlotCheckGoesOn, SchedulingGoesOn DEF WaitBootCompletedOrSchedule

(* So does every step of the action, and it is the current one.            *)
LEMMA CleanupStepGoesOn ==
    ASSUME CleanupInv, CallInv, CleanupStep
    PROVE  current = Cleanup /\ ~suspended /\ system' = system /\ CleanupGoesOn
<1>1. system' = system
  BY DEF CleanupStep, StartActionInternal, RunCleanupTask
<1>2. CASE StartActionInternal
  <2> DEFINE c == [cleanup EXCEPT !.running = TRUE]
  <2>1. c \in CleanupStates /\ c.running
    BY Zenon DEF CleanupInv, CleanupStates
  <2>2. WaitBootCompletedOrSchedule(c) /\ current = Cleanup /\ ~suspended
    BY <1>2 DEF StartActionInternal, Inside, CallInv
  <2> HIDE DEF c
  <2> QED
    BY <1>1, <2>1, <2>2, BootCheckGoesOn
<1>3. CASE RunCleanupTask
  <2> DEFINE c == [cleanup EXCEPT !.task = "none"]
  <2>1. c \in CleanupStates /\ c.running = cleanup.running
    BY DEF CleanupInv, CleanupStates
  <2>2. /\ cleanup.running /\ current = Cleanup /\ ~suspended
        /\ \/ WaitBootCompletedOrSchedule(c)
           \/ system.booted /\ CheckSlotMarkedSuccessfulOrSchedule(c)
           \/ system.booted /\ system.marked /\ WaitForMergeOrSchedule(c)
    BY <1>3, <2>1 DEF RunCleanupTask, CleanupInv
  <2> HIDE DEF c
  <2> QED
    BY <1>1, <2>1, <2>2, BootCheckGoesOn, SlotCheckGoesOn, MergingGoesOn, Zenon
<1> QED
  BY <1>2, <1>3 DEF CleanupStep

-----------------------------------------------------------------------------
(* What a step leaves alone stays right when another action goes on, or    *)
(* the processor moves on.  The cleanup action.                            *)
LEMMA CleanupFrame ==
    ASSUME CleanupInv, UNCHANGED <<cleanup, system>>,
           current # Cleanup \/ (current' = current /\ suspended' = suspended)
    PROVE  CleanupInv'
BY DEF CleanupInv

(* The processor stands still, or moves on without the verifier.           *)
Elsewhere ==
    \/ /\ current' = current /\ Stage' = Stage
       /\ call' = call \/ call' \notin {"PerformAction", "StartPartitionHashing"}
    \/ /\ current # Verifier
       /\ Stage' \in {Stage, NoAction, After(current)}
       /\ current' \in {NoAction, Stage'}

(* The verifier, which is new until it is performed.                       *)
LEMMA VerifierFrame ==
    ASSUME QueueInv, QueueInv', VerifierInv, UNCHANGED <<plan, verifier>>, Elsewhere
    PROVE  VerifierInv'
<1>1. CASE current' = current /\ Stage' = Stage
           /\ (call' = call \/ call' \notin {"PerformAction", "StartPartitionHashing"})
  BY <1>1 DEF VerifierInv
<1>2. CASE /\ current # Verifier
           /\ Stage' \in {Stage, NoAction, After(current)}
           /\ current' \in {NoAction, Stage'}
  <2>1. verifier.task = NoTask /\ verifier.fd = "none"
    BY <1>2 DEF VerifierInv
  <2>2. Stage' \in {Cleanup, Download, Verifier} => verifier = NewVerifier
    BY <1>2, StageOfQueue, Names DEF VerifierInv, After
  <2>3. current' = Verifier => verifier.good
    BY <1>2, <2>2, Names DEF NewVerifier
  <2> QED
    BY <2>1, <2>2, <2>3 DEF VerifierInv
<1> QED
  BY <1>1, <1>2 DEF Elsewhere

(* What the verifier knows of the image.                                   *)
LEMMA ImageFrame ==
    ASSUME QueueInv, QueueInv', VerifierInv, ImageInv,
           UNCHANGED <<plan, image, mapping, verifier>>,
           Stage' = Verifier => Stage = Verifier
    PROVE  ImageInv'
<1>1. current' = Verifier => Stage' = Verifier
  BY Names DEF Stage
<1>2. current' = Verifier /\ current # Verifier => verifier.step = "target"
  BY <1>1, StageOfQueue DEF VerifierInv, NewVerifier
<1> QED
  BY <1>2 DEF ImageInv

(* What the slot switch rests on.                                          *)
LEMMA SlotFrame ==
    ASSUME SlotInv, UNCHANGED <<image, active>>,
           Stage' = Postinstall => Stage = Postinstall,
           Marks /\ active => Stage' \in {NoAction, Cleanup, Download},
           \/ outcome' = outcome
           \/ outcome' \notin {"kNewRootfsVerificationError", "kDownloadStateInitializationError"}
    PROVE  SlotInv'
BY DEF SlotInv, NoFalseAlarm

(* Postinstall's program and its callback.                                 *)
LEMMA PostFrame ==
    ASSUME PostInv, UNCHANGED <<children, post>>,
           (current' = current /\ call' = call) \/ current # Postinstall \/ post.command = 0
    PROVE  PostInv'
BY DEF PostInv

(* What is mounted.                                                        *)
LEMMA MountFrame ==
    ASSUME MountInv, UNCHANGED <<mounts, post, spent>>
    PROVE  MountInv'
BY DEF MountInv

(* The step of the cleanup action.                                         *)
LEMMA CleanupStepInv ==
    ASSUME Inv, CleanupStep
    PROVE  Inv'
<1> USE DEF Inv
<1>1. /\ current = Cleanup /\ ~suspended /\ system' = system /\ CleanupGoesOn
      /\ Stage = Cleanup
  BY CleanupStepGoesOn, StageOfQueue, Names
<1>2. UNCHANGED <<plan, image, mapping, verifier, children, post, mounts, active, spent>>
  BY DEF CleanupStep, verifierVars, postVars
<1>3. CASE CleanupOver
  <2>1. PICK code \in CleanupCodes : Complete(code)
    BY <1>3 DEF CleanupOver
  <2>2. /\ QueueInv' /\ CallInv' /\ current' # Cleanup /\ outcome' = code
        /\ Stage' \in {NoAction, Download} /\ current' \in {NoAction, Stage'}
    BY <1>1, <2>1, CompleteMovesOn, Names DEF After
  <2>3. CleanupInv'
    BY <1>1, <1>3, <2>2 DEF CleanupInv, CleanupOver
  <2>4. VerifierInv'
    BY <1>1, <1>2, <2>2, VerifierFrame, Names DEF Elsewhere, After
  <2>5. ImageInv'
    BY <1>1, <1>2, <2>2, ImageFrame, Names
  <2>6. SlotInv'
    BY <1>1, <1>2, <2>2, SlotFrame, Names DEF SlotInv, CleanupCodes
  <2>7. PostInv' /\ MountInv'
    BY <1>1, <1>2, PostFrame, MountFrame, Names
  <2> QED
    BY <2>2, <2>3, <2>4, <2>5, <2>6, <2>7
<1>4. CASE /\ Return
           /\ cleanup' \in CleanupStates /\ cleanup'.running
           /\ cleanup'.task \in {"slot", "merge"} => system.booted
           /\ cleanup'.task = "merge" => system.marked
  <2>1. /\ QueueInv' /\ Stage' = Stage /\ call' = "none" /\ outcome' = outcome
        /\ current' = current /\ suspended' = suspended
    BY <1>4, CallsStay DEF Return
  <2>2. CallInv' /\ CleanupInv'
    BY <1>1, <1>4, <2>1, Names DEF CallInv, CleanupInv
  <2>3. VerifierInv' /\ ImageInv'
    BY <1>1, <1>2, <2>1, VerifierFrame, ImageFrame DEF Elsewhere
  <2>4. SlotInv' /\ PostInv' /\ MountInv'
    BY <1>1, <1>2, <2>1, SlotFrame, PostFrame, MountFrame, Names DEF SlotInv
  <2> QED
    BY <2>1, <2>2, <2>3, <2>4
<1> QED
  BY <1>1, <1>3, <1>4 DEF CleanupGoesOn

(* The download leaves an image that the verifier starts on.               *)
LEMMA DownloadStepInv ==
    ASSUME Inv, DownloadStep
    PROVE  Inv'
<1> USE DEF Inv
<1>1. /\ current = Download /\ Stage = Download /\ verifier = NewVerifier
      /\ UNCHANGED <<cleanup, system, plan, verifier, children, post, mounts, spent>>
      /\ mapping' = Unmapped
  BY StageOfQueue, Names DEF DownloadStep, Inside, cleanupVars, VerifierInv
<1>2. PICK code \in {"kSuccess", "kDownloadTransferError"} : Complete(code)
  BY DEF DownloadStep
<1>3. /\ QueueInv' /\ CallInv' /\ current' # Download /\ outcome' = code
      /\ Stage' \in {NoAction, Verifier} /\ current' \in {NoAction, Stage'}
  BY <1>1, <1>2, CompleteMovesOn, Names DEF After
<1>4. PICK i \in Images :
          image' = [target |-> i.target, source |-> i.source, verity |->
                      {p \in Parts : ~(plan.writeVerity /\ Partitions[p].verity)}]
  BY DEF DownloadStep
<1>5. CleanupInv' /\ VerifierInv'
  BY <1>1, <1>3, CleanupFrame, VerifierFrame, Names DEF Elsewhere, After
<1>6. ImageInv'
  <2>1. /\ image' \in [target : SUBSET Parts, source : SUBSET Parts, verity : SUBSET Parts]
        /\ mapping' \in [up : BOOLEAN, shows : SUBSET Parts] /\ mapping'.shows = {}
    BY <1>1, <1>4, ImagesAssumption DEF Unmapped
  <2>2. \A p \in Parts :
          /\ Partitions[p].size = 0 => p \in image'.target
          /\ ~(plan.writeVerity /\ Partitions[p].verity) => p \in image'.verity
          /\ ~(p < verifier.index)
    BY <1>1, <1>4, ImagesAssumption, PartitionsAssumption DEF NewVerifier, Parts
  <2>3. verifier'.step = "target" /\ verifier'.task.op = "none"
    BY <1>1 DEF NewVerifier, NoTask
  <2> QED
    BY <1>1, <2>1, <2>2, <2>3 DEF ImageInv
<1>7. SlotInv'
  <2>1. PICK marked \in Results("MarkSlotUnbootable") : active' = (active /\ ~marked)
    BY DEF DownloadStep
  <2>2. active' \in BOOLEAN /\ (Marks => ~active')
    BY <2>1, Zenon DEF Results, Marks
  <2> QED
    BY <1>1, <1>3, <2>2, Names DEF SlotInv, NoFalseAlarm
<1>8. PostInv' /\ MountInv'
  BY <1>1, PostFrame, MountFrame, Names
<1> QED
  BY <1>3, <1>5, <1>6, <1>7, <1>8

-----------------------------------------------------------------------------
(* The steps of the verifier.                                              *)
OthersStay == UNCHANGED <<cleanupVars, postVars, plan, spent>>

(* The verifier completes: with success only for a whole image, and with a *)
(* verdict only on what is wrong.                                          *)
LEMMA VerifierEnds ==
    ASSUME Inv, current = Verifier, OthersStay, NEW code, Complete(code),
           verifier' \in VerifierStates, verifier'.fd = "none", verifier'.task = NoTask,
           image' \in [target : SUBSET Parts, source : SUBSET Parts, verity : SUBSET Parts],
           image'.target = image.target, image'.source = image.source,
           mapping' \in [up : BOOLEAN, shows : SUBSET Parts],
           mapping'.shows \subseteq image'.verity,
           code = "kSuccess" => image'.target = Parts /\ image'.verity = Parts,
           code = "kNewRootfsVerificationError" => image.target # Parts,
           code = "kDownloadStateInitializationError" => image.source # Parts
    PROVE  Inv'
<1> USE DEF Inv
<1>1. UNCHANGED <<cleanup, system, children, post, mounts, active, plan, spent>>
  BY DEF OthersStay, cleanupVars, postVars
<1>2. /\ QueueInv' /\ CallInv' /\ current' \in {NoAction, Postinstall} /\ outcome' = code
      /\ Stage' = (IF code = kSuccess THEN Postinstall ELSE NoAction) /\ Stage = Verifier
      /\ call' # "StartPartitionHashing"
  BY CompleteMovesOn, StageOfQueue, Names DEF After
<1>3. CleanupInv' /\ PostInv' /\ MountInv'
  BY <1>1, CleanupFrame, PostFrame, MountFrame, Names
<1>4. VerifierInv'
  BY <1>1, <1>2, Names DEF VerifierInv, NoTask
<1>5. ImageInv'
  BY <1>2, Names DEF ImageInv, NoTask
<1>6. SlotInv'
  BY <1>1, <1>2, Names, SuccessAssumption DEF SlotInv, NoFalseAlarm
<1> QED
  BY <1>2, <1>3, <1>4, <1>5, <1>6

(* The verifier goes on, having found out something true.                  *)
LEMMA VerifierStays ==
    ASSUME Inv, current = Verifier, OthersStay,
           NEW method \in {"none", "HashPartition", "StartPartitionHashing"}, Calls(method),
           image'.target = image.target, image'.source = image.source,
           VerifierInv', ImageInv'
    PROVE  Inv'
<1> USE DEF Inv
<1>1. UNCHANGED <<cleanup, system, children, post, mounts, active, plan, spent>>
  BY DEF OthersStay, cleanupVars, postVars
<1>2. /\ QueueInv' /\ Stage' = Stage /\ Stage = Verifier /\ call' = method
      /\ current' = current /\ suspended' = suspended /\ outcome' = outcome
  BY CallsStay, StageOfQueue, Names
<1>3. CallInv' /\ CleanupInv' /\ PostInv' /\ MountInv'
  BY <1>1, <1>2, CleanupFrame, PostFrame, MountFrame, Names DEF CallInv
<1>4. SlotInv'
  BY <1>1, <1>2, Names DEF SlotInv, NoFalseAlarm
<1> QED
  BY <1>2, <1>3, <1>4

(* The partitions are numbered, and each has the size the plan says.       *)
LEMMA PartitionTypes ==
    \A p \in Parts : p \in Nat \ {0} /\ p <= Len(Partitions) /\ Partitions[p].size \in Nat
                     /\ Partitions[p].verity \in BOOLEAN /\ Partitions[p].dataEnd \in Nat
<1> DEFINE S == [dynamic : BOOLEAN, verity : BOOLEAN, delta : BOOLEAN, size : Nat,
                 dataEnd : Nat, path : BOOLEAN, runPostinstall : BOOLEAN, optional : BOOLEAN]
<1>1. Partitions \in Seq(S)
  BY PartitionsAssumption
<1>2. ASSUME NEW e \in S PROVE e.size \in Nat /\ e.verity \in BOOLEAN /\ e.dataEnd \in Nat
  OBVIOUS
<1> HIDE DEF S
<1>3. ASSUME NEW p \in Parts PROVE p \in Nat \ {0} /\ p <= Len(Partitions) /\ Partitions[p] \in S
  BY <1>1 DEF Parts
<1> QED
  BY <1>2, <1>3

(* Cleanup, with the descriptor v still open or not.                       *)
LEMMA VerifierCleanupInv ==
    ASSUME Inv, current = Verifier, OthersStay, NEW v \in VerifierStates, NEW code,
           VerifierCleanup(v, code),
           code = "kSuccess" => image.target = Parts /\ image.verity = Parts,
           code = "kNewRootfsVerificationError" => image.target # Parts,
           code = "kDownloadStateInitializationError" => image.source # Parts
    PROVE  Inv'
<1>1. verifier' = [v EXCEPT !.fd = "none", !.task = NoTask] /\ image' = image /\ Complete(code)
  BY DEF VerifierCleanup, Released
<1>2. verifier' \in VerifierStates /\ verifier'.fd = "none" /\ verifier'.task = NoTask
  BY <1>1, Zenon DEF VerifierStates, NoTask
<1>3. mapping' = mapping \/ mapping' = Unmapped
  BY DEF VerifierCleanup, Released, UnmapAllPartitions
<1>4. mapping' \in [up : BOOLEAN, shows : SUBSET Parts] /\ mapping'.shows \subseteq image.verity
  <2>1. CASE mapping' = mapping
    BY <2>1 DEF Inv, ImageInv
  <2>2. CASE mapping' = Unmapped
    BY <2>2 DEF Unmapped
  <2> QED
    BY <1>3, <2>1, <2>2
<1> QED
  BY <1>1, <1>2, <1>4, VerifierEnds DEF Inv, ImageInv

(* On to the next partition, or to the source of this one.                 *)
LEMMA NextHashingInv ==
    ASSUME Inv, current = Verifier, OthersStay, NEW v \in VerifierStates, NextHashing(v),
           \A p \in Parts : p < v.index => p \in image.target /\ p \in image.verity,
           v.step = "source" => v.index \notin image.target
    PROVE  Inv'
<1>1. /\ verifier' = [v EXCEPT !.fd = "none", !.task = NoTask, !.good = TRUE]
      /\ Calls("StartPartitionHashing") /\ UNCHANGED <<image, mapping, plan>>
  BY DEF NextHashing, Closed, OthersStay
<1>2. /\ verifier' \in VerifierStates /\ verifier'.fd = "none" /\ verifier'.task = NoTask
      /\ verifier'.good /\ verifier'.index = v.index /\ verifier'.step = v.step
  BY <1>1, Zenon DEF VerifierStates, NoTask
<1>3. current' = Verifier /\ Stage' = Verifier /\ Stage = Verifier
  BY <1>1, CallsStay, StageOfQueue, Names DEF Inv
<1>4. VerifierInv'
  BY <1>1, <1>2, <1>3, Names DEF Inv, VerifierInv
<1>5. ImageInv'
  BY <1>1, <1>2, <1>3 DEF Inv, ImageInv, NoTask
<1> QED
  BY <1>1, <1>4, <1>5, VerifierStays

(* A buffer more, of the same partition.                                   *)
LEMMA PostTaskInv ==
    ASSUME Inv, current = Verifier, OthersStay, verifier.index \in Parts,
           NEW v \in VerifierStates, NEW op \in {"hash", "verity"}, NEW at \in Nat,
           PostTask(v, op, at),
           v.index = verifier.index, v.step = verifier.step,
           at = 0 \/ op = "verity" => v.good, op = "verity" => v.fd # "view",
           image' \in [target : SUBSET Parts, source : SUBSET Parts, verity : SUBSET Parts],
           image'.target = image.target, image'.source = image.source,
           image.verity \subseteq image'.verity,
           mapping' \in [up : BOOLEAN, shows : SUBSET Parts],
           mapping'.shows \subseteq image'.verity,
           op = "hash" => HashedSoFar(v, at, image', mapping')
    PROVE  Inv'
<1>1. /\ verifier' = [v EXCEPT !.task = [op |-> op, at |-> at]] /\ plan' = plan
      /\ Calls("HashPartition") \/ Calls("none")
  BY DEF PostTask, Return, OthersStay
<1>2. /\ verifier' \in VerifierStates /\ verifier'.task.op = op /\ verifier'.task.at = at
      /\ verifier'.fd = v.fd /\ verifier'.good = v.good
      /\ verifier'.index = verifier.index /\ verifier'.step = verifier.step
  BY <1>1 DEF VerifierStates
<1>3. /\ current' = Verifier /\ Stage' = Verifier /\ Stage = Verifier
      /\ call' \in {"none", "HashPartition"}
  BY <1>1, CallsStay, StageOfQueue, Names DEF Inv
<1>4. VerifierInv'
  BY <1>1, <1>2, <1>3, Names DEF Inv, VerifierInv
<1>5. ImageInv'
  <2>1. op = "hash" => HashedSoFar(verifier', verifier'.task.at, image', mapping')
    BY <1>2 DEF HashedSoFar
  <2> QED
    BY <1>1, <1>2, <1>3, <2>1 DEF Inv, ImageInv
<1> QED
  BY <1>1, <1>4, <1>5, VerifierStays

(* FinishPartitionHashing: the verdict on a partition is a true one.       *)
LEMMA FinishPartitionHashingInv ==
    ASSUME Inv, current = Verifier, OthersStay, verifier.task.op = "hash",
           NEW v, v = [verifier EXCEPT !.task = NoTask],
           verifier.task.at >= PartitionSize(v), FinishPartitionHashing(v)
    PROVE  Inv'
<1>1. /\ v \in VerifierStates /\ v.index \in Parts /\ v.index \in Nat \ {0} /\ v.index = verifier.index
      /\ v.step = verifier.step /\ v.good = verifier.good /\ verifier.task.at \in Nat
  BY DEF Inv, VerifierInv, VerifierStates, NoTask
<1>2. Partitions[v.index].size \in Nat
  BY <1>1, PartitionTypes
<1>3. Stage = Verifier
  BY StageOfQueue, Names DEF Inv
<1>4. HashedSoFar(verifier, verifier.task.at, image, mapping)
  BY DEF Inv, ImageInv
<1>5. \A p \in Parts : /\ Partitions[p].size = 0 => p \in image.target
                       /\ p < v.index => p \in image.target /\ p \in image.verity
  BY <1>1, <1>3 DEF Inv, ImageInv
<1>6. v.step = "target" /\ v.good => v.index \in image.target /\ v.index \in image.verity
  BY <1>1, <1>2, <1>4, <1>5 DEF HashedSoFar, PartitionSize
<1>7. CASE VerifierCleanup(v, "kError")
  BY <1>1, <1>7, VerifierCleanupInv
<1>8. CASE v.step = "target" /\ v.good /\ NextHashing([v EXCEPT !.index = @ + 1])
  <2> DEFINE w == [v EXCEPT !.index = @ + 1]
  <2> DEFINE next == v.index + 1
  <2>0. next \in Nat \ {0}
    BY <1>1
  <2> HIDE DEF next
  <2>1. w \in VerifierStates /\ w.index = next /\ w.step = "target"
    BY <1>1, <1>8, <2>0, Zenon DEF VerifierStates, next
  <2> USE DEF next
  <2>2. \A p \in Parts : p < w.index => p \in image.target /\ p \in image.verity
    <3> SUFFICES ASSUME NEW p \in Parts, p < v.index + 1
                 PROVE  p \in image.target /\ p \in image.verity
      BY <2>1
    <3>1. p \in Nat
      BY PartitionsAssumption DEF Parts
    <3>2. p < v.index \/ p = v.index
      BY <3>1, <1>1
    <3> QED
      BY <3>2, <1>5, <1>6, <1>8
  <2>3. NextHashing(w)
    BY <1>8
  <2> HIDE DEF w
  <2> QED
    BY <2>1, <2>2, <2>3, NextHashingInv
<1>9. CASE v.step = "target" /\ ~v.good /\ NextHashing([v EXCEPT !.step = "source"])
  <2> DEFINE w == [v EXCEPT !.step = "source"]
  <2>1. w \in VerifierStates /\ w.index = v.index
    BY <1>1, <1>9, Zenon DEF VerifierStates
  <2>2. w.index \notin image.target
    BY <1>1, <1>4, <1>9, <2>1 DEF HashedSoFar
  <2>3. \A p \in Parts : p < w.index => p \in image.target /\ p \in image.verity
    BY <1>5, <2>1
  <2>4. NextHashing(w)
    BY <1>9
  <2> HIDE DEF w
  <2> QED
    BY <2>1, <2>2, <2>3, <2>4, NextHashingInv
<1>10. CASE v.step = "target" /\ ~v.good /\ VerifierCleanup(v, "kNewRootfsVerificationError")
  <2>1. image.target # Parts
    BY <1>1, <1>4, <1>10 DEF HashedSoFar
  <2> QED
    BY <1>1, <1>10, <2>1, VerifierCleanupInv
<1>11. CASE v.step = "source" /\ v.good /\ VerifierCleanup(v, "kNewRootfsVerificationError")
  <2>1. image.target # Parts
    BY <1>1, <1>11 DEF Inv, ImageInv
  <2> QED
    BY <1>1, <1>11, <2>1, VerifierCleanupInv
<1>12. CASE v.step = "source" /\ ~v.good /\ VerifierCleanup(v, "kDownloadStateInitializationError")
  <2>1. image.source # Parts
    BY <1>1, <1>4, <1>12 DEF HashedSoFar
  <2> QED
    BY <1>1, <1>12, <2>1, VerifierCleanupInv
<1> QED
  BY <1>7, <1>8, <1>9, <1>10, <1>11, <1>12, Zenon DEF FinishPartitionHashing

(* HashPartition: good stays the truth about what was hashed.              *)
LEMMA HashPartitionInv ==
    ASSUME Inv, current = Verifier, OthersStay, verifier.task.op = "hash",
           NEW v, v = [verifier EXCEPT !.task = NoTask], HashPartition(v, verifier.task.at)
    PROVE  Inv'
<1> DEFINE at == verifier.task.at
<1>1. /\ v \in VerifierStates /\ v.index \in Parts /\ v.index = verifier.index
      /\ v.step = verifier.step /\ v.good = verifier.good /\ v.fd = verifier.fd /\ at \in Nat
  BY DEF Inv, VerifierInv, VerifierStates, NoTask
<1>2. HashedSoFar(verifier, at, image, mapping)
  BY DEF Inv, ImageInv
<1>3. CASE at >= PartitionSize(v) /\ FinishPartitionHashing(v)
  BY <1>3, FinishPartitionHashingInv
<1>4. CASE VerifierCleanup(v, "kFilesystemVerifierError")
  BY <1>1, <1>4, VerifierCleanupInv
<1>5. CASE /\ PostTask([v EXCEPT !.good = @ /\ Right(v, at)], "hash", at + 1)
           /\ UNCHANGED <<mapping, image>>
  <2> DEFINE right == Right(v, at)
             w == [v EXCEPT !.good = @ /\ right]
  <2>1. (v.good /\ right) \in BOOLEAN
    OBVIOUS
  <2>2. /\ right /\ v.step = "target" => v.index \in image.target
        /\ ~right /\ v.step = "target" => v.index \notin image.target
        /\ ~right /\ v.step = "source" => v.index \notin image.source
    BY <1>1, <1>2 DEF Right, HashedSoFar, VerifierStates
  <2>3. PostTask(w, "hash", at + 1)
    BY <1>5
  <2> HIDE DEF right
  <2>4. /\ w \in VerifierStates /\ w.good = (v.good /\ right) /\ w.index = v.index
        /\ w.step = v.step /\ w.fd = v.fd
    BY <1>1, <2>1, Zenon DEF VerifierStates
  <2> HIDE DEF w
  <2>5. HashedSoFar(w, at + 1, image', mapping')
    BY <1>1, <1>2, <1>5, <2>2, <2>4 DEF HashedSoFar, VerifierStates
  <2>6. /\ image' \in [target : SUBSET Parts, source : SUBSET Parts, verity : SUBSET Parts]
        /\ mapping' \in [up : BOOLEAN, shows : SUBSET Parts] /\ mapping'.shows \subseteq image'.verity
    BY <1>5 DEF Inv, ImageInv
  <2>7. at + 1 \in Nat /\ ~(at + 1 = 0)
    BY <1>1
  <2> HIDE DEF at
  <2> QED
    BY <1>1, <1>5, <2>3, <2>4, <2>5, <2>6, <2>7, PostTaskInv
<1> QED
  BY <1>3, <1>4, <1>5, Zenon DEF HashPartition

(* The devices are mapped afresh, and show the verity data there is.       *)
LEMMA RemapShows ==
    ASSUME NEW v, NEW verity
    PROVE  Remap(v, verity) = [up |-> TRUE, shows |-> verity]
BY DEF Remap, MapAllPartitions, UnmapAllPartitions, Unmapped

(* WriteVerityAndHashPartition: when the verity data is in place, the      *)
(* partition is read through devices that show it.                         *)
LEMMA WriteVerityInv ==
    ASSUME Inv, current = Verifier, OthersStay, verifier.task.op = "verity",
           NEW v, v = [verifier EXCEPT !.task = NoTask],
           WriteVerityAndHashPartition(v, verifier.task.at)
    PROVE  Inv'
<1> DEFINE at == verifier.task.at
           Image == [target : SUBSET Parts, source : SUBSET Parts, verity : SUBSET Parts]
<1>1. /\ v \in VerifierStates /\ v.index \in Parts /\ v.index = verifier.index
      /\ v.step = verifier.step /\ v.good /\ v.fd # "view" /\ at \in Nat
  BY DEF Inv, VerifierInv, VerifierStates, NoTask
<1>2. image \in Image /\ mapping \in [up : BOOLEAN, shows : SUBSET Parts] /\ mapping.shows \subseteq image.verity
  BY DEF Inv, ImageInv
<1>3. CASE VerifierCleanup(v, "kVerityCalculationError")
  BY <1>1, <1>3, VerifierCleanupInv
<1>4. CASE PostTask(v, "verity", at + 1) /\ UNCHANGED <<mapping, image>>
  <2>1. at + 1 \in Nat
    BY <1>1
  <2> HIDE DEF at
  <2> QED
    BY <1>1, <1>2, <1>4, <2>1, PostTaskInv, Zenon
<1>5. CASE /\ image' = [image EXCEPT !.verity = @ \cup {v.index}]
           /\ mapping' = IF plan.compression THEN Remap(v, image'.verity) ELSE mapping
           /\ \/ PostTask([v EXCEPT !.fd = IF plan.compression THEN "view" ELSE @], "hash", 0)
              \/ /\ plan.compression
                 /\ verifier' = Closed(v) /\ Complete("kFilesystemVerifierError")
  <2>1. /\ image' \in Image /\ image'.target = image.target /\ image'.source = image.source
        /\ image'.verity = image.verity \cup {v.index}
    BY <1>1, <1>2, <1>5
  <2>2. /\ mapping' \in [up : BOOLEAN, shows : SUBSET Parts] /\ mapping'.shows \subseteq image'.verity
        /\ plan.compression => v.index \in mapping'.shows
    <3>1. CASE plan.compression
      <4>1. mapping' = [up |-> TRUE, shows |-> image'.verity]
        BY <1>5, <3>1, RemapShows, Zenon
      <4> QED
        BY <2>1, <4>1
    <3>2. CASE ~plan.compression
      BY <1>2, <1>5, <2>1, <3>2
    <3> QED
      BY <3>1, <3>2
  <2>3. CASE PostTask([v EXCEPT !.fd = IF plan.compression THEN "view" ELSE @], "hash", 0)
    <3> DEFINE w == [v EXCEPT !.fd = IF plan.compression THEN "view" ELSE @]
    <3>1. /\ w \in VerifierStates /\ w.good /\ w.index = v.index /\ w.step = v.step
          /\ w.fd = "view" => plan.compression
      BY <1>1, Zenon DEF VerifierStates
    <3>2. PostTask(w, "hash", 0)
      BY <2>3
    <3> HIDE DEF w
    <3>3. HashedSoFar(w, 0, image', mapping')
      BY <2>1, <2>2, <3>1 DEF HashedSoFar
    <3> QED
      BY <1>1, <2>1, <2>2, <3>1, <3>2, <3>3, PostTaskInv
  <2>4. CASE verifier' = Closed(v) /\ Complete("kFilesystemVerifierError")
    <3>1. verifier' \in VerifierStates /\ verifier'.fd = "none" /\ verifier'.task = NoTask
      BY <1>1, <2>4, Zenon DEF VerifierStates, NoTask, Closed
    <3> QED
      BY <2>1, <2>2, <2>4, <3>1, VerifierEnds
  <2> QED
    BY <1>5, <2>3, <2>4
<1> QED
  BY <1>3, <1>4, <1>5, Zenon DEF WriteVerityAndHashPartition

(* The pending task is the verifier's.                                     *)
LEMMA RunVerifierTaskInv ==
    ASSUME Inv, OthersStay, RunVerifierTask
    PROVE  Inv'
<1>1. current = Verifier
  BY DEF Inv, VerifierInv, RunVerifierTask, NoTask
<1> DEFINE v == [verifier EXCEPT !.task = NoTask]
<1>2. \/ verifier.task.op = "hash" /\ HashPartition(v, verifier.task.at)
      \/ verifier.task.op = "verity" /\ WriteVerityAndHashPartition(v, verifier.task.at)
  BY DEF RunVerifierTask
<1> HIDE DEF v
<1>3. v = [verifier EXCEPT !.task = NoTask]
  BY DEF v
<1> QED
  BY <1>1, <1>2, <1>3, HashPartitionInv, WriteVerityInv

(* OpenPartition: to write verity data never through a mapped device.      *)
LEMMA OpenPartitionInv ==
    ASSUME Inv, current = Verifier, OthersStay, verifier.task = NoTask, verifier.fd = "none",
           verifier.index \in Parts, OpenPartition(verifier)
    PROVE  Inv'
<1> DEFINE v == verifier
           writes == ShouldWriteVerity(v)
           op == IF writes THEN "verity" ELSE "hash"
           fd == CASE IsVABC(v) /\ writes -> "cow"
                   [] IsVABC(v) /\ ~writes -> "view"
                   [] OTHER -> "path"
           w == [v EXCEPT !.fd = fd]
<1>1. v \in VerifierStates /\ v.good /\ op \in {"hash", "verity"}
  BY DEF Inv, VerifierInv, NoTask
<1>2. /\ image \in [target : SUBSET Parts, source : SUBSET Parts, verity : SUBSET Parts]
      /\ mapping \in [up : BOOLEAN, shows : SUBSET Parts] /\ mapping.shows \subseteq image.verity
  BY DEF Inv, ImageInv
<1>3. fd \in {"cow", "view", "path"} /\ (writes => fd # "view")
  OBVIOUS
<1>4. ~writes /\ v.step = "target" => v.index \in image.verity
  BY StageOfQueue, Names DEF Inv, ImageInv, ShouldWriteVerity
<1>5. CASE VerifierCleanup(v, "kFilesystemVerifierError")
  BY <1>1, <1>5, VerifierCleanupInv
<1>6. CASE VerifierCleanup(v, "kVerityCalculationError")
  BY <1>1, <1>6, VerifierCleanupInv
<1>7. CASE /\ verifier' = Closed(v) /\ Complete("kFilesystemVerifierError")
           /\ mapping' = IF plan.writeVerity THEN Remap(v, image.verity) ELSE Unmapped
           /\ UNCHANGED image
  <2>1. verifier' \in VerifierStates /\ verifier'.fd = "none" /\ verifier'.task = NoTask
    BY <1>1, <1>7, Zenon DEF VerifierStates, NoTask, Closed
  <2>2. mapping' = [up |-> TRUE, shows |-> image.verity] \/ mapping' = Unmapped
    BY <1>7, RemapShows, Zenon
  <2>3. mapping' \in [up : BOOLEAN, shows : SUBSET Parts] /\ mapping'.shows \subseteq image'.verity
    <3>1. image' = image
      BY <1>7
    <3>2. CASE mapping' = [up |-> TRUE, shows |-> image.verity]
      BY <1>2, <3>1, <3>2
    <3>3. CASE mapping' = Unmapped
      BY <1>2, <3>1, <3>3 DEF Unmapped
    <3> QED
      BY <2>2, <3>2, <3>3
  <2> QED
    BY <1>2, <1>7, <2>1, <2>3, VerifierEnds
<1>8. CASE /\ PostTask(w, op, 0)
           /\ mapping' = IF fd = "view" THEN Remap(v, image.verity) ELSE mapping
           /\ UNCHANGED image
  <2> HIDE DEF fd, op
  <2>1. /\ w \in VerifierStates /\ w.good /\ w.index = v.index /\ w.step = v.step /\ w.fd = fd
    BY <1>1, <1>3 DEF VerifierStates
  <2> HIDE DEF w
  <2>2. /\ mapping' \in [up : BOOLEAN, shows : SUBSET Parts] /\ mapping'.shows \subseteq image'.verity
        /\ fd = "view" => mapping'.shows = image'.verity
    <3>1. CASE fd = "view"
      <4>1. mapping' = [up |-> TRUE, shows |-> image.verity]
        BY <1>8, <3>1, RemapShows, Zenon
      <4>2. image' = image
        BY <1>8
      <4> QED
        BY <1>2, <4>1, <4>2
    <3>2. CASE fd # "view"
      BY <1>2, <1>8, <3>2
    <3> QED
      BY <3>1, <3>2
  <2>3. op = "hash" => HashedSoFar(w, 0, image', mapping')
    BY <1>4, <1>8, <2>1, <2>2 DEF HashedSoFar, op
  <2>4. op = "verity" => w.fd # "view"
    BY <1>3, <2>1 DEF op
  <2> QED
    BY <1>1, <1>2, <1>8, <2>1, <2>2, <2>3, <2>4, PostTaskInv
<1> QED
  BY <1>5, <1>6, <1>7, <1>8, Zenon DEF OpenPartition

(* StartPartitionHashing: past the last partition all of them are right.   *)
LEMMA StartPartitionHashingInv ==
    ASSUME Inv, OthersStay, StartPartitionHashing
    PROVE  Inv'
<1> DEFINE v == verifier
           done == v.index > Len(Partitions)
<1>1. /\ current = Verifier /\ Stage = Verifier /\ v \in VerifierStates /\ v.good
      /\ v.task = NoTask /\ v.fd = "none" /\ v.index \in Nat \ {0}
  <2>1. current = Verifier /\ v.task = NoTask /\ v.fd = "none" /\ v \in VerifierStates
    BY DEF Inv, VerifierInv, StartPartitionHashing
  <2> QED
    BY <2>1, StageOfQueue, Names DEF Inv, VerifierInv, NoTask, VerifierStates
<1>2. \A p \in Parts : /\ Partitions[p].size = 0 => p \in image.target
                       /\ ~(plan.writeVerity /\ Partitions[p].verity) => p \in image.verity
                       /\ p < v.index => p \in image.target /\ p \in image.verity
  BY <1>1 DEF Inv, ImageInv
<1>3. ~done => v.index \in Parts
  BY <1>1, PartitionsAssumption DEF Parts
<1>4. done => image.target = Parts /\ image.verity = Parts
  <2>1. image.target \subseteq Parts /\ image.verity \subseteq Parts
    BY DEF Inv, ImageInv
  <2>2. Len(Partitions) \in Nat
    BY PartitionsAssumption
  <2>3. done => \A p \in Parts : p < v.index
    BY <1>1, <2>2, PartitionTypes
  <2> QED
    BY <1>2, <2>1, <2>3, Zenon
<1>5. CASE done /\ VerifierCleanup(v, "kSuccess")
  BY <1>1, <1>4, <1>5, VerifierCleanupInv
<1>6. CASE VerifierCleanup(v, "kFilesystemVerifierError")
  BY <1>1, <1>6, VerifierCleanupInv
<1>7. CASE ~done /\ OpenPartition(v)
  BY <1>1, <1>3, <1>7, OpenPartitionInv
<1>8. CASE ~done /\ PartitionSize(v) = 0 /\ NextHashing([v EXCEPT !.index = @ + 1])
  <2> DEFINE w == [v EXCEPT !.index = @ + 1]
             next == v.index + 1
  <2>1. next \in Nat \ {0} /\ NextHashing(w)
    BY <1>1, <1>8
  <2> HIDE DEF next
  <2>2. w \in VerifierStates /\ w.index = next /\ w.step = v.step
    BY <1>1, <2>1 DEF VerifierStates, next
  <2> HIDE DEF w
  <2>3. v.index \in image.target /\ v.index \in image.verity
    BY <1>2, <1>3, <1>8, PartitionTypes, PartitionsAssumption DEF PartitionSize
  <2>4. ASSUME NEW p \in Parts, p < w.index PROVE p \in image.target /\ p \in image.verity
    <3>1. p < v.index \/ p = v.index
      BY <1>1, <2>2, <2>4, PartitionTypes DEF next
    <3> QED
      BY <1>2, <2>3, <3>1
  <2>5. w.step # "source"
    BY <1>1, <2>2, <2>3 DEF Inv, ImageInv
  <2> QED
    BY <1>1, <2>1, <2>2, <2>4, <2>5, NextHashingInv
<1> QED
  BY <1>5, <1>6, <1>7, <1>8, Zenon DEF StartPartitionHashing

(* Every step of the verifier.                                             *)
LEMMA VerifierStepInv ==
    ASSUME Inv, VerifierStep, UNCHANGED <<cleanupVars, postVars, plan, spent>>
    PROVE  Inv'
BY StartPartitionHashingInv, RunVerifierTaskInv DEF VerifierStep, OthersStay

-----------------------------------------------------------------------------
(* What is mounted can be taken away in one call of UnmountFilesystem.     *)
LEMMA UnmountEmpties ==
    ASSUME MountInv
    PROVE  Unmounted = << >> /\ BeforeMount = << >>
<1>1. CASE mounts = << >>
  BY <1>1 DEF Unmounted, BeforeMount
<1>2. CASE \E i : mounts = <<i>>
  <2>1. PICK i : mounts = <<i>>
    BY <1>2
  <2> QED
    BY <2>1, Fronts DEF Unmounted, BeforeMount
<1> QED
  BY <1>1, <1>2 DEF MountInv

(* No program runs: no child has a callback, and what is mounted, if       *)
(* anything, is left from a crash.                                         *)
Quiet(c, m) ==
    /\ c \in ChildStates /\ \A q \in Pids : ~c[q].callback
    /\ m = << >> \/ \E i : m = <<i>>
    /\ m # << >> => spent.crashes # 0

(* A method of the action runs only when no program does.                  *)
LEMMA InsideIsQuiet ==
    ASSUME Inv, post.command = 0
    PROVE  Quiet(children, mounts) /\ Quiet(children, << >>)
BY DEF Inv, PostInv, MountInv, Quiet, Pids

PostOthersStay == UNCHANGED <<cleanupVars, spent, plan, image, verifier>>

PostCodes ==
    {"kSuccess", "kUpdatedButNotActive", "kPostinstallRunnerError", "kPostInstallMountError",
     "kPostinstallPowerwashError", "kPostinstallBootedFromFirmwareB",
     "kPostinstallFirmwareRONotUpdatable"}

(* The action ends: the slot is switched, if at all, to the image that was *)
(* verified.                                                               *)
LEMMA EndedInv ==
    ASSUME Inv, current = Postinstall, PostOthersStay, NEW p, IsPost(p), p.command = 0,
           NEW code \in PostCodes, NEW switched \in BOOLEAN, Ended(p, code, switched),
           Quiet(children', mounts')
    PROVE  Inv'
<1> USE DEF Inv
<1>1. /\ UNCHANGED <<cleanup, system, spent, plan, image, verifier>>
      /\ post' = p /\ Complete(code) /\ mapping' = Unmapped /\ active' = (active \/ switched)
  BY DEF PostOthersStay, cleanupVars, Ended, UnmapAllPartitions
<1>2. /\ QueueInv' /\ CallInv' /\ current' = NoAction /\ Stage' = NoAction /\ outcome' = code
      /\ Stage = Postinstall
  BY <1>1, CompleteMovesOn, StageOfQueue, Names DEF After
<1>3. CleanupInv'
  BY <1>1, CleanupFrame, Names
<1>4. verifier.task = NoTask /\ VerifierInv'
  <2>1. verifier.task = NoTask
    BY Names DEF VerifierInv
  <2> QED
    BY <1>1, <1>2, <2>1, VerifierFrame, Names DEF Elsewhere
<1>5. ImageInv'
  <2>1. mapping' \in [up : BOOLEAN, shows : SUBSET Parts] /\ mapping'.shows = {}
    BY <1>1 DEF Unmapped
  <2> QED
    BY <1>1, <1>2, <1>4, <2>1, Names DEF ImageInv, NoTask
<1>6. SlotInv'
  BY <1>1, <1>2, Names DEF SlotInv, NoFalseAlarm, PostCodes
<1>7. PostInv' /\ MountInv'
  <2>1. post'.command = 0
    BY <1>1
  <2> QED
    BY <1>1, <2>1 DEF PostInv, MountInv, Quiet
<1> QED
  BY <1>2, <1>3, <1>4, <1>5, <1>6, <1>7

(* CompletePostinstall, with FinishUpdate and SetActiveBootSlot.           *)
LEMMA CompletePostinstallInv ==
    ASSUME Inv, current = Postinstall, PostOthersStay, NEW p, IsPost(p), p.command = 0,
           NEW code \in PostCodes, CompletePostinstall(p, code), Quiet(children', mounts')
    PROVE  Inv'
<1>1. /\ "kPostinstallRunnerError" \in PostCodes /\ "kUpdatedButNotActive" \in PostCodes
      /\ TRUE \in BOOLEAN /\ FALSE \in BOOLEAN
  BY DEF PostCodes
<1>2. \E c \in PostCodes, switched \in BOOLEAN : Ended(p, c, switched)
  BY <1>1, Zenon DEF CompletePostinstall
<1> QED
  BY <1>2, EndedInv

(* The action goes on, with the program it waits for or with none.         *)
LEMMA PostGoesOn ==
    ASSUME Inv, current = Postinstall, PostOthersStay,
           NEW method \in {"none", "PerformPartitionPostinstall"}, Calls(method),
           active' = active, PostInv', MountInv',
           mapping' \in [up : BOOLEAN, shows : SUBSET Parts],
           mapping'.shows \subseteq image.verity
    PROVE  Inv'
<1> USE DEF Inv
<1>1. UNCHANGED <<cleanup, system, spent, plan, image, verifier>>
  BY DEF PostOthersStay, cleanupVars
<1>2. /\ QueueInv' /\ Stage' = Stage /\ Stage = Postinstall /\ call' = method
      /\ current' = current /\ suspended' = suspended /\ outcome' = outcome
  BY CallsStay, StageOfQueue, Names
<1>3. CallInv' /\ CleanupInv' /\ VerifierInv'
  BY <1>1, <1>2, CleanupFrame, VerifierFrame, Names DEF CallInv, Elsewhere
<1>4. ImageInv'
  <2>1. verifier.task = NoTask
    BY Names DEF VerifierInv
  <2> QED
    BY <1>1, <1>2, <2>1, Names DEF ImageInv, NoTask
<1>5. SlotInv'
  BY <1>1, <1>2, SlotFrame, Names DEF SlotInv
<1> QED
  BY <1>2, <1>3, <1>4, <1>5

(* PerformAction of the action.                                            *)
LEMMA PostPerformActionInv ==
    ASSUME Inv, PostOthersStay, PostPerformAction
    PROVE  Inv'
<1>1. current = Postinstall /\ call = "PerformAction" /\ UNCHANGED <<children, mounts>>
  BY DEF PostPerformAction, Inside
<1>2. post.command = 0 /\ IsPost(post) /\ spent' = spent
  BY <1>1 DEF Inv, PostInv, PostOthersStay
<1>3. Quiet(children', mounts')
  BY <1>1, <1>2, InsideIsQuiet
<1>4. ASSUME NEW code \in PostCodes, CompletePostinstall(post, code) PROVE Inv'
  BY <1>1, <1>2, <1>3, <1>4, CompletePostinstallInv
<1>5. CASE /\ mapping' = IF plan.compression THEN MapAllPartitions(Unmapped, image.verity) ELSE mapping
           /\ post' = [post EXCEPT !.scheduled = plan.powerwash]
           /\ Calls("PerformPartitionPostinstall") /\ UNCHANGED active
  <2>1. IsPost(post') /\ post'.command = 0
    BY <1>2, <1>5 DEF IsPost
  <2>2. PostInv' /\ MountInv'
    BY <1>1, <1>2, <1>3, <2>1 DEF Quiet, PostInv, MountInv, Inv
  <2>3. mapping' \in [up : BOOLEAN, shows : SUBSET Parts] /\ mapping'.shows \subseteq image.verity
    <3>1. CASE plan.compression
      <4>1. mapping' = [up |-> TRUE, shows |-> image.verity]
        BY <1>5, <3>1 DEF MapAllPartitions, Unmapped
      <4> QED
        BY <4>1 DEF Inv, ImageInv
    <3>2. CASE ~plan.compression
      BY <1>5, <3>2 DEF Inv, ImageInv
    <3> QED
      BY <3>1, <3>2
  <2> QED
    BY <1>1, <1>5, <2>2, <2>3, PostGoesOn
<1>6. "kPostInstallMountError" \in PostCodes /\ "kPostinstallPowerwashError" \in PostCodes
  BY DEF PostCodes
<1> QED
  BY <1>4, <1>5, <1>6, Zenon DEF PostPerformAction

(* CompletePartitionPostinstall, once the program is gone.                 *)
LEMMA CompletePartitionInv ==
    ASSUME Inv, current = Postinstall, PostOthersStay, NEW p, IsPost(p), NEW code,
           CompletePartitionPostinstall(p, code), Quiet(children', mounts')
    PROVE  Inv'
<1> DEFINE error == CASE code = 3 -> "kPostinstallBootedFromFirmwareB"
                      [] code = 4 -> "kPostinstallFirmwareRONotUpdatable"
                      [] OTHER -> "kPostinstallRunnerError"
           q == [p EXCEPT !.command = 0]
<1>1. IsPost(q) /\ q.command = 0
  BY DEF IsPost
<1>2. error \in PostCodes
  BY DEF PostCodes
<1>3. \/ CompletePostinstall(q, error)
      \/ /\ post' = [q EXCEPT !.index = @ + 1]
         /\ Calls("PerformPartitionPostinstall")
         /\ UNCHANGED <<mapping, powerwash, active>>
  BY Zenon DEF CompletePartitionPostinstall
<1> HIDE DEF q, error
<1>4. CASE CompletePostinstall(q, error)
  BY <1>1, <1>2, <1>4, CompletePostinstallInv
<1>5. CASE /\ post' = [q EXCEPT !.index = @ + 1]
           /\ Calls("PerformPartitionPostinstall")
           /\ UNCHANGED <<mapping, powerwash, active>>
  <2>1. IsPost(post') /\ post'.command = 0
    BY <1>1, <1>5 DEF IsPost
  <2>2. spent' = spent
    BY DEF PostOthersStay
  <2>3. PostInv' /\ MountInv'
    BY <2>1, <2>2 DEF Quiet, PostInv, MountInv, Inv
  <2>4. mapping' \in [up : BOOLEAN, shows : SUBSET Parts] /\ mapping'.shows \subseteq image.verity
    BY <1>5 DEF Inv, ImageInv
  <2> QED
    BY <1>5, <2>3, <2>4, PostGoesOn
<1> QED
  BY <1>3, <1>4, <1>5

(* PerformPartitionPostinstall: the program's partition is mounted alone,  *)
(* whatever a crash has left, and the program is the one child with a      *)
(* callback.                                                               *)
LEMMA PerformPartitionInv ==
    ASSUME Inv, PostOthersStay, PerformPartitionPostinstall
    PROVE  Inv'
<1> DEFINE p == [post EXCEPT !.index = NextToRun(post.index)]
<1>1. current = Postinstall /\ call = "PerformPartitionPostinstall"
  BY Zenon DEF PerformPartitionPostinstall, Inside
<1>2. post.command = 0 /\ IsPost(post) /\ spent' = spent
  BY <1>1 DEF Inv, PostInv, PostOthersStay
<1>3. IsPost(p) /\ p.command = 0
  BY <1>2 DEF IsPost
<1>4. BeforeMount = << >>
  BY UnmountEmpties DEF Inv
<1>5. \/ CompletePostinstall(p, "kSuccess") /\ UNCHANGED <<children, mounts>>
      \/ CompletePostinstall(p, "kPostinstallRunnerError")
         /\ mounts' \in {mounts, << >>} /\ UNCHANGED children
      \/ CompletePartitionPostinstall(p, 1) /\ mounts' = << >> /\ UNCHANGED children
      \/ \E pid \in Pids :
            /\ children' = ExecFlags(pid)
            /\ post' = [p EXCEPT !.command = pid]
            /\ mounts' = <<p.index>> \o << >>
            /\ Return /\ UNCHANGED <<mapping, powerwash, active>>
  BY <1>4, Zenon DEF PerformPartitionPostinstall
<1> HIDE DEF p
<1>6. UNCHANGED children /\ mounts' \in {mounts, << >>} => Quiet(children', mounts')
  BY <1>2, InsideIsQuiet
<1>7. CASE CompletePostinstall(p, "kSuccess") /\ UNCHANGED <<children, mounts>>
  BY <1>1, <1>3, <1>6, <1>7, CompletePostinstallInv DEF PostCodes
<1>8. CASE CompletePostinstall(p, "kPostinstallRunnerError")
           /\ mounts' \in {mounts, << >>} /\ UNCHANGED children
  BY <1>1, <1>3, <1>6, <1>8, CompletePostinstallInv DEF PostCodes
<1>9. CASE CompletePartitionPostinstall(p, 1) /\ mounts' = << >> /\ UNCHANGED children
  BY <1>1, <1>3, <1>6, <1>9, CompletePartitionInv
<1>10. ASSUME NEW pid \in Pids, children' = ExecFlags(pid), post' = [p EXCEPT !.command = pid],
              mounts' = <<p.index>> \o << >>, Return, UNCHANGED <<mapping, active>>
       PROVE  Inv'
  <2>1. IsPost(post') /\ post'.command = pid /\ post'.index = p.index
    BY <1>3, <1>10, ChildrenAssumption DEF IsPost, Pids
  <2>2. call' = "none" /\ current' = current
    BY <1>10 DEF Return, Calls, procVars
  <2>3. children' \in ChildStates /\ \A q \in Pids : children'[q].callback => q = pid
    <3>1. children \in ChildStates /\ \A q \in Pids : ~children[q].callback
      BY <1>2, InsideIsQuiet DEF Quiet
    <3> QED
      BY <1>10, <3>1 DEF ExecFlags, ChildStates
  <2>4. mounts' = <<post'.index>> /\ pid # 0
    BY <1>10, <2>1, ChildrenAssumption DEF Pids
  <2>5. PostInv'
    BY <1>1, <2>1, <2>2, <2>3 DEF PostInv
  <2>6. MountInv'
    BY <1>2, <2>1, <2>4 DEF MountInv, Inv
  <2>7. mapping' \in [up : BOOLEAN, shows : SUBSET Parts] /\ mapping'.shows \subseteq image.verity
    BY <1>10 DEF Inv, ImageInv
  <2> QED
    BY <1>1, <1>10, <2>5, <2>6, <2>7, PostGoesOn DEF Return
<1> QED
  BY <1>5, <1>7, <1>8, <1>9, <1>10

(* Signals leave no callback where there was none.                         *)
LEMMA SignalsKeep ==
    ASSUME children \in ChildStates, NEW p \in Pids, NEW c,
           \/ c = KillExec(p)
           \/ c = Signal(p, "running", "stopped") \/ c = Signal(p, "stopped", "running")
    PROVE  /\ c \in ChildStates
           /\ \A q \in Pids : c[q].callback => children[q].callback
           /\ c = KillExec(p) => ~c[p].callback
BY DEF ChildStates, KillExec, Signal

(* Only the children change.                                               *)
LEMMA ChildrenOnly ==
    ASSUME Inv, UNCHANGED <<hostVars, cleanup, system, verifierVars, post, mounts, active, plan, spent>>,
           children' \in ChildStates,
           \A q \in Pids : children'[q].callback => children[q].callback
    PROVE  Inv'
<1> USE DEF Inv
<1>1. UNCHANGED <<actions, current, suspended, suspendedErrorCode, call, outcome, cleanup, system,
                  image, mapping, verifier, post, mounts, active, plan, spent>>
  BY DEF hostVars, procVars, verifierVars
<1>2. Stage' = Stage /\ QueueInv' /\ CallInv'
  BY <1>1 DEF Stage, QueueInv, CallInv
<1>3. CleanupInv' /\ VerifierInv' /\ ImageInv' /\ SlotInv' /\ MountInv'
  BY <1>1, <1>2, CleanupFrame, VerifierFrame, ImageFrame, SlotFrame, MountFrame DEF Elsewhere, SlotInv
<1>4. PostInv'
  BY <1>1 DEF PostInv
<1> QED
  BY <1>2, <1>3, <1>4

(* The loop reaps a child; the callback, if there is one, is that of the   *)
(* program the action waits for.                                           *)
LEMMA ChildExitedInv ==
    ASSUME Inv, PostOthersStay, ChildExitedCallback
    PROVE  Inv'
<1>1. PICK p \in Pids :
        /\ children' = Erased(p)
        /\ \/ /\ children[p].callback
              /\ mounts' = Unmounted
              /\ CompletePartitionPostinstall(post, children[p].status)
           \/ UNCHANGED <<post, mounts, powerwash, active, mapping, hostVars>>
  BY DEF ChildExitedCallback
<1>2. /\ children \in ChildStates /\ IsPost(post)
      /\ \A q \in Pids : children[q].callback => post.command = q /\ current = Postinstall
  BY ChildrenAssumption DEF Inv, PostInv, Pids
<1>3. /\ children' \in ChildStates /\ ~children'[p].callback
      /\ \A q \in Pids : children'[q].callback => children[q].callback
  BY <1>1, <1>2, ZenonT(30) DEF ChildStates, Erased
<1>4. CASE /\ children[p].callback /\ mounts' = Unmounted
           /\ CompletePartitionPostinstall(post, children[p].status)
  <2>1. current = Postinstall /\ \A q \in Pids : ~children'[q].callback
    BY <1>2, <1>3, <1>4
  <2>2. mounts' = << >>
    BY <1>4, UnmountEmpties DEF Inv
  <2>3. Quiet(children', mounts')
    BY <1>3, <2>1, <2>2 DEF Quiet
  <2> QED
    BY <1>2, <1>4, <2>1, <2>3, CompletePartitionInv
<1>5. CASE UNCHANGED <<post, mounts, powerwash, active, mapping, hostVars>>
  BY <1>3, <1>5, ChildrenOnly DEF PostOthersStay, cleanupVars, verifierVars
<1> QED
  BY <1>1, <1>4, <1>5

(* Every step of postinstall.                                              *)
LEMMA PostStepInv ==
    ASSUME Inv, PostStep, UNCHANGED <<cleanupVars, spent>>
    PROVE  Inv'
BY PostPerformActionInv, PerformPartitionInv, ChildExitedInv DEF PostStep, PostOthersStay

(* The system boots and merges, a program exits.                           *)
LEMMA EnvironmentInv ==
    ASSUME Inv, Environment
    PROVE  Inv'
<1>1. CASE SystemMoves /\ UNCHANGED <<verifierVars, postVars, plan, spent>>
  <2> USE DEF Inv
  <2>1. UNCHANGED <<actions, current, suspended, suspendedErrorCode, call, outcome, cleanup,
                    image, mapping, verifier, children, post, mounts, active, plan, spent>>
    BY <1>1 DEF SystemMoves, hostVars, procVars, verifierVars, postVars
  <2>2. Stage' = Stage /\ QueueInv' /\ CallInv'
    BY <2>1 DEF Stage, QueueInv, CallInv
  <2>3. VerifierInv' /\ ImageInv' /\ SlotInv' /\ PostInv' /\ MountInv'
    BY <2>1, <2>2, VerifierFrame, ImageFrame, SlotFrame, PostFrame, MountFrame DEF Elsewhere, SlotInv
  <2>4. /\ system' \in [booted : BOOLEAN, marked : BOOLEAN]
        /\ system.booted => system'.booted
        /\ system.marked => system'.marked
    BY <1>1, Zenon DEF SystemMoves, CleanupInv
  <2>5. CleanupInv'
    BY <2>1, <2>4 DEF CleanupInv
  <2> QED
    BY <2>2, <2>3, <2>5
<1>2. CASE ChildExits /\ UNCHANGED <<hostVars, cleanupVars, verifierVars, post, mounts, powerwash,
                                     active, plan, spent>>
  <2>1. PICK p \in Pids, code \in ExitCodes :
          children' = [children EXCEPT ![p].state = "exited", ![p].status = code]
    BY <1>2, Zenon DEF ChildExits
  <2>2. children' \in ChildStates /\ \A q \in Pids : children'[q].callback => children[q].callback
    BY <2>1, Zenon DEF ChildStates, Inv, PostInv
  <2> QED
    BY <1>2, <2>2, ChildrenOnly DEF cleanupVars
<1> QED
  BY <1>1, <1>2 DEF Environment

-----------------------------------------------------------------------------
(* An attempt starts with all that its actions own as new.                 *)
LEMMA StartInv ==
    ASSUME Inv, Start
    PROVE  Inv'
<1> USE DEF Inv
<1>1. /\ current' = Cleanup /\ actions' = <<Download, Verifier, Postinstall>>
      /\ suspended' = suspended /\ suspended = FALSE /\ current = NoAction
      /\ call' = "PerformAction" /\ outcome' = "none"
  BY DEF Start, PerformFront, Pipeline, IsRunning, QueueInv
<1>2. /\ plan' \in Plans /\ cleanup' = NewCleanup /\ verifier' = NewVerifier /\ post' = NewPost
      /\ UNCHANGED <<system, image, mapping, children, mounts, active>>
      /\ spent' = [spent EXCEPT !.sessions = @ + 1]
  BY DEF Start
<1>3. Stage' = Cleanup /\ QueueInv' /\ CallInv'
  BY <1>1, Names DEF Stage, QueueInv, CallInv
<1>4. CleanupInv'
  BY <1>1, <1>2 DEF CleanupInv, NewCleanup, CleanupStates
<1>5. VerifierInv'
  BY <1>1, <1>2, Names DEF VerifierInv, NewVerifier, VerifierStates, NoTask
<1>6. ImageInv'
  BY <1>2, <1>3, Names DEF ImageInv, NewVerifier, NoTask
<1>7. SlotInv'
  BY <1>1, <1>2, <1>3, Names, Zenon DEF SlotInv, NoFalseAlarm
<1>8. post.command = 0
  BY <1>1, Names DEF PostInv
<1>9. IsPost(NewPost) /\ NewPost.command = 0
  BY DEF IsPost, NewPost
<1>10. PostInv'
  BY <1>2, <1>8, <1>9, ChildrenAssumption DEF PostInv, Pids
<1>11. spent' \in [sessions : Nat, suspends : Nat, crashes : Nat] /\ spent'.crashes = spent.crashes
  BY <1>2 DEF MountInv
<1>12. MountInv'
  BY <1>2, <1>8, <1>9, <1>11 DEF MountInv
<1> QED
  BY <1>3, <1>4, <1>5, <1>6, <1>7, <1>10, <1>12

(* A suspension takes the cleanup action's task away, and stops the        *)
(* program.                                                                *)
LEMMA SuspendInv ==
    ASSUME Inv, Suspend
    PROVE  Inv'
<1> USE DEF Inv
<1>1. /\ current # NoAction /\ ~suspended /\ suspended' = TRUE /\ call = "none"
      /\ UNCHANGED <<actions, current, call, outcome, system, image, mapping, verifier, plan>>
  BY DEF Suspend, SuspendProcessing, verifierVars
<1>2. Stage' = Stage /\ QueueInv' /\ CallInv'
  BY <1>1 DEF Stage, QueueInv, CallInv
<1>3. CleanupInv'
  <2>1. cleanup' = IF current = Cleanup THEN StopActionInternal(cleanup) ELSE cleanup
    BY DEF Suspend
  <2>2. CASE current = Cleanup
    <3>1. cleanup' \in CleanupStates /\ ~cleanup'.running /\ cleanup'.task = "none"
      BY <2>1, <2>2, Zenon DEF CleanupInv, StopActionInternal, CleanupStates
    <3> QED
      BY <1>1, <2>2, <3>1 DEF CleanupInv
  <2>3. CASE current # Cleanup
    BY <1>1, <2>1, <2>3 DEF CleanupInv
  <2> QED
    BY <2>2, <2>3
<1>4. UNCHANGED <<mounts, active>> /\ spent' = [spent EXCEPT !.suspends = @ + 1]
  BY DEF Suspend, PostSuspendAction, postVars
<1>5. VerifierInv' /\ ImageInv' /\ SlotInv'
  BY <1>1, <1>2, <1>4, VerifierFrame, ImageFrame, SlotFrame DEF Elsewhere, SlotInv
<1>6. IsPost(post') /\ post'.command = post.command /\ post'.index = post.index
  BY DEF Suspend, PostSuspendAction, postVars, PostInv, IsPost
<1>7. children' \in ChildStates /\ \A q \in Pids : children'[q].callback => children[q].callback
  <2>1. children \in ChildStates /\ (post.command # 0 => post.command \in Pids)
    BY DEF PostInv
  <2>2. UNCHANGED children \/ (post.command # 0 /\ children' = Signal(post.command, "running", "stopped"))
    BY DEF Suspend, PostSuspendAction, postVars
  <2> QED
    BY <2>1, <2>2, SignalsKeep
<1>8. PostInv'
  BY <1>1, <1>6, <1>7 DEF PostInv
<1>9. spent' \in [sessions : Nat, suspends : Nat, crashes : Nat] /\ spent'.crashes = spent.crashes
  BY <1>4 DEF MountInv
<1>10. MountInv'
  BY <1>4, <1>6, <1>9 DEF MountInv
<1> QED
  BY <1>2, <1>3, <1>5, <1>8, <1>10

(* A resumption lets the current action go on, or performs the next.       *)
LEMMA ResumeInv ==
    ASSUME Inv, Resume
    PROVE  Inv'
<1> USE DEF Inv
<1>1. /\ suspended /\ suspended' = FALSE /\ call = "none"
      /\ UNCHANGED <<outcome, cleanup, system, image, mapping, verifier, plan, spent>>
  BY DEF Resume, ResumeProcessing, verifierVars, cleanupVars
<1>2. \/ /\ current # NoAction /\ UNCHANGED <<actions, current>>
         /\ call' = IF current = Cleanup THEN "ResumeAction" ELSE "none"
      \/ /\ current = NoAction
         /\ call' = IF current' # NoAction THEN "PerformAction" ELSE "none"
         /\ \/ actions = << >> /\ actions' = << >> /\ current' = NoAction
            \/ actions # << >> /\ current' = Head(actions) /\ actions' = Tail(actions)
  <2>1. call' = CASE current = NoAction -> (IF current' # NoAction THEN "PerformAction" ELSE "none")
                  [] current = Cleanup -> "ResumeAction"
                  [] OTHER -> "none"
    BY DEF Resume, Perform
  <2>2. \/ current # NoAction /\ UNCHANGED <<actions, current>>
        \/ /\ current = NoAction
           /\ \/ actions = << >> /\ actions' = << >> /\ current' = NoAction
              \/ actions # << >> /\ current' = Head(actions) /\ actions' = Tail(actions)
    BY DEF Resume, ResumeProcessing, StartNextActionOrFinish, PerformFront
  <2> QED
    BY <2>1, <2>2, Names
<1>3. QueueInv' /\ CallInv' /\ Stage' = Stage /\ current' \in {Stage, current}
      /\ (current # NoAction => current' = current)
  <2>1. CASE current # NoAction
    BY <1>1, <1>2, <2>1, Names, Zenon DEF QueueInv, CallInv, Stage
  <2>2. CASE current = NoAction /\ actions = << >>
    BY <1>1, <1>2, <2>2, Names, Zenon DEF QueueInv, CallInv, Stage
  <2>3. CASE current = NoAction /\ actions # << >>
    <3>1. /\ current' = Head(actions) /\ actions' = Tail(actions) /\ Stage = Head(actions)
          /\ call' = IF current' # NoAction THEN "PerformAction" ELSE "none"
      BY <1>2, <2>3 DEF Stage
    <3>2. \/ current' = Download /\ actions' = <<Verifier, Postinstall>>
          \/ current' = Verifier /\ actions' = <<Postinstall>>
          \/ current' = Postinstall /\ actions' = << >>
      <4>1. CASE actions = <<Download, Verifier, Postinstall>>
        BY <3>1, <4>1, Fronts
      <4>2. CASE actions = <<Verifier, Postinstall>>
        BY <3>1, <4>2, Fronts
      <4>3. CASE actions = <<Postinstall>>
        BY <3>1, <4>3, Fronts
      <4> QED
        BY <2>3, <4>1, <4>2, <4>3, Names DEF QueueInv
    <3> QED
      BY <1>1, <2>3, <3>1, <3>2, Names, Zenon DEF QueueInv, CallInv, Stage
  <2> QED
    BY <2>1, <2>2, <2>3
<1>4. CleanupInv'
  BY <1>1, <1>3, Names DEF CleanupInv
<1>5. UNCHANGED <<mounts, active>>
  BY DEF Resume, PostResumeAction, postVars
<1>6. VerifierInv'
  <2>1. CASE current # NoAction
    BY <1>1, <1>2, <1>3, <2>1, VerifierFrame, Names DEF Elsewhere
  <2>2. CASE current = NoAction
    BY <1>1, <1>3, <2>2, VerifierFrame, Names DEF Elsewhere
  <2> QED
    BY <2>1, <2>2
<1>7. ImageInv' /\ SlotInv'
  BY <1>1, <1>3, <1>5, ImageFrame, SlotFrame DEF SlotInv
<1>8. IsPost(post') /\ post'.command = post.command /\ post'.index = post.index
  BY DEF Resume, PostResumeAction, postVars, PostInv, IsPost
<1>9. children' \in ChildStates /\ \A q \in Pids : children'[q].callback => children[q].callback
  <2>1. children \in ChildStates /\ (post.command # 0 => post.command \in Pids)
    BY DEF PostInv
  <2>2. UNCHANGED children \/ (post.command # 0 /\ children' = Signal(post.command, "stopped", "running"))
    BY DEF Resume, PostResumeAction, postVars
  <2> QED
    BY <2>1, <2>2, SignalsKeep
<1>10. PostInv'
  BY <1>2, <1>8, <1>9, Names DEF PostInv
<1>11. MountInv'
  BY <1>1, <1>5, <1>8 DEF MountInv
<1> QED
  BY <1>3, <1>4, <1>6, <1>7, <1>10, <1>11

(* A cancel takes the current action's tasks, callback and mount away.     *)
LEMMA StopInv ==
    ASSUME Inv, Stop
    PROVE  Inv'
<1> USE DEF Inv
<1>1. /\ current' = NoAction /\ actions' = << >> /\ suspended' = FALSE
      /\ call = "none" /\ call' = "none" /\ outcome' = "stopped"
      /\ cleanup' = NewCleanup /\ UNCHANGED <<system, image, plan, spent, active>>
  BY DEF Stop, StopProcessing, PostTerminateProcessing, postVars
<1>2. Stage' = NoAction /\ QueueInv' /\ CallInv'
  BY <1>1, Zenon DEF Stage, QueueInv, CallInv
<1>3. CleanupInv'
  BY <1>1 DEF CleanupInv, NewCleanup, CleanupStates
<1>4. verifier' \in VerifierStates /\ verifier'.fd = "none" /\ verifier'.task = NoTask
  <2>1. CASE current = Verifier
    <3>1. verifier' = [verifier EXCEPT !.fd = "none", !.task = NoTask]
      BY <2>1 DEF Stop, Released
    <3> QED
      BY <3>1, Zenon DEF VerifierInv, VerifierStates, NoTask
  <2>2. CASE current # Verifier
    <3>1. verifier' = verifier
      BY <2>2 DEF Stop
    <3> QED
      BY <2>2, <3>1 DEF VerifierInv
  <2> QED
    BY <2>1, <2>2
<1>5. VerifierInv'
  BY <1>1, <1>2, <1>4, Names DEF VerifierInv, NoTask
<1>6. ImageInv'
  <2>1. mapping' = mapping \/ mapping' = Unmapped
    BY DEF Stop, Released, UnmapAllPartitions
  <2>2. mapping' \in [up : BOOLEAN, shows : SUBSET Parts] /\ mapping'.shows \subseteq image.verity
    <3>1. CASE mapping' = mapping
      BY <3>1 DEF ImageInv
    <3>2. CASE mapping' = Unmapped
      BY <3>2 DEF Unmapped
    <3> QED
      BY <2>1, <3>1, <3>2
  <2> QED
    BY <1>1, <1>2, <1>4, <2>2, Names DEF ImageInv, NoTask
<1>7. SlotInv'
  BY <1>1, <1>2, Names DEF SlotInv, NoFalseAlarm
<1>8. /\ IsPost(post') /\ post'.command = 0 /\ Quiet(children', mounts')
  <2>1. CASE post.command = 0
    <3>1. UNCHANGED <<children, mounts>> /\ post' \in {post, NewPost}
      BY <2>1 DEF Stop, PostTerminateProcessing, postVars
    <3>2. IsPost(post') /\ post'.command = 0
      BY <2>1, <3>1 DEF PostInv, IsPost, NewPost
    <3> QED
      BY <2>1, <3>1, <3>2, InsideIsQuiet
  <2>2. CASE post.command # 0
    <3>1. current = Postinstall /\ post.command \in Pids /\ children \in ChildStates
      BY <2>2 DEF PostInv
    <3>2. children' = KillExec(post.command) /\ mounts' = Unmounted /\ post' = NewPost
      BY <2>2, <3>1 DEF Stop, PostTerminateProcessing
    <3>3. children' \in ChildStates /\ \A q \in Pids : ~children'[q].callback
      BY <3>1, <3>2, SignalsKeep DEF PostInv
    <3>4. mounts' = << >>
      BY <3>2, UnmountEmpties
    <3> QED
      BY <3>2, <3>3, <3>4 DEF Quiet, IsPost, NewPost
  <2> QED
    BY <2>1, <2>2
<1>9. PostInv' /\ MountInv'
  BY <1>1, <1>8, ChildrenAssumption DEF PostInv, MountInv, Quiet, Pids
<1> QED
  BY <1>2, <1>3, <1>5, <1>6, <1>7, <1>9

(* A crash leaves only what the kernel and the storage hold.               *)
LEMMA CrashInv ==
    ASSUME Inv, Crash
    PROVE  Inv'
<1> USE DEF Inv
<1>1. /\ current' = NoAction /\ actions' = << >> /\ suspended' = FALSE
      /\ call' = "none" /\ outcome' = "crashed"
      /\ cleanup' = NewCleanup /\ verifier' = NewVerifier /\ post' = NewPost
      /\ UNCHANGED <<system, image, mapping, mounts, active, plan>>
      /\ spent' = [spent EXCEPT !.crashes = @ + 1]
  BY DEF Crash
<1>2. Stage' = NoAction /\ QueueInv' /\ CallInv'
  BY <1>1, Zenon DEF Stage, QueueInv, CallInv
<1>3. CleanupInv'
  BY <1>1 DEF CleanupInv, NewCleanup, CleanupStates
<1>4. VerifierInv'
  BY <1>1, <1>2, Names DEF VerifierInv, NewVerifier, VerifierStates, NoTask
<1>5. ImageInv'
  BY <1>1, <1>2, Names DEF ImageInv, NewVerifier, NoTask
<1>6. SlotInv'
  BY <1>1, <1>2, Names DEF SlotInv, NoFalseAlarm
<1>7. PostInv'
  <2>1. IsPost(NewPost) /\ NewPost.command = 0
    BY DEF IsPost, NewPost
  <2>2. children' \in ChildStates /\ \A q \in Pids : ~children'[q].callback
    BY Zenon DEF Crash, ChildStates, NoChild
  <2> QED
    BY <1>1, <2>1, <2>2, ChildrenAssumption DEF PostInv, Pids
<1>8. spent' \in [sessions : Nat, suspends : Nat, crashes : Nat] /\ spent'.crashes # 0
  BY <1>1 DEF MountInv
<1>9. MountInv'
  BY <1>1, <1>8 DEF MountInv, NewPost
<1> QED
  BY <1>2, <1>3, <1>4, <1>5, <1>6, <1>7, <1>9

(* The daemon starts with nothing running.                                 *)
LEMMA InitInv == Init => Inv
<1> SUFFICES ASSUME Init PROVE Inv
  OBVIOUS
<1>1. Stage = NoAction /\ QueueInv /\ CallInv
  BY Zenon DEF Init, ProcInit, Stage, QueueInv, CallInv
<1>2. CleanupInv
  BY DEF Init, CleanupInit, CleanupInv, NewCleanup, CleanupStates
<1>3. VerifierInv
  BY <1>1, Names DEF Init, ProcInit, VerifierInv, NewVerifier, VerifierStates, NoTask
<1>4. ImageInv
  BY <1>1, Names DEF Init, ProcInit, ImageInv, NewVerifier, NoTask, Unmapped
<1>5. SlotInv
  BY <1>1, Names, Zenon DEF Init, SlotInv, NoFalseAlarm
<1>6. PostInv
  BY ChildrenAssumption DEF Init, PostInv, IsPost, NewPost, SubprocessInit, NoChild, ChildStates, Pids
<1>7. MountInv
  BY DEF Init, MountInv, NewPost
<1> QED
  BY <1>1, <1>2, <1>3, <1>4, <1>5, <1>6, <1>7 DEF Inv

(* Nothing moves.                                                          *)
LEMMA StutterInv ==
    ASSUME Inv, UNCHANGED vars
    PROVE  Inv'
BY ChildrenOnly DEF vars, cleanupVars, postVars, Inv, PostInv

(* Inv is inductive.                                                       *)
LEMMA NextInv ==
    ASSUME Inv, [Next]_vars
    PROVE  Inv'
<1>1. CASE Moves
  BY <1>1, CleanupStepInv, DownloadStepInv, VerifierStepInv, PostStepInv, EnvironmentInv DEF Moves
<1> QED
  BY <1>1, StartInv, SuspendInv, ResumeInv, StopInv, CrashInv, StutterInv DEF Next

(* Inv always holds.                                                       *)
LEMMA AlwaysInv == Spec => []Inv
<1>1. Init => Inv
  BY InitInv
<1>2. Inv /\ [Next]_vars => Inv'
  BY NextInv
<1> QED
  BY <1>1, <1>2, PTL DEF Spec

-----------------------------------------------------------------------------
(* No task and no callback of cleanup, verifier or postinstall outlives    *)
(* the action whose unretained pointer it is bound to.                     *)
THEOREM TasksDieWithTheirAction == Spec => []NothingOutlivesItsAction
<1>1. Inv => NothingOutlivesItsAction
  BY ChildrenAssumption
  DEF Inv, CleanupInv, VerifierInv, PostInv, NothingOutlivesItsAction, Pids
<1> QED
  BY <1>1, AlwaysInv, PTL

(* The postinstall program's partition is mounted alone, and unmounted     *)
(* when the action is over, except for what a crash leaves.                *)
THEOREM MountsOneAtATime == Spec => []OneMount
<1>1. Inv => OneMount
  <2> SUFFICES ASSUME Inv PROVE OneMount
    OBVIOUS
  <2>1. Len(mounts) <= 1
    <3>1. CASE mounts = << >>
      BY <3>1
    <3>2. CASE \E i : mounts = <<i>>
      BY <3>2
    <3> QED
      BY <3>1, <3>2 DEF Inv, MountInv
  <2> QED
    BY <2>1 DEF Inv, MountInv, OneMount
<1> QED
  BY <1>1, AlwaysInv, PTL

(* Postinstall runs, and SetActiveBootSlot is called, only on an image     *)
(* that FilesystemVerifierAction has found whole, and if the next download *)
(* can mark the slot it stays so.  The code only logs that it could not.   *)
THEOREM OnlyVerifiedImagesBoot ==
    ASSUME "MarkSlotUnbootable" \notin Unnoticed
    PROVE  Spec => []BootsWhatWasVerified
<1>1. Inv => BootsWhatWasVerified
  BY StageOfQueue, Names DEF Inv, SlotInv, BootsWhatWasVerified, Marks
<1> QED
  BY <1>1, AlwaysInv, PTL

(* FinishPartitionHashing blames the target or the source only when it is  *)
(* wrong, whichever way the partition was opened.                          *)
THEOREM VerdictsAreTrue == Spec => []NoFalseAlarm
<1>1. Inv => NoFalseAlarm
  BY DEF Inv, SlotInv
<1> QED
  BY <1>1, AlwaysInv, PTL

(* InitiateMerge is called only after the boot has completed and the slot  *)
(* was marked successful.                                                  *)
THEOREM MergeWaitsForGoodBoot == Spec => MergesOnlyAfterGoodBoot
<1> DEFINE Merge == snap # "Merging" /\ snap' = "Merging" => system.booted /\ system.marked
<1>1. ASSUME NEW c, CheckSlotMarkedSuccessfulOrSchedule(c)
      PROVE  snap' = snap \/ system.marked
  BY <1>1 DEF CheckSlotMarkedSuccessfulOrSchedule
<1>2. ASSUME NEW c, WaitBootCompletedOrSchedule(c)
      PROVE  snap' = snap \/ (system.booted /\ system.marked)
  BY <1>1, <1>2 DEF WaitBootCompletedOrSchedule
<1>3. Inv /\ CleanupStep => snap' = snap \/ (system.booted /\ system.marked)
  BY <1>1, <1>2 DEF Inv, CleanupInv, CleanupStep, StartActionInternal, RunCleanupTask
<1>4. Inv /\ [Next]_vars => [Merge]_vars
  <2>1. Environment => Merge
    BY DEF Environment, SystemMoves, cleanupVars
  <2>2. DownloadStep \/ Start \/ Suspend \/ Resume \/ Stop \/ Crash => snap' = snap
    BY DEF DownloadStep, Start, Suspend, Resume, Stop, Crash, cleanupVars
  <2>3. Inv /\ Moves => Merge
    BY <1>3, <2>1, <2>2 DEF Moves, cleanupVars
  <2> QED
    BY <2>2, <2>3 DEF Next
<1> QED
  BY <1>4, AlwaysInv, PTL DEF Spec, MergesOnlyAfterGoodBoot

(* CompletePostinstall cancels the powerwash on every failing path; that   *)
(* the call does its work is a hypothesis, because its result is ignored.  *)
THEOREM FailureUndoesPowerwash ==
    ASSUME "CancelPowerwash" \notin Unnoticed
    PROVE  Spec => PowerwashUndone
<1> DEFINE Ok == {"kSuccess", "kUpdatedButNotActive", "stopped", "crashed"}
           Undone == post'.scheduled /\ current = Postinstall /\ current' = NoAction
                       /\ outcome' \notin Ok => ~powerwash'
<1>1. ASSUME NEW p, NEW code, NEW switched, Ended(p, code, switched)
      PROVE  Undone
  <2>1. powerwash' = (powerwash /\ (code \in {"kSuccess", "kUpdatedButNotActive"} \/ ~p.scheduled))
    BY <1>1 DEF Ended, Results
  <2> QED
    BY <1>1, <2>1, Zenon DEF Ended, Complete
<1>2. ASSUME NEW p, NEW code, CompletePostinstall(p, code)
      PROVE  Undone
  BY <1>1, <1>2, Zenon DEF CompletePostinstall
<1>3. ASSUME NEW method, Calls(method)
      PROVE  current' = current
  BY <1>3 DEF Calls, procVars
<1>4. ASSUME NEW p, NEW code, CompletePartitionPostinstall(p, code)
      PROVE  Undone
  BY <1>2, <1>3, <1>4, Names DEF CompletePartitionPostinstall
<1>5. PostPerformAction => Undone
  BY <1>2, <1>3, Names DEF PostPerformAction
<1>6. PerformPartitionPostinstall => Undone
  BY <1>2, <1>3, <1>4, Names, Zenon DEF PerformPartitionPostinstall, Return
<1>7. ChildExitedCallback => Undone
  BY <1>4, Names DEF ChildExitedCallback, hostVars, procVars
<1>8. Inv /\ Moves => Undone
  <2>1. Inv /\ CleanupStep => current = Cleanup
    BY CleanupStepGoesOn DEF Inv
  <2>2. DownloadStep => current = Download
    BY DEF DownloadStep, Inside
  <2>3. Inv /\ VerifierStep => current = Verifier
    BY DEF Inv, VerifierInv, VerifierStep, StartPartitionHashing, RunVerifierTask, NoTask
  <2>4. Environment => current' = current
    BY DEF Environment, SystemMoves, hostVars, procVars
  <2> QED
    BY <1>5, <1>6, <1>7, <2>1, <2>2, <2>3, <2>4, Names DEF Moves, PostStep
<1>9. Start \/ Suspend \/ Resume \/ Stop \/ Crash => Undone
  <2>1. Start => current = NoAction
    BY DEF Start, IsRunning
  <2>2. Suspend => current' = current
    BY DEF Suspend, SuspendProcessing
  <2>3. Resume /\ current # NoAction => current' = current
    BY DEF Resume, ResumeProcessing
  <2>4. Stop \/ Crash => outcome' \in Ok
    BY DEF Stop, Crash
  <2> QED
    BY <2>1, <2>2, <2>3, <2>4, Names
<1>10. Inv /\ [Next]_vars => [Undone]_vars
  BY <1>8, <1>9 DEF Next
<1> QED
  BY <1>10, AlwaysInv, PTL DEF Spec, PowerwashUndone

=============================================================================
