------------------------ MODULE UpdateAttempterProofs ------------------------
(***************************************************************************)
(* Proofs about UpdateAttempter, for any number of attempts, crashes and   *)
(* boots and every set of payloads: its types; that the status agrees with *)
(* the processor and posted tasks find their action, when clients wait for *)
(* the processing they asked for to start; that the marker of a completed  *)
(* update keeps the status; and, with the discipline the harmless calls    *)
(* need, that the bootloader always finds an intact image and that a       *)
(* reported success is what boots next.                                    *)
(***************************************************************************)
EXTENDS UpdateAttempter, TLAPS

(* The actions of an attempt, in the order in which they run.              *)
After(k) ==
    CASE k = "BootFlags" -> "Cleanup"
      [] k = "Cleanup" -> "InstallPlan"
      [] k = "InstallPlan" -> "Download"
      [] k = "Download" -> "Verifier"
      [] k = "Verifier" -> "Postinstall"
      [] OTHER -> "none"

(* What is queued in attempt n from the action of kind k on.               *)
Queue(k, n) ==
    CASE k = "BootFlags" -> << <<"BootFlags", n>>, <<"Cleanup", n>>, <<"InstallPlan", n>>,
                               <<"Download", n>>, <<"Verifier", n>>, <<"Postinstall", n>> >>
      [] k = "Cleanup" -> << <<"Cleanup", n>>, <<"InstallPlan", n>>,
                             <<"Download", n>>, <<"Verifier", n>>, <<"Postinstall", n>> >>
      [] k = "InstallPlan" -> << <<"InstallPlan", n>>, <<"Download", n>>,
                                 <<"Verifier", n>>, <<"Postinstall", n>> >>
      [] k = "Download" -> << <<"Download", n>>, <<"Verifier", n>>, <<"Postinstall", n>> >>
      [] k = "Verifier" -> << <<"Verifier", n>>, <<"Postinstall", n>> >>
      [] k = "Postinstall" -> << <<"Postinstall", n>> >>
      [] OTHER -> << >>

(* The kind of the action that runs or, when none does, that runs next.    *)
Stage ==
    IF current # NoAction THEN current[1]
    ELSE IF actions # << >> THEN Head(actions)[1] ELSE "none"

(* An attempt was accepted and its processing is about to start.           *)
Pending == current = NoAction /\ ~suspended /\ actions # << >>

(* The queue is what is left of one attempt.  Nothing runs while more is   *)
(* queued only in a suspension, or before the processing has started.      *)
QueueInv ==
    /\ suspended \in BOOLEAN
    /\ \/ current = NoAction /\ actions = << >>
       \/ current = CleanupOnly /\ actions = << >>
       \/ \E k \in Kinds, n \in 1..MaxAttempts :
             \/ current = <<k, n>> /\ actions = Queue(After(k), n)
             \/ /\ current = NoAction /\ actions = Queue(k, n)
                /\ suspended <=> k # "BootFlags"

(* What the main thread may be inside of.                                  *)
CallInv ==
    /\ call \in Calls
    /\ call = "PerformAction" => current # NoAction /\ ~suspended
    /\ call \in {"SetActiveBootSlot", "CompletePostinstall"} => Kind = "Postinstall"
    /\ call \in {"ResetUpdate", "ResetUpdateFailed", "DeleteMarker", "DeleteMarkerFailed"}
         => status = "UPDATED_NEED_REBOOT"

(* At most one callback of a boot flags action is posted, and before it    *)
(* has run no other boot flags action is performed.                        *)
StartTask == [task |-> "StartProcessing", owner |-> NoAction]
FlagsTask(a) == [task |-> "BootFlagsDone", owner |-> a]

TasksInv ==
    /\ bootFlags \in [updated : BOOLEAN, running : BOOLEAN]
    /\ \/ tasks = << >> /\ ~Pending
       \/ tasks = <<StartTask>> /\ Pending
       \/ \E a \in Actions : tasks = <<FlagsTask(a)>> /\ ~Pending
                               /\ (bootFlags.running => a = current)
       \/ \E a \in Actions : tasks = <<FlagsTask(a), StartTask>> /\ Pending
    /\ bootFlags.running => Kind = "BootFlags" /\ call = "none" /\ tasks # << >>
    /\ Kind = "BootFlags" /\ call = "PerformAction" => tasks = << >>

(* The status tells the stage.                                             *)
StatusInv ==
    /\ status \in Statuses
    /\ Stage = "none" => (Resting <=> ~suspended)
    /\ Stage = "BootFlags" => status = "UPDATE_AVAILABLE"
    /\ Stage \in {"Cleanup", "InstallPlan"} => status = "CLEANUP_PREVIOUS_UPDATE"
    /\ Stage = "Download" => status \in {"CLEANUP_PREVIOUS_UPDATE", "DOWNLOADING"}
    /\ Stage = "Verifier" => status = "VERIFYING"
    /\ Stage = "Postinstall" => status = "FINALIZING"

ProcInv == QueueInv /\ CallInv /\ TasksInv /\ StatusInv

(* The marker is never of a boot to come, and while it is of this boot     *)
(* nothing has taken the status back, except a cleanup asked for by a      *)
(* client that does not look at the status.                                *)
MarkerInv ==
    /\ boot.id \in Nat \ {0} /\ prefs.marker \in 0..boot.id
    /\ "Cleanup" \notin Undisciplined /\ UpdateCompletedOnThisBoot(boot, prefs) =>
          status = "UPDATED_NEED_REBOOT"

(* The slot that runs is intact, and so is the other one once the          *)
(* bootloader would take it.                                               *)
Safe == BootSlot = GetCurrentSlot

SlotsInv ==
    /\ Intact(image[GetCurrentSlot])
    /\ GetCurrentSlot \in boot.bootable
    /\ ~Safe => Intact(image[GetTargetSlot])

(* Snapshots that are still written, have been rolled back or are run from *)
(* belong to a device that boots what it runs.                             *)
SnapshotsInv ==
    /\ ~vab => snap.state = "None"
    /\ snap.state = "Initiated" => snap.source = GetCurrentSlot /\ Safe
    /\ snap.rolledBack => snap.state = "Unverified" /\ snap.source = GetCurrentSlot /\ Safe
    /\ snap.state = "Unverified" /\ snap.source # GetCurrentSlot => Safe

(* Where the pipeline is, the device is ready for what comes next.         *)
CleanedUp ==
    /\ snap.state # "Merging"
    /\ snap.state = "Unverified" => snap.source = GetCurrentSlot /\ ~snap.rolledBack

PipelineInv ==
    /\ Stage \in {"InstallPlan", "Download", "Verifier", "Postinstall"} => CleanedUp
    /\ Kind = "Download" /\ call # "PerformAction" => Safe
    /\ Stage = "Verifier" => Safe
    /\ Stage = "Postinstall" /\ call # "CompletePostinstall" => Safe
    /\ Stage = "Postinstall" =>
          Intact(image[GetTargetSlot]) /\ image[GetTargetSlot].of = plan.payload
    /\ call = "SetActiveBootSlot" => snap.state # "Initiated"
    /\ call = "CompletePostinstall" => ~Safe
    /\ call = "ResetUpdate" => boot.active = GetCurrentSlot
    /\ call = "ResetUpdateFailed" => ~vab \/ boot.active = GetCurrentSlot
    /\ suspended /\ Stage = "none" /\ suspendedErrorCode = kSuccess
       /\ status # "CLEANUP_PREVIOUS_UPDATE" =>
          ~Safe /\ image[GetTargetSlot].of = plan.payload

DeviceInv == SlotsInv /\ SnapshotsInv /\ PipelineInv

-----------------------------------------------------------------------------
(* An action is none of the null pointer, and knows its kind.              *)
LEMMA Names ==
    ASSUME NEW k \in Kinds, NEW n \in 0..MaxAttempts
    PROVE  <<k, n>> \in Actions /\ <<k, n>> # NoAction /\ <<k, n>>[1] = k /\ <<k, n>>[2] = n
<1>1. <<k, n>> \in Kinds \X (0..MaxAttempts)
  OBVIOUS
<1>2. <<k, n>> \in Actions
  BY <1>1, KindsAssumption
<1> QED
  BY <1>2, NoActionAssumption

(* So does the cleanup outside an attempt, whose number is 0.              *)
LEMMA CleanupOnlyName ==
    CleanupOnly \in Actions /\ CleanupOnly # NoAction /\ CleanupOnly[1] = "Cleanup" /\ CleanupOnly[2] = 0
<1>1. "Cleanup" \in Kinds /\ 0 \in 0..MaxAttempts
  BY BoundsAssumption DEF Kinds
<1> QED
  BY <1>1, Names DEF CleanupOnly

(* The front of what is left of an attempt, and the rest.                  *)
LEMMA QueueFront ==
    ASSUME NEW k \in Kinds, NEW n
    PROVE  /\ Queue(k, n) # << >>
           /\ Head(Queue(k, n)) = <<k, n>>
           /\ Tail(Queue(k, n)) = Queue(After(k), n)
           /\ After(k) \in Kinds \cup {"none"}
           /\ Queue("none", n) = << >>
<1>1. CASE k = "BootFlags"
  BY <1>1 DEF Queue, After, Kinds
<1>2. CASE k = "Cleanup"
  BY <1>2 DEF Queue, After, Kinds
<1>3. CASE k = "InstallPlan"
  BY <1>3 DEF Queue, After, Kinds
<1>4. CASE k = "Download"
  BY <1>4 DEF Queue, After, Kinds
<1>5. CASE k = "Verifier"
  BY <1>5 DEF Queue, After, Kinds
<1>6. CASE k = "Postinstall"
  BY <1>6 DEF Queue, After, Kinds
<1> QED
  BY <1>1, <1>2, <1>3, <1>4, <1>5, <1>6 DEF Kinds

(* What the stage says about the processor.                                *)
LEMMA StageOfQueue ==
    ASSUME QueueInv
    PROVE  /\ current # NoAction => Stage = Kind /\ Kind \in Kinds
           /\ current = NoAction => Kind = "none"
           /\ Stage = "none" <=> current = NoAction /\ actions = << >>
           /\ current = NoAction /\ Stage # "none" => (suspended <=> Stage # "BootFlags")
           /\ Stage \in Kinds \cup {"none"}
           /\ Pending <=> current = NoAction /\ Stage = "BootFlags"
<1> USE DEF Stage, Kind, Pending
<1>0. "none" \notin Kinds /\ "Cleanup" \in Kinds
  BY DEF Kinds
<1>1. CASE current = NoAction /\ actions = << >>
  BY <1>1
<1>2. CASE current = CleanupOnly /\ actions = << >>
  BY <1>0, <1>2, CleanupOnlyName
<1>3. ASSUME NEW k \in Kinds, NEW n \in 1..MaxAttempts,
             current = <<k, n>> /\ actions = Queue(After(k), n)
      PROVE  current # NoAction /\ current[1] = k
  BY <1>3, Names, BoundsAssumption
<1>4. ASSUME NEW k \in Kinds, NEW n \in 1..MaxAttempts,
             current = NoAction, actions = Queue(k, n), suspended <=> k # "BootFlags"
      PROVE  actions # << >> /\ Head(actions)[1] = k /\ k # "none"
  <2>1. Queue(k, n) # << >> /\ Head(Queue(k, n)) = <<k, n>>
    BY QueueFront, Zenon
  <2>2. <<k, n>>[1] = k
    BY Names, BoundsAssumption
  <2> QED
    BY <1>0, <1>4, <2>1, <2>2
<1>5. CASE \E k \in Kinds, n \in 1..MaxAttempts :
              current = <<k, n>> /\ actions = Queue(After(k), n)
  BY <1>0, <1>3, <1>5
<1>6. CASE \E k \in Kinds, n \in 1..MaxAttempts :
              current = NoAction /\ actions = Queue(k, n) /\ (suspended <=> k # "BootFlags")
  <2>1. PICK k \in Kinds, n \in 1..MaxAttempts :
              current = NoAction /\ actions = Queue(k, n) /\ (suspended <=> k # "BootFlags")
    BY <1>6
  <2>2. actions # << >> /\ Head(actions)[1] = k /\ k # "none"
    BY <1>4, <2>1
  <2> QED
    BY <2>1, <2>2 DEF QueueInv
<1> QED
  BY <1>1, <1>2, <1>5, <1>6 DEF QueueInv

(* Completed moves on to the next stage if the action succeeded and there  *)
(* is one; else the processing is over, or will be when it is resumed.     *)
NextStage(code) == IF code = kSuccess /\ current # CleanupOnly THEN After(Kind) ELSE "none"

(* ActionComplete brings the processor there.                              *)
LEMMA CompletedMovesOn ==
    ASSUME QueueInv, NEW code, ActionComplete(code)
    PROVE  /\ QueueInv' /\ current # NoAction /\ Stage = Kind /\ Kind \in Kinds
           /\ suspended' = suspended
           /\ suspended => current' = NoAction /\ suspendedErrorCode' = code
           /\ ~suspended => (current' = NoAction <=> Stage' = "none")
           /\ Stage' = NextStage(code)
           /\ ~Pending' /\ Kind' # "BootFlags"
<1>1. current # NoAction /\ suspended' = suspended
  BY DEF ActionComplete
<1>2. Stage = Kind /\ Kind \in Kinds
  BY <1>1, StageOfQueue
<1> DEFINE queue == IF code = kSuccess THEN actions ELSE << >>
<1>3. \/ suspended /\ actions' = queue /\ current' = NoAction /\ suspendedErrorCode' = code
      \/ ~suspended /\ queue = << >> /\ actions' = << >> /\ current' = NoAction
      \/ ~suspended /\ queue # << >> /\ current' = Head(queue) /\ actions' = Tail(queue)
  BY DEF ActionComplete, StartNextActionOrFinish, PerformFront
<1>4. "none" \notin Kinds /\ After("Postinstall") = "none" /\ \A k \in Kinds : After(k) # "BootFlags"
  BY DEF Kinds, After
<1>5. CASE queue = << >> /\ NextStage(code) = "none"
  <2>1. actions' = << >> /\ current' = NoAction
    BY <1>3, <1>5
  <2> QED
    BY <1>1, <1>2, <1>3, <1>5, <2>1 DEF QueueInv, Stage, Pending, Kind
<1>6. CASE ~(queue = << >> /\ NextStage(code) = "none")
  <2>1. PICK k \in Kinds, n \in 1..MaxAttempts : current = <<k, n>> /\ actions = Queue(After(k), n)
    BY <1>1, <1>6 DEF QueueInv, NextStage
  <2>2. Kind = k /\ current # CleanupOnly /\ n \in 0..MaxAttempts
    BY <2>1, Names, CleanupOnlyName, BoundsAssumption DEF Kind
  <2>3. code = kSuccess /\ queue = actions /\ NextStage(code) = After(k)
    BY <1>6, <2>2 DEF NextStage
  <2>4. After(k) # "none" => After(k) \in Kinds /\ actions # << >>
           /\ Head(actions) = <<After(k), n>> /\ Tail(actions) = Queue(After(After(k)), n)
    BY <2>1, QueueFront, Zenon
  <2>5. After(k) # "none"
    BY <1>6, <2>1, <2>3, QueueFront
  <2>6. <<After(k), n>> # NoAction /\ <<After(k), n>>[1] = After(k)
    BY <2>2, <2>4, <2>5, Names
  <2>7. CASE suspended
    <3>1. current' = NoAction /\ actions' = Queue(After(k), n) /\ actions' = actions
          /\ suspendedErrorCode' = code
      BY <1>3, <2>1, <2>3, <2>7
    <3>2. QueueInv'
      BY <1>1, <1>4, <2>4, <2>5, <2>7, <3>1, Zenon DEF QueueInv
    <3>3. Stage' = After(k)
      BY <2>4, <2>5, <2>6, <3>1 DEF Stage
    <3> QED
      BY <1>1, <1>2, <1>4, <2>3, <2>7, <3>1, <3>2, <3>3 DEF Pending, Kind
  <2>8. CASE ~suspended
    <3>1. current' = <<After(k), n>> /\ actions' = Queue(After(After(k)), n)
      BY <1>3, <2>3, <2>4, <2>5, <2>8, Zenon
    <3>2. QueueInv'
      BY <1>1, <2>4, <2>5, <2>8, <3>1 DEF QueueInv
    <3>3. Stage' = After(k) /\ Kind' = After(k) /\ current' # NoAction
      BY <2>6, <3>1 DEF Stage, Kind
    <3> QED
      BY <1>1, <1>2, <1>4, <2>3, <2>5, <2>8, <3>2, <3>3 DEF Pending
  <2> QED
    BY <2>7, <2>8
<1> QED
  BY <1>5, <1>6

(* TerminateUpdateAndNotify brings the status to rest.                     *)
LEMMA TerminateRests ==
    ASSUME NEW st, NEW code, TerminateUpdateAndNotify(st, code)
    PROVE  Resting' /\ status' \in Statuses
BY DEF TerminateUpdateAndNotify, Resting, Statuses

(* ActionComplete of the current action, with what the delegate does.      *)
LEMMA CompletedProc ==
    ASSUME ProcInv, NEW code, NEW p, Completed(code, p),
           bootFlags' \in [updated : BOOLEAN, running : BOOLEAN], ~bootFlags'.running,
           tasks' = << >> \/ \E a \in Actions : tasks' = <<FlagsTask(a)>>
    PROVE  ProcInv'
<1> USE DEF ProcInv
<1>1. ActionComplete(code)
  BY DEF Completed
<1>2. /\ QueueInv' /\ current # NoAction /\ Stage = Kind /\ Kind \in Kinds
      /\ suspended' = suspended
      /\ suspended => current' = NoAction
      /\ ~suspended => (current' = NoAction <=> Stage' = "none")
      /\ Stage' = NextStage(code) /\ ~Pending' /\ Kind' # "BootFlags"
  BY <1>1, CompletedMovesOn
<1>3. /\ call' = IF current' = NoAction THEN "none" ELSE "PerformAction"
      /\ IF ~suspended /\ current' = NoAction
         THEN TerminateUpdateAndNotify(StatusAfter(Kind, code), code)
         ELSE status' = StatusAfter(Kind, code)
  BY DEF Completed, CallPerform, ProcessingDone
<1>4. CallInv'
  BY <1>2, <1>3 DEF CallInv, Calls
<1>5. TasksInv'
  BY <1>2 DEF TasksInv
<1>6. StatusInv'
  <2>1. CASE ~suspended /\ current' = NoAction
    BY <1>2, <1>3, <2>1, TerminateRests DEF StatusInv
  <2>2. CASE status' = StatusAfter(Kind, code) /\ code = kSuccess /\ (suspended \/ Stage' # "none")
    BY <1>2, <2>2 DEF StatusInv, StatusAfter, NextStage, After, Kinds, Statuses, Resting
  <2>3. CASE status' = StatusAfter(Kind, code) /\ code # kSuccess /\ (suspended \/ Stage' # "none")
    BY <1>2, <2>3 DEF StatusInv, StatusAfter, NextStage, Kinds, Statuses, Resting
  <2> QED
    BY <1>2, <1>3, <2>1, <2>2, <2>3
<1> QED
  BY <1>2, <1>4, <1>5, <1>6

(* While an action other than that of the boot flags is current, no        *)
(* callback of such an action waits for it.                                *)
LEMMA OtherKindTasks ==
    ASSUME ProcInv, current # NoAction, Kind # "BootFlags"
    PROVE  /\ bootFlags \in [updated : BOOLEAN, running : BOOLEAN] /\ ~bootFlags.running
           /\ tasks = << >> \/ \E a \in Actions : tasks = <<FlagsTask(a)>>
BY DEF ProcInv, TasksInv, Pending

(* So every other action completes without touching the tasks.             *)
LEMMA CompletedOtherProc ==
    ASSUME ProcInv, NEW code, NEW p, Completed(code, p), Kind # "BootFlags",
           UNCHANGED <<tasks, bootFlags>>
    PROVE  ProcInv'
<1>1. current # NoAction
  BY DEF Completed, ActionComplete
<1> QED
  BY <1>1, OtherKindTasks, CompletedProc

(* A step that leaves the processor, its tasks and the status alone, and   *)
(* the call as well or ended.                                              *)
LEMMA ProcFrame ==
    ASSUME ProcInv, UNCHANGED <<procVars, tasks, bootFlags>>,
           \/ call' = call
           \/ call' = "none" /\ Kind # "BootFlags"
           \/ call' \in {"SetActiveBootSlot", "CompletePostinstall"} /\ Kind = "Postinstall",
           \/ status' = status
           \/ Stage = "Download" /\ status' = "DOWNLOADING" /\ call = "none"
    PROVE  ProcInv'
<1> USE DEF ProcInv
<1>1. UNCHANGED <<actions, current, suspended, suspendedErrorCode, tasks, bootFlags>>
  BY DEF procVars
<1>2. Stage' = Stage /\ Kind' = Kind /\ Pending' = Pending /\ QueueInv'
  BY <1>1 DEF Stage, Kind, Pending, QueueInv
<1>3. CallInv'
  BY <1>1, <1>2 DEF CallInv, Calls
<1>4. TasksInv'
  BY <1>1, <1>2 DEF TasksInv
<1>5. StatusInv'
  BY <1>1, <1>2 DEF StatusInv, Statuses, Resting
<1> QED
  BY <1>2, <1>3, <1>4, <1>5

-----------------------------------------------------------------------------
(* Clients that wait for what they asked for find no start pending.        *)
LEMMA PendingIsPosted ==
    ASSUME TasksInv
    PROVE  StartPending <=> Pending
<1>1. StartTask.task = "StartProcessing" /\ \A a : FlagsTask(a).task = "BootFlagsDone"
  BY DEF StartTask, FlagsTask
<1>2. CASE tasks = << >> /\ ~Pending
  BY <1>2 DEF StartPending
<1>3. CASE tasks = <<StartTask>> /\ Pending
  <2>1. 1 \in 1..Len(tasks) /\ tasks[1] = StartTask
    BY <1>3
  <2> QED
    BY <1>1, <1>3, <2>1 DEF StartPending
<1>4. ASSUME NEW a, tasks = <<FlagsTask(a)>>, ~Pending
      PROVE  StartPending <=> Pending
  <2>1. \A i \in 1..Len(tasks) : tasks[i] = FlagsTask(a)
    BY <1>4
  <2> QED
    BY <1>1, <1>4, <2>1 DEF StartPending
<1>5. ASSUME NEW a, tasks = <<FlagsTask(a), StartTask>>, Pending
      PROVE  StartPending <=> Pending
  <2>1. 2 \in 1..Len(tasks) /\ tasks[2] = StartTask
    BY <1>5
  <2> QED
    BY <1>1, <1>5, <2>1 DEF StartPending
<1> QED
  BY <1>2, <1>3, <1>4, <1>5 DEF TasksInv

(* A second task is posted.                                                *)
LEMMA AppendSecond ==
    ASSUME NEW x, NEW y
    PROVE  Append(<<x>>, y) = <<x, y>>
<1> DEFINE s == Append(<<x>>, y)
<1>1. Len(<<x>>) = 1 /\ <<x>>[1] = x
  OBVIOUS
<1>2. s = [i \in 1..(Len(<<x>>) + 1) |-> IF i = Len(<<x>>) + 1 THEN y ELSE <<x>>[i]]
  OBVIOUS
<1>3. <<x, y>> = [i \in 1..2 |-> IF i = 2 THEN y ELSE x]
  OBVIOUS
<1> HIDE DEF s
<1>4. s = [i \in 1..2 |-> IF i = 2 THEN y ELSE <<x>>[i]]
  BY <1>1, <1>2
<1>5. \A i \in 1..2 : (IF i = 2 THEN y ELSE <<x>>[i]) = (IF i = 2 THEN y ELSE x)
  BY <1>1
<1>6. s = [i \in 1..2 |-> IF i = 2 THEN y ELSE x]
  BY <1>4, <1>5
<1> QED
  BY <1>3, <1>6, Zenon DEF s

(* A client's call that is accepted when nothing runs.                     *)
LEMMA ReadyIsIdle ==
    ASSUME ProcInv, "Start" \notin Undisciplined, ClientReady, ~IsRunning
    PROVE  /\ current = NoAction /\ ~suspended /\ actions = << >> /\ call = "none" /\ ~Pending
           /\ Resting /\ Stage = "none" /\ Kind = "none" /\ ~bootFlags.running
           /\ tasks = << >> \/ \E a \in Actions : tasks = <<FlagsTask(a)>>
<1>1. current = NoAction /\ ~suspended /\ call = "none" /\ ~Pending
  BY PendingIsPosted DEF ProcInv, ClientReady, IsRunning
<1>2. actions = << >> /\ Stage = "none" /\ Kind = "none"
  BY <1>1, StageOfQueue DEF ProcInv, Pending
<1> QED
  BY <1>1, <1>2 DEF ProcInv, StatusInv, TasksInv

(* ApplyPayload: the actions are enqueued and the start is posted.         *)
LEMMA ApplyPayloadProc ==
    ASSUME ProcInv, "Start" \notin Undisciplined, attempts \in Nat, MaxAttempts \in Nat,
           NEW p, NEW net, NEW switch, NEW isResume, ApplyPayload(p, net, switch, isResume)
    PROVE  ProcInv'
<1> USE DEF ProcInv
<1> DEFINE n == attempts + 1
<1>1. ClientReady /\ ~IsRunning
  BY DEF ApplyPayload, SetupInstallPlan
<1>2. /\ current = NoAction /\ ~suspended /\ actions = << >> /\ call = "none"
      /\ Resting /\ Kind = "none" /\ ~bootFlags.running
      /\ tasks = << >> \/ \E a \in Actions : tasks = <<FlagsTask(a)>>
  BY <1>1, ReadyIsIdle
<1>3. n \in 1..MaxAttempts
  BY DEF ApplyPayload
<1>4. /\ actions' = actions \o Queue("BootFlags", n)
      /\ UNCHANGED <<current, suspended, call, bootFlags>>
      /\ status' = "UPDATE_AVAILABLE" /\ tasks' = Append(tasks, StartTask)
  BY DEF ApplyPayload, EnqueueActions, Queue, StartTask
<1>5. actions' = Queue("BootFlags", n) /\ "BootFlags" \in Kinds
  BY <1>2, <1>4 DEF Queue, Kinds
<1> HIDE DEF n
<1>6. QueueInv'
  BY <1>2, <1>3, <1>4, <1>5 DEF QueueInv
<1>7. Pending' /\ Stage' = "BootFlags" /\ Kind' = "none"
  <2>1. actions' # << >> /\ Head(actions') = <<"BootFlags", n>>
    BY <1>5, QueueFront
  <2>2. <<"BootFlags", n>>[1] = "BootFlags"
    OBVIOUS
  <2> QED
    BY <1>2, <1>4, <2>1, <2>2 DEF Pending, Stage, Kind
<1>8. tasks' = <<StartTask>> \/ \E a \in Actions : tasks' = <<FlagsTask(a), StartTask>>
  <2>2. CASE tasks = << >>
    BY <1>4, <2>2
  <2>3. CASE \E a \in Actions : tasks = <<FlagsTask(a)>>
    BY <1>4, <2>3, AppendSecond
  <2> QED
    BY <1>2, <2>2, <2>3
<1>9. TasksInv'
  BY <1>2, <1>4, <1>7, <1>8 DEF TasksInv
<1>10. CallInv' /\ StatusInv'
  BY <1>2, <1>4, <1>7 DEF CallInv, StatusInv, Statuses, Calls
<1> QED
  BY <1>6, <1>9, <1>10

(* CleanupSuccessfulUpdate: a cleanup outside any attempt.                 *)
LEMMA CleanupSuccessfulUpdateProc ==
    ASSUME ProcInv, "Start" \notin Undisciplined, CleanupSuccessfulUpdate
    PROVE  ProcInv'
<1> USE DEF ProcInv
<1>1. /\ current = NoAction /\ ~suspended /\ actions = << >> /\ ~bootFlags.running
      /\ tasks = << >> \/ \E a \in Actions : tasks = <<FlagsTask(a)>>
  BY ReadyIsIdle DEF CleanupSuccessfulUpdate
<1>2. /\ current' = CleanupOnly /\ actions' = << >>
      /\ status' = "CLEANUP_PREVIOUS_UPDATE" /\ UNCHANGED <<suspended, tasks, bootFlags>>
  BY <1>1 DEF CleanupSuccessfulUpdate, PerformFront
<1>3. call' = "PerformAction"
  BY <1>2, CleanupOnlyName DEF CleanupSuccessfulUpdate, CallPerform
<1>4. Stage' = "Cleanup" /\ Kind' = "Cleanup" /\ ~Pending' /\ current' # NoAction
  BY <1>2, CleanupOnlyName DEF Stage, Kind, Pending
<1>5. QueueInv' /\ CallInv' /\ StatusInv'
  BY <1>1, <1>2, <1>3, <1>4 DEF QueueInv, CallInv, StatusInv, Statuses, Calls
<1>6. TasksInv'
  BY <1>1, <1>2, <1>4 DEF TasksInv
<1> QED
  BY <1>5, <1>6

(* A process that starts has nothing queued but, perhaps, the cleanup.     *)
LEMMA InitDaemonProc ==
    ASSUME NEW b, NEW p, InitDaemon(b, p)
    PROVE  ProcInv'
<1> USE DEF ProcInv
<1>1. /\ \/ status' = "UPDATED_NEED_REBOOT" /\ current' = NoAction
         \/ status' = "CLEANUP_PREVIOUS_UPDATE" /\ current' = CleanupOnly
      /\ actions' = << >> /\ suspended' = FALSE /\ tasks' = << >>
      /\ bootFlags' = [updated |-> FALSE, running |-> FALSE]
      /\ call' = IF current' = NoAction THEN "none" ELSE "PerformAction"
  BY DEF InitDaemon, CallPerform
<1>2. /\ current' = NoAction => Stage' = "none" /\ Kind' = "none"
      /\ current' = CleanupOnly => Stage' = "Cleanup" /\ Kind' = "Cleanup" /\ current' # NoAction
      /\ ~Pending'
  BY <1>1, CleanupOnlyName DEF Stage, Kind, Pending
<1>3. QueueInv' /\ CallInv' /\ StatusInv'
  BY <1>1, <1>2, Zenon DEF QueueInv, CallInv, StatusInv, Statuses, Calls, Resting
<1>4. TasksInv'
  BY <1>1, <1>2 DEF TasksInv
<1> QED
  BY <1>3, <1>4

(* SuspendUpdate.                                                          *)
LEMMA SuspendProc ==
    ASSUME ProcInv, SuspendUpdate
    PROVE  ProcInv'
<1> USE DEF ProcInv
<1>1. /\ call = "none" /\ current # NoAction /\ suspended' = TRUE
      /\ UNCHANGED <<actions, current, status, tasks, bootFlags, call>>
  BY DEF SuspendUpdate, SuspendProcessing, daemonVars
<1>2. Stage' = Stage /\ Kind' = Kind /\ ~Pending' /\ ~Pending
  BY <1>1 DEF Stage, Kind, Pending
<1>3. Stage # "none"
  BY <1>1, StageOfQueue
<1>4. QueueInv' /\ CallInv' /\ StatusInv'
  BY <1>1, <1>2, <1>3 DEF QueueInv, CallInv, StatusInv
<1>5. TasksInv'
  BY <1>1, <1>2 DEF TasksInv
<1> QED
  BY <1>4, <1>5

(* ResumeUpdate: on with the current action, with the next one, or with    *)
(* the end.                                                                *)
LEMMA ResumeProc ==
    ASSUME ProcInv, ResumeUpdate
    PROVE  /\ ProcInv'
           /\ Stage' = Stage
           /\ current # NoAction => current' = current
           /\ current' = NoAction => Stage = "none" /\ current = NoAction
           /\ call' \in {"none", "PerformAction"} /\ suspended' = FALSE
<1> USE DEF ProcInv
<1>1. /\ call = "none" /\ suspended /\ suspended' = FALSE /\ UNCHANGED <<tasks, bootFlags>>
      /\ call' = IF current = NoAction /\ current' # NoAction THEN "PerformAction" ELSE "none"
      /\ IF current' = NoAction THEN TerminateUpdateAndNotify(status, suspendedErrorCode)
         ELSE status' = status
  BY DEF ResumeUpdate, ResumeProcessing, ProcessingDone
<1>2. \/ current # NoAction /\ UNCHANGED <<actions, current>>
      \/ current = NoAction /\ actions = << >> /\ actions' = << >> /\ current' = NoAction
      \/ current = NoAction /\ actions # << >> /\ current' = Head(actions) /\ actions' = Tail(actions)
  BY DEF ResumeUpdate, ResumeProcessing, StartNextActionOrFinish, PerformFront
<1>3. ~Pending
  BY <1>1 DEF Pending
<1>4. CASE current # NoAction
  <2>1. Stage' = Stage /\ Kind' = Kind /\ ~Pending' /\ Stage # "none"
    BY <1>2, <1>4, StageOfQueue DEF Stage, Kind, Pending
  <2>2. QueueInv' /\ CallInv' /\ StatusInv'
    BY <1>1, <1>2, <1>4, <2>1, Zenon DEF QueueInv, CallInv, StatusInv
  <2>3. TasksInv'
    BY <1>1, <1>2, <1>3, <1>4, <2>1 DEF TasksInv
  <2> QED
    BY <1>1, <1>2, <1>4, <2>1, <2>2, <2>3
<1>5. CASE current = NoAction /\ actions = << >>
  <2>1. Stage' = "none" /\ Stage = "none" /\ Kind' = "none" /\ Kind = "none" /\ ~Pending'
    BY <1>2, <1>5 DEF Stage, Kind, Pending
  <2>2. Resting' /\ status' \in Statuses
    BY <1>1, <1>2, <1>5, TerminateRests
  <2>3. QueueInv' /\ CallInv' /\ StatusInv'
    BY <1>1, <1>2, <1>5, <2>1, <2>2, Zenon DEF QueueInv, CallInv, StatusInv, Calls
  <2>4. TasksInv'
    BY <1>1, <1>3, <2>1 DEF TasksInv
  <2> QED
    BY <1>1, <1>2, <1>5, <2>1, <2>3, <2>4
<1>6. CASE current = NoAction /\ actions # << >>
  <2>1. PICK k \in Kinds, n \in 1..MaxAttempts :
           actions = Queue(k, n) /\ (suspended <=> k # "BootFlags")
    BY <1>6, CleanupOnlyName, Names, BoundsAssumption DEF QueueInv
  <2>2. current' = <<k, n>> /\ actions' = Queue(After(k), n)
    BY <1>2, <1>6, <2>1, QueueFront, Zenon
  <2>3. <<k, n>> # NoAction /\ <<k, n>>[1] = k
    BY Names, BoundsAssumption
  <2>4. Stage' = k /\ Kind' = k /\ ~Pending' /\ current' # NoAction
    BY <2>2, <2>3 DEF Stage, Kind, Pending
  <2>5. Stage = k
    BY <1>6, <2>1, <2>3, QueueFront, Zenon DEF Stage
  <2>6. k # "BootFlags" /\ k # "none" /\ Kind = "none"
    BY <1>1, <1>6, <2>1 DEF Kinds, Kind
  <2>7. QueueInv'
    BY <1>1, <2>2, Zenon DEF QueueInv
  <2>8. CallInv' /\ StatusInv'
    BY <1>1, <1>6, <2>4, <2>5, <2>6 DEF CallInv, StatusInv, Calls
  <2>9. TasksInv'
    BY <1>1, <1>3, <2>4, <2>6 DEF TasksInv
  <2> QED
    BY <1>1, <1>6, <2>4, <2>5, <2>7, <2>8, <2>9
<1> QED
  BY <1>4, <1>5, <1>6, Zenon

(* CancelUpdate: the queue is dropped, and a boot flags action waits for   *)
(* its callback no longer.                                                 *)
LEMMA CancelProc ==
    ASSUME ProcInv, CancelUpdate
    PROVE  ProcInv' /\ Stage' = "none" /\ ~suspended'
<1> USE DEF ProcInv
<1>1. /\ call = "none" /\ call' = "none" /\ IsRunning
      /\ current' = NoAction /\ actions' = << >> /\ suspended' = FALSE /\ tasks' = tasks
      /\ bootFlags' = IF Kind = "BootFlags" THEN [bootFlags EXCEPT !.running = FALSE] ELSE bootFlags
      /\ TerminateUpdateAndNotify(status, "kUserCanceled")
  BY DEF CancelUpdate, StopProcessing
<1>2. Stage' = "none" /\ Kind' = "none" /\ ~Pending' /\ ~Pending
  BY <1>1 DEF Stage, Kind, Pending, IsRunning
<1>3. Resting' /\ status' \in Statuses
  BY <1>1, TerminateRests
<1>4. QueueInv' /\ CallInv' /\ StatusInv'
  BY <1>1, <1>2, <1>3, Zenon DEF QueueInv, CallInv, StatusInv, Calls
<1>5. bootFlags' \in [updated : BOOLEAN, running : BOOLEAN] /\ ~bootFlags'.running
  BY <1>1, Zenon DEF TasksInv
<1>6. TasksInv'
  BY <1>1, <1>2, <1>5 DEF TasksInv
<1> QED
  BY <1>1, <1>2, <1>4, <1>6

(* ResetStatus of an applied update, step by step.                         *)
LEMMA ResetStatusProc ==
    ASSUME ProcInv, ResetStatusApplied \/ ResetStatusSnapshots \/ ResetStatusMarker
    PROVE  ProcInv'
<1> USE DEF ProcInv
<1>1. /\ status = "UPDATED_NEED_REBOOT" /\ UNCHANGED <<procVars, tasks, bootFlags>>
      /\ status' \in {"IDLE", "UPDATED_NEED_REBOOT"}
      /\ call' \in {"none", "ResetUpdate", "ResetUpdateFailed", "DeleteMarker", "DeleteMarkerFailed"}
      /\ call' # "none" => status' = status
  BY DEF ResetStatusApplied, ResetStatusSnapshots, ResetStatusMarker, daemonVars, CallInv
<1>2. Stage = "none" /\ current = NoAction /\ Kind = "none"
  <2>1. Stage = "none"
    BY <1>1, StageOfQueue DEF StatusInv, Kinds
  <2> QED
    BY <2>1, StageOfQueue
<1>3. UNCHANGED <<actions, current, suspended, tasks, bootFlags>>
  BY <1>1 DEF procVars
<1>4. Stage' = Stage /\ Kind' = Kind /\ Pending' = Pending /\ QueueInv'
  BY <1>3 DEF Stage, Kind, Pending, QueueInv
<1>5. CallInv' /\ StatusInv'
  BY <1>1, <1>2, <1>3, <1>4 DEF CallInv, StatusInv, Calls, Statuses, Resting
<1>6. TasksInv'
  BY <1>1, <1>2, <1>3, <1>4 DEF TasksInv
<1> QED
  BY <1>4, <1>5, <1>6

(* The posted start runs: the boot flags action is performed.              *)
LEMMA RunStartProc ==
    ASSUME ProcInv, RunStartProcessing
    PROVE  ProcInv' /\ Stage' = "BootFlags" /\ Pending
<1> USE DEF ProcInv
<1>1. /\ call = "none" /\ ~IsRunning /\ actions # << >> /\ tasks' = Tail(tasks)
      /\ Head(tasks).task = "StartProcessing"
      /\ current' = Head(actions) /\ actions' = Tail(actions) /\ suspended' = suspended
      /\ UNCHANGED <<status, bootFlags>>
      /\ call' = IF current' = NoAction THEN "none" ELSE "PerformAction"
  BY DEF RunStartProcessing, StartProcessing, PerformFront, CallPerform
<1>2. Pending /\ current = NoAction /\ ~suspended /\ Stage = "BootFlags" /\ Kind = "none"
  BY <1>1, StageOfQueue DEF IsRunning, Pending
<1>3. PICK n \in 1..MaxAttempts : actions = Queue("BootFlags", n)
  BY <1>1, <1>2, CleanupOnlyName, Names, BoundsAssumption DEF QueueInv
<1>4. "BootFlags" \in Kinds
  BY DEF Kinds
<1>5. current' = <<"BootFlags", n>> /\ actions' = Queue(After("BootFlags"), n)
  BY <1>1, <1>3, <1>4, QueueFront
<1>6. <<"BootFlags", n>> # NoAction /\ <<"BootFlags", n>>[1] = "BootFlags"
  BY <1>4, Names, BoundsAssumption
<1>7. Stage' = "BootFlags" /\ Kind' = "BootFlags" /\ ~Pending' /\ current' # NoAction
  BY <1>5, <1>6 DEF Stage, Kind, Pending
<1>8. tasks' = << >>
  <2>1. StartTask.task = "StartProcessing" /\ \A a : FlagsTask(a).task = "BootFlagsDone"
    BY DEF StartTask, FlagsTask
  <2>2. CASE tasks = <<StartTask>>
    BY <1>1, <2>2
  <2>3. ASSUME NEW a, tasks = <<FlagsTask(a), StartTask>> PROVE FALSE
    BY <1>1, <2>1, <2>3
  <2> QED
    BY <1>2, <2>2, <2>3 DEF TasksInv
<1>9. QueueInv'
  BY <1>1, <1>4, <1>5, SMTT(30) DEF QueueInv
<1>10. CallInv' /\ StatusInv'
  BY <1>1, <1>2, <1>7 DEF CallInv, StatusInv, Calls
<1>11. TasksInv'
  BY <1>1, <1>2, <1>7, <1>8 DEF TasksInv
<1> QED
  BY <1>2, <1>7, <1>9, <1>10, <1>11

(* A posted callback runs: with nobody waiting for it nothing happens;     *)
(* else it completes the action that waits.                                *)
LEMMA RunBootFlagsProc ==
    ASSUME ProcInv, RunBootFlagsDone
    PROVE  ProcInv'
<1> USE DEF ProcInv
<1>1. /\ call = "none" /\ tasks # << >> /\ tasks' = Tail(tasks) /\ Head(tasks).task = "BootFlagsDone"
  BY DEF RunBootFlagsDone
<1>2. StartTask.task = "StartProcessing" /\ \A a : FlagsTask(a).task = "BootFlagsDone"
  BY DEF StartTask, FlagsTask
<1>3. \/ tasks' = << >> /\ ~Pending
      \/ tasks' = <<StartTask>> /\ Pending
  <2>1. CASE tasks = <<StartTask>>
    BY <1>1, <1>2, <2>1
  <2>2. ASSUME NEW a, tasks = <<FlagsTask(a)>> PROVE tasks' = << >>
    BY <1>1, <2>2
  <2>3. ASSUME NEW a, tasks = <<FlagsTask(a), StartTask>> PROVE tasks' = <<StartTask>>
    BY <1>1, <2>3
  <2> QED
    BY <1>1, <2>1, <2>2, <2>3 DEF TasksInv
<1>4. CASE ~bootFlags.running /\ UNCHANGED <<procVars, bootFlags, call, status>>
  <2>1. UNCHANGED <<actions, current, suspended, call, bootFlags, status>>
    BY <1>4 DEF procVars
  <2>2. Stage' = Stage /\ Kind' = Kind /\ Pending' = Pending /\ QueueInv'
    BY <2>1 DEF Stage, Kind, Pending, QueueInv
  <2>3. CallInv' /\ StatusInv'
    BY <2>1, <2>2 DEF CallInv, StatusInv, Resting
  <2>4. TasksInv'
    BY <1>1, <1>3, <1>4, <2>1, <2>2 DEF TasksInv
  <2> QED
    BY <2>2, <2>3, <2>4
<1>5. CASE /\ bootFlags.running /\ bootFlags' = [updated |-> TRUE, running |-> FALSE]
           /\ Completed(kSuccess, prefs)
  <2>1. ~Pending
    BY <1>5, StageOfQueue DEF TasksInv, Pending, Kind
  <2>2. bootFlags' \in [updated : BOOLEAN, running : BOOLEAN] /\ ~bootFlags'.running
    BY <1>5
  <2> QED
    BY <1>3, <1>5, <2>1, <2>2, CompletedProc
<1> QED
  BY <1>4, <1>5 DEF RunBootFlagsDone

(* UpdateBootFlagsAction::PerformAction.                                   *)
LEMMA PerformBootFlagsProc ==
    ASSUME ProcInv, PerformBootFlags
    PROVE  ProcInv'
<1> USE DEF ProcInv
<1>1. call = "PerformAction" /\ Kind = "BootFlags"
  BY DEF PerformBootFlags
<1>2. tasks = << >> /\ ~bootFlags.running /\ current # NoAction
  BY <1>1 DEF TasksInv, CallInv
<1>3. ASSUME Completed(kSuccess, prefs), tasks' = tasks,
             bootFlags' = bootFlags \/ bootFlags' = [bootFlags EXCEPT !.updated = TRUE]
      PROVE  ProcInv'
  <2>1. bootFlags' \in [updated : BOOLEAN, running : BOOLEAN] /\ ~bootFlags'.running
    BY <1>2, <1>3, Zenon DEF TasksInv
  <2> QED
    BY <1>2, <1>3, <2>1, CompletedProc
<1>4. CASE /\ bootFlags' = [bootFlags EXCEPT !.running = TRUE]
           /\ tasks' = Append(tasks, [task |-> "BootFlagsDone", owner |-> current])
           /\ call' = "none" /\ UNCHANGED <<procVars, status>>
  <2>1. UNCHANGED <<actions, current, suspended, status>>
    BY <1>4 DEF procVars
  <2>2. Stage' = Stage /\ Kind' = Kind /\ ~Pending' /\ QueueInv'
    BY <1>2, <2>1 DEF Stage, Kind, Pending, QueueInv
  <2>3. CallInv' /\ StatusInv'
    BY <1>4, <2>1, <2>2 DEF CallInv, StatusInv, Resting, Calls
  <2>4. bootFlags' \in [updated : BOOLEAN, running : BOOLEAN]
    BY <1>4, Zenon DEF TasksInv
  <2>5. tasks' = <<FlagsTask(current)>>
    BY <1>2, <1>4 DEF FlagsTask
  <2>6. current \in Actions
    BY <1>2, CleanupOnlyName, Names, BoundsAssumption DEF QueueInv
  <2>7. TasksInv'
    BY <1>1, <1>4, <2>1, <2>2, <2>4, <2>5, <2>6 DEF TasksInv
  <2> QED
    BY <2>2, <2>3, <2>7
<1> QED
  BY <1>3, <1>4 DEF PerformBootFlags

(* The other actions are performed.                                        *)
LEMMA PerformProc ==
    ASSUME ProcInv, PerformCleanup \/ PerformInstallPlan \/ PerformDownload \/ PerformAsync
    PROVE  ProcInv'
<1>1. Kind # "BootFlags" /\ UNCHANGED <<tasks, bootFlags>>
  BY DEF PerformCleanup, PerformInstallPlan, PerformDownload, PerformAsync, daemonVars
<1>2. \/ Completed(kSuccess, prefs)
      \/ UNCHANGED <<procVars, status>> /\ call' = "none"
  BY DEF PerformCleanup, PerformInstallPlan, PerformDownload, PerformAsync, daemonVars
<1> QED
  BY <1>1, <1>2, CompletedOtherProc, ProcFrame

(* What the actions do while they run.                                     *)
LEMMA WorkProc ==
    ASSUME ProcInv, Work \/ PostinstallSwitch \/ PostinstallCompletes
    PROVE  ProcInv'
<1>1. CASE CleanupDone
  <2>1. Kind = "Cleanup" /\ UNCHANGED <<tasks, bootFlags>> /\ \E code, p : Completed(code, p)
    BY <1>1, Zenon DEF CleanupDone, Works
  <2> QED
    BY <2>1, CompletedOtherProc
<1>2. CASE InitiateMerge
  BY <1>2, ProcFrame DEF InitiateMerge, daemonVars
<1>3. CASE DownloadPrepare \/ DownloadWrite
  <2>1. Stage = "Download" /\ call = "none"
    BY <1>3, StageOfQueue DEF DownloadPrepare, DownloadWrite, Works, ProcInv
  <2> QED
    BY <1>3, <2>1, ProcFrame DEF DownloadPrepare, DownloadWrite
<1>4. CASE DownloadComplete
  BY <1>4, CompletedOtherProc DEF DownloadComplete, Works
<1>5. CASE DownloadFails
  <2>1. Kind = "Download" /\ UNCHANGED <<tasks, bootFlags>> /\ \E code, p : Completed(code, p)
    BY <1>5, Zenon DEF DownloadFails, Works
  <2> QED
    BY <2>1, CompletedOtherProc
<1>6. CASE VerifierDone
  <2>1. Kind = "Verifier" /\ UNCHANGED <<tasks, bootFlags>> /\ \E code, p : Completed(code, p)
    BY <1>6 DEF VerifierDone, Works
  <2> QED
    BY <2>1, CompletedOtherProc
<1>7. CASE PostinstallDone
  <2>1. Kind = "Postinstall" /\ UNCHANGED <<tasks, bootFlags>>
    BY <1>7 DEF PostinstallDone
  <2>2. \/ UNCHANGED <<procVars, status>> /\ call' = "SetActiveBootSlot"
        \/ \E code, p : Completed(code, p)
    BY <1>7 DEF PostinstallDone
  <2> QED
    BY <2>1, <2>2, CompletedOtherProc, ProcFrame
<1>8. CASE PostinstallSwitch \/ PostinstallCompletes
  <2>1. Kind = "Postinstall" /\ UNCHANGED <<tasks, bootFlags>>
    BY <1>8 DEF PostinstallSwitch, PostinstallCompletes, ProcInv, CallInv
  <2>2. \/ UNCHANGED <<procVars, status>> /\ call' = "CompletePostinstall"
        \/ \E code, p : Completed(code, p)
    BY <1>8 DEF PostinstallSwitch, PostinstallCompletes
  <2> QED
    BY <2>1, <2>2, CompletedOtherProc, ProcFrame
<1> QED
  BY <1>1, <1>2, <1>3, <1>4, <1>5, <1>6, <1>7, <1>8 DEF Work

(* Calls that leave the processor alone, or start the daemon anew.         *)
LEMMA DeviceProc ==
    ASSUME ProcInv,
           \/ \E p \in Payloads, switch, isResume \in BOOLEAN : ApplyPayloadFails(p, switch, isResume)
           \/ ResetStatusIdle
           \/ \E p \in Payloads : AllocateSpaceForPayload(p)
           \/ UNCHANGED vars
           \/ Crash
           \/ Reboot
    PROVE  ProcInv'
<1>1. CASE \E p \in Payloads, switch, isResume \in BOOLEAN : ApplyPayloadFails(p, switch, isResume)
  BY <1>1, ProcFrame DEF ApplyPayloadFails
<1>2. CASE ResetStatusIdle
  BY <1>2, ProcFrame DEF ResetStatusIdle, daemonVars
<1>3. CASE \E p \in Payloads : AllocateSpaceForPayload(p)
  BY <1>3, ProcFrame DEF AllocateSpaceForPayload, daemonVars
<1>4. CASE UNCHANGED vars
  BY <1>4, ProcFrame DEF vars, daemonVars
<1>5. CASE Crash
  BY <1>5, InitDaemonProc DEF Crash
<1>6. CASE Reboot
  <2>1. \E b : InitDaemon(b, prefs)
    BY <1>6, Zenon DEF Reboot
  <2> QED
    BY <2>1, InitDaemonProc
<1> QED
  BY <1>1, <1>2, <1>3, <1>4, <1>5, <1>6

(* ProcInv is inductive if clients wait for the start.                     *)
LEMMA NextProc ==
    ASSUME ProcInv, TypeOK, "Start" \notin Undisciplined, [Next]_vars
    PROVE  ProcInv'
<1>1. CASE Client
  <2>1. CASE \E p \in Payloads, net, switch, isResume \in BOOLEAN :
               ApplyPayload(p, net, switch, isResume)
    BY <2>1, ApplyPayloadProc, BoundsAssumption DEF TypeOK
  <2> QED
    BY <1>1, <2>1, DeviceProc, SuspendProc, CancelProc, ResetStatusProc,
       CleanupSuccessfulUpdateProc DEF Client
<1>2. CASE Internal
  BY <1>2, PerformBootFlagsProc, PerformProc, WorkProc, RunStartProc, RunBootFlagsProc,
     ResetStatusProc DEF Internal, Perform
<1> QED
  BY <1>1, <1>2, ResumeProc, DeviceProc, Zenon DEF Next

(* The daemon starts with the cleanup of the previous update.              *)
LEMMA InitProc == Init => ProcInv
<1> SUFFICES ASSUME Init PROVE ProcInv
  OBVIOUS
<1>1. Stage = "Cleanup" /\ Kind = "Cleanup" /\ ~Pending /\ current # NoAction
  BY CleanupOnlyName DEF Init, Stage, Kind, Pending
<1>2. QueueInv /\ CallInv /\ StatusInv
  BY <1>1, Zenon DEF Init, QueueInv, CallInv, StatusInv, Calls, Statuses, Resting
<1>3. TasksInv
  BY <1>1 DEF Init, TasksInv
<1> QED
  BY <1>2, <1>3 DEF ProcInv

-----------------------------------------------------------------------------
(* The types, those that the end of an action concerns apart from the      *)
(* others.                                                                 *)
Tasks == [task : {"StartProcessing", "BootFlagsDone"}, owner : Actions \cup {NoAction}]
Flags == [updated : BOOLEAN, running : BOOLEAN]
Plans == [payload : Payloads \cup {NoPayload}, isResume : BOOLEAN,
          writeVerity : BOOLEAN, switchSlot : BOOLEAN]
Prefs == [hash : Payloads \cup {NoPayload}, prepared : Payloads \cup {NoPayload},
          progress : {"none", "partial", "complete"}, verity : BOOLEAN,
          marker : 0..MaxBoots, prevSlot : Slots]
Snaps == [state : {"None", "Initiated", "Unverified", "Merging"},
          source : Slots, rolledBack : BOOLEAN]
Boots == [id : 1..MaxBoots, slot : Slots, active : Slots, bootable : SUBSET Slots]

HostTypes ==
    /\ ProcTypeOK /\ status \in Statuses /\ call \in Calls /\ prefs \in Prefs
    /\ cleanupCode \in ErrorCodes \cup {NoCode} /\ network \in BOOLEAN
DaemonTypes ==
    /\ tasks \in Seq(Tasks) /\ bootFlags \in Flags /\ plan \in Plans /\ writing \in BOOLEAN
BoundTypes == vab \in BOOLEAN /\ attempts \in 0..MaxAttempts /\ crashes \in 0..MaxCrashes
DeviceTypes == snap \in Snaps /\ boot \in Boots /\ image \in [Slots -> Images]

(* Together they are TypeOK.                                               *)
LEMMA TypesTogether == TypeOK <=> HostTypes /\ DaemonTypes /\ BoundTypes /\ DeviceTypes
BY DEF TypeOK, HostTypes, DaemonTypes, BoundTypes, DeviceTypes, Tasks, Flags, Plans, Prefs, Snaps, Boots

(* The same after a step.                                                  *)
LEMMA TypesTogetherNext == HostTypes' /\ DaemonTypes' /\ BoundTypes' /\ DeviceTypes' => TypeOK'
BY DEF TypeOK, HostTypes, DaemonTypes, BoundTypes, DeviceTypes, Tasks, Flags, Plans, Prefs, Snaps, Boots

(* What a step leaves alone keeps its type.                                *)
LEMMA TypesFrame ==
    /\ DaemonTypes /\ UNCHANGED <<tasks, bootFlags, plan, writing>> => DaemonTypes'
    /\ BoundTypes /\ UNCHANGED boundVars => BoundTypes'
    /\ DeviceTypes /\ UNCHANGED <<snap, boot, image>> => DeviceTypes'
    /\ HostTypes /\ UNCHANGED <<procVars, status, call, prefs, cleanupCode, network>> => HostTypes'
BY DEF DaemonTypes, BoundTypes, DeviceTypes, HostTypes, ProcTypeOK, procVars, boundVars

(* The preferences after a reset.                                          *)
LEMMA ResetTypes ==
    ASSUME NEW p \in Prefs, NEW skip \in BOOLEAN
    PROVE  ResetUpdateProgress(p, skip) \in Prefs
BY Zenon DEF ResetUpdateProgress, Prefs

(* ProcessingDone may put the marker of this boot in.                      *)
LEMMA DoneTypes ==
    ASSUME NEW p \in Prefs, NEW st, NEW code, boot \in Boots
    PROVE  PrefsDone(st, code, p) \in Prefs
<1>1. [p EXCEPT !.marker = boot.id] \in Prefs
  BY BoundsAssumption DEF Prefs, Boots
<1> QED
  BY <1>1, ResetTypes, Zenon DEF PrefsDone

(* The processor's fields keep their types.                                *)
LEMMA StartNextTypes ==
    ASSUME NEW q \in Seq(Actions), StartNextActionOrFinish(q)
    PROVE  actions' \in Seq(Actions) /\ current' \in Actions \cup {NoAction}
<1>1. ASSUME q # << >> PROVE Head(q) \in Actions /\ Tail(q) \in Seq(Actions)
  BY <1>1
<1> QED
  BY <1>1 DEF StartNextActionOrFinish, PerformFront

(* The end of an action, with what the delegate does.                      *)
LEMMA CompletedTypes ==
    ASSUME HostTypes, boot \in Boots, NEW code \in ErrorCodes, NEW p \in Prefs, Completed(code, p)
    PROVE  HostTypes'
<1>1. ProcTypeOK'
  <2>1. (IF code = kSuccess THEN actions ELSE << >>) \in Seq(Actions)
    BY DEF HostTypes, ProcTypeOK
  <2> QED
    BY <2>1, StartNextTypes, Zenon DEF Completed, ActionComplete, HostTypes, ProcTypeOK
<1>2. StatusAfter(Kind, code) \in Statuses
  BY DEF StatusAfter, HostTypes, Statuses
<1>3. PrefsAfter(Kind, code, p) \in Prefs
  BY Zenon DEF PrefsAfter, Prefs
<1>4. status' \in Statuses /\ prefs' \in Prefs /\ network' \in BOOLEAN
  <2>1. CASE ProcessingDone(StatusAfter(Kind, code), code, PrefsAfter(Kind, code, p))
    BY <1>3, <2>1, DoneTypes, TerminateRests, Zenon DEF ProcessingDone, TerminateUpdateAndNotify, HostTypes
  <2>2. CASE status' = StatusAfter(Kind, code) /\ prefs' = PrefsAfter(Kind, code, p) /\ UNCHANGED network
    BY <1>2, <1>3, <2>2 DEF HostTypes
  <2> QED
    BY <2>1, <2>2 DEF Completed
<1>5. call' \in Calls /\ cleanupCode' \in ErrorCodes \cup {NoCode}
  BY DEF Completed, CallPerform, Calls, HostTypes
<1> QED
  BY <1>1, <1>4, <1>5 DEF HostTypes

(* The codes an action may end with.                                       *)
LEMMA CodeTypes ==
    {kSuccess, "kError", "kUpdatedButNotActive", "kFilesystemVerifierError",
     "kDownloadStateInitializationError"} \subseteq ErrorCodes
BY CodesAssumption, kSuccessAssumption

(* The target slot is laid out anew, or emptied.                           *)
LEMMA TargetTypes ==
    ASSUME DeviceTypes
    PROVE  /\ GetTargetSlot \in Slots /\ GetCurrentSlot \in Slots /\ SnapNone \in Snaps
           /\ NoImage \in Images
           /\ \A i \in Images : [image EXCEPT ![GetTargetSlot] = i] \in [Slots -> Images]
           /\ DropSnapshots => snap' \in Snaps /\ image' \in [Slots -> Images]
           /\ LayOutTarget => snap' \in Snaps /\ image' \in [Slots -> Images]
<1>1. GetTargetSlot \in Slots /\ GetCurrentSlot \in Slots
  BY DEF DeviceTypes, Boots, GetTargetSlot, GetCurrentSlot, Slots
<1>2. NoImage \in Images /\ SnapNone \in Snaps
  BY DEF NoImage, Images, SnapNone, Snaps, Slots
<1>3. \A i \in Images : [image EXCEPT ![GetTargetSlot] = i] \in [Slots -> Images]
  BY <1>1 DEF DeviceTypes
<1>4. [SnapNone EXCEPT !.state = "Initiated", !.source = GetCurrentSlot] \in Snaps
  BY <1>1, <1>2, Zenon DEF Snaps
<1> QED
  BY <1>1, <1>2, <1>3, <1>4 DEF DeviceTypes, DropSnapshots, LayOutTarget

(* A reboot: up tells whether the slot the bootloader picked comes up.     *)
LEMMA RebootStep ==
    ASSUME TypeOK, Reboot
    PROVE  /\ boot' \in Boots /\ snap' \in Snaps /\ boot'.id = boot.id + 1
           /\ boot'.active = boot.active
           /\ InitDaemon(boot', prefs) /\ UNCHANGED <<image, boundVars>>
           /\ \E up \in BOOLEAN :
                 /\ BootSlot = GetCurrentSlot => up
                 /\ up => BootSlot = GetCurrentSlot \/ Intact(image[BootSlot])
                 /\ boot'.slot = IF up THEN BootSlot ELSE GetCurrentSlot
                 /\ boot'.bootable = IF up THEN boot.bootable ELSE boot.bootable \ {BootSlot}
                 /\ snap' = IF up THEN snap
                            ELSE [snap EXCEPT !.rolledBack = snap.state = "Unverified"]
<1>0. DeviceTypes /\ boot \in Boots /\ snap \in Snaps
  BY TypesTogether DEF DeviceTypes
<1>1. BootSlot \in Slots /\ GetCurrentSlot \in Slots
  BY <1>0, TargetTypes DEF BootSlot, Boots, Slots
<1>2. PICK ok \in BOOLEAN :
        LET up == BootSlot = GetCurrentSlot \/ (ok /\ Intact(image[BootSlot]))
            b == [boot EXCEPT
                    !.id = @ + 1,
                    !.slot = IF up THEN BootSlot ELSE GetCurrentSlot,
                    !.bootable = IF up THEN @ ELSE @ \ {BootSlot}]
        IN
        /\ boot' = b
        /\ snap' = IF up THEN snap
                   ELSE [snap EXCEPT !.rolledBack = snap.state = "Unverified"]
        /\ InitDaemon(b, prefs)
  BY Zenon DEF Reboot
<1> DEFINE up == BootSlot = GetCurrentSlot \/ (ok /\ Intact(image[BootSlot]))
           s == IF up THEN BootSlot ELSE GetCurrentSlot
           ss == IF up THEN boot.bootable ELSE boot.bootable \ {BootSlot}
           n == boot.id + 1
<1>3. /\ boot' = [boot EXCEPT !.id = n, !.slot = s, !.bootable = ss]
      /\ snap' = IF up THEN snap ELSE [snap EXCEPT !.rolledBack = snap.state = "Unverified"]
      /\ InitDaemon(boot', prefs)
  BY <1>2
<1>4. UNCHANGED <<image, boundVars>> /\ boot.id < MaxBoots
  BY DEF Reboot
<1>5. s \in Slots /\ ss \in SUBSET Slots /\ n \in 1..MaxBoots
  BY <1>0, <1>1, <1>4, BoundsAssumption DEF Boots
<1>6. up \in BOOLEAN
  OBVIOUS
<1>7. snap' \in Snaps
  BY <1>0, <1>3, Zenon DEF Snaps
<1>8. /\ BootSlot = GetCurrentSlot => up
      /\ up => BootSlot = GetCurrentSlot \/ Intact(image[BootSlot])
  OBVIOUS
<1> HIDE DEF up
<1>9. /\ boot' \in Boots /\ boot'.id = boot.id + 1 /\ boot'.active = boot.active
      /\ boot'.slot = s /\ boot'.bootable = ss
  BY <1>0, <1>3, <1>5, Zenon DEF Boots
<1> QED
  BY <1>3, <1>4, <1>6, <1>7, <1>8, <1>9

(* What is written to the target is an image.                              *)
LEMMA WrittenTypes ==
    ASSUME TypeOK, NEW i \in Images
    PROVE  Written(i) \in Images /\ [Written(i) EXCEPT !.data = "complete"] \in Images
<1>1. plan.payload \in Payloads \cup {NoPayload}
  BY DEF TypeOK
<1>2. Written(i) \in Images
  BY <1>1, Zenon DEF Written, Images
<1> QED
  BY <1>2 DEF Images

(* Preparing the partitions.                                               *)
LEMMA PrepareTypes ==
    ASSUME TypeOK, NEW hash \in Payloads \cup {NoPayload}
    PROVE  /\ PreparePartitionsForUpdate(hash) =>
                 prefs' \in Prefs /\ snap' \in Snaps /\ image' \in [Slots -> Images]
           /\ PreparePartitionsFails(hash) => snap' \in Snaps /\ image' \in [Slots -> Images]
<1>1. HostTypes /\ DeviceTypes
  BY TypesTogether
<1>2. [ResetUpdateProgress(prefs, FALSE) EXCEPT !.prepared = hash] \in Prefs
  BY <1>1, ResetTypes, Zenon DEF HostTypes, Prefs
<1> QED
  BY <1>1, <1>2, TargetTypes, Zenon
  DEF PreparePartitionsForUpdate, PreparePartitionsFails, HostTypes, DeviceTypes

(* DynamicPartitionControlAndroid::ResetUpdate.                            *)
LEMMA ResetUpdateTypes ==
    ASSUME TypeOK, ResetUpdate(prefs)
    PROVE  prefs' \in Prefs /\ snap' \in Snaps /\ image' \in [Slots -> Images]
BY TypesTogether, TargetTypes, ResetTypes, Zenon DEF ResetUpdate, HostTypes, DeviceTypes

(* A process that starts.                                                  *)
LEMMA InitDaemonTypes ==
    ASSUME TypeOK, NEW b, b.slot \in Slots, InitDaemon(b, prefs)
    PROVE  HostTypes' /\ DaemonTypes'
<1>1. HostTypes
  BY TypesTogether
<1>2. PrefsOnReboot(b, prefs) \in Prefs
  BY <1>1, ResetTypes, Zenon DEF PrefsOnReboot, HostTypes, Prefs
<1>3. ProcTypeOK'
  <2>1. actions' \in Seq(Actions)
    BY DEF InitDaemon
  <2>2. current' \in Actions \cup {NoAction}
    BY CleanupOnlyName DEF InitDaemon
  <2> QED
    BY <2>1, <2>2, kSuccessAssumption, Zenon DEF InitDaemon, ProcTypeOK
<1>4. HostTypes'
  BY <1>1, <1>2, <1>3, Zenon DEF InitDaemon, HostTypes, Statuses, Calls, CallPerform
<1>5. DaemonTypes'
  <2>1. tasks' \in Seq(Tasks)
    BY DEF InitDaemon
  <2>2. bootFlags' \in Flags /\ plan' \in Plans
    BY DEF InitDaemon, Flags, Plans
  <2> QED
    BY <2>1, <2>2, Zenon DEF InitDaemon, DaemonTypes
<1> QED
  BY <1>4, <1>5

(* The calls of clients.                                                   *)
LEMMA ClientTypes ==
    ASSUME TypeOK, Client \/ ResumeUpdate
    PROVE  TypeOK'
<1>0. HostTypes /\ DaemonTypes /\ BoundTypes /\ DeviceTypes /\ boot \in Boots
  BY TypesTogether DEF DeviceTypes
<1>1. ASSUME NEW p \in Payloads, NEW switch \in BOOLEAN, NEW isResume \in BOOLEAN,
             SetupInstallPlan(p, switch, isResume)
      PROVE  plan' \in Plans /\ prefs' \in Prefs
  <2>1. plan' \in Plans
    BY <1>0, <1>1 DEF SetupInstallPlan, Plans, HostTypes, Prefs
  <2>2. [ResetUpdateProgress(prefs, TRUE) EXCEPT !.hash = p] \in Prefs
    BY <1>0, ResetTypes, Zenon DEF Prefs, HostTypes
  <2> QED
    BY <1>0, <1>1, <2>1, <2>2 DEF SetupInstallPlan, HostTypes
<1>2. ASSUME NEW p \in Payloads, NEW net \in BOOLEAN, NEW switch \in BOOLEAN, NEW isResume \in BOOLEAN,
             ApplyPayload(p, net, switch, isResume)
      PROVE  TypeOK'
  <2>1. plan' \in Plans /\ prefs' \in Prefs
    BY <1>1, <1>2 DEF ApplyPayload
  <2>2. attempts' \in 0..MaxAttempts
    BY <1>0, <1>2, BoundsAssumption DEF ApplyPayload, BoundTypes
  <2>3. actions' \in Seq(Actions)
    <3>1. \A k \in Kinds : <<k, attempts'>> \in Actions
      BY <2>2, Names
    <3>2. actions' = actions \o Queue("BootFlags", attempts')
      BY <1>2 DEF ApplyPayload, EnqueueActions, Queue
    <3>3. Queue("BootFlags", attempts') \in Seq(Actions)
      BY <3>1 DEF Queue, Kinds
    <3> QED
      BY <1>0, <3>2, <3>3 DEF HostTypes, ProcTypeOK
  <2>4. tasks' \in Seq(Tasks)
    <3>1. [task |-> "StartProcessing", owner |-> NoAction] \in Tasks
      BY DEF Tasks
    <3> QED
      BY <1>0, <1>2, <3>1 DEF ApplyPayload, DaemonTypes
  <2>5. HostTypes'
    BY <1>0, <1>2, <2>1, <2>3 DEF ApplyPayload, EnqueueActions, HostTypes, ProcTypeOK, Statuses
  <2>6. DaemonTypes' /\ BoundTypes' /\ DeviceTypes'
    BY <1>0, <1>2, <2>1, <2>2, <2>4 DEF ApplyPayload, DaemonTypes, BoundTypes, DeviceTypes
  <2> QED
    BY <2>5, <2>6, TypesTogetherNext
<1>3. ASSUME NEW p \in Payloads, NEW switch \in BOOLEAN, NEW isResume \in BOOLEAN,
             ApplyPayloadFails(p, switch, isResume)
      PROVE  TypeOK'
  <2>1. plan' \in Plans /\ prefs' \in Prefs
    BY <1>1, <1>3 DEF ApplyPayloadFails
  <2>2. HostTypes' /\ DaemonTypes'
    BY <1>0, <1>3, <2>1 DEF ApplyPayloadFails, HostTypes, ProcTypeOK, procVars, DaemonTypes
  <2>3. BoundTypes' /\ DeviceTypes'
    BY <1>0, <1>3, TypesFrame DEF ApplyPayloadFails
  <2> QED
    BY <2>2, <2>3, TypesTogetherNext
<1>4. CASE SuspendUpdate
  <2>1. HostTypes'
    BY <1>0, <1>4 DEF SuspendUpdate, SuspendProcessing, daemonVars, deviceVars, HostTypes, ProcTypeOK
  <2>2. DaemonTypes' /\ BoundTypes' /\ DeviceTypes'
    BY <1>0, <1>4, TypesFrame DEF SuspendUpdate, daemonVars, deviceVars
  <2> QED
    BY <2>1, <2>2, TypesTogetherNext
<1>5. CASE CancelUpdate
  <2>1. HostTypes'
    <3>0. actions' \in Seq(Actions)
      BY <1>5 DEF CancelUpdate, StopProcessing
    <3>1. ProcTypeOK'
      BY <1>0, <1>5, <3>0, Zenon DEF CancelUpdate, StopProcessing, HostTypes, ProcTypeOK
    <3>2. status' \in Statuses /\ network' \in BOOLEAN
      BY <1>0, <1>5, Zenon DEF CancelUpdate, TerminateUpdateAndNotify, HostTypes, Statuses
    <3> QED
      BY <1>0, <1>5, <3>1, <3>2 DEF CancelUpdate, deviceVars, HostTypes
  <2>2. bootFlags' \in Flags
    BY <1>0, <1>5, Zenon DEF CancelUpdate, DaemonTypes, Flags
  <2>3. DaemonTypes' /\ BoundTypes' /\ DeviceTypes'
    BY <1>0, <1>5, <2>2, TypesFrame DEF CancelUpdate, DaemonTypes, deviceVars
  <2> QED
    BY <2>1, <2>3, TypesTogetherNext
<1>6. CASE ResumeUpdate
  <2>1. ProcTypeOK'
    BY <1>0, <1>6, StartNextTypes, Zenon DEF ResumeUpdate, ResumeProcessing, HostTypes, ProcTypeOK
  <2>2. status' \in Statuses /\ prefs' \in Prefs /\ network' \in BOOLEAN
    <3>1. CASE ProcessingDone(status, suspendedErrorCode, prefs)
      BY <1>0, <3>1, DoneTypes, TerminateRests, Zenon DEF ProcessingDone, TerminateUpdateAndNotify, HostTypes
    <3>2. CASE UNCHANGED <<status, prefs, network>>
      BY <1>0, <3>2 DEF HostTypes
    <3> QED
      BY <1>6, <3>1, <3>2 DEF ResumeUpdate
  <2>3. HostTypes'
    BY <1>0, <1>6, <2>1, <2>2 DEF ResumeUpdate, HostTypes, Calls
  <2>4. DaemonTypes' /\ BoundTypes' /\ DeviceTypes'
    BY <1>0, <1>6, TypesFrame DEF ResumeUpdate
  <2> QED
    BY <2>3, <2>4, TypesTogetherNext
<1>7. CASE ResetStatusIdle
  <2>1. prefs' \in Prefs /\ snap' \in Snaps /\ image' \in [Slots -> Images]
    BY <1>7, ResetUpdateTypes DEF ResetStatusIdle
  <2>2. HostTypes' /\ DeviceTypes'
    BY <1>0, <1>7, <2>1 DEF ResetStatusIdle, daemonVars, procVars, HostTypes, ProcTypeOK, DeviceTypes
  <2>3. DaemonTypes' /\ BoundTypes'
    BY <1>0, <1>7, TypesFrame DEF ResetStatusIdle, daemonVars
  <2> QED
    BY <2>2, <2>3, TypesTogetherNext
<1>8. CASE ResetStatusApplied
  <2>1. boot' \in Boots
    BY <1>0, <1>8, TargetTypes, ZenonT(30) DEF ResetStatusApplied, SetActiveBootSlot, Boots
  <2>2. HostTypes' /\ DeviceTypes'
    BY <1>0, <1>8, <2>1
    DEF ResetStatusApplied, daemonVars, procVars, HostTypes, ProcTypeOK, DeviceTypes, Calls
  <2>3. DaemonTypes' /\ BoundTypes'
    BY <1>0, <1>8, TypesFrame DEF ResetStatusApplied, daemonVars
  <2> QED
    BY <2>2, <2>3, TypesTogetherNext
<1>9. CASE CleanupSuccessfulUpdate
  <2>1. actions \o <<CleanupOnly>> \in Seq(Actions) /\ actions \o <<CleanupOnly>> # << >>
    BY <1>0, CleanupOnlyName DEF HostTypes, ProcTypeOK
  <2>2. current' \in Actions /\ actions' \in Seq(Actions)
    BY <1>9, <2>1 DEF CleanupSuccessfulUpdate, PerformFront
  <2>3. HostTypes'
    BY <1>0, <1>9, <2>2
    DEF CleanupSuccessfulUpdate, CallPerform, Calls, Statuses, HostTypes, ProcTypeOK, deviceVars
  <2>4. DaemonTypes' /\ BoundTypes' /\ DeviceTypes'
    BY <1>0, <1>9, TypesFrame DEF CleanupSuccessfulUpdate, deviceVars
  <2> QED
    BY <2>3, <2>4, TypesTogetherNext
<1>10. ASSUME NEW p \in Payloads, AllocateSpaceForPayload(p)
       PROVE  TypeOK'
  <2>1. prefs' \in Prefs /\ snap' \in Snaps /\ image' \in [Slots -> Images]
    BY <1>0, <1>10, PrepareTypes, ResetTypes, Zenon DEF AllocateSpaceForPayload, HostTypes
  <2>2. HostTypes' /\ DeviceTypes'
    BY <1>0, <1>10, <2>1 DEF AllocateSpaceForPayload, daemonVars, procVars, HostTypes, ProcTypeOK, DeviceTypes
  <2>3. DaemonTypes' /\ BoundTypes'
    BY <1>0, <1>10, TypesFrame DEF AllocateSpaceForPayload, daemonVars
  <2> QED
    BY <2>2, <2>3, TypesTogetherNext
<1> QED
  BY <1>2, <1>3, <1>4, <1>5, <1>6, <1>7, <1>8, <1>9, <1>10 DEF Client

(* Posted tasks and the calls of PerformAction.                            *)
LEMMA PerformTypes ==
    ASSUME TypeOK, Perform \/ RunStartProcessing \/ RunBootFlagsDone
    PROVE  TypeOK'
<1>0. HostTypes /\ DaemonTypes /\ BoundTypes /\ DeviceTypes /\ boot \in Boots /\ prefs \in Prefs
  BY TypesTogether DEF DeviceTypes, HostTypes
<1>k. kSuccess \in ErrorCodes
  BY CodeTypes
<1>c. "none" \in Calls
  BY DEF Calls
<1>1. CASE RunStartProcessing
  <2>1. actions # << >> /\ actions \in Seq(Actions)
    BY <1>0, <1>1 DEF RunStartProcessing, StartProcessing, HostTypes, ProcTypeOK
  <2>2. current' \in Actions /\ actions' \in Seq(Actions)
    BY <1>1, <2>1 DEF RunStartProcessing, StartProcessing, PerformFront
  <2>3. HostTypes'
    BY <1>0, <1>1, <2>2
    DEF RunStartProcessing, StartProcessing, CallPerform, Calls, HostTypes, ProcTypeOK, deviceVars
  <2>4. tasks' \in Seq(Tasks)
    BY <1>0, <1>1 DEF RunStartProcessing, DaemonTypes
  <2>5. DaemonTypes' /\ BoundTypes' /\ DeviceTypes'
    BY <1>0, <1>1, <2>4, TypesFrame DEF RunStartProcessing, DaemonTypes, deviceVars
  <2> QED
    BY <2>3, <2>5, TypesTogetherNext
<1>2. CASE RunBootFlagsDone
  <2>1. HostTypes'
    <3>1. CASE bootFlags.running
      BY <1>0, <1>2, <1>k, <3>1, CompletedTypes DEF RunBootFlagsDone
    <3>2. CASE ~bootFlags.running
      BY <1>0, <1>2, <3>2, TypesFrame DEF RunBootFlagsDone
    <3> QED
      BY <3>1, <3>2
  <2>2. tasks' \in Seq(Tasks)
    BY <1>0, <1>2 DEF RunBootFlagsDone, DaemonTypes
  <2>3. bootFlags' \in Flags
    <3>1. [updated |-> TRUE, running |-> FALSE] \in Flags
      BY DEF Flags
    <3> QED
      BY <1>0, <1>2, <3>1, Zenon DEF RunBootFlagsDone, DaemonTypes
  <2>4. DaemonTypes' /\ BoundTypes' /\ DeviceTypes'
    BY <1>0, <1>2, <2>2, <2>3, TypesFrame DEF RunBootFlagsDone, DaemonTypes
  <2> QED
    BY <2>1, <2>4, TypesTogetherNext
<1>3. CASE PerformBootFlags
  <2>1. HostTypes'
    <3>1. CASE Completed(kSuccess, prefs)
      BY <1>0, <1>k, <3>1, CompletedTypes
    <3>2. CASE call' = "none" /\ UNCHANGED <<procVars, status, prefs, network, cleanupCode>>
      BY <1>0, <1>c, <3>2 DEF HostTypes, ProcTypeOK, procVars
    <3> QED
      BY <1>3, <3>1, <3>2 DEF PerformBootFlags
  <2>2. tasks' \in Seq(Tasks)
    <3>1. [task |-> "BootFlagsDone", owner |-> current] \in Tasks
      BY <1>0 DEF Tasks, HostTypes, ProcTypeOK
    <3> QED
      BY <1>0, <1>3, <3>1 DEF PerformBootFlags, DaemonTypes
  <2>3. bootFlags' \in Flags
    BY <1>0, <1>3, Zenon DEF PerformBootFlags, DaemonTypes, Flags
  <2>4. DaemonTypes' /\ BoundTypes' /\ DeviceTypes'
    BY <1>0, <1>3, <2>2, <2>3, TypesFrame DEF PerformBootFlags, DaemonTypes
  <2> QED
    BY <2>1, <2>4, TypesTogetherNext
<1>4. CASE PerformCleanup
  <2>1. HostTypes'
    <3>1. CASE Completed(kSuccess, prefs)
      BY <1>0, <1>k, <3>1, CompletedTypes
    <3>2. CASE call' = "none" /\ UNCHANGED <<procVars, status, prefs, network, cleanupCode>>
      BY <1>0, <1>c, <3>2 DEF HostTypes, ProcTypeOK, procVars
    <3> QED
      BY <1>4, <3>1, <3>2 DEF PerformCleanup
  <2>2. DaemonTypes' /\ BoundTypes' /\ DeviceTypes'
    BY <1>0, <1>4, TypesFrame DEF PerformCleanup
  <2> QED
    BY <2>1, <2>2, TypesTogetherNext
<1>5. CASE PerformInstallPlan
  <2>1. HostTypes'
    BY <1>0, <1>5, <1>k, CompletedTypes DEF PerformInstallPlan
  <2>2. DaemonTypes' /\ BoundTypes' /\ DeviceTypes'
    BY <1>0, <1>5, TypesFrame DEF PerformInstallPlan
  <2> QED
    BY <2>1, <2>2, TypesTogetherNext
<1>6. CASE PerformDownload
  <2>1. HostTypes'
    BY <1>0, <1>6, <1>c DEF PerformDownload, HostTypes, ProcTypeOK, procVars
  <2>2. boot' \in Boots
    BY <1>0, <1>6 DEF PerformDownload, Boots
  <2>3. DaemonTypes' /\ DeviceTypes'
    BY <1>0, <1>6, <2>2, Zenon DEF PerformDownload, DaemonTypes, DeviceTypes
  <2>4. BoundTypes'
    BY <1>0, <1>6, TypesFrame DEF PerformDownload
  <2> QED
    BY <2>1, <2>3, <2>4, TypesTogetherNext
<1>7. CASE PerformAsync
  <2>1. HostTypes'
    BY <1>0, <1>7, <1>c DEF PerformAsync, HostTypes, ProcTypeOK, procVars, daemonVars, deviceVars
  <2>2. DaemonTypes' /\ BoundTypes' /\ DeviceTypes'
    BY <1>0, <1>7, TypesFrame DEF PerformAsync, daemonVars, deviceVars
  <2> QED
    BY <2>1, <2>2, TypesTogetherNext
<1> QED
  BY <1>1, <1>2, <1>3, <1>4, <1>5, <1>6, <1>7 DEF Perform

(* The events of the actions.                                              *)
LEMMA WorkTypes ==
    ASSUME TypeOK, Work
    PROVE  TypeOK'
<1>0. HostTypes /\ DaemonTypes /\ BoundTypes /\ DeviceTypes /\ boot \in Boots /\ prefs \in Prefs
  BY TypesTogether DEF DeviceTypes, HostTypes
<1>k. /\ kSuccess \in ErrorCodes /\ "kError" \in ErrorCodes /\ "kUpdatedButNotActive" \in ErrorCodes
      /\ "kFilesystemVerifierError" \in ErrorCodes
      /\ "kDownloadStateInitializationError" \in ErrorCodes
  BY CodeTypes
<1>p. ResetUpdateProgress(prefs, FALSE) \in Prefs /\ prefs.hash \in Payloads \cup {NoPayload}
  BY <1>0, ResetTypes, Zenon DEF Prefs
<1>i. GetTargetSlot \in Slots /\ image[GetTargetSlot] \in Images /\ image \in [Slots -> Images]
  BY <1>0, TargetTypes DEF DeviceTypes
<1>1. CASE CleanupDone
  <2>1. HostTypes'
    BY <1>0, <1>1, <1>k, <1>p, CompletedTypes, Zenon DEF CleanupDone
  <2>2. snap' \in Snaps /\ image' \in [Slots -> Images]
    BY <1>0, <1>1, TargetTypes, Zenon DEF CleanupDone, DeviceTypes
  <2>3. DaemonTypes' /\ BoundTypes' /\ DeviceTypes'
    BY <1>0, <1>1, <2>2, TypesFrame DEF CleanupDone, DeviceTypes
  <2> QED
    BY <2>1, <2>3, TypesTogetherNext
<1>2. CASE InitiateMerge
  <2>1. snap.source \in Slots /\ snap' \in Snaps
    BY <1>0, <1>2 DEF InitiateMerge, DeviceTypes, Snaps
  <2>2. image' \in [Slots -> Images]
    BY <1>0, <1>2, <2>1, TargetTypes DEF InitiateMerge, DeviceTypes
  <2>3. HostTypes' /\ DaemonTypes' /\ BoundTypes'
    BY <1>0, <1>2, TypesFrame DEF InitiateMerge, daemonVars
  <2>4. DeviceTypes'
    BY <1>0, <1>2, <2>1, <2>2 DEF InitiateMerge, DeviceTypes
  <2> QED
    BY <2>3, <2>4, TypesTogetherNext
<1>3. CASE DownloadPrepare
  <2>1. prefs' \in Prefs /\ snap' \in Snaps /\ image' \in [Slots -> Images]
    BY <1>3, <1>p, PrepareTypes DEF DownloadPrepare
  <2>2. HostTypes'
    BY <1>0, <1>3, <2>1 DEF DownloadPrepare, HostTypes, ProcTypeOK, procVars, Statuses
  <2>3. DaemonTypes' /\ BoundTypes' /\ DeviceTypes'
    BY <1>0, <1>3, <2>1, TypesFrame DEF DownloadPrepare, DaemonTypes, DeviceTypes
  <2> QED
    BY <2>2, <2>3, TypesTogetherNext
<1>4. CASE DownloadWrite
  <2>1. image' \in [Slots -> Images]
    BY <1>0, <1>4, <1>i, TargetTypes, WrittenTypes, Zenon DEF DownloadWrite
  <2>2. prefs' \in Prefs
    BY <1>0, <1>4 DEF DownloadWrite, Prefs
  <2>3. HostTypes'
    BY <1>0, <1>4, <2>2 DEF DownloadWrite, HostTypes, ProcTypeOK, procVars, Statuses
  <2>4. DaemonTypes' /\ BoundTypes' /\ DeviceTypes'
    BY <1>0, <1>4, <2>1, TypesFrame DEF DownloadWrite, DeviceTypes
  <2> QED
    BY <2>3, <2>4, TypesTogetherNext
<1>5. CASE DownloadComplete
  <2>1. image' \in [Slots -> Images]
    BY <1>0, <1>5, <1>i, TargetTypes, WrittenTypes DEF DownloadComplete
  <2>2. [prefs EXCEPT !.progress = "complete"] \in Prefs
    BY <1>0 DEF Prefs
  <2>3. HostTypes'
    BY <1>0, <1>5, <1>k, <2>2, CompletedTypes DEF DownloadComplete
  <2>4. DaemonTypes' /\ BoundTypes' /\ DeviceTypes'
    BY <1>0, <1>5, <2>1, TypesFrame DEF DownloadComplete, DeviceTypes
  <2> QED
    BY <2>3, <2>4, TypesTogetherNext
<1>6. CASE DownloadFails
  <2>1. HostTypes'
    BY <1>0, <1>6, <1>k, <1>p, CompletedTypes, Zenon DEF DownloadFails
  <2>2. snap' \in Snaps /\ image' \in [Slots -> Images]
    BY <1>0, <1>6, <1>p, PrepareTypes, Zenon DEF DownloadFails, DeviceTypes
  <2>3. DaemonTypes' /\ BoundTypes' /\ DeviceTypes'
    BY <1>0, <1>6, <2>2, TypesFrame DEF DownloadFails, DeviceTypes
  <2> QED
    BY <2>1, <2>3, TypesTogetherNext
<1>7. CASE VerifierDone
  <2>1. [image[GetTargetSlot] EXCEPT !.verity = @ \/ plan.writeVerity] \in Images
    BY <1>0, <1>i DEF Images, DaemonTypes, Plans
  <2>2. image' \in [Slots -> Images]
    BY <1>0, <1>7, <2>1, TargetTypes DEF VerifierDone
  <2>3. HostTypes'
    BY <1>0, <1>7, <1>k, CompletedTypes DEF VerifierDone
  <2>4. DaemonTypes' /\ BoundTypes' /\ DeviceTypes'
    BY <1>0, <1>7, <2>2, TypesFrame DEF VerifierDone, DeviceTypes
  <2> QED
    BY <2>3, <2>4, TypesTogetherNext
<1>8. CASE PostinstallDone
  <2>1. HostTypes'
    <3>1. CASE UNCHANGED procVars /\ UNCHANGED <<status, prefs, network, cleanupCode>>
               /\ call' = "SetActiveBootSlot"
      BY <1>0, <3>1 DEF HostTypes, ProcTypeOK, procVars, Calls
    <3>2. CASE Completed("kUpdatedButNotActive", prefs) \/ Completed("kError", prefs)
      BY <1>0, <1>k, <3>2, CompletedTypes
    <3> QED
      BY <1>8, <3>1, <3>2 DEF PostinstallDone
  <2>2. snap' \in Snaps
    BY <1>0, <1>8 DEF PostinstallDone, DeviceTypes, Snaps
  <2>3. DaemonTypes' /\ BoundTypes' /\ DeviceTypes'
    BY <1>0, <1>8, <2>2, TypesFrame DEF PostinstallDone, DeviceTypes
  <2> QED
    BY <2>1, <2>3, TypesTogetherNext
<1> QED
  BY <1>1, <1>2, <1>3, <1>4, <1>5, <1>6, <1>7, <1>8 DEF Work

(* The calls in several steps, and what the device does to the daemon.     *)
LEMMA DeviceStepTypes ==
    ASSUME TypeOK,
           \/ ResetStatusSnapshots \/ ResetStatusMarker \/ PostinstallSwitch
           \/ PostinstallCompletes \/ Crash \/ Reboot
    PROVE  TypeOK'
<1>0. HostTypes /\ DaemonTypes /\ BoundTypes /\ DeviceTypes /\ boot \in Boots /\ prefs \in Prefs
  BY TypesTogether DEF DeviceTypes, HostTypes
<1>k. kSuccess \in ErrorCodes /\ "kError" \in ErrorCodes
  BY CodeTypes
<1>1. CASE ResetStatusSnapshots
  <2>1. prefs' \in Prefs /\ snap' \in Snaps /\ image' \in [Slots -> Images]
    BY <1>0, <1>1, ResetUpdateTypes DEF ResetStatusSnapshots, DeviceTypes
  <2>2. HostTypes'
    BY <1>0, <1>1, <2>1 DEF ResetStatusSnapshots, HostTypes, ProcTypeOK, procVars, daemonVars, Calls
  <2>3. DaemonTypes' /\ BoundTypes' /\ DeviceTypes'
    BY <1>0, <1>1, <2>1, TypesFrame DEF ResetStatusSnapshots, daemonVars, DeviceTypes
  <2> QED
    BY <2>2, <2>3, TypesTogetherNext
<1>2. CASE ResetStatusMarker
  <2>1. prefs' \in Prefs
    BY <1>0, <1>2, BoundsAssumption DEF ResetStatusMarker, Prefs
  <2>2. HostTypes'
    BY <1>0, <1>2, <2>1 DEF ResetStatusMarker, HostTypes, ProcTypeOK, procVars, Calls, Statuses
  <2>3. DaemonTypes' /\ BoundTypes' /\ DeviceTypes'
    BY <1>0, <1>2, TypesFrame DEF ResetStatusMarker
  <2> QED
    BY <2>2, <2>3, TypesTogetherNext
<1>3. CASE PostinstallSwitch
  <2>1. HostTypes'
    <3>1. CASE UNCHANGED procVars /\ UNCHANGED <<status, prefs, network, cleanupCode>>
               /\ call' = "CompletePostinstall"
      BY <1>0, <3>1 DEF HostTypes, ProcTypeOK, procVars, Calls
    <3>2. CASE Completed("kError", prefs)
      BY <1>0, <1>k, <3>2, CompletedTypes
    <3> QED
      BY <1>3, <3>1, <3>2 DEF PostinstallSwitch
  <2>2. boot' \in Boots
    BY <1>0, <1>3, TargetTypes, ZenonT(30) DEF PostinstallSwitch, SetActiveBootSlot, Boots
  <2>3. DaemonTypes' /\ BoundTypes' /\ DeviceTypes'
    BY <1>0, <1>3, <2>2, TypesFrame DEF PostinstallSwitch, DeviceTypes
  <2> QED
    BY <2>1, <2>3, TypesTogetherNext
<1>4. CASE PostinstallCompletes
  <2>1. HostTypes'
    BY <1>0, <1>4, <1>k, CompletedTypes DEF PostinstallCompletes
  <2>2. DaemonTypes' /\ BoundTypes' /\ DeviceTypes'
    BY <1>0, <1>4, TypesFrame DEF PostinstallCompletes
  <2> QED
    BY <2>1, <2>2, TypesTogetherNext
<1>5. CASE Crash
  <2>1. HostTypes' /\ DaemonTypes'
    BY <1>0, <1>5, InitDaemonTypes DEF Crash, Boots
  <2>2. BoundTypes'
    BY <1>0, <1>5, BoundsAssumption DEF Crash, BoundTypes
  <2>3. DeviceTypes'
    BY <1>0, <1>5, TypesFrame DEF Crash
  <2> QED
    BY <2>1, <2>2, <2>3, TypesTogetherNext
<1>6. CASE Reboot
  <2>1. BootSlot \in Slots /\ GetCurrentSlot \in Slots
    BY <1>0, TargetTypes DEF BootSlot, Boots, Slots
  <2>2. boot' \in Boots /\ snap' \in Snaps
    BY <1>6, RebootStep
  <2>4. InitDaemon(boot', prefs)
    BY <1>6, RebootStep
  <2>5. HostTypes' /\ DaemonTypes'
    BY <2>2, <2>4, InitDaemonTypes DEF Boots
  <2>6. BoundTypes' /\ DeviceTypes'
    BY <1>0, <1>6, <2>2, RebootStep, TypesFrame DEF DeviceTypes
  <2> QED
    BY <2>5, <2>6, TypesTogetherNext
<1> QED
  BY <1>1, <1>2, <1>3, <1>4, <1>5, <1>6

(* Every step keeps the types, whatever clients and the HAL do.            *)
LEMMA NextTypes ==
    ASSUME TypeOK, [Next]_vars
    PROVE  TypeOK'
<1>1. CASE UNCHANGED vars
  <2>1. HostTypes /\ DaemonTypes /\ BoundTypes /\ DeviceTypes
    BY TypesTogether
  <2>2. HostTypes' /\ DaemonTypes' /\ BoundTypes' /\ DeviceTypes'
    BY <1>1, <2>1, TypesFrame DEF vars, daemonVars, deviceVars
  <2> QED
    BY <2>2, TypesTogetherNext
<1>2. CASE Internal
  BY <1>2, PerformTypes, WorkTypes, DeviceStepTypes DEF Internal
<1> QED
  BY <1>1, <1>2, ClientTypes, DeviceStepTypes DEF Next

(* The types of the first state.                                           *)
LEMMA InitTypes == Init => TypeOK
<1> SUFFICES ASSUME Init PROVE TypeOK
  OBVIOUS
<1>1. HostTypes
  <2>1. actions \in Seq(Actions)
    BY DEF Init
  <2>2. prefs \in Prefs
    BY BoundsAssumption DEF Init, Prefs, Slots
  <2> QED
    BY <2>1, <2>2, CleanupOnlyName, kSuccessAssumption, Zenon DEF Init, HostTypes, ProcTypeOK, Statuses, Calls
<1>2. DaemonTypes
  <2>1. tasks \in Seq(Tasks)
    BY DEF Init
  <2> QED
    BY <2>1, Zenon DEF Init, DaemonTypes, Flags, Plans
<1>3. BoundTypes
  BY DevicesAssumption, BoundsAssumption DEF Init, BoundTypes
<1>4. DeviceTypes
  <2>1. SnapNone \in Snaps /\ NoImage \in Images
    BY DEF NoImage, Images, SnapNone, Snaps, Slots
  <2>2. [NoImage EXCEPT !.data = "complete", !.verity = TRUE] \in Images
    BY <2>1, Zenon DEF Images
  <2>3. boot \in Boots
    BY BoundsAssumption DEF Init, Boots, Slots
  <2> QED
    BY <2>1, <2>2, <2>3 DEF Init, DeviceTypes
<1> QED
  BY <1>1, <1>2, <1>3, <1>4, TypesTogether

(* The types hold for every number of attempts, crashes and boots, and     *)
(* however undisciplined clients and the HAL are.                          *)
THEOREM AttempterTypes == Spec => []TypeOK
BY InitTypes, NextTypes, PTL DEF Spec

-----------------------------------------------------------------------------
(* When clients wait for the processing they asked for to start, the       *)
(* status agrees with the processor, ...                                   *)
LEMMA ProcessorInvariant ==
    ASSUME "Start" \notin Undisciplined
    PROVE  Spec => [](TypeOK /\ ProcInv)
<1>1. Init => TypeOK /\ ProcInv
  BY InitTypes, InitProc
<1>2. TypeOK /\ ProcInv /\ [Next]_vars => (TypeOK /\ ProcInv)'
  BY NextTypes, NextProc
<1> QED
  BY <1>1, <1>2, PTL DEF Spec

(* ... in every state in which the main thread is not inside a call that   *)
(* changes both, ...                                                       *)
THEOREM StatusAgrees ==
    ASSUME "Start" \notin Undisciplined
    PROVE  Spec => []StatusMatchesProcessor
<1>1. ProcInv => StatusMatchesProcessor
  <2> SUFFICES ASSUME ProcInv, call \in {"none", "PerformAction"}
               PROVE  Resting <=> ~IsRunning /\ ~StartPending
    BY DEF StatusMatchesProcessor
  <2>1. /\ Stage = "none" <=> current = NoAction /\ actions = << >>
        /\ current = NoAction /\ Stage # "none" => (suspended <=> Stage # "BootFlags")
        /\ Stage \in Kinds \cup {"none"}
        /\ Pending <=> current = NoAction /\ Stage = "BootFlags"
    BY StageOfQueue DEF ProcInv
  <2>2. StartPending <=> Pending
    BY PendingIsPosted DEF ProcInv
  <2>3. Stage # "none" => ~Resting
    BY <2>1 DEF ProcInv, StatusInv, Kinds, Resting
  <2>4. Stage = "none" => (Resting <=> ~suspended)
    BY DEF ProcInv, StatusInv
  <2> QED
    BY <2>1, <2>2, <2>3, <2>4 DEF IsRunning
<1> QED
  BY <1>1, ProcessorInvariant, PTL

(* ... and every posted task finds the processor, or the action, that it   *)
(* was posted for.                                                         *)
THEOREM PostedTasksAreSafe ==
    ASSUME "Start" \notin Undisciplined
    PROVE  Spec => []TasksFindTheirAction
<1>1. ProcInv => TasksFindTheirAction
  <2> SUFFICES ASSUME ProcInv, tasks # << >>
               PROVE  /\ Head(tasks).task = "StartProcessing" => ~IsRunning
                      /\ Head(tasks).task = "BootFlagsDone" /\ bootFlags.running =>
                            Head(tasks).owner = current
    BY DEF TasksFindTheirAction
  <2>1. CASE tasks = <<StartTask>> /\ Pending
    BY <2>1 DEF StartTask, Pending, IsRunning
  <2>2. ASSUME NEW a \in Actions, tasks = <<FlagsTask(a)>>, bootFlags.running => a = current
        PROVE  Head(tasks).task = "BootFlagsDone" /\ Head(tasks).owner = a
    BY <2>2 DEF FlagsTask
  <2>3. ASSUME NEW a \in Actions, tasks = <<FlagsTask(a), StartTask>>, Pending
        PROVE  Head(tasks).task = "BootFlagsDone" /\ ~bootFlags.running
    <3>1. Head(tasks).task = "BootFlagsDone"
      BY <2>3 DEF FlagsTask
    <3>2. Kind # "BootFlags"
      BY <2>3 DEF Pending, Kind
    <3> QED
      BY <3>1, <3>2 DEF ProcInv, TasksInv
  <2> QED
    BY <2>1, <2>2, <2>3 DEF ProcInv, TasksInv
<1> QED
  BY <1>1, ProcessorInvariant, PTL

-----------------------------------------------------------------------------
(* A step that keeps the marker, or takes it away, and does not take the   *)
(* status back from UPDATED_NEED_REBOOT.                                   *)
LEMMA MarkerFrame ==
    ASSUME MarkerInv, boot'.id = boot.id, prefs'.marker \in {prefs.marker, 0},
           \/ status' = status \/ status # "UPDATED_NEED_REBOOT"
           \/ prefs'.marker = 0 \/ "Cleanup" \in Undisciplined
    PROVE  MarkerInv'
BY DEF MarkerInv, UpdateCompletedOnThisBoot

(* No reset of the progress touches the marker.                            *)
LEMMA ResetKeepsMarker ==
    ASSUME NEW p \in Prefs, NEW skip \in BOOLEAN
    PROVE  ResetUpdateProgress(p, skip).marker = p.marker
BY DEF ResetUpdateProgress, Prefs

(* While there is something to process no update waits for its reboot.     *)
LEMMA ProcessingIsNotApplied ==
    ASSUME ProcInv, IsRunning
    PROVE  ~Resting /\ status # "IDLE" /\ status # "UPDATED_NEED_REBOOT"
<1>1. /\ Stage = "none" => current = NoAction /\ actions = << >>
      /\ Stage \in Kinds \cup {"none"}
  BY StageOfQueue DEF ProcInv
<1>2. Stage # "none" => ~Resting
  BY <1>1 DEF ProcInv, StatusInv, Kinds, Resting
<1>3. Stage = "none" => ~Resting
  BY <1>1 DEF ProcInv, StatusInv, IsRunning
<1> QED
  BY <1>2, <1>3 DEF Resting

(* ProcessingDone writes the marker exactly when it reports the success.   *)
LEMMA DoneMarker ==
    ASSUME MarkerInv, status # "UPDATED_NEED_REBOOT", boot'.id = boot.id,
           NEW p \in Prefs, p.marker = prefs.marker,
           NEW st, NEW code, st # "IDLE", ProcessingDone(st, code, p)
    PROVE  MarkerInv'
<1>1. CASE st # "CLEANUP_PREVIOUS_UPDATE" /\ code = kSuccess
  <2>1. status' = "UPDATED_NEED_REBOOT"
    BY <1>1 DEF ProcessingDone, TerminateUpdateAndNotify
  <2>2. prefs'.marker = boot.id
    <3>1. prefs' = [p EXCEPT !.marker = boot.id]
      BY <1>1, CodesAssumption DEF ProcessingDone, PrefsDone, ResetCodes
    <3> QED
      BY <3>1 DEF Prefs
  <2> QED
    BY <2>1, <2>2 DEF MarkerInv
<1>2. CASE ~(st # "CLEANUP_PREVIOUS_UPDATE" /\ code = kSuccess)
  <2>1. prefs'.marker = p.marker
    BY <1>2, ResetKeepsMarker, Zenon DEF ProcessingDone, PrefsDone
  <2> QED
    BY <2>1, MarkerFrame
<1> QED
  BY <1>1, <1>2

(* The end of an action.                                                   *)
LEMMA CompletedMarker ==
    ASSUME ProcInv, MarkerInv, boot'.id = boot.id, NEW p \in Prefs, p.marker = prefs.marker,
           NEW code, Completed(code, p)
    PROVE  MarkerInv'
<1> DEFINE st == StatusAfter(Kind, code)
           pr == PrefsAfter(Kind, code, p)
<1>1. status # "IDLE" /\ status # "UPDATED_NEED_REBOOT"
  BY ProcessingIsNotApplied DEF Completed, ActionComplete, IsRunning
<1>2. st # "IDLE" /\ st # "UPDATED_NEED_REBOOT"
  BY <1>1 DEF StatusAfter
<1>3. pr \in Prefs /\ pr.marker = prefs.marker
  BY Zenon DEF PrefsAfter, Prefs
<1>4. \/ ProcessingDone(st, code, pr)
      \/ status' = st /\ prefs' = pr
  BY DEF Completed
<1> HIDE DEF st, pr
<1> QED
  BY <1>1, <1>2, <1>3, <1>4, DoneMarker, MarkerFrame

(* A process that starts with the marker of this boot goes back to         *)
(* waiting; without it there is none to forget.                            *)
LEMMA InitDaemonMarker ==
    ASSUME MarkerInv, prefs \in Prefs, NEW b, b = boot', b.id \in {boot.id, boot.id + 1},
           InitDaemon(b, prefs)
    PROVE  MarkerInv'
<1>1. PrefsOnReboot(b, prefs).marker = prefs.marker
  <2>1. ResetUpdateProgress(prefs, FALSE) \in Prefs /\ ResetUpdateProgress(prefs, FALSE).marker = prefs.marker
    BY ResetTypes, ResetKeepsMarker, Zenon
  <2>2. [ResetUpdateProgress(prefs, FALSE) EXCEPT !.prevSlot = b.slot].marker = prefs.marker
    BY <2>1, Zenon DEF Prefs
  <2> QED
    BY <2>2, Zenon DEF PrefsOnReboot
<1>2. prefs'.marker = prefs.marker
  BY <1>1 DEF InitDaemon
<1>3. UpdateCompletedOnThisBoot(b, prefs) => status' = "UPDATED_NEED_REBOOT"
  BY DEF InitDaemon
<1> QED
  BY <1>2, <1>3 DEF MarkerInv, UpdateCompletedOnThisBoot

(* The marker through every step.                                          *)
LEMMA NextMarker ==
    ASSUME TypeOK, ProcInv, MarkerInv, [Next]_vars
    PROVE  MarkerInv'
<1>0. prefs \in Prefs /\ ResetUpdateProgress(prefs, FALSE) \in Prefs
      /\ ResetUpdateProgress(prefs, TRUE) \in Prefs
      /\ ResetUpdateProgress(prefs, FALSE).marker = prefs.marker
      /\ ResetUpdateProgress(prefs, TRUE).marker = prefs.marker
  BY TypesTogether, ResetTypes, ResetKeepsMarker, Zenon DEF HostTypes
<1>b. boot \in Boots
  BY TypesTogether DEF DeviceTypes
<1>1. CASE UNCHANGED <<status, prefs, boot>>
  BY <1>1, MarkerFrame
<1>2. ASSUME NEW p \in Payloads, NEW switch, NEW isResume, SetupInstallPlan(p, switch, isResume),
             UNCHANGED boot
      PROVE  MarkerInv'
  <2>1. [ResetUpdateProgress(prefs, TRUE) EXCEPT !.hash = p].marker = prefs.marker
    BY <1>0, Zenon DEF Prefs
  <2> QED
    BY <1>2, <2>1, MarkerFrame, Zenon DEF SetupInstallPlan
<1>3. CASE CancelUpdate
  <2>1. status # "UPDATED_NEED_REBOOT"
    BY <1>3, ProcessingIsNotApplied DEF CancelUpdate, StopProcessing
  <2> QED
    BY <1>3, <2>1, MarkerFrame DEF CancelUpdate, deviceVars
<1>4. CASE ResetStatusIdle
  BY <1>0, <1>4, MarkerFrame, Zenon DEF ResetStatusIdle, ResetUpdate, daemonVars
<1>5. CASE ResetStatusApplied
  <2>1. boot'.id = boot.id
    BY <1>b, <1>5, Zenon DEF ResetStatusApplied, SetActiveBootSlot, Boots
  <2> QED
    BY <1>5, <2>1, MarkerFrame DEF ResetStatusApplied, daemonVars
<1>6. CASE CleanupSuccessfulUpdate
  BY <1>6, MarkerFrame DEF CleanupSuccessfulUpdate, deviceVars
<1>7. ASSUME NEW hash, PreparePartitionsForUpdate(hash) \/ prefs' = ResetUpdateProgress(prefs, FALSE),
             UNCHANGED boot, status' = status \/ status # "UPDATED_NEED_REBOOT"
      PROVE  MarkerInv'
  <2>1. [ResetUpdateProgress(prefs, FALSE) EXCEPT !.prepared = hash].marker = prefs.marker
    BY <1>0, Zenon DEF Prefs
  <2> QED
    BY <1>0, <1>7, <2>1, MarkerFrame, Zenon DEF PreparePartitionsForUpdate
<1>8. CASE ResumeUpdate
  <2>1. status # "IDLE" /\ status # "UPDATED_NEED_REBOOT"
    BY <1>8, ProcessingIsNotApplied DEF ResumeUpdate, ResumeProcessing, IsRunning
  <2> QED
    BY <1>0, <1>8, <2>1, DoneMarker, MarkerFrame DEF ResumeUpdate
<1>9. ASSUME NEW code, NEW p \in Prefs, p.marker = prefs.marker, Completed(code, p), boot'.id = boot.id
      PROVE  MarkerInv'
  BY <1>9, CompletedMarker
<1>10. CASE PerformDownload
  <2>1. boot'.id = boot.id
    BY <1>b, <1>10 DEF PerformDownload, Boots
  <2> QED
    BY <1>10, <2>1, MarkerFrame DEF PerformDownload
<1>11. CASE DownloadPrepare
  <2>1. status # "UPDATED_NEED_REBOOT"
    BY <1>11, ProcessingIsNotApplied, StageOfQueue DEF DownloadPrepare, Works, IsRunning, Kind
  <2> QED
    BY <1>7, <1>11, <2>1, Zenon DEF DownloadPrepare
<1>12. CASE DownloadWrite
  <2>1. status # "UPDATED_NEED_REBOOT"
    BY <1>12, ProcessingIsNotApplied, StageOfQueue DEF DownloadWrite, Works, IsRunning, Kind
  <2>2. prefs'.marker = prefs.marker
    BY <1>0, <1>12 DEF DownloadWrite, Prefs
  <2> QED
    BY <1>12, <2>1, <2>2, MarkerFrame DEF DownloadWrite
<1>13. CASE DownloadComplete
  <2>1. [prefs EXCEPT !.progress = "complete"] \in Prefs
        /\ [prefs EXCEPT !.progress = "complete"].marker = prefs.marker
    BY <1>0 DEF Prefs
  <2> QED
    BY <1>9, <1>13, <2>1, Zenon DEF DownloadComplete
<1>14. CASE ResetStatusSnapshots
  BY <1>0, <1>14, MarkerFrame, Zenon DEF ResetStatusSnapshots, ResetUpdate, daemonVars
<1>15. CASE ResetStatusMarker
  <2>1. CASE prefs' = [prefs EXCEPT !.marker = 0]
    <3>1. prefs'.marker = 0
      BY <1>0, <2>1 DEF Prefs
    <3> QED
      BY <1>15, <3>1, MarkerFrame DEF ResetStatusMarker
  <2>2. CASE UNCHANGED <<prefs, status>>
    BY <1>15, <2>2, MarkerFrame DEF ResetStatusMarker
  <2> QED
    BY <1>15, <2>1, <2>2 DEF ResetStatusMarker
<1>16. CASE PostinstallSwitch
  <2>1. boot'.id = boot.id
    BY <1>b, <1>16, Zenon DEF PostinstallSwitch, SetActiveBootSlot, Boots
  <2> QED
    BY <1>0, <1>9, <1>16, <2>1, MarkerFrame DEF PostinstallSwitch
<1>17. CASE Crash
  <2>1. boot' = boot /\ InitDaemon(boot, prefs)
    BY <1>17 DEF Crash
  <2> QED
    BY <1>0, <2>1, InitDaemonMarker
<1>18. CASE Reboot
  BY <1>0, <1>18, RebootStep, InitDaemonMarker
<1>19. CASE Client
  BY <1>0, <1>1, <1>2, <1>3, <1>4, <1>5, <1>6, <1>7, <1>19, Zenon
  DEF Client, ApplyPayload, ApplyPayloadFails, SuspendUpdate, AllocateSpaceForPayload, daemonVars, deviceVars
<1>20. CASE Perform
  BY <1>0, <1>1, <1>9, <1>10, <1>20
  DEF Perform, PerformBootFlags, PerformCleanup, PerformInstallPlan, PerformAsync, daemonVars, deviceVars
<1>21. CASE Work
  BY <1>0, <1>1, <1>9, <1>11, <1>12, <1>13, <1>21, Zenon
  DEF Work, CleanupDone, InitiateMerge, DownloadFails, VerifierDone, PostinstallDone, daemonVars
<1>22. CASE Internal
  BY <1>0, <1>1, <1>9, <1>14, <1>15, <1>16, <1>20, <1>21, <1>22
  DEF Internal, RunStartProcessing, RunBootFlagsDone, PostinstallCompletes, deviceVars
<1>23. CASE UNCHANGED vars
  BY <1>1, <1>23 DEF vars, daemonVars, deviceVars
<1> QED
  BY <1>8, <1>17, <1>18, <1>19, <1>22, <1>23 DEF Next

(* The status, the processor and the marker together.                      *)
LEMMA MarkerInvariant ==
    ASSUME "Start" \notin Undisciplined
    PROVE  Spec => [](TypeOK /\ ProcInv /\ MarkerInv)
<1>1. Init => MarkerInv
  BY DEF Init, MarkerInv, UpdateCompletedOnThisBoot
<1>2. Init => TypeOK /\ ProcInv /\ MarkerInv
  BY <1>1, InitTypes, InitProc
<1>3. TypeOK /\ ProcInv /\ MarkerInv /\ [Next]_vars => (TypeOK /\ ProcInv /\ MarkerInv)'
  BY NextTypes, NextProc, NextMarker
<1> QED
  BY <1>2, <1>3, PTL DEF Spec

(* With the marker of this boot in place the status is UPDATED_NEED_REBOOT *)
(* through any number of crashes, when clients keep to these two rules.    *)
THEOREM RebootStaysNeeded ==
    ASSUME "Start" \notin Undisciplined, "Cleanup" \notin Undisciplined
    PROVE  Spec => []RebootNeededIsKept
<1>1. MarkerInv => RebootNeededIsKept
  BY DEF MarkerInv, RebootNeededIsKept
<1> QED
  BY <1>1, MarkerInvariant, PTL

-----------------------------------------------------------------------------
(* The two slots, and which one the bootloader takes.                      *)
LEMMA SlotFacts ==
    ASSUME boot \in Boots
    PROVE  /\ GetCurrentSlot \in Slots /\ GetTargetSlot \in Slots /\ GetTargetSlot # GetCurrentSlot
           /\ BootSlot \in {GetCurrentSlot, GetTargetSlot}
           /\ GetCurrentSlot \in boot.bootable /\ boot.active = GetCurrentSlot => Safe
           /\ GetCurrentSlot \in boot.bootable /\ ~Safe =>
                 boot.active = GetTargetSlot /\ GetTargetSlot \in boot.bootable
BY DEF Boots, Slots, GetCurrentSlot, GetTargetSlot, BootSlot, Safe

(* What does not touch the boot control does not change the slots.         *)
LEMMA SameBoot ==
    ASSUME UNCHANGED boot
    PROVE  /\ Safe' = Safe /\ GetCurrentSlot' = GetCurrentSlot /\ GetTargetSlot' = GetTargetSlot
           /\ BootSlot' = BootSlot
BY DEF Safe, BootSlot, GetCurrentSlot, GetTargetSlot

(* Writing the target harms nothing as long as the bootloader would take   *)
(* the slot that runs.                                                     *)
LEMMA TargetWritten ==
    ASSUME TypeOK, SlotsInv, Safe, UNCHANGED boot,
           image' = image \/ \E i \in Images : image' = [image EXCEPT ![GetTargetSlot] = i]
    PROVE  SlotsInv'
<1>1. boot \in Boots /\ image \in [Slots -> Images]
  BY TypesTogether DEF DeviceTypes
<1>2. image'[GetCurrentSlot] = image[GetCurrentSlot]
  BY <1>1, SlotFacts
<1> QED
  BY <1>2, SameBoot DEF SlotsInv

(* The target laid out anew, ...                                           *)
LEMMA LayOutKeeps ==
    ASSUME TypeOK, SlotsInv, SnapshotsInv, Safe, UNCHANGED <<boot, vab>>, LayOutTarget
    PROVE  SlotsInv' /\ SnapshotsInv' /\ CleanedUp'
<1>1. SlotsInv'
  BY TypesTogether, TargetTypes, TargetWritten, Zenon DEF LayOutTarget
<1>2. vab => snap' = [state |-> "Initiated", source |-> GetCurrentSlot, rolledBack |-> FALSE]
  BY Zenon DEF LayOutTarget, SnapNone
<1>3. ~vab => snap' = snap /\ snap.state = "None"
  BY DEF LayOutTarget, SnapshotsInv
<1>4. SnapshotsInv' /\ CleanedUp'
  BY <1>2, <1>3, SameBoot DEF SnapshotsInv, CleanedUp
<1> QED
  BY <1>1, <1>4

(* ... or emptied.                                                         *)
LEMMA DropKeeps ==
    ASSUME TypeOK, SlotsInv, SnapshotsInv, Safe, UNCHANGED <<boot, vab>>, DropSnapshots
    PROVE  SlotsInv' /\ SnapshotsInv' /\ CleanedUp'
<1>1. SlotsInv'
  BY TypesTogether, TargetTypes, TargetWritten DEF DropSnapshots
<1>2. snap' = [state |-> "None", source |-> 0, rolledBack |-> FALSE]
  BY DEF DropSnapshots, SnapNone
<1>3. SnapshotsInv' /\ CleanedUp'
  BY <1>2, SameBoot DEF SnapshotsInv, CleanedUp
<1> QED
  BY <1>1, <1>3

(* The device when neither slots nor snapshots are touched.                *)
LEMMA DeviceFrame ==
    ASSUME UNCHANGED <<snap, boot, image, vab>>
    PROVE  SlotsInv' = SlotsInv /\ SnapshotsInv' = SnapshotsInv /\ CleanedUp' = CleanedUp
BY SameBoot DEF SlotsInv, SnapshotsInv, CleanedUp

(* ResetUpdate drops snapshots on Virtual A/B devices only.                *)
LEMMA ResetUpdateKeeps ==
    ASSUME TypeOK, SlotsInv, SnapshotsInv, vab => Safe, UNCHANGED <<boot, vab>>, ResetUpdate(prefs)
    PROVE  SlotsInv' /\ SnapshotsInv'
BY DropKeeps, DeviceFrame, Zenon DEF ResetUpdate

(* Before the install plan the pipeline asks nothing of the device.        *)
LEMMA PipelineIdle ==
    ASSUME Stage' \in {"none", "BootFlags", "Cleanup"}, Kind' # "Download",
           call' \in {"none", "PerformAction", "DeleteMarker", "DeleteMarkerFailed"},
           Stage' = "none" => ~suspended'
    PROVE  PipelineInv'
BY SMTT(30) DEF PipelineInv

(* The end of an action, with what it must leave behind when it succeeds.  *)
LEMMA CompletedPipeline ==
    ASSUME ProcInv, PipelineInv, UNCHANGED <<boot, plan>>, NEW code, NEW p, Completed(code, p),
           code = kSuccess /\ Kind # "BootFlags" => CleanedUp',
           code = kSuccess /\ Kind \in {"Download", "Verifier"} => Safe,
           code = kSuccess /\ Kind = "Verifier" =>
              Intact(image'[GetTargetSlot]) /\ image'[GetTargetSlot].of = plan.payload,
           code = kSuccess /\ Kind = "Postinstall" => call = "CompletePostinstall" /\ image' = image
    PROVE  PipelineInv'
<1>1. /\ current # NoAction /\ Stage = Kind /\ Kind \in Kinds
      /\ suspended' = suspended
      /\ suspended => current' = NoAction /\ suspendedErrorCode' = code
      /\ ~suspended => (current' = NoAction <=> Stage' = "none")
      /\ Stage' = NextStage(code)
  BY CompletedMovesOn, Zenon DEF Completed, ProcInv
<1>2. call' \in {"none", "PerformAction"} /\ (call' = "PerformAction" <=> current' # NoAction)
  BY SMTT(30) DEF Completed, CallPerform
<1>3. Kind' = "Download" => call' = "PerformAction"
  BY <1>2 DEF Kind
<1>4. Stage' \in {"InstallPlan", "Download", "Verifier", "Postinstall"} => CleanedUp'
  BY <1>1 DEF NextStage, After, Kinds
<1>5. Stage' = "Verifier" => Safe'
  BY <1>1, SameBoot DEF NextStage, After, Kinds
<1>6. Stage' = "Postinstall" =>
        Safe' /\ Intact(image[GetTargetSlot])' /\ (image[GetTargetSlot].of = plan.payload)'
  <2>1. Stage' = "Postinstall" => code = kSuccess /\ Kind = "Verifier"
    BY <1>1 DEF NextStage, After, Kinds
  <2>2. boot' = boot /\ plan' = plan
    BY Zenon
  <2>3. Safe' = Safe /\ GetTargetSlot' = GetTargetSlot
    BY <2>2, SameBoot, Zenon
  <2> QED
    BY <2>1, <2>2, <2>3, Zenon DEF Intact
<1>7. suspended' /\ Stage' = "none" /\ suspendedErrorCode' = kSuccess
      /\ status' # "CLEANUP_PREVIOUS_UPDATE" =>
          (~Safe)' /\ (image[GetTargetSlot].of = plan.payload)'
  <2> SUFFICES ASSUME suspended', Stage' = "none", suspendedErrorCode' = kSuccess,
                      status' # "CLEANUP_PREVIOUS_UPDATE"
               PROVE  (~Safe)' /\ (image[GetTargetSlot].of = plan.payload)'
    BY Zenon
  <2>1. code = kSuccess /\ suspended
    BY <1>1, Zenon
  <2>2. status' = StatusAfter(Kind, code)
    BY <2>1, Zenon DEF Completed
  <2>3. Kind # "Cleanup"
    <3>1. Kind = "Cleanup" => status' = "CLEANUP_PREVIOUS_UPDATE"
      BY <1>1, <2>1, <2>2 DEF StatusAfter, ProcInv, StatusInv
    <3> QED
      BY <3>1
  <2>4. current # CleanupOnly
    BY <1>1, <2>3, CleanupOnlyName DEF Kind
  <2>5. After(Kind) = "none"
    BY <1>1, <2>1, <2>4 DEF NextStage
  <2>6. Kind = "Postinstall"
    BY <1>1, <2>5 DEF After, Kinds
  <2>7. call = "CompletePostinstall" /\ image' = image
    BY <2>1, <2>6
  <2>8. ~Safe /\ image[GetTargetSlot].of = plan.payload
    BY <1>1, <2>6, <2>7, Zenon DEF PipelineInv
  <2>9. boot' = boot /\ plan' = plan
    BY Zenon
  <2>10. Safe' = Safe /\ GetTargetSlot' = GetTargetSlot
    BY <2>9, SameBoot, Zenon
  <2> QED
    BY <2>7, <2>8, <2>9, <2>10, Zenon
<1> QED
  BY <1>2, <1>3, <1>4, <1>5, <1>6, <1>7 DEF PipelineInv

(* Nothing is processed while the status rests and no start is posted.     *)
LEMMA RestingIsIdle ==
    ASSUME ProcInv, Resting
    PROVE  Stage = "none" /\ Kind = "none" /\ ~suspended /\ current = NoAction /\ actions = << >>
<1>1. ~IsRunning
  BY ProcessingIsNotApplied
<1>2. /\ Stage = "none" <=> current = NoAction /\ actions = << >>
      /\ current = NoAction => Kind = "none"
      /\ Stage \in Kinds \cup {"none"}
  BY StageOfQueue DEF ProcInv
<1>3. Stage = "none"
  BY <1>2 DEF ProcInv, StatusInv, Kinds, Resting
<1> QED
  BY <1>1, <1>2, <1>3 DEF IsRunning

(* Stage and Kind are those of the processor's fields.                     *)
LEMMA SameProcessor ==
    ASSUME UNCHANGED procVars
    PROVE  Stage' = Stage /\ Kind' = Kind /\ suspended' = suspended
           /\ suspendedErrorCode' = suspendedErrorCode
BY DEF procVars, Stage, Kind

(* The calls of clients, when they do no harm.                             *)
LEMMA ClientDevice ==
    ASSUME TypeOK, ProcInv, DeviceInv, Undisciplined \subseteq {"Cleanup"}, Client
    PROVE  DeviceInv'
<1> USE DEF DeviceInv
<1>0. boot \in Boots
  BY TypesTogether DEF DeviceTypes
<1>u. /\ "Start" \notin Undisciplined /\ "IdleReset" \notin Undisciplined
      /\ "Allocate" \notin Undisciplined /\ "SetActiveFails" \notin Undisciplined
  OBVIOUS
<1>1. ASSUME NEW p, NEW net, NEW switch, NEW isResume, ApplyPayload(p, net, switch, isResume)
      PROVE  DeviceInv'
  <2>1. /\ current = NoAction /\ ~suspended /\ actions = << >> /\ call = "none"
    BY <1>u, <1>1, ReadyIsIdle DEF ApplyPayload, SetupInstallPlan
  <2>2. actions' = Queue("BootFlags", attempts')
    <3>1. actions' = actions \o Queue("BootFlags", attempts')
      BY <1>1 DEF ApplyPayload, EnqueueActions, Queue
    <3>2. \A q \in Seq(Actions) : << >> \o q = q
      OBVIOUS
    <3>3. Queue("BootFlags", attempts') \in Seq(Actions)
      <4>1. attempts' \in 0..MaxAttempts
        BY <1>1, TypesTogether, BoundsAssumption DEF ApplyPayload, BoundTypes
      <4>2. \A k \in Kinds : <<k, attempts'>> \in Actions
        BY <4>1, Names
      <4> QED
        BY <4>2 DEF Queue, Kinds
    <3> QED
      BY <2>1, <3>1, <3>2, <3>3
  <2>3. actions' # << >> /\ Head(actions') = <<"BootFlags", attempts'>>
    BY <2>2, QueueFront DEF Kinds
  <2>4. current' = NoAction /\ call' = "none"
    BY <1>1, <2>1 DEF ApplyPayload, EnqueueActions
  <2>5. Stage' = "BootFlags" /\ Kind' = "none"
    BY <2>3, <2>4 DEF Stage, Kind
  <2>6. PipelineInv'
    BY <2>4, <2>5, PipelineIdle
  <2> QED
    BY <1>1, <2>6, DeviceFrame DEF ApplyPayload
<1>2. ASSUME NEW p, NEW switch, NEW isResume, ApplyPayloadFails(p, switch, isResume)
      PROVE  DeviceInv'
  <2>1. Stage = "none" /\ Kind = "none" /\ ~suspended /\ call = "none"
    BY <1>u, <1>2, ReadyIsIdle DEF ApplyPayloadFails, SetupInstallPlan
  <2>2. PipelineInv'
    BY <1>2, <2>1, SameProcessor, PipelineIdle DEF ApplyPayloadFails
  <2> QED
    BY <1>2, <2>2, DeviceFrame DEF ApplyPayloadFails, boundVars
<1>3. CASE SuspendUpdate
  <2>1. /\ current # NoAction /\ UNCHANGED <<actions, current, call, plan, snap, boot, image, vab>>
    BY <1>3 DEF SuspendUpdate, SuspendProcessing, daemonVars, deviceVars, boundVars
  <2>2. Stage' = Stage /\ Kind' = Kind /\ Stage # "none"
    BY <2>1, StageOfQueue, SMTT(30) DEF Stage, Kind, ProcInv
  <2>3. PipelineInv'
    BY <2>1, <2>2, SameBoot DEF PipelineInv, CleanedUp
  <2> QED
    BY <2>1, <2>3, DeviceFrame
<1>4. CASE CancelUpdate
  <2>1. Stage' = "none" /\ ~suspended' /\ current' = NoAction /\ call' = "none"
    BY <1>4, CancelProc, Zenon DEF CancelUpdate, StopProcessing
  <2>2. PipelineInv'
    BY <2>1, PipelineIdle DEF Kind
  <2> QED
    BY <1>4, <2>2, DeviceFrame DEF CancelUpdate, deviceVars, boundVars
<1>5. CASE ResetStatusIdle
  <2>1. /\ Stage = "none" /\ Kind = "none" /\ ~suspended /\ call = "none"
        /\ boot.active = GetCurrentSlot /\ UNCHANGED <<procVars, boot, vab, call>>
    BY <1>5, <1>u, RestingIsIdle DEF ResetStatusIdle, Resting, ClientReady, boundVars
  <2>2. PipelineInv'
    BY <2>1, SameProcessor, PipelineIdle
  <2>3. Safe
    BY <1>0, <2>1, SlotFacts DEF SlotsInv
  <2> QED
    BY <1>5, <2>1, <2>2, <2>3, ResetUpdateKeeps DEF ResetStatusIdle
<1>6. CASE ResetStatusApplied
  <2>1. /\ Stage = "none" /\ Kind = "none" /\ ~suspended
        /\ UNCHANGED <<procVars, snap, image, vab>>
    BY <1>6, RestingIsIdle DEF ResetStatusApplied, Resting, boundVars
  <2>2. Stage' = "none" /\ Kind' = "none" /\ ~suspended'
    BY <2>1, SameProcessor
  <2>3. CASE SetActiveBootSlot(GetCurrentSlot) /\ call' \in {"ResetUpdate", "ResetUpdateFailed"}
    <3>1. /\ boot'.active = boot.slot /\ boot'.slot = boot.slot
          /\ boot'.bootable = boot.bootable \cup {boot.slot}
      BY <1>0, <2>3 DEF SetActiveBootSlot, GetCurrentSlot, Boots
    <3>2. GetCurrentSlot' = GetCurrentSlot /\ Safe' /\ GetCurrentSlot' \in boot'.bootable
          /\ boot'.active = GetCurrentSlot'
      BY <3>1 DEF Safe, BootSlot, GetCurrentSlot
    <3>3. SlotsInv' /\ SnapshotsInv'
      BY <2>1, <3>2 DEF SlotsInv, SnapshotsInv
    <3>4. PipelineInv'
      BY <2>2, <2>3, <3>2 DEF PipelineInv
    <3> QED
      BY <3>3, <3>4
  <2>4. CASE ~vab /\ UNCHANGED boot /\ call' = "ResetUpdateFailed"
    <3>1. PipelineInv'
      BY <2>1, <2>2, <2>4 DEF PipelineInv
    <3> QED
      BY <2>1, <2>4, <3>1, DeviceFrame, SMTT(30)
  <2> QED
    BY <1>u, <1>6, <2>3, <2>4 DEF ResetStatusApplied
<1>7. CASE CleanupSuccessfulUpdate
  <2>1. actions = << >> /\ ~suspended
    BY <1>7, <1>u, ReadyIsIdle DEF CleanupSuccessfulUpdate
  <2>2. current' = CleanupOnly
    BY <1>7, <2>1 DEF CleanupSuccessfulUpdate, PerformFront
  <2>3. Stage' = "Cleanup" /\ Kind' = "Cleanup"
    BY <2>2, CleanupOnlyName DEF Stage, Kind
  <2>4. PipelineInv'
    BY <1>7, <2>3, PipelineIdle DEF CleanupSuccessfulUpdate, CallPerform
  <2> QED
    BY <1>7, <2>4, DeviceFrame DEF CleanupSuccessfulUpdate, deviceVars, boundVars
<1>8. ASSUME NEW p \in Payloads, AllocateSpaceForPayload(p)
      PROVE  DeviceInv'
  <2>1. /\ Stage = "none" /\ Kind = "none" /\ ~suspended /\ call = "none"
        /\ boot.active = GetCurrentSlot /\ UNCHANGED <<procVars, boot, vab, call>>
    BY <1>8, <1>u, RestingIsIdle DEF AllocateSpaceForPayload, Resting, ClientReady, boundVars
  <2>2. PipelineInv'
    BY <2>1, SameProcessor, PipelineIdle
  <2>3. Safe
    BY <1>0, <2>1, SlotFacts DEF SlotsInv
  <2>4. LayOutTarget \/ UNCHANGED <<snap, image>>
    BY <1>8, Zenon DEF AllocateSpaceForPayload, PreparePartitionsForUpdate, PreparePartitionsFails
  <2> QED
    BY <2>1, <2>2, <2>3, <2>4, LayOutKeeps, DeviceFrame, Zenon
<1> QED
  BY <1>1, <1>2, <1>3, <1>4, <1>5, <1>6, <1>7, <1>8 DEF Client

(* An update that is resumed goes on where it was.                         *)
LEMMA ResumeDevice ==
    ASSUME ProcInv, DeviceInv, ResumeUpdate
    PROVE  DeviceInv'
<1>1. /\ Stage' = Stage /\ call' \in {"none", "PerformAction"} /\ suspended' = FALSE
      /\ current # NoAction => current' = current
  BY ResumeProc
<1>2. call = "none" /\ UNCHANGED <<plan, snap, boot, image, vab>>
  BY DEF ResumeUpdate, boundVars
<1>3. Kind' = "Download" /\ call' # "PerformAction" => Kind = "Download"
  BY <1>1 DEF ResumeUpdate, Kind
<1>4. PipelineInv'
  <2>1. CleanedUp' = CleanedUp /\ Safe' = Safe /\ image'[GetTargetSlot'] = image[GetTargetSlot]
    BY <1>2, SameBoot, DeviceFrame
  <2>2. Stage \in {"Verifier", "Postinstall"} \/ Kind = "Download" => Safe
    BY <1>2 DEF DeviceInv, PipelineInv
  <2> QED
    BY <1>1, <1>2, <1>3, <2>1, <2>2 DEF DeviceInv, PipelineInv, Intact
<1> QED
  BY <1>2, <1>4, DeviceFrame DEF DeviceInv

(* Posted tasks and the calls of PerformAction.                            *)
LEMMA PerformDevice ==
    ASSUME TypeOK, ProcInv, DeviceInv, Undisciplined \subseteq {"Cleanup"},
           Perform \/ RunStartProcessing \/ RunBootFlagsDone
    PROVE  DeviceInv'
<1> USE DEF DeviceInv
<1>0. boot \in Boots
  BY TypesTogether DEF DeviceTypes
<1>s. current # NoAction => Stage = Kind /\ Kind \in Kinds
  BY StageOfQueue DEF ProcInv
<1>1. CASE RunStartProcessing
  <2>1. Stage' = "BootFlags"
    BY <1>1, RunStartProc
  <2>2. Kind' # "Download"
    BY <2>1 DEF Stage, Kind
  <2>3. PipelineInv'
    BY <1>1, <2>1, <2>2, PipelineIdle DEF RunStartProcessing, CallPerform
  <2> QED
    BY <1>1, <2>3, DeviceFrame DEF RunStartProcessing, deviceVars, boundVars
<1>2. CASE RunBootFlagsDone
  <2>0. UNCHANGED <<plan, snap, boot, image, vab>>
    BY <1>2 DEF RunBootFlagsDone, boundVars
  <2>1. CASE bootFlags.running
    <3>1. Kind = "BootFlags"
      BY <2>1, SMTT(30) DEF ProcInv, TasksInv
    <3>2. PipelineInv'
      BY <1>2, <2>0, <2>1, <3>1, CompletedPipeline DEF RunBootFlagsDone
    <3> QED
      BY <2>0, <3>2, DeviceFrame
  <2>2. CASE ~bootFlags.running
    <3>1. UNCHANGED <<procVars, call, status>>
      BY <1>2, <2>2, SMTT(30) DEF RunBootFlagsDone
    <3>2. PipelineInv' = PipelineInv
      BY <2>0, <3>1, SameProcessor, SameBoot, DeviceFrame DEF PipelineInv
    <3> QED
      BY <2>0, <3>2, DeviceFrame
  <2> QED
    BY <2>1, <2>2
<1>3. CASE PerformBootFlags
  <2>0. UNCHANGED <<plan, snap, boot, image, vab>> /\ Kind = "BootFlags" /\ Stage = "BootFlags"
    BY <1>3, <1>s DEF PerformBootFlags, boundVars, Kind
  <2>1. CASE Completed(kSuccess, prefs)
    BY <2>0, <2>1, CompletedPipeline, DeviceFrame, Zenon
  <2>2. CASE call' = "none" /\ UNCHANGED procVars
    <3>1. PipelineInv'
      BY <2>0, <2>2, SameProcessor, PipelineIdle
    <3> QED
      BY <2>0, <3>1, DeviceFrame
  <2> QED
    BY <1>3, <2>1, <2>2 DEF PerformBootFlags
<1>4. CASE PerformCleanup
  <2>0. UNCHANGED <<plan, snap, boot, image, vab>> /\ Kind = "Cleanup" /\ Stage = "Cleanup"
    BY <1>4, <1>s DEF PerformCleanup, boundVars, Kind
  <2>1. CASE ~vab /\ Completed(kSuccess, prefs)
    <3>1. CleanedUp'
      BY <2>0, <2>1, DeviceFrame, SMTT(30) DEF SnapshotsInv, CleanedUp
    <3>2. PipelineInv'
      BY <2>0, <2>1, <3>1, CompletedPipeline
    <3> QED
      BY <2>0, <3>2, DeviceFrame
  <2>2. CASE call' = "none" /\ UNCHANGED procVars
    <3>1. PipelineInv'
      BY <2>0, <2>2, SameProcessor, PipelineIdle
    <3> QED
      BY <2>0, <3>1, DeviceFrame
  <2> QED
    BY <1>4, <2>1, <2>2 DEF PerformCleanup
<1>5. CASE PerformInstallPlan
  <2>0. UNCHANGED <<plan, snap, boot, image, vab>> /\ Kind = "InstallPlan" /\ Stage = "InstallPlan"
    BY <1>5, <1>s DEF PerformInstallPlan, boundVars, Kind
  <2>1. CleanedUp'
    BY <2>0, DeviceFrame DEF PipelineInv
  <2>2. PipelineInv'
    BY <1>5, <2>0, <2>1, CompletedPipeline DEF PerformInstallPlan
  <2> QED
    BY <2>0, <2>2, DeviceFrame
<1>6. CASE PerformDownload
  <2>0. /\ UNCHANGED <<procVars, plan, snap, image, vab>> /\ Kind = "Download" /\ Stage = "Download"
        /\ call' = "none"
    BY <1>6, <1>s DEF PerformDownload, boundVars, Kind
  <2>1. /\ GetCurrentSlot' = GetCurrentSlot /\ GetTargetSlot' = GetTargetSlot
        /\ GetCurrentSlot \in boot'.bootable /\ Safe'
    <3>1. CASE boot' = [boot EXCEPT !.bootable = @ \ {GetTargetSlot}]
      <4>1. boot'.slot = boot.slot /\ boot'.active = boot.active
            /\ boot'.bootable = boot.bootable \ {1 - boot.slot}
        BY <1>0, <3>1 DEF Boots, GetTargetSlot
      <4>2. boot.slot \in boot.bootable
        BY DEF SlotsInv, GetCurrentSlot
      <4> QED
        BY <1>0, <4>1, <4>2 DEF Boots, Slots, GetCurrentSlot, GetTargetSlot, Safe, BootSlot
    <3>2. CASE boot.active = GetCurrentSlot /\ UNCHANGED boot
      BY <1>0, <3>2, SlotFacts, SameBoot DEF SlotsInv
    <3> QED
      BY <1>6, <3>1, <3>2 DEF PerformDownload
  <2>2. SlotsInv' /\ SnapshotsInv'
    BY <2>0, <2>1 DEF SlotsInv, SnapshotsInv
  <2>3. CleanedUp' = CleanedUp
    BY <2>0, <2>1 DEF CleanedUp
  <2>4. PipelineInv'
    BY <2>0, <2>1, <2>3, SameProcessor DEF PipelineInv
  <2> QED
    BY <2>2, <2>4
<1>7. CASE PerformAsync
  <2>0. /\ UNCHANGED <<procVars, plan, snap, boot, image, vab>> /\ Kind \in {"Verifier", "Postinstall"}
        /\ Stage = Kind /\ call' = "none" /\ call = "PerformAction"
    BY <1>7, <1>s DEF PerformAsync, boundVars, daemonVars, deviceVars, Kind
  <2>1. /\ CleanedUp' = CleanedUp /\ Safe' = Safe /\ image'[GetTargetSlot'] = image[GetTargetSlot]
        /\ Safe
    BY <2>0, SameBoot, DeviceFrame, SMTT(30) DEF PipelineInv
  <2>2. PipelineInv'
    BY <2>0, <2>1, SameProcessor DEF PipelineInv, Intact
  <2> QED
    BY <2>0, <2>2, DeviceFrame
<1> QED
  BY <1>1, <1>2, <1>3, <1>4, <1>5, <1>6, <1>7 DEF Perform

(* The events of the cleanup and of the download.                          *)
LEMMA DownloadDevice ==
    ASSUME TypeOK, ProcInv, DeviceInv,
           \/ CleanupDone \/ InitiateMerge \/ DownloadPrepare \/ DownloadWrite
           \/ DownloadComplete \/ DownloadFails
    PROVE  DeviceInv'
<1> USE DEF DeviceInv
<1>0. DeviceTypes /\ boot \in Boots /\ snap \in Snaps /\ image \in [Slots -> Images]
  BY TypesTogether DEF DeviceTypes
<1>s. current # NoAction => Stage = Kind /\ Kind \in Kinds
  BY StageOfQueue DEF ProcInv
<1>e. "kError" # kSuccess /\ "kDownloadStateInitializationError" # kSuccess
  BY CodesAssumption
<1>1. CASE CleanupDone
  <2>0. UNCHANGED <<plan, boot, vab>> /\ Kind = "Cleanup"
    BY <1>1 DEF CleanupDone, Works, boundVars
  <2>1. \/ CleanedUp /\ UNCHANGED <<snap, image>>
        \/ Safe /\ DropSnapshots
        \/ snap.state = "Merging" /\ snap' = SnapNone /\ UNCHANGED image
        \/ (\E p : Completed("kError", p)) /\ UNCHANGED <<snap, image>>
    <3>1. snap.state \in {"None", "Initiated"} => CleanedUp
      BY DEF CleanedUp
    <3>2. snap.state = "Unverified" /\ snap.source = GetCurrentSlot /\ ~snap.rolledBack => CleanedUp
      BY DEF CleanedUp
    <3>3. snap.rolledBack => Safe
      BY DEF SnapshotsInv
    <3> QED
      BY <1>1, <3>1, <3>2, <3>3, Zenon DEF CleanupDone
  <2>2. \E code, p : Completed(code, p)
    BY <1>1, ZenonT(30) DEF CleanupDone
  <2>3. CASE CleanedUp /\ UNCHANGED <<snap, image>>
    BY <2>0, <2>2, <2>3, DeviceFrame, CompletedPipeline
  <2>4. CASE Safe /\ DropSnapshots
    BY <2>0, <2>2, <2>4, DropKeeps, CompletedPipeline
  <2>5. CASE snap.state = "Merging" /\ snap' = SnapNone /\ UNCHANGED image
    <3>1. SlotsInv' /\ SnapshotsInv' /\ CleanedUp'
      BY <2>0, <2>5, SameBoot DEF SlotsInv, SnapshotsInv, CleanedUp, SnapNone
    <3> QED
      BY <2>0, <2>2, <3>1, CompletedPipeline, SMTT(30)
  <2>6. CASE (\E p : Completed("kError", p)) /\ UNCHANGED <<snap, image>>
    BY <1>e, <2>0, <2>6, DeviceFrame, CompletedPipeline
  <2> QED
    BY <2>1, <2>3, <2>4, <2>5, <2>6
<1>2. CASE InitiateMerge
  <2>0. /\ UNCHANGED <<procVars, boot, vab, call>> /\ Kind = "Cleanup" /\ call = "none"
        /\ snap.state = "Unverified" /\ snap.source # GetCurrentSlot
    BY <1>2 DEF InitiateMerge, Works, boundVars
  <2>1. Safe /\ ~snap.rolledBack /\ snap.source = GetTargetSlot
    BY <1>0, <2>0, SlotFacts DEF SnapshotsInv, Snaps, Slots, GetTargetSlot, GetCurrentSlot, Boots
  <2>2. SlotsInv'
    BY <1>0, <1>2, <2>0, <2>1, TargetTypes, TargetWritten, Zenon DEF InitiateMerge
  <2>3. snap'.state = "Merging" /\ ~snap'.rolledBack
    BY <1>0, <1>2, <2>1 DEF InitiateMerge, Snaps
  <2>4. SnapshotsInv'
    BY <2>0, <2>3 DEF SnapshotsInv
  <2>5. Stage = "Cleanup"
    BY <1>s, <2>0 DEF Kind
  <2>6. PipelineInv'
    BY <2>0, <2>5, SameProcessor, PipelineIdle, SMTT(30)
  <2> QED
    BY <2>2, <2>4, <2>6
<1>3. ASSUME Works("Download")
      PROVE  Kind = "Download" /\ Stage = "Download" /\ Safe /\ CleanedUp /\ call = "none"
  BY <1>3, <1>s DEF Works, Kind, PipelineInv
<1>4. ASSUME UNCHANGED <<procVars, boot, call, plan>>, Works("Download"), CleanedUp'
      PROVE  PipelineInv'
  BY <1>3, <1>4, SameProcessor, SameBoot, Zenon DEF PipelineInv
<1>5. CASE DownloadPrepare
  <2>0. /\ UNCHANGED <<procVars, boot, vab, call, plan>> /\ Works("Download")
        /\ LayOutTarget \/ UNCHANGED <<snap, image>>
    BY <1>5, Zenon DEF DownloadPrepare, PreparePartitionsForUpdate, boundVars
  <2>1. SlotsInv' /\ SnapshotsInv' /\ CleanedUp'
    BY <1>3, <2>0, LayOutKeeps, DeviceFrame, Zenon
  <2> QED
    BY <1>4, <2>0, <2>1
<1>6. ASSUME NEW f, Works("Download"), UNCHANGED <<snap, boot, vab>>,
             f \in Images, image' = [image EXCEPT ![GetTargetSlot] = f]
      PROVE  SlotsInv' /\ SnapshotsInv' /\ CleanedUp'
  <2>1. SlotsInv'
    BY <1>3, <1>6, TargetWritten, Zenon
  <2>2. SnapshotsInv' /\ CleanedUp'
    BY <1>3, <1>6, SameBoot DEF SnapshotsInv, CleanedUp
  <2> QED
    BY <2>1, <2>2
<1>7. image[GetTargetSlot] \in Images
  BY <1>0, TargetTypes
<1>8. CASE DownloadWrite
  <2>0. UNCHANGED <<procVars, snap, boot, vab, call, plan>> /\ Works("Download")
    BY <1>8 DEF DownloadWrite, boundVars
  <2>1. SlotsInv' /\ SnapshotsInv' /\ CleanedUp'
    BY <1>6, <1>7, <1>8, <2>0, WrittenTypes, Zenon DEF DownloadWrite
  <2> QED
    BY <1>4, <2>0, <2>1
<1>9. CASE DownloadComplete
  <2>0. UNCHANGED <<snap, boot, vab, plan>> /\ Works("Download")
        /\ \E p : Completed(kSuccess, p)
    BY <1>9 DEF DownloadComplete, boundVars
  <2>1. SlotsInv' /\ SnapshotsInv' /\ CleanedUp'
    BY <1>6, <1>7, <1>9, <2>0, WrittenTypes, Zenon DEF DownloadComplete
  <2>2. PipelineInv'
    BY <1>3, <2>0, <2>1, CompletedPipeline
  <2> QED
    BY <2>1, <2>2
<1>10. CASE DownloadFails
  <2>0. /\ UNCHANGED <<boot, vab, plan>> /\ Works("Download")
        /\ LayOutTarget \/ UNCHANGED <<snap, image>>
        /\ \E code, p : Completed(code, p) /\ code # kSuccess
    BY <1>e, <1>10, Zenon DEF DownloadFails, PreparePartitionsFails, boundVars
  <2>1. SlotsInv' /\ SnapshotsInv'
    BY <1>3, <2>0, LayOutKeeps, DeviceFrame, Zenon
  <2>2. PipelineInv'
    BY <2>0, CompletedPipeline, Zenon
  <2> QED
    BY <2>1, <2>2
<1> QED
  BY <1>1, <1>2, <1>5, <1>8, <1>9, <1>10

(* The verification, the postinstall step and the switch of the slots.     *)
LEMMA PostinstallDevice ==
    ASSUME TypeOK, ProcInv, DeviceInv,
           VerifierDone \/ PostinstallDone \/ PostinstallSwitch \/ PostinstallCompletes
    PROVE  DeviceInv'
<1> USE DEF DeviceInv
<1>0. DeviceTypes /\ boot \in Boots /\ snap \in Snaps /\ image \in [Slots -> Images]
      /\ plan \in Plans
  BY TypesTogether, Zenon DEF DeviceTypes, DaemonTypes
<1>s. current # NoAction => Stage = Kind /\ Kind \in Kinds
  BY StageOfQueue DEF ProcInv
<1>e. "kError" # kSuccess /\ "kUpdatedButNotActive" # kSuccess /\ "kFilesystemVerifierError" # kSuccess
  BY CodesAssumption
<1>1. CASE VerifierDone
  <2> DEFINE i == [image[GetTargetSlot] EXCEPT !.verity = @ \/ plan.writeVerity]
  <2>0. UNCHANGED <<plan, snap, boot, vab>> /\ Kind = "Verifier" /\ call = "none"
    BY <1>1 DEF VerifierDone, Works, boundVars
  <2>1. Stage = "Verifier"
    BY <1>s, <2>0 DEF Kind
  <2>2. Safe /\ CleanedUp
    BY <2>1 DEF PipelineInv
  <2>3. i \in Images
    BY <1>0, TargetTypes DEF Images, Plans
  <2>4. image' = [image EXCEPT ![GetTargetSlot] = i]
    BY <1>1 DEF VerifierDone
  <2>5. \/ \E p : Completed(kSuccess, p) /\ Intact(i) /\ i.of = plan.payload
        \/ \E p : Completed("kFilesystemVerifierError", p)
    BY <1>1 DEF VerifierDone
  <2> HIDE DEF i
  <2>6. image'[GetTargetSlot] = i
    BY <1>0, <2>4, TargetTypes
  <2>7. SlotsInv'
    BY <2>0, <2>2, <2>3, <2>4, TargetWritten, Zenon
  <2>8. SnapshotsInv' /\ CleanedUp'
    BY <2>0, <2>2, SameBoot DEF SnapshotsInv, CleanedUp
  <2>9. PipelineInv'
    BY <1>e, <2>0, <2>2, <2>5, <2>6, <2>8, CompletedPipeline
  <2> QED
    BY <2>7, <2>8, <2>9
<1>2. CASE PostinstallDone
  <2>0. UNCHANGED <<plan, boot, image, vab>> /\ Kind = "Postinstall" /\ call = "none"
    BY <1>2 DEF PostinstallDone, boundVars
  <2>1. Stage = "Postinstall"
    BY <1>s, <2>0 DEF Kind
  <2>2. Safe /\ CleanedUp
    BY <2>0, <2>1 DEF PipelineInv
  <2>3. CASE \E code, p : Completed(code, p) /\ code # kSuccess /\ UNCHANGED snap
    BY <2>0, <2>3, DeviceFrame, CompletedPipeline
  <2>4. CASE /\ snap' = IF snap.state = "Initiated" THEN [snap EXCEPT !.state = "Unverified"] ELSE snap
             /\ call' = "SetActiveBootSlot" /\ UNCHANGED procVars
    <3>1. /\ snap'.source = snap.source /\ snap'.rolledBack = snap.rolledBack
          /\ snap'.state = IF snap.state = "Initiated" THEN "Unverified" ELSE snap.state
      BY <1>0, <2>4 DEF Snaps
    <3>2. SnapshotsInv' /\ CleanedUp' /\ snap'.state # "Initiated"
      BY <1>0, <2>0, <2>2, <3>1, SameBoot DEF SnapshotsInv, CleanedUp
    <3>3. SlotsInv'
      BY <2>0, SameBoot DEF SlotsInv
    <3>4. Safe' = Safe /\ image'[GetTargetSlot'] = image[GetTargetSlot]
      BY <2>0, SameBoot
    <3>5. PipelineInv'
      BY <2>0, <2>1, <2>2, <2>4, <3>2, <3>4, SameProcessor DEF PipelineInv, Intact
    <3> QED
      BY <3>2, <3>3, <3>5
  <2> QED
    BY <1>2, <1>e, <2>3, <2>4 DEF PostinstallDone
<1>3. CASE PostinstallSwitch
  <2>0. UNCHANGED <<plan, snap, image, vab>> /\ call = "SetActiveBootSlot" /\ Kind = "Postinstall"
    BY <1>3 DEF PostinstallSwitch, boundVars, ProcInv, CallInv
  <2>1. Stage = "Postinstall"
    BY <1>s, <2>0 DEF Kind
  <2>2. CASE Completed("kError", prefs) /\ UNCHANGED boot
    BY <1>e, <2>0, <2>2, DeviceFrame, CompletedPipeline
  <2>3. CASE SetActiveBootSlot(GetTargetSlot) /\ call' = "CompletePostinstall" /\ UNCHANGED procVars
    <3>1. /\ boot'.active = 1 - boot.slot /\ boot'.slot = boot.slot
          /\ boot'.bootable = boot.bootable \cup {1 - boot.slot}
      BY <1>0, <2>3 DEF SetActiveBootSlot, GetTargetSlot, Boots
    <3>2. GetCurrentSlot' = GetCurrentSlot /\ GetTargetSlot' = GetTargetSlot
      BY <3>1 DEF GetCurrentSlot, GetTargetSlot
    <3>3. ~Safe'
      BY <1>0, <3>1 DEF Safe, BootSlot, GetCurrentSlot, Boots, Slots
    <3>4. CleanedUp /\ snap.state # "Initiated" /\ Intact(image[GetTargetSlot])
      BY <2>0, <2>1, SMTT(30) DEF PipelineInv
    <3>5. SlotsInv'
      BY <2>0, <3>1, <3>2, <3>4 DEF SlotsInv, GetCurrentSlot
    <3>6. SnapshotsInv' /\ CleanedUp'
      BY <2>0, <3>2, <3>4, SMTT(30) DEF SnapshotsInv, CleanedUp
    <3>7. PipelineInv'
      BY <2>0, <2>1, <2>3, <3>2, <3>3, <3>6, SameProcessor, Zenon DEF PipelineInv
    <3> QED
      BY <3>5, <3>6, <3>7
  <2> QED
    BY <1>3, <2>2, <2>3 DEF PostinstallSwitch
<1>4. CASE PostinstallCompletes
  <2>0. /\ UNCHANGED <<plan, snap, boot, image, vab>> /\ call = "CompletePostinstall"
        /\ Kind = "Postinstall" /\ Completed(kSuccess, prefs)
    BY <1>4 DEF PostinstallCompletes, boundVars, ProcInv, CallInv
  <2>1. Stage = "Postinstall"
    BY <1>s, <2>0 DEF Kind
  <2>2. CleanedUp'
    BY <2>0, <2>1, DeviceFrame, Zenon DEF PipelineInv
  <2> QED
    BY <2>0, <2>2, DeviceFrame, CompletedPipeline, Zenon
<1> QED
  BY <1>1, <1>2, <1>3, <1>4

(* The rest of ResetStatus.                                                *)
LEMMA ResetDevice ==
    ASSUME TypeOK, ProcInv, DeviceInv, ResetStatusSnapshots \/ ResetStatusMarker
    PROVE  DeviceInv'
<1> USE DEF DeviceInv
<1>0. boot \in Boots
  BY TypesTogether DEF DeviceTypes
<1>1. /\ UNCHANGED <<procVars, boot, vab>> /\ status = "UPDATED_NEED_REBOOT"
      /\ call' \in {"none", "DeleteMarker", "DeleteMarkerFailed"}
  BY DEF ResetStatusSnapshots, ResetStatusMarker, boundVars, ProcInv, CallInv
<1>2. Stage = "none" /\ Kind = "none" /\ ~suspended
  BY <1>1, RestingIsIdle DEF Resting
<1>3. PipelineInv'
  BY <1>1, <1>2, SameProcessor, PipelineIdle
<1>4. CASE ResetStatusSnapshots
  <2>1. call \in {"ResetUpdate", "ResetUpdateFailed"} /\ (ResetUpdate(prefs) \/ UNCHANGED <<snap, image>>)
    BY <1>4, SMTT(30) DEF ResetStatusSnapshots
  <2>2. vab => Safe
    BY <1>0, <2>1, SlotFacts DEF PipelineInv, SlotsInv
  <2> QED
    BY <1>1, <1>3, <2>1, <2>2, ResetUpdateKeeps, DeviceFrame, Zenon
<1>5. CASE ResetStatusMarker
  BY <1>1, <1>3, <1>5, DeviceFrame DEF ResetStatusMarker
<1> QED
  BY <1>4, <1>5

(* A new process has nothing queued but a cleanup.                         *)
LEMMA InitDaemonPipeline ==
    ASSUME NEW b, NEW p, InitDaemon(b, p)
    PROVE  PipelineInv'
<1>1. /\ current' = NoAction \/ current' = CleanupOnly
      /\ actions' = << >> /\ suspended' = FALSE /\ call' \in {"none", "PerformAction"}
  BY DEF InitDaemon, CallPerform
<1>2. Stage' \in {"none", "Cleanup"} /\ Kind' \in {"none", "Cleanup"}
  BY <1>1, CleanupOnlyName DEF Stage, Kind
<1> QED
  BY <1>1, <1>2, PipelineIdle

(* The device boots the slot it was switched to, which is intact, or falls *)
(* back to the one that was running.                                       *)
LEMMA RebootDevice ==
    ASSUME TypeOK, DeviceInv, Reboot
    PROVE  DeviceInv'
<1> USE DEF DeviceInv
<1>0. boot \in Boots /\ snap \in Snaps
  BY TypesTogether DEF DeviceTypes
<1>1. PipelineInv'
  BY RebootStep, InitDaemonPipeline
<1>2. /\ boot' \in Boots /\ boot'.active = boot.active /\ UNCHANGED <<image, vab>>
  BY RebootStep DEF boundVars
<1>3. PICK up \in BOOLEAN :
        /\ BootSlot = GetCurrentSlot => up
        /\ up => BootSlot = GetCurrentSlot \/ Intact(image[BootSlot])
        /\ boot'.slot = IF up THEN BootSlot ELSE GetCurrentSlot
        /\ boot'.bootable = IF up THEN boot.bootable ELSE boot.bootable \ {BootSlot}
        /\ snap' = IF up THEN snap ELSE [snap EXCEPT !.rolledBack = snap.state = "Unverified"]
  BY RebootStep
<1>4. CASE Safe
  <2>1. boot'.slot = boot.slot /\ boot'.bootable = boot.bootable /\ snap' = snap
    BY <1>3, <1>4 DEF Safe, GetCurrentSlot
  <2>2. GetCurrentSlot' = GetCurrentSlot /\ GetTargetSlot' = GetTargetSlot /\ Safe' = Safe
    BY <1>2, <2>1, SMTT(30) DEF Safe, BootSlot, GetCurrentSlot, GetTargetSlot
  <2>3. SlotsInv' /\ SnapshotsInv'
    BY <1>2, <2>1, <2>2 DEF SlotsInv, SnapshotsInv
  <2> QED
    BY <1>1, <2>3
<1>5. CASE ~Safe
  <2>1. BootSlot = GetTargetSlot /\ boot.active = GetTargetSlot /\ GetTargetSlot \in boot.bootable
    BY <1>0, <1>5, SlotFacts DEF SlotsInv, Safe
  <2>2. snap.state # "Initiated" /\ ~snap.rolledBack
        /\ (snap.state = "Unverified" => snap.source = GetCurrentSlot)
    BY <1>5 DEF SnapshotsInv
  <2>3. CASE up
    <3>1. /\ boot'.slot = GetTargetSlot /\ boot'.bootable = boot.bootable /\ snap' = snap
          /\ Intact(image[GetTargetSlot])
      BY <1>3, <1>5, <2>1, <2>3 DEF Safe
    <3>2. GetCurrentSlot' = GetTargetSlot /\ Safe'
      BY <1>2, <2>1, <3>1, SMTT(30) DEF Safe, BootSlot, GetCurrentSlot
    <3>3. SlotsInv' /\ SnapshotsInv'
      BY <1>2, <2>1, <2>2, <3>1, <3>2 DEF SlotsInv, SnapshotsInv
    <3> QED
      BY <1>1, <3>3
  <2>4. CASE ~up
    <3>1. /\ boot'.slot = boot.slot /\ boot'.bootable = boot.bootable \ {1 - boot.slot}
          /\ boot'.active = 1 - boot.slot
      BY <1>2, <1>3, <2>1, <2>4 DEF GetCurrentSlot, GetTargetSlot
    <3>2. /\ GetCurrentSlot' = GetCurrentSlot /\ Safe' /\ GetCurrentSlot' \in boot'.bootable
      BY <1>0, <3>1 DEF Safe, BootSlot, GetCurrentSlot, Boots, Slots, SlotsInv
    <3>3. snap'.state = snap.state /\ snap'.source = snap.source
      BY <1>0, <1>3, <2>4 DEF Snaps
    <3>4. snap'.rolledBack => snap.state = "Unverified"
      <4>1. (snap.state = "Unverified") \in BOOLEAN
        OBVIOUS
      <4> QED
        BY <1>0, <1>3, <2>4, <4>1 DEF Snaps
    <3>5. SlotsInv' /\ SnapshotsInv'
      BY <1>2, <2>2, <3>2, <3>3, <3>4, Zenon DEF SlotsInv, SnapshotsInv
    <3> QED
      BY <1>1, <3>5
  <2> QED
    BY <2>3, <2>4
<1> QED
  BY <1>4, <1>5

(* The device through every step.                                          *)
LEMMA NextDevice ==
    ASSUME TypeOK, ProcInv, DeviceInv, Undisciplined \subseteq {"Cleanup"}, [Next]_vars
    PROVE  DeviceInv'
<1>1. CASE Crash
  BY <1>1, InitDaemonPipeline, DeviceFrame DEF Crash, DeviceInv
<1>2. CASE Internal
  BY <1>2, PerformDevice, DownloadDevice, PostinstallDevice, ResetDevice DEF Internal, Work
<1>3. CASE UNCHANGED vars
  <2>1. UNCHANGED <<procVars, snap, boot, image, vab, call, plan, status>>
    BY <1>3, SMTT(30) DEF vars, daemonVars, deviceVars, boundVars
  <2>2. PipelineInv' = PipelineInv
    BY <2>1, SameProcessor, SameBoot, DeviceFrame DEF PipelineInv
  <2> QED
    BY <2>1, <2>2, DeviceFrame DEF DeviceInv
<1> QED
  BY <1>1, <1>2, <1>3, ClientDevice, ResumeDevice, RebootDevice DEF Next

(* A device that left the factory.                                         *)
LEMMA InitDevice == Init => DeviceInv
<1> SUFFICES ASSUME Init PROVE DeviceInv
  OBVIOUS
<1>1. Stage = "Cleanup" /\ Kind = "Cleanup" /\ call = "PerformAction"
  BY CleanupOnlyName DEF Init, Stage, Kind
<1>2. PipelineInv
  BY <1>1 DEF PipelineInv
<1>3. boot.slot = 0 /\ boot.active = 0 /\ boot.bootable = {0}
  BY DEF Init
<1>4. Safe /\ GetCurrentSlot = 0
  BY <1>3 DEF Safe, BootSlot, GetCurrentSlot
<1>5. Intact(image[0])
  BY Zenon DEF Init, Slots, Intact, NoImage
<1>6. SlotsInv /\ SnapshotsInv
  BY <1>3, <1>4, <1>5 DEF Init, SlotsInv, SnapshotsInv, SnapNone, GetCurrentSlot
<1> QED
  BY <1>2, <1>6 DEF DeviceInv

(* The whole invariant.                                                    *)
LEMMA DeviceInvariant ==
    ASSUME Undisciplined \subseteq {"Cleanup"}
    PROVE  Spec => [](TypeOK /\ ProcInv /\ MarkerInv /\ DeviceInv)
<1>1. "Start" \notin Undisciplined
  OBVIOUS
<1>2. Init => MarkerInv
  BY DEF Init, MarkerInv, UpdateCompletedOnThisBoot
<1>3. Init => TypeOK /\ ProcInv /\ MarkerInv /\ DeviceInv
  BY <1>2, InitTypes, InitProc, InitDevice
<1>4. TypeOK /\ ProcInv /\ MarkerInv /\ DeviceInv /\ [Next]_vars =>
        (TypeOK /\ ProcInv /\ MarkerInv /\ DeviceInv)'
  BY <1>1, NextTypes, NextProc, NextMarker, NextDevice
<1> QED
  BY <1>3, <1>4, PTL DEF Spec

(* Whatever is interrupted, cancelled or resumed, the slot the bootloader  *)
(* would pick holds a complete and verified image, if clients reset and    *)
(* allocate only when the device boots what it runs and the boot control   *)
(* HAL does not fail to switch back or to mark a slot.                     *)
THEOREM AlwaysBootable ==
    ASSUME Undisciplined \subseteq {"Cleanup"}
    PROVE  Spec => []BootsIntactImage
<1>1. TypeOK /\ DeviceInv => BootsIntactImage
  <2> SUFFICES ASSUME TypeOK, DeviceInv PROVE Intact(image[BootSlot])
    BY DEF BootsIntactImage
  <2>1. boot \in Boots
    BY TypesTogether DEF DeviceTypes
  <2> QED
    BY <2>1, SlotFacts DEF DeviceInv, SlotsInv, Safe
<1> QED
  BY <1>1, DeviceInvariant, PTL

(* The end of an action reports a success only after the postinstall step. *)
LEMMA CompletedReports ==
    ASSUME ProcInv, NEW code, NEW p, Completed(code, p), status' = "UPDATED_NEED_REBOOT"
    PROVE  Kind = "Postinstall" /\ code = kSuccess
<1>1. /\ current # NoAction /\ Stage = Kind /\ Kind \in Kinds
      /\ ~suspended => (current' = NoAction <=> Stage' = "none")
      /\ Stage' = NextStage(code)
  BY CompletedMovesOn DEF Completed, ProcInv
<1>2. status # "UPDATED_NEED_REBOOT"
  BY <1>1, ProcessingIsNotApplied DEF IsRunning
<1>3. StatusAfter(Kind, code) # "UPDATED_NEED_REBOOT"
  BY <1>2 DEF StatusAfter
<1>4. ~suspended /\ current' = NoAction /\ TerminateUpdateAndNotify(StatusAfter(Kind, code), code)
  BY <1>3 DEF Completed, ProcessingDone
<1>5. code = kSuccess /\ StatusAfter(Kind, code) # "CLEANUP_PREVIOUS_UPDATE"
  BY <1>4 DEF TerminateUpdateAndNotify
<1>6. Kind # "Cleanup"
  BY <1>1, <1>5 DEF StatusAfter, ProcInv, StatusInv
<1>7. current # CleanupOnly
  BY <1>1, <1>6, CleanupOnlyName DEF Kind
<1>8. After(Kind) = "none"
  BY <1>1, <1>4, <1>5, <1>7 DEF NextStage
<1> QED
  BY <1>1, <1>5, <1>8 DEF After, Kinds

(* A step that reports a success takes place after the switch of slots.    *)
LEMMA ReportedIsNext ==
    ASSUME TypeOK, ProcInv, MarkerInv, DeviceInv, Next,
           status # "UPDATED_NEED_REBOOT", status' = "UPDATED_NEED_REBOOT", crashes' = crashes
    PROVE  ~Safe /\ image[GetTargetSlot].of = plan.payload
<1>e. /\ "kError" # kSuccess /\ "kUpdatedButNotActive" # kSuccess
      /\ "kFilesystemVerifierError" # kSuccess /\ "kDownloadStateInitializationError" # kSuccess
  BY CodesAssumption
<1>1. CASE PostinstallCompletes
  <2>1. Kind = "Postinstall" /\ call = "CompletePostinstall"
    BY <1>1 DEF PostinstallCompletes, ProcInv, CallInv
  <2>2. Stage = "Postinstall"
    BY <2>1, StageOfQueue DEF Kind, ProcInv
  <2> QED
    BY <2>1, <2>2 DEF DeviceInv, PipelineInv
<1>2. CASE ResumeUpdate
  <2>1. current' = NoAction /\ TerminateUpdateAndNotify(status, suspendedErrorCode)
    BY <1>2 DEF ResumeUpdate, ProcessingDone
  <2>2. suspendedErrorCode = kSuccess /\ status # "CLEANUP_PREVIOUS_UPDATE"
    BY <2>1 DEF TerminateUpdateAndNotify
  <2>3. suspended /\ Stage = "none"
    BY <1>2, <2>1, ResumeProc, Zenon DEF ResumeUpdate, ResumeProcessing
  <2> QED
    BY <2>2, <2>3 DEF DeviceInv, PipelineInv
<1>3. CASE Reboot
  <2>1. InitDaemon(boot', prefs) /\ boot'.id = boot.id + 1
    BY <1>3, RebootStep
  <2>2. UpdateCompletedOnThisBoot(boot', prefs)
    BY <2>1 DEF InitDaemon
  <2> QED
    BY <2>1, <2>2 DEF UpdateCompletedOnThisBoot, MarkerInv
<1>4. CASE Crash
  <2>1. crashes \in Nat
    BY TypesTogether, BoundsAssumption DEF BoundTypes
  <2> QED
    BY <1>4, <2>1 DEF Crash
<1>5. ASSUME NEW code, NEW p, Completed(code, p)
      PROVE  Kind = "Postinstall" /\ code = kSuccess
  BY <1>5, CompletedReports
<1>6. ~Client
  BY CodesAssumption, Zenon DEF Client, ApplyPayload, ApplyPayloadFails, SuspendUpdate, CancelUpdate, ResetStatusIdle,
         ResetStatusApplied, CleanupSuccessfulUpdate, AllocateSpaceForPayload,
         TerminateUpdateAndNotify, daemonVars
<1>7. ~Perform
  BY <1>5 DEF Perform, PerformBootFlags, PerformCleanup, PerformInstallPlan, PerformDownload,
              PerformAsync, daemonVars
<1>8. ~Work
  BY <1>5, <1>e, Zenon DEF Work, CleanupDone, InitiateMerge, DownloadPrepare, DownloadWrite,
                    DownloadComplete, DownloadFails, VerifierDone, PostinstallDone, Works, daemonVars
<1>9. ~RunStartProcessing /\ ~ResetStatusSnapshots /\ ~ResetStatusMarker
  BY DEF RunStartProcessing, ResetStatusSnapshots, ResetStatusMarker, daemonVars, ProcInv, CallInv
<1>10. ~RunBootFlagsDone
  <2>1. bootFlags.running => Kind = "BootFlags"
    BY DEF ProcInv, TasksInv
  <2> QED
    BY <1>5, <2>1 DEF RunBootFlagsDone
<1>11. ~PostinstallSwitch
  BY <1>5, <1>e DEF PostinstallSwitch
<1> QED
  BY <1>1, <1>2, <1>3, <1>4, <1>6, <1>7, <1>8, <1>9, <1>10, <1>11 DEF Next, Internal

(* A client is told that a reboot is needed only when the next boot goes   *)
(* to the slot just written, with the payload that was asked for, also     *)
(* when the postinstall step ended in a suspension.                        *)
THEOREM ReportedSuccessBoots ==
    ASSUME Undisciplined \subseteq {"Cleanup"}
    PROVE  Spec => SuccessMeansNextBoot
<1>1. TypeOK /\ ProcInv /\ MarkerInv /\ DeviceInv /\ [Next]_vars =>
        [status # "UPDATED_NEED_REBOOT" /\ status' = "UPDATED_NEED_REBOOT" /\ crashes' = crashes
           => BootSlot = GetTargetSlot /\ image[BootSlot].of = plan.payload]_vars
  <2> SUFFICES ASSUME TypeOK, ProcInv, MarkerInv, DeviceInv, Next,
                      status # "UPDATED_NEED_REBOOT", status' = "UPDATED_NEED_REBOOT",
                      crashes' = crashes
               PROVE  BootSlot = GetTargetSlot /\ image[BootSlot].of = plan.payload
    OBVIOUS
  <2>1. ~Safe /\ image[GetTargetSlot].of = plan.payload
    BY ReportedIsNext
  <2>2. boot \in Boots
    BY TypesTogether DEF DeviceTypes
  <2> QED
    BY <2>1, <2>2, SlotFacts DEF Safe
<1> QED
  BY <1>1, DeviceInvariant, PTL DEF Spec, SuccessMeansNextBoot

=============================================================================
