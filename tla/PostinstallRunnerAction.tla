---------------------- MODULE PostinstallRunnerAction ----------------------
(***************************************************************************)
(* PostinstallRunnerAction (payload_consumer/postinstall_runner_action.cc) *)
(* and the children it runs: each partition that has a postinstall step is *)
(* mounted and its program run; when all have succeeded the new slot is    *)
(* made active.  A powerwash is scheduled before the first program runs.   *)
(***************************************************************************)
EXTENDS FilesystemVerifierAction, Subprocess

CONSTANT Unnoticed      \* the calls that may fail without the code caring:
                        \* "MarkSlotUnbootable", "CancelPowerwash"

ASSUME UnnoticedAssumption == Unnoticed \subseteq {"MarkSlotUnbootable", "CancelPowerwash"}

Postinstall == "PostinstallRunnerAction"

VARIABLES
    post,       \* current_partition_, current_command_ (0 for none),
                \* is_current_command_suspended_, powerwash_scheduled_
    mounts,     \* the file systems mounted on fs_mount_dir_, the last on top
    powerwash,  \* a powerwash is scheduled for the next boot
    active      \* the target slot is the one to boot next

postVars == <<children, post, mounts, powerwash, active>>

NewPost == [index |-> 1, command |-> 0, stopped |-> FALSE, scheduled |-> FALSE]

Runs(i) ==
    Partitions[i].runPostinstall /\ (plan.runPostInstall \/ ~Partitions[i].optional)

(* The next partition with a postinstall step, one past the last for none. *)
NextToRun(i) ==
    CHOOSE j \in i..(Len(Partitions) + 1) :
        /\ j <= Len(Partitions) => Runs(j)
        /\ \A k \in i..(j - 1) : ~Runs(k)

(* UnmountFilesystem takes away the top of what is mounted.                *)
Unmounted == IF mounts = << >> THEN mounts ELSE Tail(mounts)

(* What a call does whose result the code ignores, or only logs.           *)
Results(method) == IF method \in Unnoticed THEN BOOLEAN ELSE {TRUE}

(* CompletePostinstall: FinishUpdate and SetActiveBootSlot, then all       *)
(* partitions are unmapped, and a failure undoes the powerwash.            *)
(* Faulty variant: it is only undone when a program has failed.            *)
EndedKeepsPowerwash(p, code, switched) ==
    /\ active' = (active \/ switched)
    /\ mapping' = UnmapAllPartitions(FALSE)
    /\ powerwash' = (powerwash /\ (code \in {"kSuccess", "kUpdatedButNotActive"} \/ ~p.scheduled
                                 \/ p.index > Len(Partitions)))
    /\ post' = p
    /\ Complete(code)

Ended(p, code, switched) ==
    /\ active' = (active \/ switched)
    /\ mapping' = UnmapAllPartitions(FALSE)
    /\ \E done \in Results("CancelPowerwash") :
        powerwash' = (powerwash /\ (code \in {"kSuccess", "kUpdatedButNotActive"} \/ ~p.scheduled
                                   \/ ~done))
    /\ post' = p
    /\ Complete(code)

CompletePostinstall(p, code) ==
    \/ code # "kSuccess" /\ Ended(p, code, FALSE)
    \/ code = "kSuccess" /\ plan.switchSlot /\ Ended(p, code, TRUE)
    \/ code = "kSuccess" /\ plan.switchSlot /\ Ended(p, "kPostinstallRunnerError", FALSE)
    \/ code = "kSuccess" /\ ~plan.switchSlot /\ Ended(p, "kUpdatedButNotActive", FALSE)

(* PerformAction: the devices are mapped and the powerwash scheduled.      *)
PostPerformAction ==
    /\ Inside(Postinstall, "PerformAction")
    /\ \/ /\ plan.compression
          /\ CompletePostinstall(post, "kPostInstallMountError")
       \/ plan.powerwash /\ CompletePostinstall(post, "kPostinstallPowerwashError")
       \/ /\ mapping' = IF plan.compression THEN MapAllPartitions(Unmapped, image.verity) ELSE mapping
          /\ powerwash' = (powerwash \/ plan.powerwash)
          /\ post' = [post EXCEPT !.scheduled = plan.powerwash]
          /\ Calls("PerformPartitionPostinstall")
          /\ UNCHANGED active
    /\ UNCHANGED <<children, mounts>>

(* CompletePartitionPostinstall: the partition is unmounted; a failure     *)
(* counts unless the step is optional.                                     *)
CompletePartitionPostinstall(p, code) ==
    LET error == CASE code = 3 -> "kPostinstallBootedFromFirmwareB"
                   [] code = 4 -> "kPostinstallFirmwareRONotUpdatable"
                   [] OTHER -> "kPostinstallRunnerError"
        q == [p EXCEPT !.command = 0]
    IN  \/ /\ code # 0 /\ ~Partitions[p.index].optional
           /\ CompletePostinstall(q, error)
        \/ /\ code = 0 \/ Partitions[p.index].optional
           /\ post' = [q EXCEPT !.index = @ + 1]
           /\ Calls("PerformPartitionPostinstall")
           /\ UNCHANGED <<mapping, powerwash, active>>

(* Faulty variant: what a crash left mounted is not looked for.            *)
BeforeMountTrusts == mounts

(* What was found mounted is unmounted before the partition is mounted.    *)
BeforeMount == Unmounted

(* PerformPartitionPostinstall: nothing more to run, or nothing to run at  *)
(* all in a rollback to what is installed; else mount and launch, which    *)
(* can fail.                                                               *)
PerformPartitionPostinstall ==
    LET p == [post EXCEPT !.index = NextToRun(post.index)] IN
    /\ Inside(Postinstall, "PerformPartitionPostinstall")
    /\ \/ /\ p.index > Len(Partitions) \/ ~plan.hasUrl
          /\ CompletePostinstall(p, "kSuccess")
          /\ UNCHANGED <<children, mounts>>
       \/ /\ p.index <= Len(Partitions) /\ plan.hasUrl
          /\ \/ /\ CompletePostinstall(p, "kPostinstallRunnerError")
                /\ mounts' \in {mounts, BeforeMount}
                /\ UNCHANGED children
             \/ /\ CompletePartitionPostinstall(p, 1)
                /\ mounts' \in {BeforeMount, IF BeforeMount = << >> THEN << >> ELSE Tail(BeforeMount)}
                /\ UNCHANGED children
             \/ \E pid \in Pids :
                /\ FreshPid(pid)
                /\ children' = ExecFlags(pid)
                /\ post' = [p EXCEPT !.command = pid]
                /\ mounts' = <<p.index>> \o BeforeMount
                /\ Return
                /\ UNCHANGED <<mapping, powerwash, active>>

(* The loop reaps a child, and runs its callback if it still has one.      *)
ChildExitedCallback ==
    /\ call = "none"
    /\ \E p \in Pids :
        /\ children[p].state = "exited"
        /\ children' = Erased(p)
        /\ \/ /\ children[p].callback
              /\ mounts' = Unmounted
              /\ CompletePartitionPostinstall(post, children[p].status)
           \/ /\ ~children[p].callback
              /\ UNCHANGED <<post, mounts, powerwash, active, mapping, hostVars>>

(* SuspendAction, ResumeAction and TerminateProcessing.  The flag says     *)
(* that the command was stopped, also when it had already exited.          *)
PostSuspendAction ==
    /\ \/ post.command = 0 /\ UNCHANGED <<children, post>>
       \/ /\ post.command # 0
          /\ children' = Signal(post.command, "running", "stopped")
          /\ post' = [post EXCEPT !.stopped = TRUE]
    /\ UNCHANGED <<mounts, powerwash, active>>

(* Faulty variant: the flag is cleared and no signal sent.                 *)
PostResumeActionSendsNothing ==
    /\ post' = [post EXCEPT !.stopped = FALSE]
    /\ UNCHANGED <<children, mounts, powerwash, active>>

PostResumeAction ==
    /\ \/ post.command = 0 /\ UNCHANGED <<children, post>>
       \/ /\ post.command # 0
          /\ children' = Signal(post.command, "stopped", "running")
          /\ post' = [post EXCEPT !.stopped = FALSE]
    /\ UNCHANGED <<mounts, powerwash, active>>

PostTerminateProcessing ==
    /\ \/ post.command = 0 /\ UNCHANGED <<children, mounts>>
       \/ /\ post.command # 0
          /\ children' = KillExec(post.command)
          /\ mounts' = Unmounted
    /\ post' = NewPost
    /\ UNCHANGED <<powerwash, active>>

PostStep ==
    /\ \/ PostPerformAction
       \/ PerformPartitionPostinstall
       \/ ChildExitedCallback
    /\ UNCHANGED <<plan, image, verifier>>
=============================================================================
