----------------------------- MODULE Subprocess -----------------------------
(***************************************************************************)
(* Subprocess (common/subprocess.cc): the children the daemon has started  *)
(* and not yet reaped, each with the callback that its exit is reported    *)
(* to.  Signals reach a child at once; its exit is reaped in the loop.     *)
(***************************************************************************)
EXTENDS Naturals

CONSTANTS
    MaxChildren,    \* children started in a behaviour
    ExitCodes       \* what a child can exit with

ASSUME ChildrenAssumption == MaxChildren \in Nat

VARIABLE children

Pids == 1..MaxChildren
NoChild == [state |-> "none", callback |-> FALSE, status |-> 0]

SubprocessInit == children = [p \in Pids |-> NoChild]

(* ExecFlags: a pid no child has had.                                      *)
FreshPid(p) == children[p].state = "none" /\ \A q \in 1..(p - 1) : children[q].state # "none"
ExecFlags(p) == [children EXCEPT ![p] = [state |-> "running", callback |-> TRUE, status |-> 0]]

(* Faulty variant: the callback is not reset.                              *)
KillExecKeepsCallback(p) ==
    [children EXCEPT ![p].state = IF @ = "reaped" THEN @ ELSE "exited"]

(* KillExec: the callback is dropped and the child killed.                 *)
KillExec(p) ==
    [children EXCEPT ![p].state = IF @ = "reaped" THEN @ ELSE "exited",
                     ![p].callback = FALSE]

(* kill(2) with SIGSTOP and SIGCONT; a zombie takes no notice.             *)
Signal(p, from, to) == [children EXCEPT ![p].state = IF @ = from THEN to ELSE @]

(* A child that is not stopped exits.                                      *)
ChildExits ==
    \E p \in Pids, code \in ExitCodes :
        /\ children[p].state = "running"
        /\ children' = [children EXCEPT ![p].state = "exited", ![p].status = code]

(* ChildExitedCallback erases the record, after it has run the callback.   *)
Erased(p) == [children EXCEPT ![p].state = "reaped", ![p].callback = FALSE]
=============================================================================
