------------------------ MODULE ActionProcessorClient ------------------------
(***************************************************************************)
(* An ActionProcessor with its environment: a client that calls the public *)
(* methods in any order, actions that complete with any code at any time   *)
(* (also while suspended: "the action can ignore that and terminate at any *)
(* point", common/action_processor.cc), and a delegate that records what   *)
(* it is told.  Actions are numbered in the order they are enqueued.       *)
(***************************************************************************)
EXTENDS ActionProcessor

CONSTANT MaxActions     \* how many actions are ever enqueued

ASSUME MaxActionsAssumption == MaxActions \in Nat
ASSUME ActionsAssumption == Actions = 1..MaxActions

VARIABLES
    enqueued,       \* how many actions have been enqueued
    lastCode,       \* the code of the action that completed last
    failedUpTo,     \* the actions enqueued when an action failed last
    session         \* what the delegate was last told of the processing

clientVars == <<enqueued, lastCode, failedUpTo, session>>
vars == <<procVars, clientVars>>

Notices == [told : {"running", "done", "stopped"}, code : ErrorCodes]

(* Every field of the processor and of the observer has its type.          *)
TypeOK ==
    /\ ProcTypeOK
    /\ enqueued \in 0..MaxActions
    /\ lastCode \in ErrorCodes
    /\ failedUpTo \in 0..MaxActions
    /\ session \in Notices

Init ==
    /\ ProcInit
    /\ enqueued = 0
    /\ lastCode = kSuccess
    /\ failedUpTo = 0
    /\ session = [told |-> "stopped", code |-> kSuccess]

(* StartNextActionOrFinish(code) ran: the delegate's ProcessingDone(code)  *)
(* is called when no action was left to start.                             *)
NotifyIfDone(code) ==
    session' = IF IsRunning' THEN session ELSE [told |-> "done", code |-> code]

Enqueue ==
    /\ enqueued < MaxActions
    /\ enqueued' = enqueued + 1
    /\ EnqueueAction(enqueued + 1)
    /\ UNCHANGED <<lastCode, failedUpTo, session>>

Start ==
    /\ StartProcessing
    /\ session' = [told |-> "running", code |-> session.code]
    /\ UNCHANGED <<enqueued, lastCode, failedUpTo>>

Stop ==
    /\ StopProcessing
    /\ session' = [told |-> "stopped", code |-> session.code]
    /\ UNCHANGED <<enqueued, lastCode, failedUpTo>>

Suspend == SuspendProcessing /\ UNCHANGED clientVars

Resume ==
    /\ ResumeProcessing
    /\ NotifyIfDone(suspendedErrorCode)
    /\ UNCHANGED <<enqueued, lastCode, failedUpTo>>

Complete(code) ==
    /\ ActionComplete(code)
    /\ NotifyIfDone(code)
    /\ lastCode' = code
    /\ failedUpTo' = IF code = kSuccess THEN failedUpTo ELSE enqueued
    /\ UNCHANGED enqueued

Next ==
    \/ Enqueue
    \/ Start
    \/ Stop
    \/ Suspend
    \/ Resume
    \/ \E code \in ErrorCodes : Complete(code)

Spec == Init /\ [][Next]_vars

(* An action that is allowed to run completes sooner or later: every       *)
(* action of the daemon waits for a bounded operation, a timeout or a      *)
(* limited number of retries.  A suspended processor is resumed by whoever *)
(* suspended it.  Nothing is assumed of a suspended action.                *)
Fairness ==
    /\ WF_vars(~suspended /\ \E code \in ErrorCodes : Complete(code))
    /\ WF_vars(Resume)

FairSpec == Spec /\ Fairness

-----------------------------------------------------------------------------
(* IsRunning "Returns true iff the processing was started but not yet      *)
(* completed nor stopped" (action_processor.h), in particular while the    *)
(* processor is suspended between two actions and has no current action.   *)
RunningIffSessionOpen == IsRunning <=> session.told = "running"

(* An action that was queued when another one failed is never performed,   *)
(* even if the processor was suspended at the time and is resumed later,   *)
(* or more actions are enqueued before it is resumed.                      *)
NothingRunsAfterFailure ==
    /\ current # NoAction => current > failedUpTo
    /\ \A i \in 1..Len(actions) : actions[i] > failedUpTo

(* ProcessingDone is called with "the exit code of the last completed      *)
(* action" (action_processor.h), also when ResumeProcessing makes the call *)
(* long after that action completed.                                       *)
DoneReportsLastCode == session.told = "done" => session.code = lastCode

(* Processing that was started ends, unless it is suspended again and      *)
(* again: the delegate hears ProcessingDone or ProcessingStopped.          *)
SessionEnds == <>[]~suspended => (session.told = "running" ~> session.told # "running")

(* What ties the saved code to the last completion: while the processor is *)
(* suspended without a current action, the saved code is the last one.     *)
SavedCodeIsLast ==
    suspended /\ current = NoAction => suspendedErrorCode = lastCode

(* Queued and current actions are among those enqueued so far.             *)
QueueBelowEnqueued ==
    /\ failedUpTo <= enqueued
    /\ current # NoAction => current <= enqueued
    /\ \A i \in 1..Len(actions) : actions[i] <= enqueued

IInv ==
    /\ TypeOK
    /\ RunningIffSessionOpen
    /\ NothingRunsAfterFailure
    /\ DoneReportsLastCode
    /\ SavedCodeIsLast
    /\ QueueBelowEnqueued
=============================================================================
