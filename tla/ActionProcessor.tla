--------------------------- MODULE ActionProcessor ---------------------------
(***************************************************************************)
(* ActionProcessor (common/action_processor.{h,cc}): runs a queue of       *)
(* actions one after the other.  Its methods are called on the daemon's    *)
(* message loop only, so each is one atomic step.  The operators below are *)
(* the methods as actions on the four fields of the class; a module that   *)
(* EXTENDS this one adds the caller, the actions and the delegate.         *)
(***************************************************************************)
EXTENDS Naturals, Sequences

CONSTANTS
    Actions,        \* the action objects
    NoAction,       \* nullptr
    ErrorCodes,     \* the codes an action may complete with
    kSuccess        \* the one code that lets the queue go on

ASSUME NoActionAssumption == NoAction \notin Actions
ASSUME kSuccessAssumption == kSuccess \in ErrorCodes

VARIABLES
    actions,            \* actions_: queued actions, front first
    current,            \* current_action_
    suspended,          \* suspended_
    suspendedErrorCode  \* suspended_error_code_

procVars == <<actions, current, suspended, suspendedErrorCode>>

ProcTypeOK ==
    /\ actions \in Seq(Actions)
    /\ current \in Actions \cup {NoAction}
    /\ suspended \in BOOLEAN
    /\ suspendedErrorCode \in ErrorCodes

ProcInit ==
    /\ actions = << >>
    /\ current = NoAction
    /\ suspended = FALSE
    /\ suspendedErrorCode = kSuccess

IsRunning == current # NoAction \/ suspended

EnqueueAction(a) ==
    /\ actions' = Append(actions, a)
    /\ UNCHANGED <<current, suspended, suspendedErrorCode>>

EnqueueActions(s) ==
    /\ actions' = actions \o s
    /\ UNCHANGED <<current, suspended, suspendedErrorCode>>

(* The front of the queue becomes the current action and PerformAction is  *)
(* called on it.                                                           *)
PerformFront(queue) == current' = Head(queue) /\ actions' = Tail(queue)

(* With an empty queue the delegate's ProcessingDone is called instead.    *)
StartNextActionOrFinish(queue) ==
    \/ queue = << >> /\ actions' = queue /\ current' = NoAction
    \/ queue # << >> /\ PerformFront(queue)

(* CHECK(!IsRunning()) is a precondition.  With an empty queue the call    *)
(* does nothing at all, and the delegate is not told.                      *)
StartProcessing ==
    /\ ~IsRunning
    /\ actions # << >>
    /\ PerformFront(actions)
    /\ UNCHANGED <<suspended, suspendedErrorCode>>

(* Faulty variant: the suspension outlives the processing.                 *)
StopProcessingStaysSuspended ==
    /\ IsRunning
    /\ current' = NoAction
    /\ actions' = << >>
    /\ UNCHANGED <<suspended, suspendedErrorCode>>

(* TerminateProcessing is called on the current action, if there is one;   *)
(* the queue is dropped before the delegate's ProcessingStopped.           *)
StopProcessing ==
    /\ IsRunning
    /\ current' = NoAction
    /\ suspended' = FALSE
    /\ actions' = << >>
    /\ UNCHANGED suspendedErrorCode

(* SuspendAction is called on the current action.                          *)
SuspendProcessing ==
    /\ ~suspended
    /\ current # NoAction
    /\ suspended' = TRUE
    /\ UNCHANGED <<actions, current, suspendedErrorCode>>

(* ResumeAction is called on the current action, or, when that action has  *)
(* completed while suspended, its stored code is acted upon now.           *)
ResumeProcessing ==
    /\ suspended
    /\ suspended' = FALSE
    /\ \/ current # NoAction /\ UNCHANGED <<actions, current>>
       \/ current = NoAction /\ StartNextActionOrFinish(actions)
    /\ UNCHANGED suspendedErrorCode

(* Faulty variants of ActionComplete: the queue is only emptied on the way *)
(* that starts the next action; the code is not saved; the action is saved *)
(* instead of the code; current_action_ is not reset before the end.       *)
ActionCompleteKeepsQueue(code) ==
    /\ current # NoAction
    /\ \/ suspended /\ suspendedErrorCode' = code /\ current' = NoAction /\ UNCHANGED actions
       \/ /\ ~suspended
          /\ StartNextActionOrFinish(IF code = kSuccess THEN actions ELSE << >>)
          /\ UNCHANGED suspendedErrorCode
    /\ UNCHANGED suspended

ActionCompleteForgetsCode(code) ==
    LET queue == IF code = kSuccess THEN actions ELSE << >> IN
    /\ current # NoAction
    /\ \/ suspended /\ actions' = queue /\ current' = NoAction
       \/ ~suspended /\ StartNextActionOrFinish(queue)
    /\ UNCHANGED <<suspended, suspendedErrorCode>>

ActionCompleteKeepsCurrent(code) ==
    LET queue == IF code = kSuccess THEN actions ELSE << >> IN
    /\ current # NoAction
    /\ \/ queue = << >> /\ actions' = queue /\ UNCHANGED current
       \/ queue # << >> /\ PerformFront(queue)
    /\ UNCHANGED <<suspended, suspendedErrorCode>>

(* The current action reports its code.  A failure empties the queue.      *)
(* While suspended nothing is started and nothing is reported as done.     *)
ActionComplete(code) ==
    LET queue == IF code = kSuccess THEN actions ELSE << >> IN
    /\ current # NoAction
    /\ \/ /\ suspended
          /\ suspendedErrorCode' = code
          /\ actions' = queue
          /\ current' = NoAction
       \/ /\ ~suspended
          /\ StartNextActionOrFinish(queue)
          /\ UNCHANGED suspendedErrorCode
    /\ UNCHANGED suspended
=============================================================================
