----------------------------- MODULE ActionHost -----------------------------
(***************************************************************************)
(* The main thread that runs the actions of an ActionProcessor.  call      *)
(* names the call the thread is inside of; while it is not "none" no task, *)
(* callback or request is handled.  An action calls ActionComplete last,   *)
(* and the processor then calls PerformAction of the next action.          *)
(***************************************************************************)
EXTENDS ActionProcessor

VARIABLES
    call,
    outcome     \* the code of the last action to complete, or how it was ended

hostVars == <<procVars, call, outcome>>

Perform == IF current' # NoAction THEN "PerformAction" ELSE "none"

(* processor_->ActionComplete(this, code).                                 *)
Complete(code) == ActionComplete(code) /\ call' = Perform /\ outcome' = code

(* The thread is inside method of the current action a; a is waiting for a *)
(* task or a callback of its own; the method returns without completing.   *)
Inside(a, method) == current = a /\ call = method
Waiting(a) == current = a /\ call = "none"
Calls(method) == call' = method /\ UNCHANGED <<procVars, outcome>>
Return == Calls("none")
=============================================================================
