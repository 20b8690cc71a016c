--------------------------- MODULE UpdateManager ---------------------------
(***************************************************************************)
(* The asynchronous policy requests of the update manager, and the         *)
(* variable ForcedUpdateRequested that UpdateAttempter sets.  The record m *)
(* has the fields                                                          *)
(*   requests  one entry per EvaluationContext whose callback has not run: *)
(*             "posted", its evaluation is in the message loop, or         *)
(*             "waiting", it observes the variables it has read and has a  *)
(*             timeout (UpdateCheckAllowed always reads one with a poll    *)
(*             interval);                                                  *)
(*   forced    the value of ForcedUpdateRequested;                         *)
(*   notified  OnValueChangedNotification of that variable is posted.      *)
(* The timeout of a poll interval and that of the expiration both lead to  *)
(* an evaluation, and EvaluatePolicy starts by resetting the expiration,   *)
(* so they are one event here.                                             *)
(***************************************************************************)
EXTENDS Integers, Sequences

ForcedValues == {"none", "interactive", "periodic"}

NewManager == [requests |-> <<>>, forced |-> "none", notified |-> FALSE]

AsyncPolicyRequest(m) == [m EXCEPT !.requests = Append(@, "posted")]

HasObserver(m) == \E i \in DOMAIN m.requests : m.requests[i] = "waiting"

(* ForcedUpdateRequestedVariable::Reset, with NotifyValueChanged.          *)
ResetForced(m, value) ==
    [m EXCEPT !.forced = value,
              !.notified = @ \/ (m.forced # value /\ HasObserver(m))]

(* The policy UpdateCheckAllowed: what a request that is evaluated now may *)
(* answer.  A policy that fails gives way to the default one, which        *)
(* answers by a clock of its own: it allows a check, or would wait, which  *)
(* EvaluatePolicy turns into a failure.                                    *)
UpdateCheckAllowed(m, enabled, due) ==
    IF ~enabled THEN {"disabled"}
    ELSE IF m.forced # "none" THEN {m.forced}
    ELSE IF due THEN {"periodic"}
    ELSE {"askMeAgainLater"}

DefaultUpdateCheckAllowed == {"periodic", "failed"}

(* The context of request i arms its observers and its timeout.            *)
RunOnValueChangeOrTimeout(m, i) == [m EXCEPT !.requests[i] = "waiting"]

(* The callback of request i is about to run: its context is released.     *)
Answered(m, i) ==
    [m EXCEPT !.requests = SubSeq(@, 1, i - 1) \o SubSeq(@, i + 1, Len(@))]
=============================================================================
