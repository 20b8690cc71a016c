----------------------- MODULE ActionProcessorProofs -----------------------
(***************************************************************************)
(* Proofs about ActionProcessorClient, for every number of actions and     *)
(* every set of error codes: IInv is an inductive invariant, and the       *)
(* properties the model checker examines follow from it.                   *)
(***************************************************************************)
EXTENDS ActionProcessorClient, TLAPS

USE DEF Notices

(* What taking the front off a queue leaves: a shorter queue, each entry   *)
(* of which was an entry before.                                           *)
LEMMA FrontOfQueue ==
    ASSUME NEW S, NEW q \in Seq(S), q # << >>
    PROVE  /\ Head(q) \in S
           /\ Head(q) = q[1]
           /\ 1 \in 1..Len(q)
           /\ Tail(q) \in Seq(S)
           /\ \A i \in 1..Len(Tail(q)) :
                 /\ i + 1 \in 1..Len(q)
                 /\ Tail(q)[i] = q[i + 1]
  OBVIOUS

(* The empty queue is a queue and has no entries.                          *)
LEMMA EmptyQueue ==
    ASSUME NEW S
    PROVE  << >> \in Seq(S) /\ \A i \in 1..Len(<< >>) : FALSE
  OBVIOUS

(* The front of the queue is performed or the queue was empty: the new     *)
(* current action and the new queue come from the old queue.               *)
LEMMA StartNextFromQueue ==
    ASSUME NEW q \in Seq(Actions), StartNextActionOrFinish(q)
    PROVE  /\ actions' \in Seq(Actions)
           /\ current' \in Actions \cup {NoAction}
           /\ current' # NoAction => \E i \in 1..Len(q) : current' = q[i]
           /\ \A j \in 1..Len(actions') : \E i \in 1..Len(q) : actions'[j] = q[i]
  <1>1. CASE q = << >>
    BY <1>1 DEF StartNextActionOrFinish
  <1>2. CASE q # << >>
    <2>1. current' = Head(q) /\ actions' = Tail(q)
      BY <1>2 DEF StartNextActionOrFinish, PerformFront
    <2> QED BY <2>1, <1>2, FrontOfQueue
  <1> QED BY <1>1, <1>2

(* Bounds on the entries of the queue carry over to what is started.       *)
LEMMA StartNextKeepsBounds ==
    ASSUME NEW q \in Seq(Actions), NEW lo, NEW hi, StartNextActionOrFinish(q),
           \A i \in 1..Len(q) : q[i] > lo /\ q[i] <= hi
    PROVE  /\ current' # NoAction => current' > lo /\ current' <= hi
           /\ \A i \in 1..Len(actions') : actions'[i] > lo /\ actions'[i] <= hi
  <1>1. /\ current' # NoAction => \E i \in 1..Len(q) : current' = q[i]
        /\ \A j \in 1..Len(actions') : \E i \in 1..Len(q) : actions'[j] = q[i]
    BY StartNextFromQueue
  <1> QED BY <1>1

(* The initial state satisfies the inductive invariant.                    *)
LEMMA InitIInv == Init => IInv
  <1> SUFFICES ASSUME Init PROVE IInv
    OBVIOUS
  <1> USE MaxActionsAssumption, kSuccessAssumption, NoActionAssumption DEF Init, ProcInit
  <1>1. TypeOK
    <2>1. ProcTypeOK
      BY EmptyQueue, Zenon DEF ProcTypeOK
    <2>2. session \in Notices
      OBVIOUS
    <2> QED BY <2>1, <2>2 DEF TypeOK
  <1>2. NothingRunsAfterFailure /\ QueueBelowEnqueued
    BY EmptyQueue DEF NothingRunsAfterFailure, QueueBelowEnqueued
  <1>3. RunningIffSessionOpen /\ DoneReportsLastCode /\ SavedCodeIsLast
    BY DEF RunningIffSessionOpen, IsRunning, DoneReportsLastCode, SavedCodeIsLast
  <1> QED BY <1>1, <1>2, <1>3 DEF IInv

(* Every step of the processor, of its client and of its actions preserves *)
(* the inductive invariant.                                                *)
LEMMA NextIInv == IInv /\ [Next]_vars => IInv'
  <1> SUFFICES ASSUME IInv, [Next]_vars PROVE IInv'
    OBVIOUS
  <1> USE MaxActionsAssumption, kSuccessAssumption, NoActionAssumption, ActionsAssumption
  <1> USE DEF IInv, TypeOK, ProcTypeOK, IsRunning
  <1>1. CASE Enqueue
    <2>1. /\ enqueued' = enqueued + 1 /\ enqueued' \in 1..MaxActions
          /\ actions' = Append(actions, enqueued')
          /\ UNCHANGED <<current, suspended, suspendedErrorCode, lastCode, failedUpTo, session>>
      BY <1>1 DEF Enqueue, EnqueueAction
    <2>2. /\ actions' \in Seq(Actions)
          /\ \A i \in 1..Len(actions') :
                (i \in 1..Len(actions) /\ actions'[i] = actions[i]) \/ actions'[i] = enqueued'
      BY <2>1
    <2>3. NothingRunsAfterFailure'
      BY <2>1, <2>2 DEF NothingRunsAfterFailure, QueueBelowEnqueued
    <2>4. QueueBelowEnqueued'
      BY <2>1, <2>2 DEF QueueBelowEnqueued
    <2> QED BY <2>1, <2>2, <2>3, <2>4 DEF RunningIffSessionOpen, DoneReportsLastCode, SavedCodeIsLast
  <1>2. CASE Start
    <2>1. /\ StartNextActionOrFinish(actions)
          /\ current' = Head(actions) /\ actions # << >>
          /\ UNCHANGED <<suspended, suspendedErrorCode, enqueued, lastCode, failedUpTo>>
          /\ session' = [told |-> "running", code |-> session.code]
      BY <1>2 DEF Start, StartProcessing, StartNextActionOrFinish, PerformFront
    <2>2. /\ actions' \in Seq(Actions)
          /\ \E i \in 1..Len(actions) : current' = actions[i]
          /\ \A j \in 1..Len(actions') : \E i \in 1..Len(actions) : actions'[j] = actions[i]
      BY <2>1, StartNextFromQueue, FrontOfQueue
    <2>3. NothingRunsAfterFailure' /\ QueueBelowEnqueued'
      BY <2>1, <2>2, Zenon DEF NothingRunsAfterFailure, QueueBelowEnqueued
    <2>4. current' \in Actions
      BY <2>2
    <2> QED BY <2>1, <2>2, <2>3, <2>4 DEF RunningIffSessionOpen, DoneReportsLastCode, SavedCodeIsLast
  <1>3. CASE Stop
    <2>1. NothingRunsAfterFailure' /\ QueueBelowEnqueued' /\ actions' \in Seq(Actions)
      BY <1>3, EmptyQueue
      DEF Stop, StopProcessing, NothingRunsAfterFailure, QueueBelowEnqueued
    <2> QED BY <1>3, <2>1, Zenon
        DEF Stop, StopProcessing, RunningIffSessionOpen, DoneReportsLastCode, SavedCodeIsLast
  <1>4. CASE Suspend
    BY <1>4 DEF Suspend, SuspendProcessing, clientVars, RunningIffSessionOpen,
         NothingRunsAfterFailure, DoneReportsLastCode, SavedCodeIsLast, QueueBelowEnqueued
  <1>5. CASE Resume
    <2> USE <1>5 DEF Resume, ResumeProcessing, NotifyIfDone
    <2>1. CASE current # NoAction
      BY <2>1, Zenon DEF RunningIffSessionOpen, NothingRunsAfterFailure,
           DoneReportsLastCode, SavedCodeIsLast, QueueBelowEnqueued
    <2>2. CASE current = NoAction
      <3>1. StartNextActionOrFinish(actions) /\ suspended' = FALSE /\ suspended
        BY <2>2
      <3>2. NothingRunsAfterFailure' /\ QueueBelowEnqueued'
        <4>1. UNCHANGED <<enqueued, failedUpTo>>
          OBVIOUS
        <4>2. \A i \in 1..Len(actions) : actions[i] > failedUpTo /\ actions[i] <= enqueued
          BY DEF NothingRunsAfterFailure, QueueBelowEnqueued
        <4>3. /\ current' # NoAction => current' > failedUpTo /\ current' <= enqueued
              /\ \A i \in 1..Len(actions') : actions'[i] > failedUpTo /\ actions'[i] <= enqueued
          BY <3>1, <4>2, StartNextKeepsBounds, Zenon
        <4> QED BY <4>1, <4>3 DEF NothingRunsAfterFailure, QueueBelowEnqueued
      <3>3. TypeOK'
        BY <3>1, StartNextFromQueue, Zenon
      <3>4. RunningIffSessionOpen' /\ DoneReportsLastCode'
        BY <3>1, <2>2 DEF RunningIffSessionOpen, DoneReportsLastCode, SavedCodeIsLast
      <3> QED BY <3>1, <3>2, <3>3, <3>4 DEF SavedCodeIsLast
    <2> QED BY <2>1, <2>2
  <1>6. ASSUME NEW code \in ErrorCodes, Complete(code) PROVE IInv'
    <2> DEFINE queue == IF code = kSuccess THEN actions ELSE << >>
    <2> USE <1>6 DEF Complete, ActionComplete, NotifyIfDone
    <2>1. /\ queue \in Seq(Actions)
          /\ \A i \in 1..Len(queue) : queue[i] > failedUpTo' /\ queue[i] <= enqueued'
          /\ failedUpTo' \in 0..MaxActions /\ failedUpTo' <= enqueued'
      <3>1. CASE code = kSuccess
        BY <3>1 DEF NothingRunsAfterFailure, QueueBelowEnqueued
      <3>2. CASE code # kSuccess
        BY <3>2, EmptyQueue
      <3> QED BY <3>1, <3>2
    <2>2. CASE suspended
      <3>1. /\ actions' = queue /\ current' = NoAction /\ suspended' = TRUE
            /\ suspendedErrorCode' = code /\ lastCode' = code /\ session' = session
        BY <2>2
      <3> HIDE DEF queue
      <3> QED BY <2>1, <2>2, <3>1 DEF RunningIffSessionOpen, NothingRunsAfterFailure,
                DoneReportsLastCode, SavedCodeIsLast, QueueBelowEnqueued
    <2>3. CASE ~suspended
      <3>1. /\ StartNextActionOrFinish(queue) /\ suspended' = FALSE /\ current # NoAction
            /\ suspendedErrorCode' = suspendedErrorCode /\ lastCode' = code /\ enqueued' = enqueued
            /\ session' = IF IsRunning' THEN session ELSE [told |-> "done", code |-> code]
        BY <2>3
      <3> HIDE DEF queue
      <3>2. NothingRunsAfterFailure' /\ QueueBelowEnqueued'
        <4>1. /\ current' # NoAction => current' > failedUpTo' /\ current' <= enqueued'
              /\ \A i \in 1..Len(actions') : actions'[i] > failedUpTo' /\ actions'[i] <= enqueued'
          BY <2>1, <3>1, StartNextKeepsBounds, Zenon
        <4> QED BY <2>1, <4>1 DEF NothingRunsAfterFailure, QueueBelowEnqueued
      <3>3. TypeOK'
        BY <2>1, <3>1, StartNextFromQueue
      <3>4. RunningIffSessionOpen' /\ DoneReportsLastCode' /\ SavedCodeIsLast'
        BY <3>1 DEF RunningIffSessionOpen, DoneReportsLastCode, SavedCodeIsLast
      <3> QED BY <3>2, <3>3, <3>4
    <2> QED BY <2>2, <2>3
  <1>7. CASE UNCHANGED vars
    BY <1>7 DEF vars, procVars, clientVars, RunningIffSessionOpen,
         NothingRunsAfterFailure, DoneReportsLastCode, SavedCodeIsLast, QueueBelowEnqueued
  <1> QED BY <1>1, <1>2, <1>3, <1>4, <1>5, <1>6, <1>7 DEF Next

(* The strengthened invariant holds in every reachable state.              *)
THEOREM Invariance == Spec => []IInv
  BY InitIInv, NextIInv, PTL DEF Spec

(* Type correctness of ActionProcessor under any client.                   *)
THEOREM TypeCorrect == Spec => []TypeOK
  <1>1. IInv => TypeOK BY DEF IInv
  <1> QED BY Invariance, <1>1, PTL

(* IsRunning is exact: started, and neither completed nor stopped.         *)
THEOREM RunningIsExact == Spec => []RunningIffSessionOpen
  <1>1. IInv => RunningIffSessionOpen BY DEF IInv
  <1> QED BY Invariance, <1>1, PTL

(* No action queued at the time of a failure is ever performed.            *)
THEOREM FailureEmptiesQueue == Spec => []NothingRunsAfterFailure
  <1>1. IInv => NothingRunsAfterFailure BY DEF IInv
  <1> QED BY Invariance, <1>1, PTL

(* ProcessingDone reports the code of the action that completed last.      *)
THEOREM DoneIsAccurate == Spec => []DoneReportsLastCode
  <1>1. IInv => DoneReportsLastCode BY DEF IInv
  <1> QED BY Invariance, <1>1, PTL
=============================================================================
