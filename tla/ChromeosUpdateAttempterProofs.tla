------------------- MODULE ChromeosUpdateAttempterProofs -------------------
(***************************************************************************)
(* That ChromeOS never boots a slot that is half written, if it can mark   *)
(* it; asks for a reboot only when there is something to boot into; never  *)
(* stops checking for updates; and never takes a URL or a package that is  *)
(* not there: for every response of the server, every URL, policy, bound   *)
(* and number of failures, and, but for the reboot, with the rollbacks     *)
(* that the code does not guard against.                                   *)
(***************************************************************************)
EXTENDS ChromeosUpdateAttempter, FiniteSetTheorems, WellFoundedInduction, TLAPS

Fields ==
    {"status", "waiting", "phase", "delegate", "fake", "interactive", "install", "dlc",
     "bytes", "aborted", "completed", "deltaFailures", "requests", "forced", "notified"}

(* s is a record of the attempter.                                         *)
Fielded(s) ==
    /\ s = [f \in Fields |-> s[f]]
    /\ {s.install, s.dlc, s.fake, s.completed, s.delegate} \subseteq BOOLEAN
    /\ s.forced \in ForcedValues

(* t differs from s in no field that the invariant speaks of.              *)
Agree(s, t) ==
    /\ t.status = s.status /\ t.phase = s.phase /\ t.dlc = s.dlc /\ t.install = s.install
    /\ t.fake = s.fake /\ t.completed = s.completed /\ t.delegate = s.delegate

SlotType == [active : {"current", "new"}, bootable : BOOLEAN, whole : BOOLEAN, firmware : BOOLEAN]

Attempt == {"check", "lookup", "download", "install", "report"}

(* The status tells what the processor runs.                               *)
StatusInv(s) ==
    /\ s.phase \in {"idle", "ping"} <=> s.status \in {"IDLE", "UPDATED_NEED_REBOOT"}
    /\ s.phase = "event" <=> s.status = "REPORTING_ERROR_EVENT"
    /\ s.phase = "rollback" => s.status = "ATTEMPTING_ROLLBACK"
    /\ s.phase \in Attempt => s.status # "ATTEMPTING_ROLLBACK"
    /\ s.phase \in Attempt \union {"idle", "ping", "posted", "event", "rollback"}
    /\ s.completed <=> s.status = "UPDATED_NEED_REBOOT"
    /\ s.phase = "ping" /\ s.completed => ~s.delegate

(* The DownloadAction can mark the slot it writes to.                      *)
Marks == "MarkFails" \notin Undisciplined

(* The state of the other slot, by how far the attempt has come.           *)
SlotInv(s, sl) ==
    /\ Marks /\ sl.bootable => sl.whole
    /\ s.status = "ATTEMPTING_ROLLBACK" => sl.bootable
    /\ Marks /\ s.phase \in {"download", "install"} /\ ~s.dlc => ~sl.bootable
    /\ s.phase = "report" /\ ~s.dlc => sl.active = "new" /\ sl.bootable
    /\ s.phase = "event" /\ s.fake => sl.firmware

(* What was asked for is what is under way, a ping has no delegate, and    *)
(* there is something to reboot into.                                      *)
RebootInv(s, sl) ==
    /\ s.phase \in Attempt \union {"posted"} /\ s.status # "ATTEMPTING_ROLLBACK"
           => s.install = s.dlc
    /\ s.phase = "ping" => ~s.delegate
    /\ s.completed => sl.firmware \/ (sl.active = "new" /\ sl.bootable)

Safe(s, sl) ==
    /\ Fielded(s) /\ StatusInv(s) /\ SlotInv(s, sl)
    /\ Undisciplined = {} => RebootInv(s, sl)

(* What a failing action may make of the slots.                            *)
SlotKept(sl) == sl \in SlotType /\ sl.bootable = slot.bootable /\ sl.whole = slot.whole

Inv ==
    /\ Safe(ua, slot) /\ slot \in SlotType /\ enabled \in BOOLEAN
    /\ ~enabled => ua.phase = "idle" /\ ua.status = "IDLE"

-----------------------------------------------------------------------------
(* ScheduleUpdates only adds a request.                                    *)
LEMMA ScheduleKeeps ==
    ASSUME NEW s, Fielded(s)
    PROVE  Fielded(ScheduleUpdates(s)) /\ Agree(s, ScheduleUpdates(s))
BY Zenon DEF Fielded, Fields, Agree, ScheduleUpdates, AsyncPolicyRequest

(* ResetForced only changes the variable of the update manager.            *)
LEMMA ResetForcedKeeps ==
    ASSUME NEW s, Fielded(s), NEW value \in ForcedValues
    PROVE  Fielded(ResetForced(s, value)) /\ Agree(s, ResetForced(s, value))
BY Zenon DEF Fielded, Fields, Agree, ResetForced

(* A daemon that has just started is idle, or waits for the reboot.        *)
LEMMA StartedIsIdle ==
    ASSUME NEW completed \in BOOLEAN, NEW failures
    PROVE  LET s == Started(completed, failures)
           IN  /\ Fielded(s)
               /\ s.status = IF completed THEN "UPDATED_NEED_REBOOT" ELSE "IDLE"
               /\ s.phase = "idle" /\ s.completed = completed /\ ~s.delegate
<1> DEFINE s == [status |-> IF completed THEN "UPDATED_NEED_REBOOT" ELSE "IDLE",
                 waiting |-> FALSE, phase |-> "idle", delegate |-> FALSE, fake |-> FALSE,
                 interactive |-> FALSE, install |-> FALSE, dlc |-> FALSE, bytes |-> FALSE,
                 aborted |-> FALSE, completed |-> completed, deltaFailures |-> failures,
                 requests |-> NewManager.requests, forced |-> NewManager.forced,
                 notified |-> NewManager.notified]
<1>1. s = [f \in Fields |-> s[f]]
  BY DEF Fields
<1>2. /\ Fielded(s) /\ s.phase = "idle" /\ s.completed = completed /\ ~s.delegate
      /\ s.status = IF completed THEN "UPDATED_NEED_REBOOT" ELSE "IDLE"
  BY <1>1 DEF Fielded, NewManager, ForcedValues
<1>3. Started(completed, failures) = ScheduleUpdates(s)
  BY DEF Started
<1> HIDE DEF s
<1> QED
  BY <1>2, <1>3, ScheduleKeeps DEF Agree

(* What the invariant does not speak of may change.                        *)
LEMMA AgreeKeeps ==
    ASSUME NEW s, NEW t, NEW sl, Safe(s, sl), Fielded(t), Agree(s, t)
    PROVE  Safe(t, sl)
BY DEF Safe, Agree, StatusInv, SlotInv, RebootInv

(* The end of an update, of a DLC installation, or of what is taken for    *)
(* one.                                                                    *)
LEMMA SuccessfulEnds ==
    ASSUME NEW s, Fielded(s), s.phase = "idle"
    PROVE  LET t == Successful(s)
           IN  /\ Fielded(t) /\ t.phase = "idle" /\ t.delegate = s.delegate
               /\ t.status = IF s.install THEN "IDLE" ELSE "UPDATED_NEED_REBOOT"
               /\ t.completed = IF s.install THEN s.completed ELSE TRUE
<1> DEFINE now == [s EXCEPT !.deltaFailures = 0]
           idle == [now EXCEPT !.status = "IDLE"]
           done == [now EXCEPT !.completed = TRUE, !.status = "UPDATED_NEED_REBOOT"]
           after == IF s.install THEN ScheduleUpdates(idle) ELSE ScheduleUpdates(done)
<1>1. Fielded(idle) /\ idle.phase = "idle" /\ idle.status = "IDLE" /\ idle.completed = s.completed
      /\ idle.delegate = s.delegate
  BY Zenon DEF Fielded, Fields
<1>2. Fielded(done) /\ done.phase = "idle" /\ done.status = "UPDATED_NEED_REBOOT" /\ done.completed
      /\ done.delegate = s.delegate
  BY Zenon DEF Fielded, Fields
<1>3. Successful(s) = [after EXCEPT !.install = FALSE]
  BY DEF Successful, ProcessingDoneInstall, ProcessingDoneUpdate
<1>4. /\ Fielded(after) /\ after.phase = "idle" /\ after.delegate = s.delegate
      /\ after.status = IF s.install THEN "IDLE" ELSE "UPDATED_NEED_REBOOT"
      /\ after.completed = IF s.install THEN s.completed ELSE TRUE
  <2> HIDE DEF idle, done
  <2> QED  BY <1>1, <1>2, ScheduleKeeps, ZenonT(60) DEF Agree
<1> HIDE DEF after
<1> QED
  BY <1>3, <1>4, Zenon DEF Fielded, Fields

(* A failed CHECK, or a crash.                                             *)
LEMMA RestartKeeps ==
    ASSUME Inv, NEW p, Restarts(p), UNCHANGED <<slot, enabled>>
    PROVE  Inv'
<1>1. ua.completed \in BOOLEAN
  BY DEF Inv, Safe, Fielded
<1> DEFINE s == Started(ua.completed, ua.deltaFailures)
<1>2. /\ Fielded(s) /\ s.phase = "idle" /\ s.completed = ua.completed /\ ~s.delegate
      /\ s.status = IF ua.completed THEN "UPDATED_NEED_REBOOT" ELSE "IDLE"
  BY <1>1, StartedIsIdle
<1> HIDE DEF s
<1>3. ua' = s
  BY DEF Restarts, s
<1>4. Safe(s, slot)
  BY <1>2 DEF Inv, Safe, StatusInv, SlotInv, RebootInv, Attempt
<1> QED
  BY <1>2, <1>3, <1>4 DEF Inv, Safe, StatusInv

(* A ping is started only for an update that waits for its reboot.         *)
LEMMA PingKeeps ==
    ASSUME NEW s, NEW sl, Safe(s, sl), s.status = "UPDATED_NEED_REBOOT"
    PROVE  Safe(PingOmaha(s), sl)
<1> DEFINE reset == ResetForced(s, "none")
           ping == [reset EXCEPT !.phase = "ping", !.delegate = FALSE]
           t == IF IsRunning(s) THEN s ELSE ping
<1>1. Fielded(reset) /\ Agree(s, reset)
  BY ResetForcedKeeps DEF Safe, ForcedValues
<1> HIDE DEF reset
<1>2. /\ Fielded(ping) /\ ping.phase = "ping" /\ ~ping.delegate /\ ping.status = s.status
      /\ ping.dlc = s.dlc /\ ping.fake = s.fake /\ ping.completed = s.completed
  BY <1>1, Zenon DEF Fielded, Fields, Agree
<1> HIDE DEF ping
<1>3. Safe(ping, sl)
  BY <1>2 DEF Safe, StatusInv, SlotInv, RebootInv, Attempt
<1>4. Safe(t, sl)
  BY <1>3
<1>5. PingOmaha(s) = ScheduleUpdates(t)
  BY DEF PingOmaha, ResetInteractivityFlags, reset, ping
<1> HIDE DEF t
<1> QED
  BY <1>4, <1>5, ScheduleKeeps, AgreeKeeps DEF Safe

(* An attempt starts for what the last client asked for.                   *)
LEMMA BuildKeeps ==
    ASSUME NEW s, NEW sl, Safe(s, sl), s.status = "IDLE", NEW interactive
    PROVE  LET t == BuildUpdateActions(s, interactive)
           IN  Fielded(t) /\ (~t.aborted => Safe(t, sl))
<1> DEFINE t == [s EXCEPT !.delegate = TRUE, !.interactive = interactive, !.dlc = s.install,
                          !.status = "CHECKING_FOR_UPDATE", !.phase = "posted"]
<1>1. Fielded(Abort(s)) /\ Abort(s).aborted
  BY Zenon DEF Abort, Safe, Fielded, Fields
<1>2. BuildUpdateActions(s, interactive) \in {Abort(s), t}
  BY DEF BuildUpdateActions
<1>3. /\ Fielded(t) /\ t.phase = "posted" /\ t.status = "CHECKING_FOR_UPDATE"
      /\ t.dlc = t.install /\ t.completed = s.completed
  BY Zenon DEF Safe, Fielded, Fields
<1> HIDE DEF t
<1>4. Safe(t, sl)
  BY <1>3 DEF Safe, StatusInv, SlotInv, RebootInv, Attempt
<1> QED
  BY <1>1, <1>2, <1>3, <1>4

(* The callback of a policy request that does not abort.                   *)
LEMMA ScheduledKeeps ==
    ASSUME NEW s, NEW sl, Safe(s, sl), NEW answer, NEW paramsOk \in BOOLEAN,
           answer = "disabled" => s.phase = "idle" /\ s.status = "IDLE",
           ~OnUpdateScheduled(s, answer, paramsOk).aborted
    PROVE  Safe(OnUpdateScheduled(s, answer, paramsOk), sl)
<1> DEFINE now == [s EXCEPT !.waiting = FALSE]
           fresh == [now EXCEPT !.fake = FALSE]
           off == [now EXCEPT !.status = "IDLE"]
           interactive == answer = "interactive"
           after == IF answer = "failed" THEN ScheduleUpdates(now)
                    ELSE Update(now, interactive, paramsOk)
<1>1. Fielded(now) /\ Agree(s, now)
  BY Zenon DEF Safe, Fielded, Fields, Agree
<1>2. Safe(now, sl)
  BY <1>1, AgreeKeeps
<1>3. CASE answer = "disabled"
  <2>1. Fielded(off) /\ Agree(s, off)
    BY <1>3, Zenon DEF Safe, Fielded, Fields, Agree
  <2>2. OnUpdateScheduled(s, answer, paramsOk) = off
    BY <1>3 DEF OnUpdateScheduled
  <2> HIDE DEF off
  <2> QED  BY <2>1, <2>2, AgreeKeeps
<1>4. CASE answer # "disabled"
  <2> HIDE DEF now
  <2>1. /\ Fielded(fresh) /\ fresh.status = now.status /\ fresh.phase = now.phase
        /\ fresh.dlc = now.dlc /\ fresh.install = now.install /\ ~fresh.fake
        /\ fresh.completed = now.completed /\ fresh.delegate = now.delegate
    BY <1>1, Zenon DEF Fielded, Fields
  <2> HIDE DEF fresh
  <2>2. Safe(fresh, sl)
    BY <1>2, <2>1 DEF Safe, StatusInv, SlotInv, RebootInv
  <2>3. Fielded(after) /\ (~after.aborted => Safe(after, sl))
    <3>1. CASE answer = "failed"
      BY <3>1, <1>1, <1>2, ScheduleKeeps, AgreeKeeps
    <3>2. CASE answer # "failed" /\ now.status = "UPDATED_NEED_REBOOT"
      BY <3>2, <2>1, <2>2, PingKeeps, Zenon DEF Update, fresh, Safe
    <3>3. CASE answer # "failed" /\ now.status = "IDLE" /\ paramsOk
      BY <3>3, <2>1, <2>2, BuildKeeps, Zenon DEF Update, fresh
    <3>4. CASE answer # "failed" /\ now.status # "UPDATED_NEED_REBOOT"
                                 /\ ~(now.status = "IDLE" /\ paramsOk)
      BY <3>4, <2>1, <2>2 DEF Update, fresh
    <3> QED  BY <3>1, <3>2, <3>3, <3>4
  <2> HIDE DEF after
  <2>4. OnUpdateScheduled(s, answer, paramsOk) =
            IF IsBusyOrUpdateScheduled(after) THEN after ELSE Abort(after)
    BY <1>4 DEF OnUpdateScheduled, after, now
  <2>5. CASE IsBusyOrUpdateScheduled(after)
    BY <2>3, <2>4, <2>5
  <2>6. CASE ~IsBusyOrUpdateScheduled(after)
    BY <2>3, <2>4, <2>6 DEF Abort, Fielded, Fields
  <2> QED  BY <2>5, <2>6
<1> QED
  BY <1>3, <1>4

(* A request is evaluated; s is the attempter, perhaps with a notification *)
(* taken from the message loop.                                            *)
LEMMA AnswersKeeps ==
    ASSUME Inv, NEW s, Fielded(s), Agree(ua, s), NEW i, NEW answer, NEW paramsOk \in BOOLEAN,
           answer = "disabled" => ~enabled, ~enabled => answer = "disabled",
           Answers(s, i, answer, paramsOk), UNCHANGED <<slot, enabled>>
    PROVE  Inv'
<1> DEFINE heard == Answered(s, i)
           after == OnUpdateScheduled(heard, answer, paramsOk)
<1>1. Fielded(heard) /\ Agree(ua, heard)
  BY Zenon DEF Answered, Fielded, Fields, Agree
<1> HIDE DEF heard
<1>2. Safe(heard, slot)
  BY <1>1, AgreeKeeps DEF Inv
<1>3. answer = "disabled" => heard.phase = "idle" /\ heard.status = "IDLE"
  BY <1>1 DEF Inv, Agree
<1>4. ~after.aborted => Safe(after, slot)
  BY <1>2, <1>3, ScheduledKeeps
<1>5. ~enabled => after.phase = "idle" /\ after.status = "IDLE"
  BY <1>1, <1>3 DEF OnUpdateScheduled, Fielded, Fields
<1> HIDE DEF after
<1>6. PICK p \in CalculateUpdateParams(s, payload, answer) :
          IF after.aborted THEN Restarts(p) ELSE ua' = after
  BY DEF Answers, after, heard
<1>7. CASE after.aborted
  BY <1>6, <1>7, RestartKeeps
<1>8. CASE ~after.aborted
  BY <1>4, <1>5, <1>6, <1>8 DEF Inv
<1> QED
  BY <1>7, <1>8

(* A request that waits on only changes its entry.                         *)
LEMMA ReadyKeeps ==
    ASSUME Inv, NEW s, Fielded(s), Agree(ua, s), NEW i,
           OnPolicyReadyToEvaluate(s, i), UNCHANGED <<slot, enabled>>
    PROVE  Inv'
<1>1. PICK answer \in UpdateCheckAllowed(s, enabled, due) :
          IF answer = "askMeAgainLater" THEN ua' = RunOnValueChangeOrTimeout(s, i)
          ELSE Answers(s, i, answer, TRUE)
  BY Zenon DEF OnPolicyReadyToEvaluate
<1>2. CASE answer = "askMeAgainLater"
  <2>1. Fielded(ua') /\ Agree(ua, ua')
    BY <1>1, <1>2 DEF RunOnValueChangeOrTimeout, Fielded, Fields, Agree
  <2> QED  BY <2>1, AgreeKeeps DEF Inv, Agree
<1>3. CASE answer # "askMeAgainLater"
  <2>1. CASE ~enabled
    BY <1>1, <1>3, <2>1, AnswersKeeps, Zenon DEF UpdateCheckAllowed
  <2>2. CASE enabled /\ answer # "disabled"
    BY <1>1, <1>3, <2>2, AnswersKeeps, Zenon
  <2>3. CASE enabled /\ answer = "disabled"
    BY <1>1, <2>3 DEF UpdateCheckAllowed, Fielded, ForcedValues
  <2> QED  BY <2>1, <2>2, <2>3 DEF Inv
<1> QED
  BY <1>2, <1>3

(* An action of an attempt or of a rollback fails.                         *)
LEMMA FailsKeeps ==
    ASSUME Inv, NEW p, NEW code, NEW sl, SlotKept(sl), FailsLeaving(ua, p, code, sl),
           ua.phase \in Attempt \union {"rollback"}
    PROVE  Inv'
<1> DEFINE marked == MarkDeltaUpdateFailure(ua, code)
           fake == code = "firmwareB"
           quiet == ResetForced(ua, "none")
           nothing == [quiet EXCEPT !.status = "IDLE", !.phase = "idle", !.install = FALSE]
           loud == ResetForced(marked, "none")
           event == [loud EXCEPT !.fake = fake, !.status = "REPORTING_ERROR_EVENT",
                                 !.phase = "event", !.install = FALSE]
<1>1. /\ slot' = [sl EXCEPT !.firmware = fake] /\ enabled' = enabled /\ fake \in BOOLEAN
      /\ ua' = IF code = "noUpdate" THEN ScheduleUpdates(nothing) ELSE event
  BY DEF FailsLeaving, NothingToReport, ScheduleErrorEventAction, ResetInteractivityFlags, device
<1>2. Fielded(ua) /\ ~ua.completed /\ enabled
  BY DEF Inv, Safe, StatusInv, Attempt
<1>3. Fielded(marked) /\ Agree(ua, marked)
  BY <1>2 DEF MarkDeltaUpdateFailure, Fielded, Fields, Agree
<1> HIDE DEF marked
<1>4. Fielded(quiet) /\ Agree(ua, quiet) /\ Fielded(loud) /\ Agree(ua, loud)
  BY <1>2, <1>3, ResetForcedKeeps DEF Agree, ForcedValues
<1> HIDE DEF quiet, loud, fake
<1>5. Fielded(nothing) /\ nothing.status = "IDLE" /\ nothing.phase = "idle" /\ ~nothing.completed
  BY <1>2, <1>4, Zenon DEF Fielded, Fields, Agree
<1>6. /\ Fielded(event) /\ event.status = "REPORTING_ERROR_EVENT" /\ event.phase = "event"
      /\ event.fake = fake /\ ~event.completed
  BY <1>1, <1>2, <1>4, Zenon DEF Fielded, Fields, Agree
<1> HIDE DEF nothing, event
<1>7. slot' \in SlotType /\ slot'.firmware = fake /\ (Marks /\ slot'.bootable => slot'.whole)
  BY <1>1 DEF Inv, Safe, SlotInv, SlotType, SlotKept
<1>8. Safe(nothing, slot') /\ Safe(event, slot')
  BY <1>5, <1>6, <1>7 DEF Safe, StatusInv, SlotInv, RebootInv, Attempt
<1>9. Safe(ScheduleUpdates(nothing), slot')
  BY <1>5, <1>8, ScheduleKeeps, AgreeKeeps
<1> QED
  BY <1>1, <1>2, <1>7, <1>8, <1>9 DEF Inv

-----------------------------------------------------------------------------
(* The evaluations of policy requests.                                     *)
LEMMA RequestsKeep ==
    ASSUME Inv, EvaluatePosted \/ OnTimeout \/ ValueChanged \/ PolicyFails
    PROVE  Inv'
<1> UNCHANGED <<slot, enabled>>
  BY Zenon DEF EvaluatePosted, OnTimeout, ValueChanged, PolicyFails, device
<1>0. Fielded(ua) /\ Agree(ua, ua)
  BY DEF Inv, Safe, Agree
<1>1. CASE EvaluatePosted \/ OnTimeout
  BY <1>0, <1>1, ReadyKeeps DEF EvaluatePosted, OnTimeout
<1>2. CASE ValueChanged
  <2> DEFINE heard == [ua EXCEPT !.notified = FALSE]
  <2>1. Fielded(heard) /\ Agree(ua, heard)
    BY <1>0, Zenon DEF Fielded, Fields, Agree
  <2>2. ua' = heard \/ \E i \in DOMAIN ua.requests : OnPolicyReadyToEvaluate(heard, i)
    BY <1>2, Zenon DEF ValueChanged
  <2> HIDE DEF heard
  <2>3. CASE ua' = heard
    BY <2>1, <2>3, AgreeKeeps DEF Inv, Agree
  <2>4. CASE \E i \in DOMAIN ua.requests : OnPolicyReadyToEvaluate(heard, i)
    BY <2>1, <2>4, ReadyKeeps
  <2> QED  BY <2>2, <2>3, <2>4
<1>3. CASE PolicyFails
  <2>1. PICK i \in DOMAIN ua.requests, answer \in {"periodic", "failed"}, ok \in BOOLEAN :
            enabled /\ Answers(ua, i, answer, ok)
    BY <1>3, Zenon DEF PolicyFails, DefaultUpdateCheckAllowed
  <2> QED  BY <1>0, <2>1, AnswersKeeps
<1> QED
  BY <1>1, <1>2, <1>3

(* A client asks for a check or for a DLC.                                 *)
LEMMA ChecksKeep ==
    ASSUME Inv, CheckForUpdate \/ CheckForInstall
    PROVE  Inv'
<1>1. PICK value \in ForcedValues, install \in BOOLEAN :
          ua' = ResetForced([ScheduleUpdates(ua) EXCEPT !.install = install], value)
  BY Zenon DEF CheckForUpdate, CheckForInstall, ForcedValues
<1>2. ua.status = "IDLE" /\ slot' = slot /\ enabled' = enabled
  BY DEF CheckForUpdate, CheckForInstall, device
<1> DEFINE scheduled == ScheduleUpdates(ua)
           asked == [scheduled EXCEPT !.install = install]
<1>3. Fielded(scheduled) /\ Agree(ua, scheduled)
  BY ScheduleKeeps DEF Inv, Safe
<1> HIDE DEF scheduled
<1>4. /\ Fielded(asked) /\ asked.status = ua.status /\ asked.phase = ua.phase
      /\ asked.completed = ua.completed /\ asked.delegate = ua.delegate
  BY <1>3 DEF Fielded, Fields, Agree
<1>5. ua' = ResetForced(asked, value)
  BY <1>1 DEF scheduled
<1> HIDE DEF asked
<1>6. Safe(asked, slot)
  BY <1>2, <1>4 DEF Inv, Safe, StatusInv, SlotInv, RebootInv, Attempt
<1>7. Fielded(ua') /\ Agree(asked, ua')
  BY <1>4, <1>5, ResetForcedKeeps
<1> QED
  BY <1>2, <1>4, <1>6, <1>7, AgreeKeeps DEF Inv, Agree

(* A client gives up an update that waits for its reboot.                  *)
LEMMA ResetKeeps ==
    ASSUME Inv, ResetStatus
    PROVE  Inv'
<1>1. /\ Fielded(ua') /\ ua'.status = "IDLE" /\ ~ua'.completed /\ ua'.phase = ua.phase
      /\ ua'.delegate = ua.delegate
  BY Zenon DEF ResetStatus, ResetToIdle, Inv, Safe, Fielded, Fields
<1>2. slot' \in SlotType /\ slot'.bootable = slot.bootable /\ slot'.whole = slot.whole
  BY Zenon DEF ResetStatus, Inv, SlotType
<1>3. ua.status = "UPDATED_NEED_REBOOT" /\ enabled' = enabled
  BY DEF ResetStatus, device
<1> QED
  BY <1>1, <1>2, <1>3 DEF Inv, Safe, StatusInv, SlotInv, RebootInv, Attempt

(* A client asks for a rollback.                                           *)
LEMMA RollbackKeeps ==
    ASSUME Inv, Rollback
    PROVE  Inv'
<1> UNCHANGED <<slot, enabled>>
  BY DEF Rollback, device
<1>0. Fielded(ua)
  BY DEF Inv, Safe
<1>1. CASE ~CanRollback
  <2>1. ua' = [ua EXCEPT !.install = FALSE]
    BY <1>1 DEF Rollback
  <2>2. /\ Fielded(ua') /\ ua'.status = ua.status /\ ua'.phase = ua.phase /\ ua'.dlc = ua.dlc
        /\ ua'.fake = ua.fake /\ ua'.completed = ua.completed /\ ua'.delegate = ua.delegate
        /\ ~ua'.install
    BY <1>0, <2>1, Zenon DEF Fielded, Fields
  <2>3. Undisciplined = {} => ~ua.install \/ ua.status = "IDLE"
    BY <1>1 DEF Rollback
  <2> QED  BY <1>0, <2>2, <2>3 DEF Inv, Safe, StatusInv, SlotInv, RebootInv, Attempt, Fielded
<1>2. CASE CanRollback /\ "Partitions" \in Undisciplined
  <2>1. ua' = [[ua EXCEPT !.install = FALSE] EXCEPT !.delegate = TRUE]
    BY <1>2 DEF Rollback
  <2>2. /\ Fielded(ua') /\ ua'.status = "IDLE" /\ ua'.phase = ua.phase /\ ua'.completed = ua.completed
    BY <1>0, <1>2, <2>1, Zenon DEF Fielded, Fields, CanRollback
  <2> QED
    BY <1>2, <2>2 DEF Inv, Safe, StatusInv, SlotInv, Attempt, CanRollback
<1>3. CASE CanRollback /\ "Partitions" \notin Undisciplined /\ IsRunning(ua)
  BY <1>3, RestartKeeps DEF Rollback
<1>4. CASE CanRollback /\ "Partitions" \notin Undisciplined /\ ~IsRunning(ua)
  <2>1. ua' = [[ua EXCEPT !.install = FALSE] EXCEPT
                  !.delegate = TRUE, !.status = "ATTEMPTING_ROLLBACK", !.phase = "posted"]
    BY <1>4 DEF Rollback
  <2>2. /\ Fielded(ua') /\ ua'.status = "ATTEMPTING_ROLLBACK" /\ ua'.phase = "posted"
        /\ ua'.completed = ua.completed
    BY <1>0, <2>1, ZenonT(60) DEF Fielded, Fields
  <2> QED  BY <1>4, <2>2 DEF Inv, Safe, StatusInv, SlotInv, RebootInv, Attempt, CanRollback
<1> QED
  BY <1>1, <1>2, <1>3, <1>4

-----------------------------------------------------------------------------
(* The posted start runs.                                                   *)
LEMMA StartKeeps ==
    ASSUME Inv, StartProcessing
    PROVE  Inv'
<1> DEFINE next == IF ua.status = "ATTEMPTING_ROLLBACK" THEN "rollback" ELSE "check"
<1>1. /\ Fielded(ua') /\ ua'.phase = next /\ ua'.status = ua.status /\ ua'.dlc = ua.dlc
      /\ ua'.install = ua.install /\ ua'.completed = ua.completed
  BY DEF StartProcessing, Inv, Safe, Fielded, Fields
<1>2. ua.phase = "posted" /\ slot' = slot /\ enabled' = enabled
  BY DEF StartProcessing, device
<1> QED
  BY <1>1, <1>2 DEF Inv, Safe, StatusInv, SlotInv, RebootInv, Attempt

(* The actions that end in the error event, or in nothing to report.       *)
LEMMA FailuresKeep ==
    ASSUME Inv,
           \/ UpdateCheckFails \/ ShouldIgnoreUpdate \/ TransferFails \/ WriteFails
           \/ InstallFails \/ RollbackFails \/ SetActiveBootSlotFails
    PROVE  Inv'
<1>1. ua.phase \in Attempt \union {"rollback"}
  BY DEF UpdateCheckFails, ShouldIgnoreUpdate, TransferFails, WriteFails, InstallFails,
         RollbackFails, SetActiveBootSlotFails, Attempt
<1>2. CASE SetActiveBootSlotFails
  <2>1. PICK a \in {"current", "new"} :
            FailsLeaving(ua, payload, "install", [slot EXCEPT !.active = a])
    BY <1>2, Zenon DEF SetActiveBootSlotFails
  <2>2. SlotKept([slot EXCEPT !.active = a])
    BY DEF SlotKept, SlotType, Inv
  <2> QED  BY <1>1, <2>1, <2>2, FailsKeeps
<1>3. CASE ~SetActiveBootSlotFails
  <2>1. \E p, code : FailsLeaving(ua, p, code, slot)
    BY <1>3, Zenon DEF UpdateCheckFails, ShouldIgnoreUpdate, TransferFails, WriteFails, InstallFails,
           RollbackFails, Fails
  <2> QED  BY <1>1, <2>1, FailsKeeps DEF SlotKept, Inv
<1> QED
  BY <1>2, <1>3

(* The end of the check: the slot is marked before anything is written.    *)
LEMMA CompleteKeeps ==
    ASSUME Inv, NEW p, CompleteProcessing(p), ua.phase \in {"check", "lookup"}
    PROVE  Inv'
<1>1. \E q : StartDownload(q) \/ Fails(ua, q, "deferred")
  BY Zenon DEF CompleteProcessing
<1>2. CASE \E q : Fails(ua, q, "deferred")
  BY <1>2, FailsKeeps DEF Attempt, Fails, SlotKept, Inv
<1>3. CASE \E q : StartDownload(q)
  <2>1. PICK marked \in Marked :
            /\ ua' = [ua EXCEPT !.status = "UPDATE_AVAILABLE", !.phase = "download", !.bytes = FALSE]
            /\ slot' = [slot EXCEPT !.firmware = FALSE, !.bootable = @ /\ (ua.dlc \/ ~marked)]
            /\ enabled' = enabled
    BY <1>3, Zenon DEF StartDownload, device
  <2>2. /\ Fielded(ua') /\ ua'.phase = "download" /\ ua'.status = "UPDATE_AVAILABLE"
        /\ ua'.dlc = ua.dlc /\ ua'.install = ua.install /\ ua'.completed = ua.completed
    BY <2>1, Zenon DEF Inv, Safe, Fielded, Fields
  <2>3. /\ slot' \in SlotType /\ slot'.whole = slot.whole
        /\ slot'.bootable <=> slot.bootable /\ (ua.dlc \/ ~marked)
    BY <2>1, Zenon DEF Inv, SlotType
  <2>4. Marks => marked
    BY <2>1 DEF Marked, Marks
  <2> QED
    BY <2>1, <2>2, <2>3, <2>4 DEF Inv, Safe, StatusInv, SlotInv, RebootInv, Attempt
<1> QED
  BY <1>1, <1>2, <1>3

(* The server has an update, and a peer is found or not.                    *)
LEMMA CheckSucceedsKeeps ==
    ASSUME Inv, UpdateCheckSucceeds \/ OnLookupPayloadViaP2PCompleted
    PROVE  Inv'
<1>1. CASE \E p : CompleteProcessing(p)
  BY <1>1, CompleteKeeps DEF UpdateCheckSucceeds, OnLookupPayloadViaP2PCompleted
<1>2. CASE ~\E p : CompleteProcessing(p)
  <2>1. /\ ua.phase = "check" /\ ua' = [ua EXCEPT !.phase = "lookup"]
        /\ slot' = slot /\ enabled' = enabled
    BY <1>2, Zenon DEF UpdateCheckSucceeds, OnLookupPayloadViaP2PCompleted, device
  <2>2. /\ Fielded(ua') /\ ua'.phase = "lookup" /\ ua'.status = ua.status /\ ua'.dlc = ua.dlc
        /\ ua'.install = ua.install /\ ua'.completed = ua.completed
    BY <2>1 DEF Inv, Safe, Fielded, Fields
  <2> QED
    BY <2>1, <2>2 DEF Inv, Safe, StatusInv, SlotInv, RebootInv, Attempt
<1> QED
  BY <1>1, <1>2

(* The first bytes overwrite an image that can no longer be booted.        *)
LEMMA BytesKeep ==
    ASSUME Inv, BytesReceived
    PROVE  Inv'
<1>1. /\ Fielded(ua') /\ ua'.phase = "download" /\ ua'.status = "DOWNLOADING"
      /\ ua'.dlc = ua.dlc /\ ua'.install = ua.install /\ ua'.completed = ua.completed
  BY Zenon DEF BytesReceived, Inv, Safe, Fielded, Fields
<1>2. /\ slot' \in SlotType /\ slot'.bootable = slot.bootable
      /\ slot'.whole <=> slot.whole /\ ua.dlc
  BY Zenon DEF BytesReceived, Inv, SlotType
<1>3. ua.phase = "download" /\ enabled' = enabled
  BY DEF BytesReceived, device
<1> QED
  BY <1>1, <1>2, <1>3 DEF Inv, Safe, StatusInv, SlotInv, RebootInv, Attempt

(* A package is complete.                                                   *)
LEMMA TransferCompleteKeeps ==
    ASSUME Inv, TransferComplete
    PROVE  Inv'
<1>1. /\ ua' = [ua EXCEPT !.bytes = FALSE] \/ ua' = [ua EXCEPT !.phase = "install"]
      /\ ua.phase = "download" /\ slot' = slot /\ enabled' = enabled
  BY Zenon DEF TransferComplete, device
<1>2. /\ Fielded(ua') /\ ua'.phase \in {"download", "install"} /\ ua'.status = ua.status
      /\ ua'.dlc = ua.dlc /\ ua'.install = ua.install /\ ua'.completed = ua.completed
  BY <1>1 DEF Inv, Safe, Fielded, Fields
<1> QED
  BY <1>1, <1>2 DEF Inv, Safe, StatusInv, SlotInv, RebootInv, Attempt

(* Postinstall makes the slot that was written active.                      *)
LEMMA InstallKeeps ==
    ASSUME Inv, InstallSucceeds
    PROVE  Inv'
<1>1. /\ Fielded(ua') /\ ua'.phase = "report" /\ ua'.status = ua.status
      /\ ua'.dlc = ua.dlc /\ ua'.install = ua.install /\ ua'.completed = ua.completed
  BY DEF InstallSucceeds, Inv, Safe, Fielded, Fields
<1>2. /\ slot' \in SlotType
      /\ Marks /\ slot'.bootable => slot'.whole
      /\ ua.dlc \/ (slot'.active = "new" /\ slot'.bootable)
  BY Zenon DEF InstallSucceeds, SetActiveBootSlot, Inv, Safe, SlotInv, SlotType
<1>3. ua.phase = "install" /\ enabled' = enabled
  BY DEF InstallSucceeds, device
<1> QED
  BY <1>1, <1>2, <1>3 DEF Inv, Safe, StatusInv, SlotInv, RebootInv, Attempt

-----------------------------------------------------------------------------
(* The processor ends, and its delegate hears of it.                       *)
LEMMA IdleSuccessful ==
    ASSUME Inv, NEW s, s = [ResetInteractivityFlags(ua) EXCEPT !.phase = "idle"]
    PROVE  /\ Fielded(Successful(s)) /\ Successful(s).phase = "idle"
           /\ Successful(s).status = IF ua.install THEN "IDLE" ELSE "UPDATED_NEED_REBOOT"
           /\ Successful(s).completed = IF ua.install THEN ua.completed ELSE TRUE
<1> DEFINE quiet == ResetForced(ua, "none")
<1>1. Fielded(quiet) /\ Agree(ua, quiet) /\ s = [quiet EXCEPT !.phase = "idle"]
  BY ResetForcedKeeps DEF Inv, Safe, ForcedValues, ResetInteractivityFlags
<1> HIDE DEF quiet
<1>2. Fielded(s) /\ s.phase = "idle" /\ s.install = ua.install /\ s.completed = ua.completed
  BY <1>1, Zenon DEF Fielded, Fields, Agree
<1> QED
  BY <1>2, SuccessfulEnds, Zenon

(* An update, an installation or a rollback is finished.                    *)
LEMMA ReportKeeps ==
    ASSUME Inv, ReportDone \/ RollbackSucceeds
    PROVE  Inv'
<1> DEFINE s == [ResetInteractivityFlags(ua) EXCEPT !.phase = "idle"]
<1>1. ua' = Successful(s) /\ enabled' = enabled
  BY DEF ReportDone, RollbackSucceeds, device
<1>2. /\ Fielded(ua') /\ ua'.phase = "idle" /\ ~ua.completed
      /\ ua'.status = IF ua.install THEN "IDLE" ELSE "UPDATED_NEED_REBOOT"
      /\ ua'.completed = IF ua.install THEN ua.completed ELSE TRUE
  BY <1>1, IdleSuccessful, Zenon DEF Inv, Safe, StatusInv, Attempt, ReportDone, RollbackSucceeds
<1>3. enabled /\ Fielded(ua)
  BY DEF ReportDone, RollbackSucceeds, Inv, Safe
<1>4. CASE ReportDone
  BY <1>1, <1>2, <1>3, <1>4, Zenon
     DEF ReportDone, Inv, Safe, StatusInv, SlotInv, RebootInv, Attempt, Fielded
<1>5. CASE RollbackSucceeds
  <2>1. /\ slot' \in SlotType /\ slot'.active = "new" /\ slot'.bootable
        /\ Marks => slot'.whole
    BY <1>5, Zenon DEF RollbackSucceeds, Inv, Safe, StatusInv, SlotInv, SlotType
  <2> QED
    BY <1>1, <1>2, <1>3, <2>1, Zenon DEF Inv, Safe, StatusInv, SlotInv, RebootInv, Attempt, Fielded
<1> QED
  BY <1>4, <1>5

(* The error event was sent.                                                *)
LEMMA EventKeeps ==
    ASSUME Inv, EventDone
    PROVE  Inv'
<1> DEFINE quiet == ResetForced(ua, "none")
           still == [quiet EXCEPT !.status = "IDLE", !.phase = "idle"]
           idle == ScheduleUpdates(still)
<1>1. Fielded(quiet) /\ Agree(ua, quiet)
  BY ResetForcedKeeps DEF Inv, Safe, ForcedValues
<1>2. ua' = (IF ua.fake THEN Successful(idle) ELSE idle)
  BY DEF EventDone, ErrorEventSent, ResetInteractivityFlags
<1> HIDE DEF quiet
<1>3. /\ Fielded(still) /\ still.status = "IDLE" /\ still.phase = "idle"
      /\ still.completed = ua.completed
  BY <1>1, Zenon DEF Fielded, Fields, Agree
<1> HIDE DEF still
<1>4. /\ Fielded(idle) /\ idle.status = "IDLE" /\ idle.phase = "idle"
      /\ idle.completed = ua.completed
  BY <1>3, ScheduleKeeps DEF Agree
<1> HIDE DEF idle
<1>5. ua.phase = "event" /\ ~ua.completed /\ slot' = slot /\ enabled' = enabled /\ enabled
  BY DEF EventDone, device, Inv, Safe, StatusInv
<1>6. CASE ~ua.fake
  BY <1>2, <1>4, <1>5, <1>6 DEF Inv, Safe, StatusInv, SlotInv, RebootInv, Attempt
<1>7. CASE ua.fake
  <2>1. /\ Fielded(ua') /\ ua'.phase = "idle"
        /\ ua'.status = IF idle.install THEN "IDLE" ELSE "UPDATED_NEED_REBOOT"
        /\ ua'.completed = IF idle.install THEN FALSE ELSE TRUE
    BY <1>2, <1>4, <1>5, <1>7, SuccessfulEnds, ZenonT(60) DEF Fielded
  <2>2. slot.firmware
    BY <1>5, <1>7 DEF Inv, Safe, SlotInv
  <2> QED
    BY <1>5, <2>1, <2>2 DEF Inv, Safe, StatusInv, SlotInv, RebootInv, Attempt
<1> QED
  BY <1>6, <1>7

(* A ping ends; its delegate is there only after a rollback that failed.    *)
LEMMA PingDoneKeeps ==
    ASSUME Inv, PingDone
    PROVE  Inv'
<1>1. ua.phase = "ping" /\ slot' = slot /\ enabled' = enabled /\ enabled
  BY DEF PingDone, device, Inv
<1>2. CASE ~ua.delegate
  <2>1. ua' = [ua EXCEPT !.phase = "idle"]
    BY <1>2 DEF PingDone
  <2>2. /\ Fielded(ua') /\ ua'.phase = "idle" /\ ua'.status = ua.status
        /\ ua'.completed = ua.completed
    BY <2>1 DEF Inv, Safe, Fielded, Fields
  <2> QED
    BY <1>1, <2>2 DEF Inv, Safe, StatusInv, SlotInv, RebootInv, Attempt
<1>3. CASE ua.delegate
  <2> DEFINE idle == [ua EXCEPT !.phase = "idle"]
             s == ResetForced(idle, "none")
  <2>1. ua' = Successful(s)
    BY <1>3 DEF PingDone, ResetInteractivityFlags
  <2>2. /\ Fielded(idle) /\ idle.phase = "idle" /\ idle.install = ua.install
        /\ idle.completed = ua.completed
    BY DEF Inv, Safe, Fielded, Fields
  <2>3. ~ua.completed /\ Undisciplined # {}
    BY <1>1, <1>3 DEF Inv, Safe, StatusInv, RebootInv
  <2> HIDE DEF idle
  <2>4. Fielded(s) /\ Agree(idle, s)
    BY <2>2, ResetForcedKeeps DEF ForcedValues
  <2> HIDE DEF s
  <2>5. /\ Fielded(ua') /\ ua'.phase = "idle"
        /\ ua'.status = IF ua.install THEN "IDLE" ELSE "UPDATED_NEED_REBOOT"
        /\ ua'.completed = IF ua.install THEN ua.completed ELSE TRUE
    BY <2>1, <2>2, <2>4, SuccessfulEnds, ZenonT(60) DEF Agree
  <2> QED
    BY <1>1, <2>3, <2>5, Zenon DEF Inv, Safe, StatusInv, SlotInv, Attempt, Fielded
<1> QED
  BY <1>2, <1>3

-----------------------------------------------------------------------------
(* The invariant holds when the daemon starts.                              *)
LEMMA InitInv == Init => Inv
<1> SUFFICES ASSUME Init PROVE Inv
  OBVIOUS
<1>1. /\ Fielded(ua) /\ ua.status = "IDLE" /\ ua.phase = "idle" /\ ~ua.completed
  BY StartedIsIdle, Zenon DEF Init, Fielded
<1>2. slot \in SlotType /\ slot.bootable /\ slot.whole /\ enabled \in BOOLEAN
  BY DEF Init, NewSlot, SlotType
<1> QED
  BY <1>1, <1>2 DEF Inv, Safe, StatusInv, SlotInv, RebootInv, Attempt

(* Every step keeps the invariant.                                          *)
LEMMA NextInv == Inv /\ [Next]_vars => Inv'
<1> SUFFICES ASSUME Inv, [Next]_vars PROVE Inv'
  OBVIOUS
<1>1. CASE EvaluatePosted \/ OnTimeout \/ ValueChanged \/ PolicyFails
  BY <1>1, RequestsKeep
<1>2. CASE CheckForUpdate \/ CheckForInstall
  BY <1>2, ChecksKeep
<1>3. CASE ResetStatus
  BY <1>3, ResetKeeps
<1>4. CASE Rollback
  BY <1>4, RollbackKeeps
<1>5. CASE StartProcessing
  BY <1>5, StartKeeps
<1>6. CASE \/ UpdateCheckFails \/ ShouldIgnoreUpdate \/ TransferFails \/ WriteFails
           \/ InstallFails \/ RollbackFails \/ SetActiveBootSlotFails
  BY <1>6, FailuresKeep
<1>7. CASE UpdateCheckSucceeds \/ OnLookupPayloadViaP2PCompleted
  BY <1>7, CheckSucceedsKeeps
<1>8. CASE BytesReceived \/ TransferComplete \/ InstallSucceeds
  BY <1>8, BytesKeep, TransferCompleteKeeps, InstallKeeps
<1>9. CASE ReportDone \/ RollbackSucceeds \/ EventDone \/ PingDone
  BY <1>9, ReportKeeps, EventKeeps, PingDoneKeeps
<1>10. CASE Crash
  BY <1>10, RestartKeeps DEF Crash, device
<1>11. CASE UNCHANGED <<ua, slot, enabled>>
  BY <1>11 DEF Inv
<1>12. NextCheckComesDue \/ HalfDayPasses \/ P2PPeriodEnds \/ PolicyChanges \/ UNCHANGED vars
           => UNCHANGED <<ua, slot, enabled>>
  BY DEF NextCheckComesDue, HalfDayPasses, P2PPeriodEnds, PolicyChanges, vars, device
<1> QED
  BY <1>1, <1>2, <1>3, <1>4, <1>5, <1>6, <1>7, <1>8, <1>9, <1>10, <1>11, <1>12, Zenon
     DEF Next, Moves

(* If the DownloadAction can mark the slot it writes to, an image that is  *)
(* only partly written is never booted, not even after the rollbacks that  *)
(* the code does not guard against or a slot switch that fails halfway:    *)
(* the mark comes before the first byte, and only postinstall, of an image *)
(* that was written whole, or a rollback, to a slot that could be booted,  *)
(* makes it bootable again.  The hypothesis is needed, because the code    *)
(* only logs that the slot could not be marked.                            *)
THEOREM NeverBootsPartOfAnImage ==
    ASSUME "MarkFails" \notin Undisciplined
    PROVE  Spec => []BootsWholeImage
<1>1. Inv => BootsWholeImage
  BY DEF Inv, Safe, SlotInv, BootsWholeImage, Marks
<1> QED
  BY <1>1, InitInv, NextInv, PTL DEF Spec

(* If the rollbacks that the code does not guard against do not happen,    *)
(* the client is told to reboot exactly when the marker is set, and there  *)
(* is something to reboot into.                                            *)
THEOREM RebootsIntoSomething ==
    ASSUME Undisciplined = {}
    PROVE  Spec => []RebootPending
<1>1. Inv => RebootPending
  BY DEF Inv, Safe, StatusInv, RebootInv, RebootPending
<1> QED
  BY <1>1, InitInv, NextInv, PTL DEF Spec

-----------------------------------------------------------------------------
(* waiting_for_scheduled_check_ tells of the one request there is, and a   *)
(* request that sleeps will hear of a forced check.                        *)
Asked(s) ==
    /\ {s.waiting, s.notified} \subseteq BOOLEAN
    /\ s.requests \in (IF s.waiting THEN {<<"posted">>, <<"waiting">>} ELSE {<<>>})
    /\ s.forced # "none" /\ s.requests = <<"waiting">> => s.notified

(* t differs from s in no field that Asked speaks of.                      *)
Same(s, t) ==
    /\ t.waiting = s.waiting /\ t.requests = s.requests
    /\ t.forced = s.forced /\ t.notified = s.notified

(* Somebody hears of the end of what runs.                                 *)
Heard(s) == s.phase \notin {"idle", "ping"} => s.delegate

Sched(s) == Fielded(s) /\ Asked(s) /\ Heard(s)

SchedInv ==
    /\ Inv /\ Sched(ua)
    /\ enabled => IsBusyOrUpdateScheduled(ua)

-----------------------------------------------------------------------------
(* Asked is about four fields.                                             *)
LEMMA SameKeeps ==
    ASSUME NEW s, NEW t, Asked(s), Same(s, t)
    PROVE  Asked(t)
BY DEF Asked, Same

(* The observer is the one request, if it waits.                           *)
LEMMA ObserverIsRequest ==
    ASSUME NEW s, Asked(s)
    PROVE  HasObserver(s) <=> s.requests = <<"waiting">>
BY DEF Asked, HasObserver

(* ScheduleUpdates adds a request if there is none and nothing runs.       *)
LEMMA ScheduleAsks ==
    ASSUME NEW s, Fielded(s), Asked(s)
    PROVE  /\ Asked(ScheduleUpdates(s))
           /\ IsBusyOrUpdateScheduled(ScheduleUpdates(s))
<1>1. CASE IsBusyOrUpdateScheduled(s)
  BY <1>1 DEF ScheduleUpdates
<1>2. CASE ~IsBusyOrUpdateScheduled(s)
  <2> DEFINE t == [[s EXCEPT !.requests = Append(s.requests, "posted")] EXCEPT !.waiting = TRUE]
  <2>1. ScheduleUpdates(s) = t
    BY <1>2 DEF ScheduleUpdates, AsyncPolicyRequest
  <2>2. s.requests = <<>>
    BY <1>2 DEF Asked, IsBusyOrUpdateScheduled
  <2>3. Append(s.requests, "posted") = <<"posted">>
    BY <2>2
  <2>4. t.waiting = TRUE /\ t.requests = <<"posted">> /\ t.notified = s.notified
    BY <2>3 DEF Fielded, Fields
  <2> HIDE DEF t
  <2>5. <<"posted">> # <<"waiting">>
    OBVIOUS
  <2> QED  BY <2>1, <2>4, <2>5, Zenon DEF Asked, IsBusyOrUpdateScheduled
<1> QED
  BY <1>1, <1>2

(* A forced check notifies the observer, if there is one.                  *)
LEMMA ResetForcedAsks ==
    ASSUME NEW s, Fielded(s), Asked(s), NEW value
    PROVE  LET t == ResetForced(s, value)
           IN  Asked(t) /\ t.waiting = s.waiting
<1> DEFINE told == s.notified \/ (s.forced # value /\ HasObserver(s))
           t == [s EXCEPT !.forced = value, !.notified = told]
<1>1. /\ told \in BOOLEAN
      /\ s.requests = <<"waiting">> /\ value # "none" => told
  BY ObserverIsRequest DEF Asked
<1>2. ResetForced(s, value) = t
  BY DEF ResetForced
<1> HIDE DEF told
<1>3. /\ t.forced = value /\ t.notified = told /\ t.waiting = s.waiting
      /\ t.requests = s.requests
  BY DEF Fielded, Fields
<1> QED
  BY <1>1, <1>2, <1>3 DEF Asked

(* A daemon that has just started has a request.                           *)
LEMMA StartedAsks ==
    ASSUME NEW completed \in BOOLEAN, NEW failures
    PROVE  LET s == Started(completed, failures)
           IN  Sched(s) /\ IsBusyOrUpdateScheduled(s)
<1> DEFINE s == [status |-> IF completed THEN "UPDATED_NEED_REBOOT" ELSE "IDLE",
                 waiting |-> FALSE, phase |-> "idle", delegate |-> FALSE, fake |-> FALSE,
                 interactive |-> FALSE, install |-> FALSE, dlc |-> FALSE, bytes |-> FALSE,
                 aborted |-> FALSE, completed |-> completed, deltaFailures |-> failures,
                 requests |-> NewManager.requests, forced |-> NewManager.forced,
                 notified |-> NewManager.notified]
<1>1. s = [f \in Fields |-> s[f]]
  BY DEF Fields
<1>2. Fielded(s)
  BY <1>1 DEF Fielded, NewManager, ForcedValues
<1>3. s.waiting = FALSE /\ s.notified = FALSE /\ s.requests = <<>> /\ s.forced = "none"
  BY DEF NewManager
<1>4. Started(completed, failures) = ScheduleUpdates(s)
  BY DEF Started
<1> HIDE DEF s
<1>5. Asked(s)
  BY <1>3, Zenon DEF Asked
<1> QED
  BY <1>2, <1>4, <1>5, ScheduleAsks, StartedIsIdle DEF Sched, Heard

(* A failed CHECK, or a crash.                                             *)
LEMMA RestartAsks ==
    ASSUME SchedInv, Inv', NEW p, Restarts(p)
    PROVE  SchedInv'
<1>1. ua.completed \in BOOLEAN
  BY DEF SchedInv, Sched, Fielded
<1> QED
  BY <1>1, StartedAsks DEF Restarts, SchedInv

-----------------------------------------------------------------------------
(* A ping leaves a request behind.                                         *)
LEMMA PingAsks ==
    ASSUME NEW s, Sched(s)
    PROVE  Sched(PingOmaha(s))
<1> DEFINE reset == ResetForced(s, "none")
           ping == [reset EXCEPT !.phase = "ping", !.delegate = FALSE]
           t == IF IsRunning(s) THEN s ELSE ping
<1>1. Fielded(reset) /\ Asked(reset)
  BY ResetForcedKeeps, ResetForcedAsks DEF Sched, ForcedValues
<1> HIDE DEF reset
<1>2. Fielded(ping) /\ Same(reset, ping) /\ ping.phase = "ping"
  BY <1>1, Zenon DEF Fielded, Fields, Same
<1> HIDE DEF ping
<1>3. Sched(t)
  BY <1>1, <1>2, SameKeeps DEF Sched, Heard
<1>4. PingOmaha(s) = ScheduleUpdates(t)
  BY DEF PingOmaha, ResetInteractivityFlags, reset, ping
<1> HIDE DEF t
<1> QED
  BY <1>3, <1>4, ScheduleAsks, ScheduleKeeps DEF Sched, Heard, Agree

(* The callback of a policy request: s has none any more.                  *)
LEMMA ScheduledAsks ==
    ASSUME NEW s, Fielded(s), Heard(s), s.requests = <<>>, s.notified \in BOOLEAN,
           NEW answer, NEW paramsOk,
           ~OnUpdateScheduled(s, answer, paramsOk).aborted
    PROVE  /\ Sched(OnUpdateScheduled(s, answer, paramsOk))
           /\ answer = "disabled"
                \/ IsBusyOrUpdateScheduled(OnUpdateScheduled(s, answer, paramsOk))
<1> DEFINE now == [s EXCEPT !.waiting = FALSE]
           fresh == [now EXCEPT !.fake = FALSE]
           off == [now EXCEPT !.status = "IDLE"]
           interactive == answer = "interactive"
           built == [fresh EXCEPT !.delegate = TRUE, !.interactive = interactive,
                        !.dlc = fresh.install, !.status = "CHECKING_FOR_UPDATE", !.phase = "posted"]
           after == IF answer = "failed" THEN ScheduleUpdates(now)
                    ELSE Update(now, interactive, paramsOk)
<1>1. /\ Fielded(now) /\ now.waiting = FALSE /\ now.requests = <<>> /\ now.phase = s.phase
      /\ now.delegate = s.delegate /\ now.notified = s.notified
  BY Zenon DEF Fielded, Fields
<1>2. Sched(now)
  BY <1>1 DEF Sched, Asked, Heard
<1>3. CASE answer = "disabled"
  <2>1. OnUpdateScheduled(s, answer, paramsOk) = off
    BY <1>3 DEF OnUpdateScheduled
  <2> HIDE DEF now
  <2>2. Fielded(off) /\ Same(now, off) /\ off.phase = now.phase /\ off.delegate = now.delegate
    BY <1>1 DEF Fielded, Fields, Same
  <2> HIDE DEF off
  <2> QED  BY <1>2, <1>3, <2>1, <2>2, SameKeeps DEF Sched, Heard
<1>4. CASE answer # "disabled"
  <2> HIDE DEF now
  <2>1. /\ Fielded(fresh) /\ Same(now, fresh) /\ fresh.phase = now.phase
        /\ fresh.delegate = now.delegate /\ fresh.status = now.status
    BY <1>1, Zenon DEF Fielded, Fields, Same
  <2> HIDE DEF fresh
  <2>2. Sched(fresh)
    BY <1>2, <2>1, SameKeeps DEF Sched, Heard
  <2>3. Fielded(built) /\ Same(fresh, built) /\ built.delegate = TRUE
    BY <2>1, Zenon DEF Fielded, Fields, Same
  <2> HIDE DEF built
  <2>4. Sched(built)
    BY <2>2, <2>3, SameKeeps DEF Sched, Heard
  <2>5. Fielded(Abort(fresh)) /\ Abort(fresh).aborted
    BY <2>1, Zenon DEF Abort, Fielded, Fields
  <2>6. Fielded(after) /\ (after.aborted \/ Sched(after))
    <3>1. CASE answer = "failed"
      BY <3>1, <1>2, ScheduleAsks, ScheduleKeeps DEF Sched, Heard, Agree
    <3>2. CASE answer # "failed" /\ now.status = "UPDATED_NEED_REBOOT"
      BY <3>2, <2>2, PingAsks DEF Update, fresh, Sched
    <3>3. CASE answer # "failed" /\ now.status = "IDLE" /\ paramsOk
      <4>1. after = BuildUpdateActions(fresh, interactive)
        BY <3>3 DEF Update, fresh
      <4>2. BuildUpdateActions(fresh, interactive) \in {Abort(fresh), built}
        BY DEF BuildUpdateActions, built
      <4> QED  BY <4>1, <4>2, <2>4, <2>5, <2>3
    <3>4. CASE answer # "failed" /\ now.status # "UPDATED_NEED_REBOOT"
                                 /\ ~(now.status = "IDLE" /\ paramsOk)
      BY <3>4, <2>2 DEF Update, fresh, Sched
    <3> QED  BY <3>1, <3>2, <3>3, <3>4
  <2> HIDE DEF after
  <2>7. OnUpdateScheduled(s, answer, paramsOk) =
            IF IsBusyOrUpdateScheduled(after) THEN after ELSE Abort(after)
    BY <1>4 DEF OnUpdateScheduled, after, now
  <2>8. CASE IsBusyOrUpdateScheduled(after)
    BY <2>6, <2>7, <2>8
  <2>9. CASE ~IsBusyOrUpdateScheduled(after)
    BY <2>6, <2>7, <2>9 DEF Abort, Fielded, Fields
  <2> QED  BY <2>8, <2>9
<1> QED
  BY <1>3, <1>4

(* The one request is released before its callback runs.                   *)
LEMMA AnsweredLeavesNone ==
    ASSUME NEW r \in {<<"posted">>, <<"waiting">>}, NEW i \in DOMAIN r
    PROVE  i = 1 /\ SubSeq(r, 1, i - 1) \o SubSeq(r, i + 1, Len(r)) = <<>>
<1>1. i = 1 /\ Len(r) = 1
  OBVIOUS
<1> QED
  BY <1>1

(* A request is evaluated; s is the attempter, perhaps with a notification *)
(* taken from the message loop.                                            *)
LEMMA AnswersAsk ==
    ASSUME SchedInv, Inv', NEW s, Fielded(s), Agree(ua, s), s.requests = ua.requests,
           s.notified \in BOOLEAN, NEW i \in DOMAIN ua.requests, NEW answer, NEW paramsOk,
           answer = "disabled" => ~enabled, enabled' = enabled,
           Answers(s, i, answer, paramsOk)
    PROVE  SchedInv'
<1> DEFINE heard == Answered(s, i)
           after == OnUpdateScheduled(heard, answer, paramsOk)
<1>1. ua.requests \in {<<"posted">>, <<"waiting">>} \/ ua.requests = <<>>
  BY DEF SchedInv, Sched, Asked
<1>2. ua.requests # <<>>
  OBVIOUS
<1>3. SubSeq(s.requests, 1, i - 1) \o SubSeq(s.requests, i + 1, Len(s.requests)) = <<>>
  BY <1>1, <1>2, AnsweredLeavesNone, Zenon
<1>4. /\ Fielded(heard) /\ heard.requests = <<>> /\ heard.notified = s.notified
      /\ heard.phase = ua.phase /\ heard.delegate = ua.delegate
  BY <1>3, Zenon DEF Answered, Fielded, Fields, Agree
<1> HIDE DEF heard
<1>5. Heard(heard)
  BY <1>4 DEF SchedInv, Sched, Heard
<1>6. ~after.aborted =>
          Sched(after) /\ (answer = "disabled" \/ IsBusyOrUpdateScheduled(after))
  BY <1>4, <1>5, ScheduledAsks
<1> HIDE DEF after
<1>7. PICK p \in CalculateUpdateParams(s, payload, answer) :
          IF after.aborted THEN Restarts(p) ELSE ua' = after
  BY DEF Answers, after, heard
<1>8. CASE after.aborted
  BY <1>7, <1>8, RestartAsks
<1>9. CASE ~after.aborted
  BY <1>6, <1>7, <1>9 DEF SchedInv
<1> QED
  BY <1>8, <1>9

(* A request goes to sleep only if no check is forced.                     *)
LEMMA ReadyAsks ==
    ASSUME SchedInv, Inv', NEW s, Fielded(s), Agree(ua, s), s.requests = ua.requests,
           s.waiting = ua.waiting, s.notified \in BOOLEAN, NEW i \in DOMAIN ua.requests,
           OnPolicyReadyToEvaluate(s, i), enabled' = enabled
    PROVE  SchedInv'
<1>1. PICK answer \in UpdateCheckAllowed(s, enabled, due) :
          IF answer = "askMeAgainLater" THEN ua' = RunOnValueChangeOrTimeout(s, i)
          ELSE Answers(s, i, answer, TRUE)
  BY Zenon DEF OnPolicyReadyToEvaluate
<1>2. enabled \in BOOLEAN /\ s.forced \in ForcedValues
  BY DEF SchedInv, Inv, Fielded
<1>3. CASE answer = "askMeAgainLater"
  <2>1. s.forced = "none"
    BY <1>1, <1>2, <1>3 DEF UpdateCheckAllowed, ForcedValues
  <2>2. ua.requests \in {<<"posted">>, <<"waiting">>} /\ ua.waiting
    BY DEF SchedInv, Sched, Asked
  <2>3. [s.requests EXCEPT ![i] = "waiting"] = <<"waiting">>
    BY <2>2, AnsweredLeavesNone
  <2>4. /\ ua'.requests = <<"waiting">> /\ ua'.waiting = ua.waiting /\ ua'.forced = "none"
        /\ ua'.notified = s.notified /\ ua'.phase = ua.phase /\ ua'.delegate = ua.delegate
    BY <1>1, <1>3, <2>1, <2>3 DEF RunOnValueChangeOrTimeout, Fielded, Fields, Agree
  <2> QED
    BY <2>2, <2>4 DEF SchedInv, Inv, Safe, Sched, Asked, Heard, IsBusyOrUpdateScheduled
<1>4. CASE answer # "askMeAgainLater"
  <2>1. answer = "disabled" => ~enabled
    BY <1>1, <1>2 DEF UpdateCheckAllowed, ForcedValues
  <2> QED  BY <1>1, <1>4, <2>1, AnswersAsk, Zenon
<1> QED
  BY <1>3, <1>4

(* The evaluations of policy requests.                                     *)
LEMMA RequestsAsk ==
    ASSUME SchedInv, Inv', EvaluatePosted \/ OnTimeout \/ ValueChanged \/ PolicyFails
    PROVE  SchedInv'
<1>0. /\ Fielded(ua) /\ Agree(ua, ua) /\ ua.notified \in BOOLEAN
      /\ enabled' = enabled
  BY Zenon DEF SchedInv, Sched, Asked, Agree, EvaluatePosted, OnTimeout, ValueChanged, PolicyFails, device
<1>1. CASE EvaluatePosted \/ OnTimeout
  BY <1>0, <1>1, ReadyAsks DEF EvaluatePosted, OnTimeout
<1>2. CASE ValueChanged
  <2> DEFINE heard == [ua EXCEPT !.notified = FALSE]
  <2>1. /\ Fielded(heard) /\ Agree(ua, heard) /\ heard.requests = ua.requests
        /\ heard.waiting = ua.waiting /\ heard.notified = FALSE
    BY <1>0, Zenon DEF Fielded, Fields, Agree
  <2>2. \/ ua' = heard /\ ~HasObserver(ua)
        \/ \E i \in DOMAIN ua.requests : OnPolicyReadyToEvaluate(heard, i)
    BY <1>2, Zenon DEF ValueChanged
  <2> HIDE DEF heard
  <2>3. CASE ua' = heard /\ ~HasObserver(ua)
    <3>1. ua.requests # <<"waiting">>
      BY <2>3, ObserverIsRequest DEF SchedInv, Sched
    <3> QED
      BY <1>0, <2>1, <2>3, <3>1, Zenon DEF SchedInv, Sched, Asked, Heard, Agree, IsBusyOrUpdateScheduled
  <2>4. CASE \E i \in DOMAIN ua.requests : OnPolicyReadyToEvaluate(heard, i)
    BY <1>0, <2>1, <2>4, ReadyAsks, Zenon
  <2> QED  BY <2>2, <2>3, <2>4
<1>3. CASE PolicyFails
  <2>1. PICK i \in DOMAIN ua.requests, answer \in {"periodic", "failed"}, ok \in BOOLEAN :
            Answers(ua, i, answer, ok)
    BY <1>3, Zenon DEF PolicyFails, DefaultUpdateCheckAllowed
  <2> QED  BY <1>0, <2>1, AnswersAsk
<1> QED
  BY <1>1, <1>2, <1>3

-----------------------------------------------------------------------------
(* A client asks for a check or for a DLC.                                 *)
LEMMA ChecksAsk ==
    ASSUME SchedInv, Inv', CheckForUpdate \/ CheckForInstall
    PROVE  SchedInv'
<1>1. PICK value \in ForcedValues, install \in BOOLEAN :
          ua' = ResetForced([ScheduleUpdates(ua) EXCEPT !.install = install], value)
  BY Zenon DEF CheckForUpdate, CheckForInstall, ForcedValues
<1> DEFINE scheduled == ScheduleUpdates(ua)
           asked == [scheduled EXCEPT !.install = install]
<1>2. /\ Fielded(scheduled) /\ Asked(scheduled) /\ IsBusyOrUpdateScheduled(scheduled)
      /\ Agree(ua, scheduled)
  BY ScheduleKeeps, ScheduleAsks DEF SchedInv, Sched
<1> HIDE DEF scheduled
<1>3. Fielded(asked) /\ Same(scheduled, asked) /\ asked.status = ua.status
      /\ asked.phase = ua.phase /\ asked.delegate = ua.delegate
  BY <1>2 DEF Fielded, Fields, Same, Agree
<1>4. ua' = ResetForced(asked, value)
  BY <1>1 DEF scheduled
<1> HIDE DEF asked
<1>5. Asked(asked)
  BY <1>2, <1>3, SameKeeps
<1>6. Fielded(ua') /\ Asked(ua') /\ ua'.waiting = asked.waiting /\ Agree(asked, ua')
  BY <1>3, <1>4, <1>5, ResetForcedKeeps, ResetForcedAsks
<1> QED
  BY <1>2, <1>3, <1>6 DEF SchedInv, Sched, Heard, Same, Agree, IsBusyOrUpdateScheduled

(* An action fails: the attempter is idle, with a request, or sends the    *)
(* event.                                                                  *)
LEMMA FailsAsks ==
    ASSUME SchedInv, Inv', NEW p, NEW code, NEW sl, FailsLeaving(ua, p, code, sl),
           ua.phase \notin {"idle", "ping"}
    PROVE  SchedInv'
<1> DEFINE marked == MarkDeltaUpdateFailure(ua, code)
           fake == code = "firmwareB"
           quiet == ResetForced(ua, "none")
           nothing == [quiet EXCEPT !.status = "IDLE", !.phase = "idle", !.install = FALSE]
           loud == ResetForced(marked, "none")
           event == [loud EXCEPT !.fake = fake, !.status = "REPORTING_ERROR_EVENT",
                                 !.phase = "event", !.install = FALSE]
<1>1. ua' = (IF code = "noUpdate" THEN ScheduleUpdates(nothing) ELSE event) /\ fake \in BOOLEAN
  BY DEF FailsLeaving, NothingToReport, ScheduleErrorEventAction, ResetInteractivityFlags
<1>2. Fielded(ua) /\ Asked(ua) /\ ua.delegate = TRUE
  BY DEF SchedInv, Sched, Heard, Fielded
<1>3. Fielded(marked) /\ Same(ua, marked) /\ marked.delegate = ua.delegate
  BY <1>2 DEF MarkDeltaUpdateFailure, Fielded, Fields, Same
<1> HIDE DEF marked
<1>4. Asked(marked)
  BY <1>2, <1>3, SameKeeps
<1>5. /\ Fielded(quiet) /\ Asked(quiet)
      /\ Fielded(loud) /\ Asked(loud) /\ loud.delegate = TRUE
  BY <1>2, <1>3, <1>4, ResetForcedKeeps, ResetForcedAsks DEF Agree, ForcedValues
<1> HIDE DEF quiet, loud, fake
<1>6. Fielded(nothing) /\ Same(quiet, nothing) /\ nothing.phase = "idle"
  BY <1>5, Zenon DEF Fielded, Fields, Same
<1>7. /\ Fielded(event) /\ Same(loud, event) /\ event.delegate = TRUE
      /\ event.status = "REPORTING_ERROR_EVENT"
  BY <1>1, <1>5, Zenon DEF Fielded, Fields, Same
<1> HIDE DEF nothing, event
<1>8. Asked(nothing) /\ Asked(event)
  BY <1>5, <1>6, <1>7, SameKeeps
<1>9. CASE code = "noUpdate"
  BY <1>1, <1>6, <1>8, <1>9, ScheduleKeeps, ScheduleAsks DEF SchedInv, Sched, Heard, Agree
<1>10. CASE code # "noUpdate"
  BY <1>1, <1>7, <1>8, <1>10 DEF SchedInv, Sched, Heard, IsBusyOrUpdateScheduled
<1> QED
  BY <1>9, <1>10

(* The processor ends, and its delegate schedules the next check.          *)
LEMMA SuccessfulAsks ==
    ASSUME NEW s, Fielded(s), Asked(s), s.phase = "idle"
    PROVE  Sched(Successful(s)) /\ IsBusyOrUpdateScheduled(Successful(s))
<1> DEFINE now == [s EXCEPT !.deltaFailures = 0]
           idle == [now EXCEPT !.status = "IDLE"]
           done == [now EXCEPT !.completed = TRUE, !.status = "UPDATED_NEED_REBOOT"]
           after == IF s.install THEN ScheduleUpdates(idle) ELSE ScheduleUpdates(done)
           end == [after EXCEPT !.install = FALSE]
<1>1. Fielded(idle) /\ Same(s, idle)
  BY Zenon DEF Fielded, Fields, Same
<1>2. Fielded(done) /\ Same(s, done)
  BY Zenon DEF Fielded, Fields, Same
<1>3. Successful(s) = end
  BY DEF Successful, ProcessingDoneInstall, ProcessingDoneUpdate, Fielded, Fields
<1> HIDE DEF idle, done
<1>4. Fielded(after) /\ Asked(after) /\ IsBusyOrUpdateScheduled(after)
  BY <1>1, <1>2, SameKeeps, ScheduleKeeps, ScheduleAsks
<1> HIDE DEF after
<1>5. Fielded(end) /\ Same(after, end) /\ end.status = after.status
  BY <1>4, Zenon DEF Fielded, Fields, Same
<1> HIDE DEF end
<1>6. Asked(end) /\ IsBusyOrUpdateScheduled(end)
  BY <1>4, <1>5, SameKeeps DEF Same, IsBusyOrUpdateScheduled
<1> QED
  BY <1>3, <1>5, <1>6, SuccessfulEnds, Zenon DEF Sched, Heard

(* Steps that change neither the requests nor whether somebody hears.      *)
LEMMA SameAsks ==
    ASSUME SchedInv, Inv', enabled' = enabled, Same(ua, ua'),
           ua'.delegate = TRUE \/ (ua'.phase = ua.phase /\ ua'.delegate = ua.delegate),
           \/ ua.waiting
           \/ ua'.status = ua.status
           \/ ua'.phase \notin {"idle", "ping"}
    PROVE  SchedInv'
<1>1. Fielded(ua') /\ Asked(ua') /\ Heard(ua')
  BY SameKeeps DEF SchedInv, Inv, Safe, Sched, Heard
<1>2. ua'.phase \notin {"idle", "ping"} => ua'.status \notin {"IDLE", "UPDATED_NEED_REBOOT"}
  BY DEF Inv, Safe, StatusInv
<1> QED
  BY <1>1, <1>2 DEF SchedInv, Sched, Same, IsBusyOrUpdateScheduled

(* The client gives up an update, or asks for a rollback.                  *)
LEMMA ClientAsks ==
    ASSUME SchedInv, Inv', ResetStatus \/ Rollback
    PROVE  SchedInv'
<1>0. Fielded(ua) /\ enabled' = enabled
  BY DEF SchedInv, Sched, ResetStatus, Rollback, device
<1>1. CASE ResetStatus
  <2>1. /\ Same(ua, ua') /\ ua'.phase = ua.phase /\ ua'.delegate = ua.delegate
    BY <1>0, <1>1 DEF ResetStatus, ResetToIdle, Fielded, Fields, Same
  <2>2. enabled => ua.waiting
    BY <1>1 DEF ResetStatus, SchedInv, IsBusyOrUpdateScheduled
  <2>3. CASE enabled
    BY <1>0, <2>1, <2>2, <2>3, SameAsks
  <2>4. CASE ~enabled
    BY <1>1, <2>4 DEF ResetStatus, SchedInv, Inv
  <2> QED  BY <2>3, <2>4
<1>2. CASE Rollback
  <2> DEFINE now == [ua EXCEPT !.install = FALSE]
             told == [now EXCEPT !.delegate = TRUE]
             posted == [now EXCEPT !.delegate = TRUE, !.status = "ATTEMPTING_ROLLBACK",
                                   !.phase = "posted"]
  <2>1. ua' \in {now, told, posted} \/ Restarts(payload)
    BY <1>2, Zenon DEF Rollback
  <2>2. CASE ua' \in {now, told}
    <3>1. /\ Same(ua, ua') /\ ua'.phase = ua.phase /\ ua'.status = ua.status
          /\ ua'.delegate = TRUE \/ ua'.delegate = ua.delegate
      BY <1>0, <2>2, Zenon DEF Fielded, Fields, Same
    <3> QED  BY <1>0, <3>1, SameAsks, Zenon
  <2>3. CASE ua' = posted
    <3>1. Same(ua, ua') /\ ua'.phase = "posted" /\ ua'.delegate = TRUE
      BY <1>0, <2>3 DEF Fielded, Fields, Same
    <3> QED  BY <1>0, <3>1, SameAsks, Zenon
  <2>4. CASE Restarts(payload)
    BY <2>4, RestartAsks
  <2> QED  BY <2>1, <2>2, <2>3, <2>4
<1> QED
  BY <1>1, <1>2

(* The steps of an attempt that go well.                                   *)
LEMMA AttemptAsks ==
    ASSUME SchedInv, Inv',
           \/ StartProcessing \/ BytesReceived \/ TransferComplete \/ InstallSucceeds
           \/ \E p : StartDownload(p) /\ ua.phase \in {"check", "lookup"}
           \/ ua.phase = "check" /\ ua' = [ua EXCEPT !.phase = "lookup"] /\ UNCHANGED device
    PROVE  SchedInv'
<1>1. ua.phase \notin {"idle", "ping"} /\ enabled' = enabled
  BY Zenon DEF StartProcessing, BytesReceived, TransferComplete, InstallSucceeds, StartDownload, device
<1>2. Fielded(ua) /\ ua.delegate = TRUE
  BY <1>1 DEF SchedInv, Sched, Heard, Fielded
<1>3. /\ Same(ua, ua') /\ ua'.delegate = TRUE
      /\ ua'.phase \in {"rollback", "check", "lookup", "download", "install", "report"}
  <2>1. CASE StartProcessing
    BY <1>2, <2>1 DEF StartProcessing, Fielded, Fields, Same
  <2>2. CASE BytesReceived
    BY <1>2, <2>2 DEF BytesReceived, Fielded, Fields, Same
  <2>3. CASE TransferComplete
    <3>1. /\ ua' = [ua EXCEPT !.bytes = FALSE] \/ ua' = [ua EXCEPT !.phase = "install"]
          /\ ua.phase = "download"
      BY <2>3, Zenon DEF TransferComplete
    <3> QED  BY <1>2, <3>1 DEF Fielded, Fields, Same
  <2>4. CASE InstallSucceeds
    BY <1>2, <2>4 DEF InstallSucceeds, Fielded, Fields, Same
  <2>5. CASE \E p : StartDownload(p)
    BY <1>2, <2>5, Zenon DEF StartDownload, Fielded, Fields, Same
  <2>6. CASE ua' = [ua EXCEPT !.phase = "lookup"]
    BY <1>2, <2>6 DEF Fielded, Fields, Same
  <2> QED  BY <2>1, <2>2, <2>3, <2>4, <2>5, <2>6, Zenon
<1> QED
  BY <1>1, <1>3, SameAsks, Zenon

(* The check has an update, which is downloaded, or put off.               *)
LEMMA UpdateAsks ==
    ASSUME SchedInv, Inv', UpdateCheckSucceeds \/ OnLookupPayloadViaP2PCompleted
    PROVE  SchedInv'
<1>1. ua.phase \in {"check", "lookup"}
  BY DEF UpdateCheckSucceeds, OnLookupPayloadViaP2PCompleted
<1>2. CASE \E p : CompleteProcessing(p)
  <2>1. \E q : StartDownload(q) \/ Fails(ua, q, "deferred")
    BY <1>2, Zenon DEF CompleteProcessing
  <2> QED  BY <1>1, <2>1, AttemptAsks, FailsAsks DEF Fails
<1>3. CASE ~\E p : CompleteProcessing(p)
  <2>1. ua.phase = "check" /\ ua' = [ua EXCEPT !.phase = "lookup"] /\ UNCHANGED device
    BY <1>3, Zenon DEF UpdateCheckSucceeds, OnLookupPayloadViaP2PCompleted
  <2> QED  BY <2>1, AttemptAsks
<1> QED
  BY <1>2, <1>3

(* The actions that end in the error event, or in nothing to report.       *)
LEMMA FailuresAsk ==
    ASSUME SchedInv, Inv',
           \/ UpdateCheckFails \/ ShouldIgnoreUpdate \/ TransferFails \/ WriteFails
           \/ InstallFails \/ RollbackFails \/ SetActiveBootSlotFails
    PROVE  SchedInv'
<1>1. ua.phase \notin {"idle", "ping"}
  BY DEF UpdateCheckFails, ShouldIgnoreUpdate, TransferFails, WriteFails, InstallFails,
         RollbackFails, SetActiveBootSlotFails
<1>2. \E p, code, sl : FailsLeaving(ua, p, code, sl)
  BY Zenon DEF UpdateCheckFails, ShouldIgnoreUpdate, TransferFails, WriteFails, InstallFails,
         RollbackFails, SetActiveBootSlotFails, Fails
<1> QED
  BY <1>1, <1>2, FailsAsks

(* An update, a rollback, an error event or a ping is finished.            *)
LEMMA EndsAsk ==
    ASSUME SchedInv, Inv', ReportDone \/ RollbackSucceeds \/ EventDone \/ PingDone
    PROVE  SchedInv'
<1>0. Fielded(ua) /\ Asked(ua) /\ enabled' = enabled
  BY DEF SchedInv, Sched, ReportDone, RollbackSucceeds, EventDone, PingDone, device
<1> DEFINE quiet == ResetForced(ua, "none")
           ended == [quiet EXCEPT !.phase = "idle"]
           still == [quiet EXCEPT !.status = "IDLE", !.phase = "idle"]
           idle == ScheduleUpdates(still)
           over == [ua EXCEPT !.phase = "idle"]
           ping == ResetForced(over, "none")
<1>1. Fielded(quiet) /\ Asked(quiet)
  BY <1>0, ResetForcedKeeps, ResetForcedAsks DEF ForcedValues
<1>2. /\ ReportDone \/ RollbackSucceeds => ua' = Successful(ended)
      /\ EventDone => ua' = (IF ua.fake THEN Successful(idle) ELSE idle)
  BY DEF ReportDone, RollbackSucceeds, EventDone, ErrorEventSent, ResetInteractivityFlags
<1>3. PingDone => ua' = (IF ua.delegate THEN Successful(ping) ELSE over) /\ ua.phase = "ping"
  BY DEF PingDone, ResetInteractivityFlags
<1> HIDE DEF quiet
<1>4. Fielded(ended) /\ Same(quiet, ended) /\ ended.phase = "idle"
  BY <1>1 DEF Fielded, Fields, Same
<1>5. Fielded(still) /\ Same(quiet, still) /\ still.phase = "idle"
  BY <1>1, Zenon DEF Fielded, Fields, Same
<1>6. Fielded(over) /\ Same(ua, over) /\ over.phase = "idle" /\ over.status = ua.status
  BY <1>0 DEF Fielded, Fields, Same
<1> HIDE DEF ended, still, over
<1>7. Asked(ended) /\ Asked(still) /\ Asked(over)
  BY <1>0, <1>1, <1>4, <1>5, <1>6, SameKeeps
<1>8. Fielded(idle) /\ Asked(idle) /\ idle.phase = "idle" /\ IsBusyOrUpdateScheduled(idle)
  BY <1>5, <1>7, ScheduleKeeps, ScheduleAsks DEF Agree
<1>9. Fielded(ping) /\ Asked(ping) /\ ping.phase = "idle"
  BY <1>6, <1>7, ResetForcedKeeps, ResetForcedAsks DEF Agree, ForcedValues
<1> HIDE DEF idle, ping
<1>10. \A t \in {ended, idle, ping} : Sched(Successful(t)) /\ IsBusyOrUpdateScheduled(Successful(t))
  BY <1>4, <1>7, <1>8, <1>9, SuccessfulAsks
<1>11. CASE ua' = over
  <2>1. IsBusyOrUpdateScheduled(ua) => IsBusyOrUpdateScheduled(over)
    BY <1>6 DEF Same, IsBusyOrUpdateScheduled
  <2> QED  BY <1>0, <1>6, <1>7, <1>11, <2>1 DEF SchedInv, Sched, Heard
<1>12. CASE ua' = idle
  BY <1>8, <1>12 DEF SchedInv, Sched, Heard
<1>13. CASE \E t \in {ended, idle, ping} : ua' = Successful(t)
  BY <1>10, <1>13 DEF SchedInv
<1> QED
  BY <1>2, <1>3, <1>11, <1>12, <1>13

-----------------------------------------------------------------------------
(* The invariant holds when the daemon starts.                             *)
LEMMA InitSched == Init => SchedInv
BY InitInv, StartedAsks, Zenon DEF Init, SchedInv

(* Every step keeps the invariant.                                         *)
LEMMA NextSched == SchedInv /\ [Next]_vars => SchedInv'
<1> SUFFICES ASSUME SchedInv, [Next]_vars PROVE SchedInv'
  OBVIOUS
<1>0. Inv'
  BY NextInv DEF SchedInv
<1>1. CASE EvaluatePosted \/ OnTimeout \/ ValueChanged \/ PolicyFails
  BY <1>0, <1>1, RequestsAsk
<1>2. CASE CheckForUpdate \/ CheckForInstall
  BY <1>0, <1>2, ChecksAsk
<1>3. CASE ResetStatus \/ Rollback
  BY <1>0, <1>3, ClientAsks
<1>4. CASE StartProcessing \/ BytesReceived \/ TransferComplete \/ InstallSucceeds
  BY <1>0, <1>4, AttemptAsks
<1>5. CASE UpdateCheckSucceeds \/ OnLookupPayloadViaP2PCompleted
  BY <1>0, <1>5, UpdateAsks
<1>6. CASE \/ UpdateCheckFails \/ ShouldIgnoreUpdate \/ TransferFails \/ WriteFails
           \/ InstallFails \/ RollbackFails \/ SetActiveBootSlotFails
  BY <1>0, <1>6, FailuresAsk
<1>7. CASE ReportDone \/ RollbackSucceeds \/ EventDone \/ PingDone
  BY <1>0, <1>7, EndsAsk
<1>8. CASE Crash
  BY <1>0, <1>8, RestartAsks DEF Crash
<1>9. CASE UNCHANGED <<ua, enabled>>
  BY <1>0, <1>9 DEF SchedInv, Sched
<1>10. NextCheckComesDue \/ HalfDayPasses \/ P2PPeriodEnds \/ PolicyChanges \/ UNCHANGED vars
           => UNCHANGED <<ua, enabled>>
  BY DEF NextCheckComesDue, HalfDayPasses, P2PPeriodEnds, PolicyChanges, vars, device
<1> QED
  BY <1>1, <1>2, <1>3, <1>4, <1>5, <1>6, <1>7, <1>8, <1>9, <1>10, Zenon DEF Next, Moves

(* The daemon never stops checking for updates: whatever fails, is asked   *)
(* for or crashes, an idle attempter has one policy request, a busy one    *)
(* hears of the end of what runs, and a forced check wakes the request.    *)
THEOREM NeverStopsChecking == Spec => []StaysScheduled
<1>1. SchedInv => StaysScheduled
  <2> SUFFICES ASSUME SchedInv PROVE StaysScheduled
    OBVIOUS
  <2>1. Len(ua.requests) = IF ua.waiting THEN 1 ELSE 0
    BY Zenon DEF SchedInv, Sched, Asked
  <2>2. HasObserver(ua) /\ ua.forced # "none" => ua.notified
    BY ObserverIsRequest DEF SchedInv, Sched, Asked
  <2>3. ua.status \notin {"IDLE", "UPDATED_NEED_REBOOT"} =>
            ua.phase \notin {"idle", "ping"} /\ ua.delegate
    BY DEF SchedInv, Inv, Safe, StatusInv, Sched, Heard
  <2> QED  BY <2>1, <2>2, <2>3 DEF SchedInv, StaysScheduled
<1> QED
  BY <1>1, InitSched, NextSched, PTL DEF Spec

-----------------------------------------------------------------------------
(* The order of the natural numbers, as a relation.                        *)
Below == {p \in Nat \X Nat : p[1] < p[2]}

(* A set of natural numbers that is not empty has a least one.             *)
LEMMA LeastNumber ==
    ASSUME NEW T, T \subseteq Nat, T # {}
    PROVE  \E m \in T : \A k \in T : m <= k
<1>1. OpToRel(<, Nat) = Below
  BY Zenon DEF OpToRel, Below
<1>2. IsWellFoundedOn(Below, Nat)
  BY <1>1, NatLessThanWellFounded, Zenon
<1>3. PICK m \in T : \A k \in T : ~(<<k, m>> \in Below)
  BY <1>2, WFMin, Zenon
<1>4. \A k \in T : ~(k < m)
  BY <1>3, Zenon DEF Below
<1> QED
  BY <1>3, <1>4

(* Some place i of at is the k-th.                                         *)
Taken(at, k) == \E i \in at : Cardinality({j \in at : j <= i}) = k

(* Each number up to the size of a set of positions is the rank of one of  *)
(* them.                                                                   *)
LEMMA EachRankIsTaken ==
    ASSUME NEW n \in Nat, NEW at, at \subseteq 1..n, NEW k \in 1..Cardinality(at)
    PROVE  Taken(at, k)
<1> SUFFICES \E i \in at : Cardinality({j \in at : j <= i}) = k
  BY DEF Taken
<1> DEFINE UpTo(i) == {j \in at : j <= i}
           T == {i \in Nat : k <= Cardinality(UpTo(i))}
<1>0. \A j \in at : j \in Nat /\ 1 <= j /\ j <= n
  OBVIOUS
<1>1. IsFiniteSet(at)
  <2>1. IsFiniteSet(1..n)
    BY FS_Interval
  <2> QED  BY <2>1, FS_Subset, Zenon
<1>2. \A i \in Nat : IsFiniteSet(UpTo(i)) /\ Cardinality(UpTo(i)) \in Nat
  BY <1>1, FS_Subset, FS_CardinalityType
<1>3. n \in T
  <2>1. UpTo(n) = at
    BY <1>0, Zenon
  <2> QED  BY <2>1
<1> HIDE DEF UpTo
<1>4. PICK m \in T : \A i \in T : m <= i
  <2>1. T \subseteq Nat /\ T # {}
    BY <1>3
  <2> QED  BY <2>1, LeastNumber, Zenon
<1>5. m \in Nat /\ m # 0
  <2>1. UpTo(0) = {}
    <3>1. \A j \in at : ~(j <= 0)
      BY <1>0
    <3> QED  BY <3>1, Zenon DEF UpTo
  <2>2. Cardinality(UpTo(0)) = 0
    BY <2>1, FS_EmptySet
  <2> QED  BY <1>4, <2>2
<1>6. m - 1 \in Nat /\ Cardinality(UpTo(m - 1)) < k
  BY <1>2, <1>4, <1>5
<1>7. CASE m \in at
  <2>1. UpTo(m) = UpTo(m - 1) \union {m} /\ m \notin UpTo(m - 1)
    <3>1. \A j \in at : j <= m <=> j <= m - 1 \/ j = m
      BY <1>0, <1>5
    <3>2. ~(m <= m - 1) /\ m <= m
      BY <1>5
    <3> QED  BY <1>7, <3>1, <3>2, Zenon DEF UpTo
  <2>2. Cardinality(UpTo(m)) = Cardinality(UpTo(m - 1)) + 1
    BY <1>2, <1>6, <2>1, FS_AddElement, Zenon
  <2>3. Cardinality(UpTo(m)) = k
    BY <1>2, <1>4, <1>6, <2>2
  <2> QED  BY <1>7, <2>3 DEF UpTo
<1>8. CASE m \notin at
  <2>1. UpTo(m) = UpTo(m - 1)
    <3>1. \A j \in at : j <= m <=> j <= m - 1
      BY <1>0, <1>5, <1>8
    <3> QED  BY <3>1, Zenon DEF UpTo
  <2> QED  BY <1>2, <1>4, <1>6, <2>1
<1> QED
  BY <1>7, <1>8

(* What is kept of a sequence is one of the same elements.                 *)
LEMMA KeptIsSeq ==
    ASSUME NEW X, NEW s \in Seq(X), NEW keep
    PROVE  Kept(s, keep) \in Seq(X)
<1> DEFINE at == {i \in DOMAIN s : s[i] \in keep}
           Place(k) == CHOOSE i \in at : Cardinality({j \in at : j <= i}) = k
           n == Cardinality(at)
<1>1. at \subseteq 1..Len(s) /\ Len(s) \in Nat
  OBVIOUS
<1>2. n \in Nat
  <2>1. IsFiniteSet(1..Len(s))
    BY <1>1, FS_Interval
  <2>2. IsFiniteSet(at)
    BY <1>1, <2>1, FS_Subset
  <2> QED  BY <2>2, FS_CardinalityType
<1>3. Kept(s, keep) = [k \in 1..n |-> s[Place(k)]]
  BY Zenon DEF Kept
<1>4. ASSUME NEW k \in 1..n PROVE s[Place(k)] \in X
  <2> HIDE DEF at
  <2>1. Taken(at, k)
    BY <1>1, EachRankIsTaken, Zenon
  <2>2. Place(k) \in at
    BY <2>1, Zenon DEF Taken
  <2> HIDE DEF Place
  <2>3. Place(k) \in 1..Len(s)
    BY <1>1, <2>2, Zenon
  <2> QED  BY <2>3
<1> HIDE DEF n, Place
<1> QED
  BY <1>2, <1>3, <1>4

-----------------------------------------------------------------------------
Core == {"response", "candidates", "index", "url"}

(* p is a record with the fields that say which URL is used.               *)
Recorded(p) == p = [f \in DOMAIN p |-> p[f]] /\ Core \subseteq DOMAIN p

(* q is a record that may differ from p in the URL and in other fields.    *)
SamePackage(p, q) ==
    /\ Recorded(q)
    /\ q.response = p.response /\ q.candidates = p.candidates /\ q.index = p.index

SameUrl(p, q) == SamePackage(p, q) /\ q.url = p.url

(* The wait parameters are fields of their own.                            *)
LEMMA ScatteringSame ==
    ASSUME NEW p, Recorded(p), NEW policy, NEW interactive, NEW draw
    PROVE  SameUrl(p, CalculateScatteringParams(p, policy, interactive, draw))
<1> DEFINE factor == IF policy = "scatter" THEN ScatterFactor ELSE 0
           now == [p EXCEPT !.factor = factor]
           pref == [now EXCEPT !.period = p.scatterPref]
           drawn == [now EXCEPT !.period = draw, !.scatterPref = draw]
           waits == IF p.period = 0
                    THEN IF p.scatterPref \in 1..factor THEN pref ELSE drawn
                    ELSE IF p.factor # factor THEN drawn ELSE now
           wall == [waits EXCEPT !.wall = TRUE]
           over == [now EXCEPT !.wall = FALSE, !.period = 0, !.scatterPref = 0, !.count = None]
<1>1. CalculateScatteringParams(p, policy, interactive, draw) =
        IF factor > 0 /\ ~interactive THEN DecrementUpdateCheckCount(wall) ELSE over
  BY Zenon DEF CalculateScatteringParams, GenerateNewWaitingPeriod
<1> HIDE DEF factor
<1>2. SameUrl(p, now)
  BY Zenon DEF Recorded, SameUrl, SamePackage, Core
<1> HIDE DEF now
<1>3. SameUrl(now, over) /\ SameUrl(now, pref) /\ SameUrl(now, drawn)
  BY <1>2, Zenon DEF Recorded, SameUrl, SamePackage, Core
<1> HIDE DEF over, pref, drawn
<1>4. SameUrl(p, waits) /\ SameUrl(p, over)
  BY <1>2, <1>3, Zenon DEF SameUrl, SamePackage
<1> HIDE DEF waits
<1>5. SameUrl(waits, wall)
  BY <1>4, Zenon DEF Recorded, SameUrl, SamePackage, Core
<1> HIDE DEF wall
<1>6. SameUrl(wall, DecrementUpdateCheckCount(wall))
  BY <1>5, Zenon DEF Recorded, SameUrl, SamePackage, Core, DecrementUpdateCheckCount
<1> QED
  BY <1>1, <1>4, <1>5, <1>6, Zenon DEF SameUrl, SamePackage

(* So are those of staging.                                                *)
LEMMA StagingSame ==
    ASSUME NEW p, Recorded(p), NEW case, NEW draw
    PROVE  SameUrl(p, Staged(p, case, draw))
<1> DEFINE saved == IF case = "noSavedValue" THEN [p EXCEPT !.stagingPref = draw] ELSE p
           period == IF case = "noAction" THEN p.period ELSE saved.stagingPref
           on == [saved EXCEPT !.period = period, !.schedule = TRUE, !.wall = TRUE,
                               !.scatterPref = 0, !.factor = 0]
<1>1. SameUrl(p, saved)
  BY Zenon DEF Recorded, SameUrl, SamePackage, Core
<1>2. Staged(p, case, draw) = DecrementUpdateCheckCount(on)
  BY Zenon DEF Staged
<1> HIDE DEF saved, period
<1>3. SameUrl(saved, on)
  BY <1>1, Zenon DEF Recorded, SameUrl, SamePackage, Core
<1> HIDE DEF on
<1>4. SameUrl(on, DecrementUpdateCheckCount(on))
  BY <1>3, Zenon DEF Recorded, SameUrl, SamePackage, Core, DecrementUpdateCheckCount
<1> QED
  BY <1>1, <1>2, <1>3, <1>4, Zenon DEF SameUrl, SamePackage

(* And so are all that a check sets.                                       *)
LEMMA WaitSame ==
    ASSUME NEW p, Recorded(p), NEW policy, NEW interactive, NEW draw
    PROVE  SameUrl(p, CalculateWaitParams(p, policy, interactive, draw))
<1> DEFINE off == [p EXCEPT !.stagingPref = 0]
           case == CalculateStagingCase(p, policy, interactive)
<1>1. SameUrl(p, off)
  BY Zenon DEF Recorded, SameUrl, SamePackage, Core
<1>2. CalculateWaitParams(p, policy, interactive, draw) =
          IF case = "off" THEN CalculateScatteringParams(off, policy, interactive, draw)
          ELSE Staged(p, case, draw)
  BY Zenon DEF CalculateWaitParams
<1> HIDE DEF off, case
<1>3. Recorded(off)
  BY <1>1, Zenon DEF SameUrl, SamePackage
<1>4. /\ SameUrl(off, CalculateScatteringParams(off, policy, interactive, draw))
      /\ SameUrl(p, Staged(p, case, draw))
  BY <1>3, ScatteringSame, StagingSame, Zenon
<1> QED
  BY <1>1, <1>2, <1>4, Zenon DEF SameUrl, SamePackage

(* Neither do these say which URL is used.                                 *)
LEMMA OthersSame ==
    ASSUME NEW p, Recorded(p), NEW n, NEW peer, NEW late
    PROVE  /\ SameUrl(p, RestartedWait(p)) /\ SameUrl(p, WaitIsOver(p))
           /\ SameUrl(p, StartUpdateCheckCount(p, n))
           /\ SameUrl(p, LoadOrPersistUpdateFirstSeenAtPref(p))
           /\ SameUrl(p, DownloadProgress(p)) /\ SameUrl(p, P2PNewAttempt(p))
           /\ SameUrl(p, [p EXCEPT !.peer = peer]) /\ SameUrl(p, [p EXCEPT !.p2pLate = late])
<1>1. SameUrl(p, RestartedWait(p)) /\ SameUrl(p, WaitIsOver(p))
  BY Zenon DEF Recorded, SameUrl, SamePackage, Core, RestartedWait, WaitIsOver
<1>2. SameUrl(p, StartUpdateCheckCount(p, n)) /\ SameUrl(p, LoadOrPersistUpdateFirstSeenAtPref(p))
  BY Zenon DEF Recorded, SameUrl, SamePackage, Core, StartUpdateCheckCount,
               LoadOrPersistUpdateFirstSeenAtPref
<1>3. SameUrl(p, DownloadProgress(p)) /\ SameUrl(p, P2PNewAttempt(p))
  BY Zenon DEF Recorded, SameUrl, SamePackage, Core, DownloadProgress, P2PNewAttempt
<1>4. SameUrl(p, [p EXCEPT !.peer = peer]) /\ SameUrl(p, [p EXCEPT !.p2pLate = late])
  BY Zenon DEF Recorded, SameUrl, SamePackage, Core
<1> QED
  BY <1>1, <1>2, <1>3, <1>4

(* Half a day changes the back-off and the age of the update.              *)
LEMMA HalfDaySame ==
    ASSUME NEW p, Recorded(p)
    PROVE  SameUrl(p, HalfDayLater(p))
BY Zenon DEF Recorded, SameUrl, SamePackage, Core, HalfDayLater, TimePasses

(* A full payload that was tried is counted.                               *)
LEMMA AttemptSame ==
    ASSUME NEW p, Recorded(p), NEW fuzz
    PROVE  SameUrl(p, IncrementFullPayloadAttemptNumber(p, fuzz))
<1> DEFINE counted == [p EXCEPT !.attempts = Min2(@ + 1, MaxAttempts)]
           after == UpdateBackoffExpiryTime(counted, fuzz)
<1>1. SameUrl(p, p) /\ SameUrl(p, counted)
  BY Zenon DEF Recorded, SameUrl, SamePackage, Core
<1>2. IncrementFullPayloadAttemptNumber(p, fuzz) \in {p, after}
  BY Zenon DEF IncrementFullPayloadAttemptNumber
<1> HIDE DEF counted
<1>3. SameUrl(counted, after)
  BY <1>1, Zenon DEF Recorded, SameUrl, SamePackage, Core, UpdateBackoffExpiryTime
<1> HIDE DEF after
<1> QED
  BY <1>1, <1>2, <1>3, Zenon DEF SameUrl, SamePackage

(* A failure moves on to another URL of the same package.                  *)
LEMMA IncrementUrlSame ==
    ASSUME NEW p, Recorded(p), NEW fuzz
    PROVE  SamePackage(p, IncrementUrlIndex(p, fuzz))
<1> DEFINE next == [p EXCEPT !.url = @ + 1]
           first == [p EXCEPT !.url = 1]
           moved == IF p.url < Len(p.candidates[p.index]) THEN next
                    ELSE IncrementFullPayloadAttemptNumber(first, fuzz)
<1>1. SamePackage(p, next) /\ SamePackage(p, first)
  BY Zenon DEF Recorded, SamePackage, Core
<1>2. IncrementUrlIndex(p, fuzz) = [moved EXCEPT !.failures = 0]
  BY Zenon DEF IncrementUrlIndex
<1> HIDE DEF next, first
<1>3. SamePackage(p, moved)
  BY <1>1, AttemptSame, Zenon DEF SameUrl, SamePackage
<1> HIDE DEF moved
<1>4. SamePackage(moved, [moved EXCEPT !.failures = 0])
  BY <1>3, Zenon DEF Recorded, SamePackage, Core
<1> QED
  BY <1>2, <1>3, <1>4, Zenon DEF SamePackage

(* A failure may move to another URL, not to another package.              *)
LEMMA FailedSame ==
    ASSUME NEW p, Recorded(p), NEW code, NEW fuzz
    PROVE  SamePackage(p, UpdateFailed(p, code, fuzz))
<1> DEFINE more == [p EXCEPT !.failures = @ + 1]
           out == ExcludeCurrentPayload(p)
<1>1. SamePackage(p, p) /\ SamePackage(p, more)
  BY Zenon DEF Recorded, SamePackage, Core
<1>2. SamePackage(p, out)
  BY Zenon DEF Recorded, SamePackage, Core, ExcludeCurrentPayload
<1>3. UpdateFailed(p, code, fuzz) \in {p, more, IncrementUrlIndex(out, fuzz)}
  BY Zenon DEF UpdateFailed, IncrementFailureCount
<1> HIDE DEF more, out
<1>4. SamePackage(out, IncrementUrlIndex(out, fuzz))
  BY <1>2, IncrementUrlSame, Zenon DEF SamePackage
<1> QED
  BY <1>1, <1>2, <1>3, <1>4, Zenon DEF SamePackage

-----------------------------------------------------------------------------
(* The packages and their candidate URLs belong together, and the index    *)
(* is one of theirs.                                                       *)
PayloadInv(p) ==
    /\ Recorded(p)
    /\ p.response \in Packages /\ p.candidates \in Seq(Urls)
    /\ Len(p.candidates) = Len(p.response)
    /\ p.index \in Nat \ {0}
    /\ p.candidates # <<>> => p.index \in DOMAIN p.candidates

(* A package with URLs is downloaded from one of them.                     *)
Downloading(p) == CurrentUrls(p) # <<>> => p.url \in DOMAIN CurrentUrls(p)

IndexInv ==
    /\ Inv /\ PayloadInv(payload)
    /\ ua.phase = "download" => Downloading(payload)

(* The invariant is about these fields.                                    *)
LEMMA SameKeepsPayload ==
    ASSUME NEW p, NEW q, PayloadInv(p), SamePackage(p, q)
    PROVE  PayloadInv(q) /\ CurrentUrls(q) = CurrentUrls(p)
BY Zenon DEF PayloadInv, SamePackage, CurrentUrls

(* So is what a download needs.                                            *)
LEMMA SameKeepsDownloading ==
    ASSUME NEW p, NEW q, PayloadInv(p), SameUrl(p, q), Downloading(p)
    PROVE  Downloading(q)
BY SameKeepsPayload, Zenon DEF SameUrl, Downloading

(* The first package, if there are any.                                    *)
LEMMA FirstIndex ==
    ASSUME NEW s, NEW X, s \in Seq(X), s # <<>>
    PROVE  1 \in DOMAIN s
OBVIOUS

(* An element of a sequence is one of its kind.                            *)
LEMMA ElementOf ==
    ASSUME NEW X, NEW s \in Seq(X), NEW i \in DOMAIN s
    PROVE  s[i] \in X
OBVIOUS

(* No response has been seen yet.                                          *)
LEMMA NewPayloadInv == PayloadInv(NewPayload)
<1>1. /\ NewPayload = [f \in DOMAIN NewPayload |-> NewPayload[f]] /\ Core \subseteq DOMAIN NewPayload
      /\ NewPayload.response = <<>> /\ NewPayload.candidates = <<>> /\ NewPayload.index = 1
  BY Zenon DEF NewPayload, Core
<1>2. <<>> \in Packages /\ <<>> \in Seq(Urls) /\ Len(<<>>) = 0
  BY DEF Packages
<1> QED
  BY <1>1, <1>2 DEF PayloadInv, Recorded

(* The daemon starts: there is no response any more.                       *)
LEMMA InitializeInv ==
    ASSUME NEW p, Recorded(p)
    PROVE  PayloadInv(Initialize(p))
<1> DEFINE w == RestartedWait(p)
           q == Initialize(p)
<1>1. Recorded(w)
  BY OthersSame, Zenon DEF SameUrl, SamePackage
<1>2. q = [w EXCEPT !.response = <<>>, !.candidates = <<>>, !.index = 1,
                    !.backoff = IF @ > 2 * kMaxBackoffDays THEN 0 ELSE @,
                    !.p2p = FALSE, !.peer = "none"]
  BY Zenon DEF Initialize
<1> HIDE DEF w, q
<1>3. Recorded(q) /\ q.response = <<>> /\ q.candidates = <<>> /\ q.index = 1
  BY <1>1, <1>2, Zenon DEF Recorded, Core
<1>4. <<>> \in Packages /\ <<>> \in Seq(Urls) /\ Len(<<>>) = 0
  BY DEF Packages
<1> QED
  BY <1>3, <1>4 DEF PayloadInv, q

(* Of each package some URLs are candidates.                               *)
LEMMA CandidatesAreUrls ==
    ASSUME NEW response \in Packages, NEW http
    PROVE  LET candidates == ComputeCandidateUrls(response, http)
           IN  candidates \in Seq(Urls) /\ Len(candidates) = Len(response)
<1> DEFINE c == ComputeCandidateUrls(response, http)
           U == [id : DOMAIN Kind, http : BOOLEAN]
<1>1. ASSUME NEW i \in DOMAIN response PROVE c[i] \in Urls
  <2>1. response[i] \in [urls : Urls, delta : BOOLEAN, canExclude : BOOLEAN]
    BY ElementOf, Zenon DEF Packages
  <2>2. response[i].urls \in Seq(U)
    BY <2>1 DEF Urls
  <2>3. c[i] = Kept(response[i].urls, {u \in Range(response[i].urls) : ~u.http \/ http})
    BY DEF ComputeCandidateUrls
  <2> QED  BY <2>2, <2>3, KeptIsSeq, Zenon DEF Urls
<1>2. DOMAIN response = 1..Len(response) /\ Len(response) \in Nat
  BY DEF Packages
<1>3. c = [i \in DOMAIN response |-> c[i]]
  BY DEF ComputeCandidateUrls
<1> HIDE DEF c
<1>4. c \in [1..Len(response) -> Urls]
  BY <1>1, <1>2, <1>3, Zenon
<1> QED
  BY <1>2, <1>4 DEF c

(* The exclusions leave packages.                                          *)
LEMMA ExclusionsLeavePackages ==
    ASSUME NEW packages \in Packages, NEW excluded
    PROVE  ProcessExclusions(packages, excluded) \in Packages
<1> DEFINE U == [id : DOMAIN Kind, http : BOOLEAN]
           P == [urls : Urls, delta : BOOLEAN, canExclude : BOOLEAN]
           Some(k) == Kept(k.urls, {u \in Range(k.urls) : u.id \notin excluded})
           left == [i \in DOMAIN packages |->
                       IF packages[i].canExclude THEN [packages[i] EXCEPT !.urls = Some(packages[i])]
                       ELSE packages[i]]
<1>1. ASSUME NEW i \in DOMAIN packages PROVE left[i] \in P
  <2> DEFINE k == packages[i]
  <2>1. k \in P
    BY ElementOf, Zenon DEF Packages
  <2> HIDE DEF k
  <2>2. Some(k) \in Urls
    <3>1. k.urls \in Seq(U)
      BY <2>1 DEF Urls
    <3> QED  BY <3>1, KeptIsSeq, Zenon DEF Urls
  <2> HIDE DEF Some
  <2>3. left[i] \in {k, [k EXCEPT !.urls = Some(k)]}
    BY DEF k
  <2> HIDE DEF left
  <2> QED  BY <2>1, <2>2, <2>3
<1>2. DOMAIN packages = 1..Len(packages) /\ Len(packages) \in Nat
  BY DEF Packages
<1>3. left \in Seq(P)
  <2>1. left = [i \in 1..Len(packages) |-> left[i]]
    BY <1>2
  <2> HIDE DEF left, P
  <2> QED  BY <1>1, <1>2, <2>1
<1>4. ProcessExclusions(packages, excluded) =
          Kept(left, {k \in Range(left) : k.urls # <<>> \/ ~k.canExclude})
  BY Zenon DEF ProcessExclusions
<1> HIDE DEF left
<1> QED
  BY <1>3, <1>4, KeptIsSeq, Zenon DEF Packages

(* A response, new or not.                                                 *)
LEMMA SetResponseInv ==
    ASSUME NEW p, PayloadInv(p), NEW response \in Packages, NEW http
    PROVE  PayloadInv(SetResponse(p, response, http))
<1> DEFINE candidates == ComputeCandidateUrls(response, http)
           now == [p EXCEPT !.response = response, !.candidates = candidates]
           signature == <<response, now.candidates>>
           signed == [now EXCEPT !.signature = signature]
           again == [now EXCEPT !.index = 1]
           Has(q) == Recorded(q) /\ q.response = response /\ q.candidates = candidates
<1>1. SetResponse(p, response, http) \in {ResetPersistedState(signed), again, ResetPersistedState(again)}
  BY Zenon DEF SetResponse
<1>2. candidates \in Seq(Urls) /\ Len(candidates) = Len(response)
  BY CandidatesAreUrls, Zenon
<1> HIDE DEF candidates
<1>3. Has(now)
  BY Zenon DEF PayloadInv, Recorded, Core
<1> HIDE DEF now, signature
<1>4. Has(signed) /\ Has(again) /\ again.index = 1
  BY <1>3, Zenon DEF Recorded, Core
<1> HIDE DEF signed, again
<1>5. ASSUME NEW q, Has(q) PROVE Has(ResetPersistedState(q)) /\ ResetPersistedState(q).index = 1
  <2> DEFINE a == [q EXCEPT !.attempts = 0, !.index = 1, !.url = 1, !.failures = 0]
             b == [a EXCEPT !.backoff = 0, !.p2pAttempts = 0, !.p2pLate = FALSE,
                            !.scatterPref = 0, !.stagingPref = 0]
  <2>1. ResetPersistedState(q) = b
    BY Zenon DEF ResetPersistedState
  <2>2. Has(a) /\ a.index = 1
    BY <1>5, Zenon DEF Recorded, Core
  <2> HIDE DEF a
  <2>3. Has(b) /\ b.index = 1
    BY <2>2, Zenon DEF Recorded, Core
  <2> QED  BY <2>1, <2>3
<1>6. ASSUME NEW q, Has(q), q.index = 1 PROVE PayloadInv(q)
  BY <1>2, <1>6, FirstIndex DEF PayloadInv
<1> HIDE DEF Has
<1> QED
  BY <1>1, <1>4, <1>5, <1>6

(* An update was applied, or is taken to be.                               *)
LEMMA AppliedInv ==
    ASSUME NEW p, PayloadInv(p)
    PROVE  PayloadInv(UpdateApplied(p))
<1> DEFINE q == UpdateSucceeded(p)
<1>1. Recorded(q) /\ q.response = p.response /\ q.candidates = p.candidates /\ q.index = 1
  BY Zenon DEF PayloadInv, Recorded, Core, UpdateSucceeded
<1>2. UpdateApplied(p) = WaitIsOver(q)
  BY DEF UpdateApplied
<1> HIDE DEF q
<1>3. PayloadInv(q)
  BY <1>1, FirstIndex DEF PayloadInv
<1> QED
  BY <1>1, <1>2, <1>3, OthersSame, SameKeepsPayload, Zenon DEF SameUrl

(* The next package starts with its first URL.                             *)
LEMMA NextInvHolds ==
    ASSUME NEW p, PayloadInv(p), p.index < Len(p.response), NEW q,
           q = [NextPayload(p) EXCEPT !.peer = "none"]
    PROVE  PayloadInv(q) /\ Downloading(q)
<1> DEFINE n == NextPayload(p)
<1>1. /\ Recorded(n) /\ n.response = p.response /\ n.candidates = p.candidates
      /\ n.index = p.index + 1 /\ n.url = 1
  BY Zenon DEF PayloadInv, Recorded, Core, NextPayload
<1>2. p.index + 1 \in DOMAIN p.candidates
  BY DEF PayloadInv, Packages
<1> HIDE DEF n
<1>3. PayloadInv(n)
  BY <1>1, <1>2 DEF PayloadInv
<1>4. CurrentUrls(n) \in Urls
  BY <1>1, <1>2, ElementOf, Zenon DEF CurrentUrls, PayloadInv
<1>5. Downloading(n)
  BY <1>1, <1>4, FirstIndex DEF Downloading, Urls
<1>6. SameUrl(n, q)
  BY <1>1, OthersSame, Zenon DEF n
<1> QED
  BY <1>3, <1>5, <1>6, SameKeepsPayload, SameKeepsDownloading, Zenon DEF SameUrl

-----------------------------------------------------------------------------
(* A failed CHECK, or a crash.                                             *)
LEMMA RestartIndex ==
    ASSUME IndexInv, Inv', NEW p, Recorded(p), Restarts(p)
    PROVE  IndexInv'
<1>1. ua.completed \in BOOLEAN
  BY DEF IndexInv, Inv, Safe, Fielded
<1>2. ua'.phase = "idle"
  BY <1>1, StartedIsIdle DEF Restarts
<1>3. PayloadInv(payload')
  BY InitializeInv, Zenon DEF Restarts
<1> QED
  BY <1>2, <1>3 DEF IndexInv

(* Steps that leave the URL alone, and start no download.                  *)
LEMMA SameIndex ==
    ASSUME IndexInv, Inv', ua'.phase = "download" => ua.phase = "download",
           SameUrl(payload, payload')
    PROVE  IndexInv'
BY SameKeepsPayload, SameKeepsDownloading, Zenon DEF IndexInv, SameUrl

(* Steps that are no part of a download.                                   *)
LEMMA OtherIndex ==
    ASSUME IndexInv, Inv', ua'.phase # "download", PayloadInv(payload')
    PROVE  IndexInv'
BY DEF IndexInv

(* The callback of a policy request starts no download.                    *)
LEMMA ScheduledPhase ==
    ASSUME NEW s, Fielded(s), NEW answer, NEW paramsOk
    PROVE  OnUpdateScheduled(s, answer, paramsOk).phase \in {s.phase, "ping", "posted"}
<1> DEFINE now == [s EXCEPT !.waiting = FALSE]
           fresh == [now EXCEPT !.fake = FALSE]
           off == [now EXCEPT !.status = "IDLE"]
           interactive == answer = "interactive"
           after == IF answer = "failed" THEN ScheduleUpdates(now)
                    ELSE Update(now, interactive, paramsOk)
           reset == ResetForced(fresh, "none")
           ping == [reset EXCEPT !.phase = "ping", !.delegate = FALSE]
           built == [fresh EXCEPT !.delegate = TRUE, !.interactive = interactive,
                        !.dlc = fresh.install, !.status = "CHECKING_FOR_UPDATE", !.phase = "posted"]
           Fine(t) == Fielded(t) /\ t.phase \in {s.phase, "ping", "posted"}
<1>1. Fine(now)
  BY Zenon DEF Fielded, Fields
<1>2. OnUpdateScheduled(s, answer, paramsOk) \in {off, after, Abort(after)}
  BY Zenon DEF OnUpdateScheduled
<1>3. after \in {ScheduleUpdates(now), PingOmaha(fresh), fresh, Abort(fresh), built}
  BY Zenon DEF Update, BuildUpdateActions
<1>4. PingOmaha(fresh) \in {ScheduleUpdates(fresh), ScheduleUpdates(ping)}
  BY Zenon DEF PingOmaha, ResetInteractivityFlags
<1> HIDE DEF now
<1>5. Fine(fresh) /\ Fine(off)
  BY <1>1, Zenon DEF Fielded, Fields
<1> HIDE DEF fresh, off
<1>6. Fielded(reset)
  BY <1>5, ResetForcedKeeps DEF ForcedValues
<1> HIDE DEF reset
<1>7. Fine(ping)
  BY <1>6, Zenon DEF Fielded, Fields
<1> HIDE DEF ping
<1>8. Fine(built)
  BY <1>5, Zenon DEF Fielded, Fields
<1> HIDE DEF built
<1>9. ASSUME NEW t, Fine(t) PROVE Fine(ScheduleUpdates(t)) /\ Fine(Abort(t))
  <2>1. Fine(ScheduleUpdates(t))
    BY <1>9, ScheduleKeeps, Zenon DEF Agree
  <2>2. Fine(Abort(t))
    BY <1>9, Zenon DEF Abort, Fielded, Fields
  <2> QED  BY <2>1, <2>2
<1>10. Fine(after)
  <2> HIDE DEF Fine, after
  <2> QED  BY <1>1, <1>3, <1>4, <1>5, <1>7, <1>8, <1>9, Zenon
<1> HIDE DEF after
<1>11. Fine(OnUpdateScheduled(s, answer, paramsOk))
  <2> HIDE DEF Fine
  <2> QED  BY <1>2, <1>5, <1>9, <1>10, Zenon
<1> QED
  BY <1>11

(* The parameters of a check say nothing of the URL.                       *)
LEMMA ParamsSame ==
    ASSUME NEW s, NEW p, Recorded(p), NEW answer, NEW q \in CalculateUpdateParams(s, p, answer)
    PROVE  SameUrl(p, q)
<1>1. CASE q = p
  BY <1>1, Zenon DEF SameUrl, SamePackage
<1>2. CASE q # p
  <2> DEFINE interactive == answer = "interactive"
             p2p == setting.p2p /\ ~interactive
  <2>1. PICK draw \in WaitingPeriods(setting.policy) :
            q = [CalculateWaitParams(p, setting.policy, interactive, draw)
                    EXCEPT !.peer = "none", !.p2p = p2p]
    BY <1>2, Zenon DEF CalculateUpdateParams
  <2> DEFINE w == CalculateWaitParams(p, setting.policy, interactive, draw)
  <2>2. SameUrl(p, w)
    BY WaitSame
  <2>3. q = [w EXCEPT !.peer = "none", !.p2p = p2p]
    BY <2>1
  <2> HIDE DEF w
  <2>4. SameUrl(w, q)
    BY <2>2, <2>3, Zenon DEF Recorded, SameUrl, SamePackage, Core
  <2> QED  BY <2>2, <2>4, Zenon DEF SameUrl, SamePackage
<1> QED
  BY <1>1, <1>2

(* A request is evaluated.                                                 *)
LEMMA AnswersIndex ==
    ASSUME IndexInv, Inv', NEW s, Fielded(s), s.phase = ua.phase, NEW i, NEW answer, NEW paramsOk,
           Answers(s, i, answer, paramsOk)
    PROVE  IndexInv'
<1> DEFINE heard == Answered(s, i)
           after == OnUpdateScheduled(heard, answer, paramsOk)
<1>1. PICK p \in CalculateUpdateParams(s, payload, answer) :
          IF after.aborted THEN Restarts(p) ELSE ua' = after /\ payload' = p
  BY Zenon DEF Answers
<1>2. SameUrl(payload, p)
  BY <1>1, ParamsSame, Zenon DEF IndexInv, PayloadInv
<1>3. Fielded(heard) /\ heard.phase = ua.phase
  BY Zenon DEF Answered, Fielded, Fields
<1> HIDE DEF heard
<1>4. after.phase \in {ua.phase, "ping", "posted"}
  BY <1>3, ScheduledPhase, Zenon
<1> HIDE DEF after
<1>5. CASE after.aborted
  BY <1>1, <1>2, <1>5, RestartIndex, Zenon DEF SameUrl, SamePackage
<1>6. CASE ~after.aborted
  BY <1>1, <1>2, <1>4, <1>6, SameIndex
<1> QED
  BY <1>5, <1>6

(* A policy that may be asked again keeps the invariant.                   *)
LEMMA ReadyIndex ==
    ASSUME IndexInv, Inv', NEW s, Fielded(s), s.phase = ua.phase, NEW i,
           OnPolicyReadyToEvaluate(s, i)
    PROVE  IndexInv'
<1>1. PICK answer \in UpdateCheckAllowed(s, enabled, due) :
          IF answer = "askMeAgainLater"
          THEN ua' = RunOnValueChangeOrTimeout(s, i) /\ payload' = payload
          ELSE Answers(s, i, answer, TRUE)
  BY Zenon DEF OnPolicyReadyToEvaluate
<1>2. CASE answer = "askMeAgainLater"
  <2>1. ua'.phase = ua.phase
    BY <1>1, <1>2 DEF RunOnValueChangeOrTimeout, Fielded, Fields
  <2>2. SameUrl(payload, payload')
    BY <1>1, <1>2 DEF IndexInv, PayloadInv, SameUrl, SamePackage
  <2> QED  BY <2>1, <2>2, SameIndex
<1>3. CASE answer # "askMeAgainLater"
  BY <1>1, <1>3, AnswersIndex, Zenon
<1> QED
  BY <1>2, <1>3

(* The evaluations of policy requests.                                     *)
LEMMA RequestsIndex ==
    ASSUME IndexInv, Inv', EvaluatePosted \/ OnTimeout \/ ValueChanged \/ PolicyFails
    PROVE  IndexInv'
<1>0. Fielded(ua)
  BY DEF IndexInv, Inv, Safe
<1>1. CASE EvaluatePosted \/ OnTimeout
  BY <1>0, <1>1, ReadyIndex, Zenon DEF EvaluatePosted, OnTimeout
<1>2. CASE ValueChanged
  <2> DEFINE heard == [ua EXCEPT !.notified = FALSE]
  <2>1. Fielded(heard) /\ heard.phase = ua.phase
    BY <1>0, Zenon DEF Fielded, Fields
  <2>2. \/ ua' = heard /\ payload' = payload
        \/ \E i \in DOMAIN ua.requests : OnPolicyReadyToEvaluate(heard, i)
    BY <1>2, Zenon DEF ValueChanged
  <2> HIDE DEF heard
  <2>3. CASE ua' = heard /\ payload' = payload
    <3>1. SameUrl(payload, payload')
      BY <2>3, Zenon DEF IndexInv, PayloadInv, SameUrl, SamePackage
    <3> QED  BY <2>1, <2>3, <3>1, SameIndex
  <2>4. CASE \E i \in DOMAIN ua.requests : OnPolicyReadyToEvaluate(heard, i)
    BY <2>1, <2>4, ReadyIndex, Zenon
  <2> QED  BY <2>2, <2>3, <2>4
<1>3. CASE PolicyFails
  <2>1. PICK i, answer, ok : Answers(ua, i, answer, ok)
    BY <1>3, Zenon DEF PolicyFails
  <2> QED  BY <1>0, <2>1, AnswersIndex, Zenon
<1> QED
  BY <1>1, <1>2, <1>3

(* An action fails.                                                        *)
LEMMA FailsIndex ==
    ASSUME IndexInv, Inv', NEW p, PayloadInv(p), NEW code, NEW sl,
           FailsLeaving(ua, p, code, sl)
    PROVE  IndexInv'
<1> DEFINE marked == MarkDeltaUpdateFailure(ua, code)
           fake == code = "firmwareB"
           quiet == ResetForced(ua, "none")
           nothing == [quiet EXCEPT !.status = "IDLE", !.phase = "idle", !.install = FALSE]
           loud == ResetForced(marked, "none")
           event == [loud EXCEPT !.fake = fake, !.status = "REPORTING_ERROR_EVENT",
                                 !.phase = "event", !.install = FALSE]
<1>1. /\ ua' \in {ScheduleUpdates(nothing), event}
      /\ payload' = p \/ \E fuzz \in Fuzz : payload' = UpdateFailed(p, code, fuzz)
  BY Zenon DEF FailsLeaving, NothingToReport, ScheduleErrorEventAction, ResetInteractivityFlags
<1>2. Fielded(ua)
  BY DEF IndexInv, Inv, Safe
<1>3. Fielded(marked)
  BY <1>2 DEF MarkDeltaUpdateFailure, Fielded, Fields
<1> HIDE DEF marked
<1>4. Fielded(quiet) /\ Fielded(loud)
  BY <1>2, <1>3, ResetForcedKeeps DEF ForcedValues
<1> HIDE DEF quiet, loud, fake
<1>5. Fielded(nothing) /\ nothing.phase = "idle" /\ event.phase = "event"
  BY <1>4, Zenon DEF Fielded, Fields
<1> HIDE DEF nothing, event
<1>6. ua'.phase # "download"
  BY <1>1, <1>5, ScheduleKeeps DEF Agree
<1>7. PayloadInv(payload')
  <2>1. CASE payload' = p
    BY <2>1
  <2>2. CASE payload' # p
    <3>1. PICK fuzz \in Fuzz : payload' = UpdateFailed(p, code, fuzz)
      BY <1>1, <2>2
    <3>2. SamePackage(p, payload')
      BY <3>1, FailedSame, Zenon DEF PayloadInv
    <3> QED  BY <3>2, SameKeepsPayload, Zenon
  <2> QED  BY <2>1, <2>2
<1> QED
  BY <1>6, <1>7, OtherIndex

(* The actions that end in the error event, or in nothing to report.       *)
LEMMA FailuresIndex ==
    ASSUME IndexInv, Inv',
           \/ UpdateCheckFails \/ ShouldIgnoreUpdate \/ TransferFails \/ WriteFails
           \/ InstallFails \/ RollbackFails \/ SetActiveBootSlotFails
    PROVE  IndexInv'
<1>1. PayloadInv(payload) /\ PayloadInv(LoadOrPersistUpdateFirstSeenAtPref(payload))
  BY OthersSame, SameKeepsPayload, Zenon DEF IndexInv, PayloadInv, SameUrl
<1>2. \E code, sl : \/ FailsLeaving(ua, payload, code, sl)
                    \/ FailsLeaving(ua, LoadOrPersistUpdateFirstSeenAtPref(payload), code, sl)
  BY Zenon DEF UpdateCheckFails, ShouldIgnoreUpdate, TransferFails, WriteFails, InstallFails,
         RollbackFails, SetActiveBootSlotFails, Fails
<1> QED
  BY <1>1, <1>2, FailsIndex, Zenon

(* A download starts only from a URL there is.                             *)
LEMMA CompleteIndex ==
    ASSUME IndexInv, Inv', NEW p, PayloadInv(p), CompleteProcessing(p)
    PROVE  IndexInv'
<1>1. PICK q : /\ q = p \/ \E n : q = StartUpdateCheckCount(p, n)
               /\ (MayDownload(q) /\ StartDownload(q)) \/ Fails(ua, q, "deferred")
  BY DEF CompleteProcessing
<1>2. PayloadInv(q)
  <2>1. Recorded(p)
    BY DEF PayloadInv
  <2>2. \A n : SamePackage(p, StartUpdateCheckCount(p, n))
    BY <2>1, OthersSame, Zenon DEF SameUrl
  <2> QED  BY <1>1, <2>2, SameKeepsPayload, Zenon
<1>3. CASE MayDownload(q) /\ StartDownload(q)
  <2>1. q.url \in DOMAIN CurrentUrls(q)
    BY <1>3 DEF MayDownload, GetCurrentUrl
  <2> QED  BY <1>2, <1>3, <2>1, Zenon DEF IndexInv, StartDownload, Downloading
<1> QED
  BY <1>1, <1>2, <1>3, FailsIndex DEF Fails

(* The server has an update, and a peer is found or not.                   *)
LEMMA UpdateIndex ==
    ASSUME IndexInv, Inv', UpdateCheckSucceeds \/ OnLookupPayloadViaP2PCompleted
    PROVE  IndexInv'
<1>0. PayloadInv(payload) /\ Recorded(payload) /\ Fielded(ua)
  BY DEF IndexInv, PayloadInv, Inv, Safe
<1>1. CASE UpdateCheckSucceeds
  <2> DEFINE response == ProcessExclusions(Offered, payload.excluded)
             seen == LoadOrPersistUpdateFirstSeenAtPref(payload)
             set == SetResponse(seen, response, httpOk)
  <2>1. PICK p \in {set, P2PNewAttempt(set)} :
            CompleteProcessing(p) \/ (ua' = [ua EXCEPT !.phase = "lookup"] /\ payload' = p)
    BY <1>1 DEF UpdateCheckSucceeds, Responded
  <2>2. response \in Packages
    <3>1. Offered \in Packages
      BY AttempterAssumption DEF Offered
    <3> QED  BY <3>1, ExclusionsLeavePackages, Zenon
  <2> HIDE DEF response
  <2>3. PayloadInv(seen)
    BY <1>0, OthersSame, SameKeepsPayload, Zenon DEF SameUrl
  <2> HIDE DEF seen
  <2>4. PayloadInv(set)
    BY <2>2, <2>3, SetResponseInv, Zenon
  <2> HIDE DEF set
  <2>5. PayloadInv(p)
    <3>1. Recorded(set)
      BY <2>4 DEF PayloadInv
    <3>2. SamePackage(set, P2PNewAttempt(set))
      BY <3>1, OthersSame, Zenon DEF SameUrl
    <3> QED  BY <2>1, <2>4, <3>2, SameKeepsPayload, Zenon
  <2>6. CASE CompleteProcessing(p)
    BY <2>5, <2>6, CompleteIndex
  <2>7. CASE ua' = [ua EXCEPT !.phase = "lookup"] /\ payload' = p
    <3>1. ua'.phase = "lookup"
      BY <1>0, <2>7, Zenon DEF Fielded, Fields
    <3> QED  BY <2>5, <2>7, <3>1, OtherIndex
  <2> QED  BY <2>1, <2>6, <2>7
<1>2. CASE OnLookupPayloadViaP2PCompleted
  <2>1. PICK peer \in Peers : CompleteProcessing([payload EXCEPT !.peer = peer])
    BY <1>2 DEF OnLookupPayloadViaP2PCompleted
  <2> DEFINE p == [payload EXCEPT !.peer = peer]
  <2>2. PayloadInv(p)
    BY <1>0, OthersSame, SameKeepsPayload, Zenon DEF SameUrl
  <2> HIDE DEF p
  <2>3. CompleteProcessing(p)
    BY <2>1 DEF p
  <2> QED  BY <2>2, <2>3, CompleteIndex
<1> QED
  BY <1>1, <1>2

(* Calls of a client.                                                      *)
LEMMA ClientIndex ==
    ASSUME IndexInv, Inv', CheckForUpdate \/ CheckForInstall \/ ResetStatus \/ Rollback
    PROVE  IndexInv'
<1>0. Fielded(ua) /\ Recorded(payload)
  BY DEF IndexInv, Inv, Safe, PayloadInv
<1>1. CASE Restarts(payload)
  BY <1>0, <1>1, RestartIndex
<1>2. CASE ~Restarts(payload)
  <2>1. payload' = payload
    BY <1>2, Zenon DEF CheckForUpdate, CheckForInstall, ResetStatus, Rollback
  <2>2. ua'.phase \in {ua.phase, "posted"}
    <3>1. CASE CheckForUpdate \/ CheckForInstall
      <4>1. PICK value \in ForcedValues, install \in BOOLEAN :
                ua' = ResetForced([ScheduleUpdates(ua) EXCEPT !.install = install], value)
        BY <3>1, Zenon DEF CheckForUpdate, CheckForInstall, ForcedValues
      <4> DEFINE scheduled == ScheduleUpdates(ua)
                 asked == [scheduled EXCEPT !.install = install]
      <4>2. Fielded(scheduled) /\ scheduled.phase = ua.phase
        BY <1>0, ScheduleKeeps DEF Agree
      <4> HIDE DEF scheduled
      <4>3. Fielded(asked) /\ asked.phase = ua.phase
        BY <4>2, Zenon DEF Fielded, Fields
      <4>4. ua' = ResetForced(asked, value)
        BY <4>1 DEF scheduled
      <4> HIDE DEF asked
      <4> QED  BY <4>3, <4>4, ResetForcedKeeps DEF Agree
    <3>2. CASE ResetStatus
      BY <1>0, <3>2, Zenon DEF ResetStatus, ResetToIdle, Fielded, Fields
    <3>3. CASE Rollback
      <4> DEFINE now == [ua EXCEPT !.install = FALSE]
                 told == [now EXCEPT !.delegate = TRUE]
                 posted == [now EXCEPT !.delegate = TRUE, !.status = "ATTEMPTING_ROLLBACK",
                                       !.phase = "posted"]
      <4>1. ua' \in {now, told, posted}
        BY <1>2, <3>3, Zenon DEF Rollback
      <4>2. now.phase = ua.phase /\ told.phase = ua.phase /\ posted.phase = "posted"
        BY <1>0, Zenon DEF Fielded, Fields
      <4> HIDE DEF now, told, posted
      <4> QED  BY <4>1, <4>2, Zenon
    <3> QED  BY <3>1, <3>2, <3>3
  <2>3. SameUrl(payload, payload')
    BY <1>0, <2>1, Zenon DEF SameUrl, SamePackage
  <2> QED  BY <2>2, <2>3, SameIndex
<1> QED
  BY <1>1, <1>2

(* The steps of an attempt that go well.                                   *)
LEMMA AttemptIndex ==
    ASSUME IndexInv, Inv', StartProcessing \/ BytesReceived \/ TransferComplete \/ InstallSucceeds
    PROVE  IndexInv'
<1>0. Fielded(ua) /\ PayloadInv(payload) /\ Recorded(payload)
  BY DEF IndexInv, Inv, Safe, PayloadInv
<1>1. CASE StartProcessing \/ InstallSucceeds
  <2>1. ua'.phase \in {"rollback", "check", "report"} /\ payload' = payload
    BY <1>0, <1>1 DEF StartProcessing, InstallSucceeds, Fielded, Fields
  <2> QED  BY <1>0, <2>1, OtherIndex
<1>2. CASE BytesReceived
  <2>1. SameUrl(payload, payload') /\ ua.phase = "download"
    BY <1>0, <1>2, OthersSame, Zenon DEF BytesReceived
  <2> QED  BY <2>1, SameIndex
<1>3. CASE TransferComplete /\ payload.index < Len(payload.response)
  <2>1. payload' = [NextPayload(payload) EXCEPT !.peer = "none"]
    BY <1>3, Zenon DEF TransferComplete
  <2> QED  BY <1>0, <1>3, <2>1, NextInvHolds DEF IndexInv
<1>4. CASE TransferComplete /\ ~(payload.index < Len(payload.response))
  <2>1. PICK fuzz \in Fuzz : payload' = IncrementFullPayloadAttemptNumber(payload, fuzz)
    BY <1>4, Zenon DEF TransferComplete, DownloadComplete
  <2>2. SameUrl(payload, payload')
    BY <1>0, <2>1, AttemptSame, Zenon
  <2>3. ua.phase = "download"
    BY <1>4 DEF TransferComplete
  <2> QED  BY <2>2, <2>3, SameIndex
<1> QED
  BY <1>1, <1>2, <1>3, <1>4

(* An update, a rollback, an error event or a ping is finished.            *)
LEMMA EndsIndex ==
    ASSUME IndexInv, Inv', ReportDone \/ RollbackSucceeds \/ EventDone \/ PingDone
    PROVE  IndexInv'
<1>0. Fielded(ua) /\ PayloadInv(payload)
  BY DEF IndexInv, Inv, Safe
<1> DEFINE quiet == ResetForced(ua, "none")
           ended == [quiet EXCEPT !.phase = "idle"]
           still == [quiet EXCEPT !.status = "IDLE", !.phase = "idle"]
           idle == ScheduleUpdates(still)
           over == [ua EXCEPT !.phase = "idle"]
           ping == ResetForced(over, "none")
           Idle(t) == Fielded(t) /\ t.phase = "idle"
<1>1. /\ ua' \in {Successful(ended), Successful(idle), idle, Successful(ping), over}
      /\ payload' \in {payload, UpdateApplied(payload)}
  BY Zenon DEF ReportDone, RollbackSucceeds, EventDone, PingDone, ErrorEventSent,
               ResetInteractivityFlags
<1>2. Fielded(quiet)
  BY <1>0, ResetForcedKeeps DEF ForcedValues
<1> HIDE DEF quiet
<1>3. Idle(ended) /\ Idle(still) /\ Idle(over)
  BY <1>0, <1>2, Zenon DEF Fielded, Fields
<1> HIDE DEF ended, still, over
<1>4. Idle(idle) /\ Idle(ping)
  BY <1>3, ScheduleKeeps, ResetForcedKeeps DEF Agree, ForcedValues
<1> HIDE DEF idle, ping
<1>5. ua'.phase = "idle"
  <2>1. ASSUME NEW t, Idle(t) PROVE Successful(t).phase = "idle"
    BY <2>1, SuccessfulEnds, Zenon
  <2> QED  BY <1>1, <1>3, <1>4, <2>1, Zenon
<1>6. PayloadInv(payload')
  BY <1>0, <1>1, AppliedInv, Zenon
<1> QED
  BY <1>5, <1>6, OtherIndex

(* The clock, the policy and the update manager.                           *)
LEMMA ClockIndex ==
    ASSUME IndexInv, Inv',
           \/ NextCheckComesDue \/ HalfDayPasses \/ P2PPeriodEnds \/ PolicyChanges
           \/ UNCHANGED vars
    PROVE  IndexInv'
<1>0. Recorded(payload)
  BY DEF IndexInv, PayloadInv
<1>1. ua' = ua
  BY Zenon DEF NextCheckComesDue, HalfDayPasses, P2PPeriodEnds, PolicyChanges, vars
<1>2. payload' \in {payload, HalfDayLater(payload), [payload EXCEPT !.p2pLate = TRUE]}
  BY Zenon DEF NextCheckComesDue, HalfDayPasses, P2PPeriodEnds, PolicyChanges, vars
<1>3. SameUrl(payload, payload)
  BY <1>0 DEF SameUrl, SamePackage
<1>4. SameUrl(payload, payload')
  <2>1. SameUrl(payload, HalfDayLater(payload)) /\ SameUrl(payload, [payload EXCEPT !.p2pLate = TRUE])
    BY <1>0, OthersSame, HalfDaySame, Zenon
  <2> QED  BY <1>2, <1>3, <2>1, Zenon
<1> QED
  BY <1>1, <1>4, SameIndex

(* The invariant holds when the daemon starts.                             *)
LEMMA InitIndex == Init => IndexInv
<1> SUFFICES ASSUME Init PROVE IndexInv
  OBVIOUS
<1>1. ua.phase = "idle"
  BY StartedIsIdle, Zenon DEF Init
<1> QED
  BY <1>1, InitInv, NewPayloadInv, Zenon DEF Init, IndexInv

(* Every step keeps the invariant.                                         *)
LEMMA NextIndex == IndexInv /\ [Next]_vars => IndexInv'
<1> SUFFICES ASSUME IndexInv, [Next]_vars PROVE IndexInv'
  OBVIOUS
<1>0. Inv' /\ Recorded(payload)
  BY NextInv DEF IndexInv, PayloadInv
<1>1. CASE EvaluatePosted \/ OnTimeout \/ ValueChanged \/ PolicyFails
  BY <1>0, <1>1, RequestsIndex
<1>2. CASE CheckForUpdate \/ CheckForInstall \/ ResetStatus \/ Rollback
  BY <1>0, <1>2, ClientIndex
<1>3. CASE StartProcessing \/ BytesReceived \/ TransferComplete \/ InstallSucceeds
  BY <1>0, <1>3, AttemptIndex
<1>4. CASE UpdateCheckSucceeds \/ OnLookupPayloadViaP2PCompleted
  BY <1>0, <1>4, UpdateIndex
<1>5. CASE \/ UpdateCheckFails \/ ShouldIgnoreUpdate \/ TransferFails \/ WriteFails
           \/ InstallFails \/ RollbackFails \/ SetActiveBootSlotFails
  BY <1>0, <1>5, FailuresIndex
<1>6. CASE ReportDone \/ RollbackSucceeds \/ EventDone \/ PingDone
  BY <1>0, <1>6, EndsIndex
<1>7. CASE Crash
  BY <1>0, <1>7, RestartIndex DEF Crash
<1>8. CASE \/ NextCheckComesDue \/ HalfDayPasses \/ P2PPeriodEnds \/ PolicyChanges
           \/ UNCHANGED vars
  BY <1>0, <1>8, ClockIndex
<1> QED
  BY <1>1, <1>2, <1>3, <1>4, <1>5, <1>6, <1>7, <1>8, Zenon DEF Next, Moves

(* The index of the package, which a release build uses unchecked, is one  *)
(* of the packages of the response and of the candidate URLs, whatever     *)
(* fails, is excluded, changes or crashes, and with the rollbacks that the *)
(* code does not guard against; a download has a URL if its package has    *)
(* any, though the URL index outlives restarts, responses and packages.    *)
THEOREM IndexStaysInRange == Spec => []IndexInRange
<1>1. IndexInv => IndexInRange
  <2> SUFFICES ASSUME IndexInv PROVE IndexInRange
    OBVIOUS
  <2>1. DOMAIN payload.candidates = DOMAIN payload.response
    BY DEF IndexInv, PayloadInv, Packages
  <2> QED
    BY <2>1, Zenon DEF IndexInv, PayloadInv, Downloading, GetCurrentUrl, IndexInRange
<1> QED
  BY <1>1, InitIndex, NextIndex, PTL DEF Spec
=============================================================================
