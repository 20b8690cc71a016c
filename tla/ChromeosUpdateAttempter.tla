---------------------- MODULE ChromeosUpdateAttempter ----------------------
(***************************************************************************)
(* UpdateAttempter of ChromeOS (cros/update_attempter.cc) with the update  *)
(* manager that tells it when to check, the Omaha actions and the download *)
(* that it runs, and the PayloadState that they share.                     *)
(*                                                                         *)
(* The record ua is the attempter and the update manager: the operators    *)
(* below, named for the methods, map it to the record after the call.      *)
(* Everything runs on the one thread of the daemon.  phase is what the     *)
(* ActionProcessor does: "posted" (StartProcessing is in the message       *)
(* loop), "check" (OmahaRequestAction; the response handler runs in the    *)
(* same call that ends it), "lookup" (the same action asks for a local     *)
(* peer), "download", "install" (verifier and postinstall), "report" (the  *)
(* last event), "rollback" (postinstall of the other slot), "event" (the   *)
(* error event) or "ping".  A failed CHECK aborts the daemon, which init   *)
(* starts again.                                                           *)
(***************************************************************************)
EXTENDS PayloadState, UpdateManager, FiniteSets

CONSTANTS
    Delta,                  \* the packages offered while deltas are wanted
    Full,                   \* the packages of the full update
    Dlc,                    \* the packages of the DLCs that are installed
    Kind,                   \* what a URL delivers, by its id: "good",
                            \* "corrupt", or nothing at all: "down"
    DeltaInstalls,          \* the delta update passes the verifier
    kMaxDeltaUpdateFailures,
    Settings,               \* how devices are managed: [policy, p2p]
    Undisciplined,          \* what the code does not guard against: rollbacks
                            \* "Refused" while a DLC is being installed or with
                            \* "Partitions" that cannot be loaded, and a failure
                            \* to mark the target slot unbootable, "MarkFails"
    MaxTrouble              \* bounds the failures, crashes and client calls

Urls == Seq([id : DOMAIN Kind, http : BOOLEAN])
Packages == Seq([urls : Urls, delta : BOOLEAN, canExclude : BOOLEAN])

ASSUME AttempterAssumption ==
    /\ {Delta, Full, Dlc} \subseteq Packages
    /\ kMaxDeltaUpdateFailures \in Nat \ {0} /\ MaxTrouble \in Nat
    /\ DeltaInstalls \in BOOLEAN
    /\ Undisciplined \subseteq {"Refused", "Partitions", "MarkFails"}
    /\ Settings \subseteq [policy : Policies, p2p : BOOLEAN]

VARIABLES
    ua,                     \* UpdateAttempter, ActionProcessor, UpdateManager
    payload,                \* PayloadState
    slot,                   \* which slot is active, and the state of the other
    due,                    \* the time of the next periodic check has come
    httpOk,                 \* device policy: downloads over http are enabled
    setting,                \* device policy: the rest
    enabled,                \* the device has the slots to be updated
    trouble                 \* how much of MaxTrouble is used up

device == <<httpOk, setting, enabled>>
vars == <<ua, payload, slot, due, device, trouble>>

(* The other slot can be tried, its image is whole, and what postinstall   *)
(* asked for was a reboot into the other firmware.                         *)
NewSlot == [active |-> "current", bootable |-> TRUE, whole |-> TRUE, firmware |-> FALSE]

IsRunning(s) == s.phase \notin {"idle", "posted"}

IsBusyOrUpdateScheduled(s) ==
    s.status \notin {"IDLE", "UPDATED_NEED_REBOOT"} \/ s.waiting

ScheduleUpdates(s) ==
    IF IsBusyOrUpdateScheduled(s) THEN s
    ELSE [AsyncPolicyRequest(s) EXCEPT !.waiting = TRUE]

(* The daemon starts: Init, then StartUpdater.  completed is the marker in *)
(* the prefs, deltaFailures a counter in them.                             *)
Started(completed, deltaFailures) ==
    ScheduleUpdates(
        [status |-> IF completed THEN "UPDATED_NEED_REBOOT" ELSE "IDLE",
         waiting |-> FALSE, phase |-> "idle", delegate |-> FALSE, fake |-> FALSE,
         interactive |-> FALSE, install |-> FALSE, dlc |-> FALSE, bytes |-> FALSE, aborted |-> FALSE,
         completed |-> completed, deltaFailures |-> deltaFailures,
         requests |-> NewManager.requests, forced |-> NewManager.forced,
         notified |-> NewManager.notified])

Init ==
    /\ ua = Started(FALSE, 0)
    /\ payload = NewPayload
    /\ slot = NewSlot /\ due = FALSE /\ httpOk = TRUE /\ trouble = 0
    /\ enabled \in BOOLEAN /\ setting \in Settings

Abort(s) == [s EXCEPT !.aborted = TRUE]

ResetInteractivityFlags(s) == ResetForced(s, "none")

(* Faulty: the attempter stays the delegate of the processor.              *)
PingOmahaKeepsDelegate(s) ==
    ScheduleUpdates(
        IF IsRunning(s) THEN s
        ELSE [ResetInteractivityFlags(s) EXCEPT !.phase = "ping"])

(* Nobody hears of the end of a ping: the delegate is taken away.          *)
PingOmaha(s) ==
    ScheduleUpdates(
        IF IsRunning(s) THEN s
        ELSE [ResetInteractivityFlags(s) EXCEPT !.phase = "ping", !.delegate = FALSE])

(* BuildUpdateActions, the new status and ScheduleProcessingStart.         *)
(* CalculateDlcParams has put is_install_ into the params of the request.  *)
BuildUpdateActions(s, interactive) ==
    IF IsRunning(s) THEN Abort(s)
    ELSE [s EXCEPT !.delegate = TRUE, !.interactive = interactive, !.dlc = s.install,
                   !.status = "CHECKING_FOR_UPDATE", !.phase = "posted"]

(* paramsOk: CalculateUpdateParams could read what it needs.               *)
Update(s, interactive, paramsOk) ==
    LET now == [s EXCEPT !.fake = FALSE]
    IN  IF s.status = "UPDATED_NEED_REBOOT" THEN PingOmaha(now)
        ELSE IF s.status # "IDLE" \/ ~paramsOk THEN now
        ELSE BuildUpdateActions(now, interactive)

(* The callback of a policy request.  Its last line is                     *)
(* CHECK(IsBusyOrUpdateScheduled()), but not when updates are disabled.    *)
OnUpdateScheduled(s, answer, paramsOk) ==
    LET now == [s EXCEPT !.waiting = FALSE]
        after == IF answer = "failed" THEN ScheduleUpdates(now)
                 ELSE Update(now, answer = "interactive", paramsOk)
    IN  IF answer = "disabled" THEN [now EXCEPT !.status = "IDLE"]
        ELSE IF IsBusyOrUpdateScheduled(after) THEN after
        ELSE Abort(after)

(* The marker and the status that tell the client to reboot.               *)
ProcessingDoneUpdate(s) ==
    ScheduleUpdates([s EXCEPT !.completed = TRUE, !.status = "UPDATED_NEED_REBOOT"])

ProcessingDoneInstall(s) == ScheduleUpdates([s EXCEPT !.status = "IDLE"])

(* What is_install_ was is forgotten last.                                 *)
Successful(s) ==
    LET now == [s EXCEPT !.deltaFailures = 0]
    IN  [IF s.install THEN ProcessingDoneInstall(now) ELSE ProcessingDoneUpdate(now)
            EXCEPT !.install = FALSE]

(* ProcessingDone after the error event was sent: fake tells that the new  *)
(* firmware could not be written because the old one is the one in use.    *)
ErrorEventSent(s) ==
    LET idle == ScheduleUpdates([ResetInteractivityFlags(s)
                                    EXCEPT !.status = "IDLE", !.phase = "idle"])
    IN  IF s.fake THEN Successful(idle) ELSE idle

(* Faulty: no check is scheduled when there was nothing to do.             *)
NothingToReportForgets(s) ==
    [ResetInteractivityFlags(s)
        EXCEPT !.status = "IDLE", !.phase = "idle", !.install = FALSE]

(* ProcessingDone when an action failed without an event to report.        *)
NothingToReport(s) ==
    ScheduleUpdates([ResetInteractivityFlags(s)
                        EXCEPT !.status = "IDLE", !.phase = "idle", !.install = FALSE])

(* ScheduleErrorEventAction: the processor starts again, with the event.   *)
ScheduleErrorEventAction(s, fake) ==
    [ResetInteractivityFlags(s)
        EXCEPT !.fake = fake, !.status = "REPORTING_ERROR_EVENT", !.phase = "event",
               !.install = FALSE]

(* The part of ActionCompleted that counts failures from the download on.  *)
MarkDeltaUpdateFailure(s, code) ==
    IF s.status \in {"DOWNLOADING", "ATTEMPTING_ROLLBACK"} /\ code # "transfer"
    THEN [s EXCEPT !.deltaFailures = Min2(@ + 1, kMaxDeltaUpdateFailures)] ELSE s

(* An action fails: ActionCompleted, and the ProcessingDone that follows   *)
(* in the same call.  Only kNoUpdate has no event, and leaves PayloadState *)
(* alone.  sl is what the action has made of the slots.                    *)
FailsLeaving(s, p, code, sl) ==
    /\ IF code = "noUpdate"
       THEN ua' = NothingToReport(s) /\ payload' = p
       ELSE /\ ua' = ScheduleErrorEventAction(MarkDeltaUpdateFailure(s, code), code = "firmwareB")
            /\ \E fuzz \in Fuzz : payload' = UpdateFailed(p, code, fuzz)
    /\ slot' = [sl EXCEPT !.firmware = (code = "firmwareB")]
    /\ UNCHANGED <<due, device>>

Fails(s, p, code) == FailsLeaving(s, p, code, slot)

Calm == UNCHANGED trouble
Trouble == trouble < MaxTrouble /\ trouble' = trouble + 1

(* Every pending notification, timer and callback is gone; the prefs, and  *)
(* with them the marker, the counters and the exclusions, are not.         *)
Restarts(p) ==
    /\ ua' = Started(ua.completed, ua.deltaFailures)
    /\ payload' = Initialize(p)
    /\ due' = FALSE

-----------------------------------------------------------------------------
(* The waits and p2p are calculated before anything can stop the check.    *)
(* p2p is for checks that nobody waits for.                                *)
CalculateUpdateParams(s, p, answer) ==
    LET interactive == answer = "interactive"
    IN  IF s.status = "IDLE" /\ answer \in {"interactive", "periodic"}
        THEN {[CalculateWaitParams(p, setting.policy, interactive, draw)
                  EXCEPT !.peer = "none", !.p2p = setting.p2p /\ ~interactive] :
                  draw \in WaitingPeriods(setting.policy)}
        ELSE {p}

(* Update() has got as far as UpdateLastCheckedTime: a busy attempter does *)
(* nothing, and the check stays due.                                       *)
ChecksNow(s, answer) ==
    answer \in {"interactive", "periodic"} /\ s.status \in {"IDLE", "UPDATED_NEED_REBOOT"}

(* The update manager evaluates request i, and its callback runs if the    *)
(* policy does not want to wait.                                           *)
Answers(s, i, answer, paramsOk) ==
    LET after == OnUpdateScheduled(Answered(s, i), answer, paramsOk)
    IN  \E p \in CalculateUpdateParams(s, payload, answer) :
            IF after.aborted THEN Restarts(p)
            ELSE /\ ua' = after
                 /\ due' = (due /\ ~ChecksNow(s, answer))
                 /\ payload' = p

OnPolicyReadyToEvaluate(s, i) ==
    \E answer \in UpdateCheckAllowed(s, enabled, due) :
        IF answer = "askMeAgainLater"
        THEN ua' = RunOnValueChangeOrTimeout(s, i) /\ UNCHANGED <<payload, due>>
        ELSE Answers(s, i, answer, TRUE)

EvaluatePosted ==
    /\ \E i \in DOMAIN ua.requests :
          ua.requests[i] = "posted" /\ OnPolicyReadyToEvaluate(ua, i)
    /\ Calm /\ UNCHANGED <<slot, device>>

(* A timeout before the check is due only arms the next one.               *)
OnTimeout ==
    /\ due
    /\ \E i \in DOMAIN ua.requests :
          ua.requests[i] = "waiting" /\ OnPolicyReadyToEvaluate(ua, i)
    /\ Calm /\ UNCHANGED <<slot, device>>

(* OnValueChangedNotification finds no observer any more, or wakes it.     *)
ValueChanged ==
    /\ ua.notified
    /\ LET heard == [ua EXCEPT !.notified = FALSE]
       IN  IF HasObserver(ua)
           THEN \E i \in DOMAIN ua.requests :
                    ua.requests[i] = "waiting" /\ OnPolicyReadyToEvaluate(heard, i)
           ELSE ua' = heard /\ UNCHANGED <<payload, due>>
    /\ Calm /\ UNCHANGED <<slot, device>>

(* The policy fails, or CalculateUpdateParams does.                        *)
PolicyFails ==
    /\ enabled
    /\ \E i \in DOMAIN ua.requests :
          \/ \E answer \in DefaultUpdateCheckAllowed : Answers(ua, i, answer, TRUE)
          \/ due /\ Answers(ua, i, "periodic", FALSE)
    /\ Trouble /\ UNCHANGED <<slot, device>>

(* Calls of a client.                                                      *)
CheckForUpdate ==
    /\ ua.status = "IDLE"
    /\ \E value \in {"interactive", "periodic"} :
          ua' = ResetForced([ScheduleUpdates(ua) EXCEPT !.install = FALSE], value)
    /\ Trouble /\ UNCHANGED <<payload, slot, due, device>>

CheckForInstall ==
    /\ ua.status = "IDLE"
    /\ ua' = ResetForced([ScheduleUpdates(ua) EXCEPT !.install = TRUE], "interactive")
    /\ Trouble /\ UNCHANGED <<payload, slot, due, device>>

(* An update that waits for its reboot is given up.                        *)
ResetToIdle(s) == [s EXCEPT !.status = "IDLE", !.completed = FALSE]

ResetStatus ==
    /\ ua.status = "UPDATED_NEED_REBOOT"
    /\ ua' = ResetToIdle(ua)
    /\ slot' = [slot EXCEPT !.active = "current", !.firmware = FALSE]
    /\ Trouble /\ UNCHANGED <<payload, due, device>>

CanRollback == ua.status = "IDLE" /\ enabled /\ slot.bootable

(* is_install_ is forgotten first.  A processor that runs is found out by  *)
(* the start that is posted, which comes before the answer to a ping.      *)
Rollback ==
    /\ ~CanRollback /\ ua.install /\ ua.status # "IDLE" => "Refused" \in Undisciplined
    /\ LET now == [ua EXCEPT !.install = FALSE]
       IN  IF ~CanRollback THEN ua' = now /\ UNCHANGED <<payload, due>>
           ELSE IF "Partitions" \in Undisciplined
           THEN ua' = [now EXCEPT !.delegate = TRUE] /\ UNCHANGED <<payload, due>>
           ELSE IF IsRunning(ua) THEN Restarts(payload)
           ELSE /\ ua' = [now EXCEPT !.delegate = TRUE, !.status = "ATTEMPTING_ROLLBACK",
                                     !.phase = "posted"]
                /\ UNCHANGED <<payload, due>>
    /\ Trouble /\ UNCHANGED <<slot, device>>

-----------------------------------------------------------------------------
StartProcessing ==
    /\ ua.phase = "posted"
    /\ ua' = [ua EXCEPT !.phase = IF ua.status = "ATTEMPTING_ROLLBACK" THEN "rollback" ELSE "check"]
    /\ Calm /\ UNCHANGED <<payload, slot, due, device>>

(* OmahaRequestAction fails: the request, or what came back is no update,  *)
(* or no XML.                                                              *)
UpdateCheckFails ==
    /\ ua.phase = "check"
    /\ \E code \in {"omahaHttp", "noUpdate", "invalid"} : Fails(ua, payload, code)
    /\ Trouble

(* An update that the policies or the kind of connection forbid.           *)
ShouldIgnoreUpdate ==
    /\ ua.phase = "check"
    /\ Fails(ua, LoadOrPersistUpdateFirstSeenAtPref(payload), "ignored")
    /\ Trouble

(* DisableDeltaUpdateIfNeeded has told the server what to offer.           *)
Offered ==
    IF ua.dlc THEN Dlc
    ELSE IF ua.deltaFailures < kMaxDeltaUpdateFailures THEN Delta ELSE Full

(* Faulty: the slot that is written to can still be booted.                *)
StartDownloadBootable(p) ==
    /\ ua' = [ua EXCEPT !.status = "UPDATE_AVAILABLE", !.phase = "download", !.bytes = FALSE]
    /\ payload' = p
    /\ slot' = [slot EXCEPT !.firmware = FALSE]
    /\ UNCHANGED <<due, device>>

(* OmahaResponseHandlerAction has made the plan, the DownloadAction starts *)
(* and marks the target slot, which for DLCs is the current one: that      *)
(* BootControl refuses, and the action goes on, as it does when the mark   *)
(* cannot be written.                                                      *)
Marked == IF "MarkFails" \in Undisciplined THEN BOOLEAN ELSE {TRUE}

StartDownload(p) ==
    /\ ua' = [ua EXCEPT !.status = "UPDATE_AVAILABLE", !.phase = "download", !.bytes = FALSE]
    /\ payload' = p
    /\ \E marked \in Marked :
        slot' = [slot EXCEPT !.firmware = FALSE, !.bootable = @ /\ (ua.dlc \/ ~marked)]
    /\ UNCHANGED <<due, device>>

Scattered(p) == ~ua.interactive /\ p.peer = "none"

MayDownload(p) ==
    /\ ~(Scattered(p) /\ ShouldDeferDownload(p))
    /\ ~ShouldBackoffDownload(p, ua.interactive) /\ GetCurrentUrl(p) # <<>>

(* The check has an update: it may have to wait, the policy may not let it *)
(* be applied now, or the download starts.                                 *)
CompleteProcessing(p) ==
    \E q \in IF Scattered(p) THEN {StartUpdateCheckCount(p, n) : n \in 0..kDefaultMaxUpdateChecks}
             ELSE {p} :
        \/ MayDownload(q) /\ StartDownload(q) /\ Calm
        \/ ~MayDownload(q) /\ Fails(ua, q, "deferred") /\ Calm
        \/ MayDownload(q) /\ Fails(ua, q, "deferred") /\ Trouble

(* What PayloadState makes of an update.                                   *)
Responded(response) ==
    LET p == SetResponse(LoadOrPersistUpdateFirstSeenAtPref(payload), response, httpOk)
    IN  IF p.p2p THEN P2PNewAttempt(p) ELSE p

(* TransferComplete with an update.                                        *)
UpdateCheckSucceeds ==
    /\ ua.phase = "check"
    /\ \E response \in {ProcessExclusions(Offered, payload.excluded)} :
       \E p \in {Responded(response)} :
          IF p.p2p /\ P2PAttemptAllowed(p)
          THEN /\ ua' = [ua EXCEPT !.phase = "lookup"]
               /\ payload' = p
               /\ Calm /\ UNCHANGED <<slot, due, device>>
          ELSE CompleteProcessing(p)

Peers == {"none", "good", "corrupt", "down"}

(* The lookup is taken to be made.  LookupPayloadViaP2P returns without    *)
(* one, and the action never ends, when there is no p2p_manager or when    *)
(* the hash of the first package is not hexadecimal: the manager is there  *)
(* wherever p2p is allowed, and that hash, "hash_sha256" of the response,  *)
(* is taken to be well formed.                                             *)
OnLookupPayloadViaP2PCompleted ==
    /\ ua.phase = "lookup"
    /\ \E peer \in Peers : CompleteProcessing([payload EXCEPT !.peer = peer])

(* The policy may have left a package that follows the first one without a *)
(* URL: nothing can be fetched from an empty one.                          *)
CurrentKind ==
    IF payload.peer # "none" THEN payload.peer
    ELSE IF GetCurrentUrl(payload) = <<>> THEN "down"
    ELSE Kind[Head(GetCurrentUrl(payload)).id]

BytesReceived ==
    /\ ua.phase = "download" /\ ~ua.bytes /\ CurrentKind # "down"
    /\ ua' = [ua EXCEPT !.bytes = TRUE, !.status = "DOWNLOADING"]
    /\ payload' = DownloadProgress(payload)
    /\ slot' = [slot EXCEPT !.whole = @ /\ ua.dlc]
    /\ Calm /\ UNCHANGED <<due, device>>

(* The server at the URL never answers, or the network fails this once.    *)
TransferFails ==
    /\ ua.phase = "download"
    /\ Fails(ua, payload, "transfer")
    /\ IF CurrentKind = "down" THEN Calm ELSE Trouble

(* DeltaPerformer rejects what it is given.                                *)
WriteFails ==
    /\ ua.phase = "download" /\ ua.bytes /\ CurrentKind = "corrupt"
    /\ Fails(ua, payload, "corrupt")
    /\ Calm

(* The packages that follow the first one do not come from a peer.         *)
TransferComplete ==
    /\ ua.phase = "download" /\ ua.bytes /\ CurrentKind = "good"
    /\ IF payload.index < Len(payload.response)
       THEN /\ ua' = [ua EXCEPT !.bytes = FALSE]
            /\ payload' = [NextPayload(payload) EXCEPT !.peer = "none"]
       ELSE /\ ua' = [ua EXCEPT !.phase = "install"]
            /\ \E fuzz \in Fuzz : payload' = DownloadComplete(payload, fuzz)
    /\ Calm /\ UNCHANGED <<slot, due, device>>

(* The verifier or a postinstall program fails.                            *)
InstallFails ==
    /\ ua.phase = "install"
    /\ IF payload.response[1].delta /\ ~DeltaInstalls
       THEN Fails(ua, payload, "install") /\ Calm
       ELSE (\E code \in {"install", "firmwareB"} : Fails(ua, payload, code)) /\ Trouble

(* Postinstall makes the target slot active; for DLCs it is the current    *)
(* one.                                                                    *)
SetActiveBootSlot(dlc) ==
    IF dlc THEN [slot EXCEPT !.active = "current"]
    ELSE [slot EXCEPT !.active = "new", !.bootable = TRUE, !.whole = TRUE]

(* BootControl gives the slot the highest priority but then fails to set   *)
(* its tries, which leaves it as bootable as it was.                       *)
SetActiveBootSlotFails ==
    /\ \/ ua.phase = "install" /\ (payload.response[1].delta => DeltaInstalls)
       \/ ua.phase = "rollback"
    /\ FailsLeaving(ua, payload, "install",
                    [slot EXCEPT !.active =
                        IF ua.phase = "install" /\ ua.dlc THEN "current" ELSE "new"])
    /\ Trouble

InstallSucceeds ==
    /\ ua.phase = "install" /\ (payload.response[1].delta => DeltaInstalls)
    /\ ua' = [ua EXCEPT !.phase = "report"]
    /\ slot' = SetActiveBootSlot(ua.dlc)
    /\ Calm /\ UNCHANGED <<payload, due, device>>

(* What ProcessingDoneInternal does to the prefs of PayloadState.          *)
UpdateApplied(p) == WaitIsOver(UpdateSucceeded(p))

(* Events always succeed, whatever became of their request.                *)
ReportDone ==
    /\ ua.phase = "report"
    /\ ua' = Successful([ResetInteractivityFlags(ua) EXCEPT !.phase = "idle"])
    /\ payload' = UpdateApplied(payload)
    /\ Calm /\ UNCHANGED <<slot, due, device>>

EventDone ==
    /\ ua.phase = "event"
    /\ ua' = ErrorEventSent(ua)
    /\ payload' = IF ua.fake THEN UpdateApplied(payload) ELSE payload
    /\ Calm /\ UNCHANGED <<slot, due, device>>

(* A processor that still has its delegate would tell it that all is done. *)
PingDone ==
    /\ ua.phase = "ping"
    /\ LET idle == [ua EXCEPT !.phase = "idle"]
       IN  IF ua.delegate
           THEN /\ ua' = Successful(ResetInteractivityFlags(idle))
                /\ payload' = UpdateApplied(payload)
           ELSE ua' = idle /\ UNCHANGED payload
    /\ Calm /\ UNCHANGED <<slot, due, device>>

(* Postinstall of the other slot, whose image nobody verifies.             *)
RollbackSucceeds ==
    /\ ua.phase = "rollback"
    /\ ua' = Successful([ResetInteractivityFlags(ua) EXCEPT !.phase = "idle"])
    /\ payload' = UpdateApplied(payload)
    /\ slot' = [slot EXCEPT !.active = "new", !.bootable = TRUE]
    /\ Calm /\ UNCHANGED <<due, device>>

RollbackFails ==
    /\ ua.phase = "rollback"
    /\ \E code \in {"install", "firmwareB"} : Fails(ua, payload, code)
    /\ Trouble

-----------------------------------------------------------------------------
Crash ==
    /\ Restarts(payload)
    /\ Trouble /\ UNCHANGED <<slot, device>>

(* It matters only while a request waits: a check sets the time anew.      *)
NextCheckComesDue ==
    /\ ua.waiting /\ ~due /\ due' = TRUE
    /\ Calm /\ UNCHANGED <<ua, payload, slot, device>>

(* The age of the update matters only to devices that wait.                *)
HalfDayPasses ==
    /\ payload.backoff > 0 \/ (setting.policy # "none" /\ payload.elapsed \in 0..LongestWait)
    /\ payload' = HalfDayLater(payload)
    /\ Calm /\ UNCHANGED <<ua, slot, due, device>>

P2PPeriodEnds ==
    /\ payload.p2pAttempts > 0 /\ ~payload.p2pLate
    /\ payload' = [payload EXCEPT !.p2pLate = TRUE]
    /\ Trouble /\ UNCHANGED <<ua, slot, due, device>>

PolicyChanges ==
    /\ \/ httpOk' = ~httpOk /\ UNCHANGED setting
       \/ setting' \in Settings \ {setting} /\ UNCHANGED httpOk
    /\ Trouble /\ UNCHANGED <<ua, payload, slot, due, enabled>>

(* What the message loop, the network, the children and the clock do.      *)
Moves ==
    \/ EvaluatePosted \/ OnTimeout \/ ValueChanged \/ StartProcessing
    \/ UpdateCheckSucceeds \/ OnLookupPayloadViaP2PCompleted
    \/ BytesReceived \/ WriteFails \/ TransferComplete
    \/ TransferFails \/ InstallFails \/ InstallSucceeds
    \/ RollbackSucceeds \/ ReportDone \/ EventDone \/ PingDone

Next ==
    \/ Moves \/ NextCheckComesDue \/ HalfDayPasses
    \/ PolicyFails \/ CheckForUpdate \/ CheckForInstall \/ ResetStatus \/ Rollback
    \/ UpdateCheckFails \/ ShouldIgnoreUpdate \/ RollbackFails \/ SetActiveBootSlotFails
    \/ Crash \/ P2PPeriodEnds \/ PolicyChanges

Spec == Init /\ [][Next]_vars
FairSpec ==
    Spec /\ WF_vars(Moves) /\ WF_vars(NextCheckComesDue) /\ WF_vars(HalfDayPasses)

-----------------------------------------------------------------------------
(* The index of the package, which IncrementUrlIndex and                   *)
(* IncrementFullPayloadAttemptNumber use without a check in a release      *)
(* build, for the candidate URLs as for the packages, stays in range: over *)
(* restarts, changes of packages by exclusions, deltas and DLCs, changes   *)
(* of the http policy, rollbacks, and failures that come before the next   *)
(* response.  A download has a URL if its package has any, though the URL  *)
(* index outlives restarts and is the one of another package after a       *)
(* failure.                                                                *)
IndexInRange ==
    /\ DOMAIN payload.candidates = DOMAIN payload.response
    /\ payload.candidates # <<>> => payload.index \in DOMAIN payload.candidates
    /\ ua.phase = "download" /\ CurrentUrls(payload) # <<>> => GetCurrentUrl(payload) # <<>>

(* The daemon never stops checking for updates (the CHECK at the end of    *)
(* OnUpdateScheduled): an idle attempter has exactly one policy request,   *)
(* whose callback has not run, a busy one has a processor that runs and    *)
(* will tell it, and a forced check does not sleep until the next timeout. *)
StaysScheduled ==
    /\ Len(ua.requests) = (IF ua.waiting THEN 1 ELSE 0)
    /\ enabled => IsBusyOrUpdateScheduled(ua)
    /\ ua.status \notin {"IDLE", "UPDATED_NEED_REBOOT"} =>
           ua.phase \notin {"idle", "ping"} /\ (ua.phase # "posted" => ua.delegate)
    /\ ua.forced # "none" /\ HasObserver(ua) => ua.notified

(* The client is told to reboot exactly when the marker is in the prefs,   *)
(* so also after a restart of the daemon, and only if postinstall has made *)
(* the other slot active or has asked for the reboot: an update that was   *)
(* given up with ResetStatus does not come back, whatever was under way,   *)
(* and the installation of a DLC needs no reboot.                          *)
RebootPending ==
    /\ ua.completed <=> ua.status = "UPDATED_NEED_REBOOT"
    /\ ua.completed => slot.firmware \/ (slot.active = "new" /\ slot.bootable)

(* The bootloader never gets an image that is only partly written, though  *)
(* the other slot may already be active when a download begins, after a    *)
(* crash that came before the marker or a slot switch that failed halfway, *)
(* and though Rollback makes it active without looking at the image.  It   *)
(* depends on MarkSlotUnbootable, whose failure DownloadAction only logs   *)
(* ("MarkFails").                                                          *)
BootsWholeImage == slot.active = "new" /\ slot.bootable => slot.whole

(* Once failures, crashes and client calls stop, the update is installed:  *)
(* bad URLs are left behind, packages that cannot be had are excluded, a   *)
(* delta that does not install gives way to the full update, peers that    *)
(* deliver nothing of use are no longer asked, and back-offs and the waits *)
(* of scattering and staging end.                                          *)
InstallsEventually == enabled ~> ua.status = "UPDATED_NEED_REBOOT"

(* What omaha_response.h says of the packages that are not critical, and   *)
(* of the failures of a URL: the payload can be excluded if consistently   *)
(* faulty, and max_failure_count_per_url failures are tolerated before     *)
(* moving on.  A URL that delivers nothing is not tried for ever.          *)
FaultyUrlGivenUp ==
    <>[](ua.phase = "download" => CurrentKind # "down")
=============================================================================
