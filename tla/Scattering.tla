----------------------------- MODULE Scattering -----------------------------
(***************************************************************************)
(* How long a device waits with an update it was offered, so that not all  *)
(* devices of an enterprise download at once: the parts of UpdateAttempter *)
(* (cros/update_attempter.cc) and OmahaRequestAction                       *)
(* (cros/omaha_request_action.cc) about scattering and staging.  The       *)
(* fields of the record are                                                *)
(*   period    waiting_period of the request params,                       *)
(*   wall      the wall-clock wait, and with it the count of checks, is on,*)
(*   factor    scatter_factor_,                                            *)
(*   schedule  staging_schedule_ is the one of the device policy,          *)
(* which live in memory, and in the prefs                                  *)
(*   scatterPref, stagingPref   the periods, 0 if there is none,           *)
(*   count     UpdateCheckCount, or None,                                  *)
(*   elapsed   the time since UpdateFirstSeenAt, or None.                  *)
(* Times are in half days.  Random numbers are parameters.  The prefs can  *)
(* be read and written, OOBE is complete, the response has no deadline.    *)
(***************************************************************************)
EXTENDS Integers

CONSTANTS
    ScatterFactor,          \* of a device policy that scatters
    StagingDays,            \* the last day of the staging schedule
    MaxDaysToScatter,       \* max_days_to_scatter of the response
    kMaxWaitTimeStagingInDays,
    kDefaultMaxUpdateChecks

ASSUME ScatteringAssumption ==
    /\ {ScatterFactor, StagingDays, kMaxWaitTimeStagingInDays} \subseteq Nat \ {0}
    /\ {MaxDaysToScatter, kDefaultMaxUpdateChecks} \subseteq Nat

Policies == {"none", "scatter", "staging"}

None == -1

NewWait ==
    [period |-> 0, wall |-> FALSE, factor |-> 0, schedule |-> FALSE,
     scatterPref |-> 0, stagingPref |-> 0, count |-> None, elapsed |-> None]

RestartedWait(w) ==
    [w EXCEPT !.period = 0, !.wall = FALSE, !.factor = 0, !.schedule = FALSE]

(* What a random period may be.                                            *)
WaitingPeriods(policy) ==
    IF policy = "staging" THEN {2 * days : days \in 1..StagingDays} ELSE 1..ScatterFactor

DecrementUpdateCheckCount(w) == [w EXCEPT !.count = IF @ > 0 THEN @ - 1 ELSE @]

CalculateStagingCase(w, policy, interactive) ==
    IF policy # "staging" \/ interactive THEN "off"
    ELSE IF w.period > 0 THEN (IF w.schedule THEN "noAction" ELSE "noSavedValue")
    ELSE IF w.stagingPref \in 1..(2 * StagingDays) THEN "setStagingFromPref"
    ELSE "noSavedValue"

(* Staging is on: it turns scattering off, and counts the check.           *)
Staged(w, case, draw) ==
    LET saved == IF case = "noSavedValue" THEN [w EXCEPT !.stagingPref = draw] ELSE w
        period == IF case = "noAction" THEN w.period ELSE saved.stagingPref
    IN  DecrementUpdateCheckCount(
            [saved EXCEPT !.period = period, !.schedule = TRUE, !.wall = TRUE,
                          !.scatterPref = 0, !.factor = 0])

GenerateNewWaitingPeriod(w, draw) == [w EXCEPT !.period = draw, !.scatterPref = draw]

CalculateScatteringParams(w, policy, interactive, draw) ==
    LET factor == IF policy = "scatter" THEN ScatterFactor ELSE 0
        now == [w EXCEPT !.factor = factor]
        waits == IF w.period = 0
                 THEN IF w.scatterPref \in 1..factor THEN [now EXCEPT !.period = w.scatterPref]
                      ELSE GenerateNewWaitingPeriod(now, draw)
                 ELSE IF w.factor # factor THEN GenerateNewWaitingPeriod(now, draw)
                 ELSE now
    IN  IF factor > 0 /\ ~interactive
        THEN DecrementUpdateCheckCount([waits EXCEPT !.wall = TRUE])
        ELSE [now EXCEPT !.wall = FALSE, !.period = 0, !.scatterPref = 0, !.count = None]

(* CalculateStagingParams, and scattering if that leaves staging off.      *)
CalculateWaitParams(w, policy, interactive, draw) ==
    LET case == CalculateStagingCase(w, policy, interactive)
    IN  IF case = "off"
        THEN CalculateScatteringParams([w EXCEPT !.stagingPref = 0], policy, interactive, draw)
        ELSE Staged(w, case, draw)

LoadOrPersistUpdateFirstSeenAtPref(w) ==
    [w EXCEPT !.elapsed = IF @ = None THEN 0 ELSE @]

IsWallClockBasedWaitingSatisfied(w) ==
    LET max == IF w.stagingPref > 0 THEN 2 * kMaxWaitTimeStagingInDays ELSE 2 * MaxDaysToScatter
    IN  IF max = 0 \/ w.elapsed > max THEN "done"
        ELSE IF w.period > w.elapsed THEN "notSatisfied"
        ELSE "updateCheckWaitRequired"

(* The count down of checks starts when the wall-clock wait is over.       *)
StartUpdateCheckCount(w, n) ==
    IF w.count = None /\ w.wall /\ IsWallClockBasedWaitingSatisfied(w) = "updateCheckWaitRequired"
    THEN [w EXCEPT !.count = n] ELSE w

(* After StartUpdateCheckCount, for a check that is not interactive and    *)
(* has found no peer.                                                      *)
ShouldDeferDownload(w) ==
    /\ w.wall
    /\ \/ IsWallClockBasedWaitingSatisfied(w) = "notSatisfied"
       \/ /\ IsWallClockBasedWaitingSatisfied(w) = "updateCheckWaitRequired"
          /\ w.count \in 1..kDefaultMaxUpdateChecks

(* An update was applied: the next one draws new numbers.                  *)
WaitIsOver(w) ==
    [w EXCEPT !.count = None, !.scatterPref = 0, !.stagingPref = 0, !.elapsed = None]

(* No wait is longer than that.                                            *)
LongestWait ==
    2 * (IF MaxDaysToScatter > kMaxWaitTimeStagingInDays
         THEN MaxDaysToScatter ELSE kMaxWaitTimeStagingInDays)

TimePasses(w) == [w EXCEPT !.elapsed = IF @ \in 0..LongestWait THEN @ + 1 ELSE @]
=============================================================================
