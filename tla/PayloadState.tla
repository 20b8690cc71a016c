---------------------------- MODULE PayloadState ----------------------------
(***************************************************************************)
(* PayloadState (cros/payload_state.cc): which URL of which package of the *)
(* Omaha response the next download of ChromeOS uses, how often a URL may  *)
(* fail, and how long to back off after a full payload was tried.  The     *)
(* state is one record that the operators map to the next; the fields      *)
(* response, candidates, index, p2p and peer live in memory, the others    *)
(* are written through to the prefs on every change, and the fields of     *)
(* Scattering are added to them.  Packages and URLs are numbered from 1.   *)
(* A package is [urls, delta, canExclude], a URL [id, http].               *)
(* Time is what is left of the back-off, in half days, so the fuzz of up   *)
(* to twelve hours is 0 or 1.  peer is what the local peer delivers that   *)
(* p2p has found for this attempt, or "none".                              *)
(***************************************************************************)
EXTENDS Scattering, Sequences, FiniteSets, Functions

CONSTANTS
    MaxFailureCountPerUrl,  \* max_failure_count_per_url of the response
    kMaxBackoffDays,
    MaxAttempts,            \* the full attempt number saturates here: the
                            \* back-off has long been kMaxBackoffDays by then
    kMaxP2PAttempts

ASSUME PayloadAssumption ==
    /\ MaxFailureCountPerUrl \in Nat \ {0} /\ kMaxBackoffDays \in Nat \ {0}
    /\ MaxAttempts \in Nat /\ 2^(MaxAttempts - 1) >= kMaxBackoffDays
    /\ kMaxP2PAttempts \in Nat

Fuzz == 0..1

NewPayload ==
    [response |-> <<>>, candidates |-> <<>>, index |-> 1,
     url |-> 1, failures |-> 0, attempts |-> 0, backoff |-> 0,
     signature |-> <<>>, excluded |-> {},
     p2pAttempts |-> 0, p2pLate |-> FALSE, p2p |-> FALSE, peer |-> "none",
     period |-> NewWait.period, wall |-> NewWait.wall, factor |-> NewWait.factor,
     schedule |-> NewWait.schedule, scatterPref |-> NewWait.scatterPref,
     stagingPref |-> NewWait.stagingPref, count |-> NewWait.count, elapsed |-> NewWait.elapsed]

(* A stored back-off beyond the longest one without its fuzz is taken for  *)
(* damage, and dropped.                                                    *)
Initialize(p) ==
    [RestartedWait(p) EXCEPT !.response = <<>>, !.candidates = <<>>, !.index = 1,
                             !.backoff = IF @ > 2 * kMaxBackoffDays THEN 0 ELSE @,
                             !.p2p = FALSE, !.peer = "none"]

CurrentUrls(p) ==
    IF p.index \in DOMAIN p.candidates THEN p.candidates[p.index] ELSE <<>>

(* The current URL as a sequence of length one, empty if there is none.    *)
GetCurrentUrl(p) ==
    IF p.url \in DOMAIN CurrentUrls(p) THEN <<CurrentUrls(p)[p.url]>> ELSE <<>>

(* The elements of s that are in keep, in the order they have in s.        *)
Kept(s, keep) ==
    LET at == {i \in DOMAIN s : s[i] \in keep}
    IN  [k \in 1..Cardinality(at) |->
            s[CHOOSE i \in at : Cardinality({j \in at : j <= i}) = k]]

ComputeCandidateUrls(response, httpOk) ==
    [i \in DOMAIN response |->
        Kept(response[i].urls, {u \in Range(response[i].urls) : ~u.http \/ httpOk})]

ResetPersistedState(p) ==
    [p EXCEPT !.attempts = 0, !.index = 1, !.url = 1, !.failures = 0, !.backoff = 0,
              !.p2pAttempts = 0, !.p2pLate = FALSE, !.scatterPref = 0, !.stagingPref = 0]

SetResponse(p, response, httpOk) ==
    LET now == [p EXCEPT !.response = response,
                         !.candidates = ComputeCandidateUrls(response, httpOk)]
        signature == <<response, now.candidates>>
        again == [now EXCEPT !.index = 1]
    IN  IF p.signature # signature
        THEN ResetPersistedState([now EXCEPT !.signature = signature])
        ELSE IF p.url \in DOMAIN CurrentUrls(again) THEN again
        ELSE ResetPersistedState(again)

Min2(a, b) == IF a < b THEN a ELSE b

(* The attempt that has just been counted sets the back-off: a day for the *)
(* first one, twice as long for each that follows.                         *)
UpdateBackoffExpiryTime(p, fuzz) ==
    [p EXCEPT !.backoff = IF p.attempts = 0 THEN 0
                          ELSE 2 * Min2(2^(p.attempts - 1), kMaxBackoffDays) + fuzz]

IncrementFullPayloadAttemptNumber(p, fuzz) ==
    IF p.response[p.index].delta THEN p
    ELSE UpdateBackoffExpiryTime([p EXCEPT !.attempts = Min2(@ + 1, MaxAttempts)], fuzz)

IncrementUrlIndex(p, fuzz) ==
    [IF p.url < Len(p.candidates[p.index]) THEN [p EXCEPT !.url = @ + 1]
     ELSE IncrementFullPayloadAttemptNumber([p EXCEPT !.url = 1], fuzz)
        EXCEPT !.failures = 0]

(* Faulty: the URL of a package that may be excluded stays.                *)
ExcludeCurrentPayloadNever(p) == p

ExcludeCurrentPayload(p) ==
    IF p.index \in DOMAIN p.response /\ p.response[p.index].canExclude
    THEN [p EXCEPT !.excluded = @ \union {u.id : u \in Range(GetCurrentUrl(p))}]
    ELSE p

IncrementFailureCount(p, fuzz) ==
    IF p.failures + 1 < MaxFailureCountPerUrl THEN [p EXCEPT !.failures = @ + 1]
    ELSE IncrementUrlIndex(ExcludeCurrentPayload(p), fuzz)

(* The error codes by what UpdateFailed does with them.                    *)
UrlErrors == {"corrupt"}
TransientErrors == {"transfer", "omahaHttp"}

UpdateFailed(p, code, fuzz) ==
    IF p.candidates = <<>> THEN p
    ELSE IF code \in UrlErrors THEN IncrementUrlIndex(ExcludeCurrentPayload(p), fuzz)
    ELSE IF code \in TransientErrors THEN IncrementFailureCount(p, fuzz)
    ELSE p

DownloadProgress(p) == [p EXCEPT !.failures = 0]

DownloadComplete(p, fuzz) == IncrementFullPayloadAttemptNumber(p, fuzz)

UpdateSucceeded(p) == [p EXCEPT !.index = 1]

(* Faulty: the next package goes on with the URL index of the last one.    *)
NextPayloadKeepsUrl(p) == [p EXCEPT !.index = @ + 1]

(* DownloadActionChromeos calls it only when a package is left.            *)
NextPayload(p) == [p EXCEPT !.index = @ + 1, !.url = 1]

ShouldBackoffDownload(p, interactive) ==
    /\ p.peer = "none" /\ ~interactive
    /\ \A i \in DOMAIN p.response : ~p.response[i].delta
    /\ p.backoff > 0

(* What OmahaRequestAction leaves of the packages that the server offers:  *)
(* the URLs that were not excluded, and no package without any.            *)
ProcessExclusions(packages, excluded) ==
    LET left == [i \in DOMAIN packages |->
            IF packages[i].canExclude
            THEN [packages[i] EXCEPT !.urls = Kept(@, {u \in Range(@) : u.id \notin excluded})]
            ELSE packages[i]]
    IN  Kept(left, {package \in Range(left) : package.urls # <<>> \/ ~package.canExclude})

(* The attempt is counted before it is found to be one too many.           *)
P2PNewAttempt(p) == [p EXCEPT !.p2pAttempts = Min2(@ + 1, kMaxP2PAttempts + 1)]

(* p2pLate: kMaxP2PAttemptTimeSeconds have passed since the first one.     *)
P2PAttemptAllowed(p) == p.p2pAttempts <= kMaxP2PAttempts /\ ~p.p2pLate

(* Half a day has passed.                                                  *)
HalfDayLater(p) == [TimePasses(p) EXCEPT !.backoff = IF @ > 0 THEN @ - 1 ELSE @]
=============================================================================
