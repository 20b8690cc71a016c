---------------------------- MODULE HttpFetcher ----------------------------
(***************************************************************************)
(* A transfer of a DownloadAction, over the fetcher that                   *)
(* UpdateAttempterAndroid picks for the URL: FileFetcher for a local file, *)
(* LibcurlHttpFetcher for the rest.                                        *)
(***************************************************************************)
EXTENDS LibcurlHttpFetcher, FileFetcher, FiniteSets

CONSTANT Fetchers           \* the base fetchers of this instance

ASSUME FetchersAssumption == Fetchers \subseteq {"libcurl", "file"}

VARIABLE base               \* "libcurl" or "file"; chosen once

vars == <<multiVars, curlVars, file, base>>

Init ==
    /\ MultiInit /\ CurlInit /\ FileInit
    /\ base \in Fetchers

(* The transfer is over, and the DownloadAction and its fetchers are gone. *)
Over == dl.outcome # "none" /\ UNCHANGED vars

LibcurlStep == base = "libcurl" /\ CurlNext /\ UNCHANGED <<file, base>>
FileStep == base = "file" /\ FileNext /\ UNCHANGED <<curlVars, base>>

Next == LibcurlStep \/ FileStep \/ Over

(* The message loop runs what is posted to it, proxy resolvers answer, a   *)
(* read of a file returns, and a connection moves: it delivers, ends or,   *)
(* below low_speed_limit_bps_ or past the connect timeout, is cut.         *)
Moves ==
    \/ /\ base = "libcurl"
       /\ \/ CurlBeginTransfer \/ ProxiesResolved \/ RetryTimeoutCallback
          \/ Response \/ LibcurlWrite \/ ConnectionEnds
       /\ UNCHANGED <<file, base>>
    \/ /\ base = "file"
       /\ FileBeginTransfer \/ OnReadDoneCallback \/ OnReadErrorCallback
       /\ UNCHANGED <<curlVars, base>>

Spec == Init /\ [][Next]_vars
FairSpec == Spec /\ WF_vars(Moves)

-----------------------------------------------------------------------------
(* The fetchers keep the promise of HttpFetcherDelegate: retries after a   *)
(* broken connection, changes of proxy, pauses and the cuts between ranges *)
(* neither lose, repeat nor reorder a byte, and the transfer ends once.    *)
Promise == INSTANCE Transfer WITH
    wanted <- Wanted, needed <- Needed, stream <- dl.stream,
    asked <- dl.asked, outcome <- dl.outcome
KeepsPromise == Promise!TransferSpec

(* No CHECK of the three fetchers fails: BeginTransfer finds the base      *)
(* fetcher idle and no proxy callback left, no bytes come after the end of *)
(* a range, and a connection always has a proxy to use.                    *)
ChecksHold == checks

(* A libcurl transfer that has begun and not ended waits for exactly one   *)
(* thing: the proxies, a retry, its connection, or Unpause.  None of the   *)
(* orders of pausing, failing and retrying leaves it waiting for nothing,  *)
(* or for two things that would both start it.                             *)
WaitsForOneThing ==
    base = "libcurl" /\ dl.begun /\ dl.outcome = "none" =>
        /\ Cardinality({w \in {"resolving", "retry", "inProgress", "restartOnUnpause"} :
                           curl[w]}) = 1
        /\ curl.inProgress <=> conn.state # "none"
        /\ curl.restartOnUnpause => curl.paused
        /\ curl.paused = dl.suspended

(* "The delegate will not have ReceivedBytes() called while an HttpFetcher *)
(* is paused" (common/http_fetcher.h): LibcurlHttpFetcher keeps to it      *)
(* through retries and changes of proxy.  FileFetcher does not: a read in  *)
(* flight still delivers, and CleanUp between two ranges lifts the pause.  *)
PausedIsSilent ==
    [][base = "libcurl" /\ dl.suspended /\ dl'.suspended => dl'.stream = dl.stream]_vars

(* After a host that could not be resolved, no connection gets a response  *)
(* any more.  The state is kRetry then and every end of a connection       *)
(* raises the limit of retries that it counts against, so that the retries *)
(* go on for ever.                                                         *)
RetriesForEver ==
    <>[](curl.host = "kRetry") /\ []<>curl.retry /\ []<>(conn.state = "open")

(* A transfer that is not left suspended for ever ends, however often a    *)
(* connection fails, is cut or is answered with an error, but for the case *)
(* in which LibcurlHttpFetcher raises its own limit of retries for ever.   *)
TransferEnds ==
    <>[](~dl.suspended) => <>(dl.outcome # "none") \/ RetriesForEver
=============================================================================
