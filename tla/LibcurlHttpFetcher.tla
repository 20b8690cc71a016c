------------------------- MODULE LibcurlHttpFetcher -------------------------
(***************************************************************************)
(* LibcurlHttpFetcher (libcurl_http_fetcher.cc) as the base fetcher of a   *)
(* MultiRangeHttpFetcher.                                                  *)
(*                                                                         *)
(* conn is libcurl's connection and the server behind it, external: it     *)
(* sends the file positions from conn.pos up to conn.stop, whole or cut    *)
(* short, and may fail at any time.  A step of a connection stands for one *)
(* CurlPerformOnce, whether a file descriptor, the timeout or an Unpause   *)
(* caused it.                                                              *)
(***************************************************************************)
EXTENDS MultiRangeHttpFetcher

CONSTANTS
    MaxChunk,           \* bytes libcurl passes to one LibcurlWrite
    MaxProxies,         \* proxies a resolver answers with
    MaxRetryCount,      \* max_retry_count_
    NoNetworkRetries,   \* no_network_max_retries_ of a new fetcher
    NoNetworkBound      \* bound of no_network_max_retries_, see Accounted

ASSUME CurlAssumption ==
    /\ MaxChunk \in Nat /\ MaxProxies \in Nat
    /\ MaxRetryCount \in Nat /\ NoNetworkRetries \in Nat /\ NoNetworkBound \in Nat

VARIABLES curl, conn
curlVars == <<curl, conn>>

NoConn == [state |-> "none", code |-> "0", pos |-> 0, stop |-> 0,
           contentLength |-> 0, paused |-> FALSE, unresolved |-> FALSE]
Open == conn.state = "open"

CurlInit ==
    /\ curl = [resolving |-> FALSE, callback |-> FALSE, retry |-> FALSE,
               inProgress |-> FALSE, paused |-> FALSE, restartOnUnpause |-> FALSE,
               ignoreFailure |-> FALSE, sentByte |-> FALSE, proxies |-> 1,
               bytes |-> 0, length |-> 0, resumeOffset |-> 0, size |-> -1,
               retryCount |-> 0, noNetRetries |-> 0, noNetMax |-> NoNetworkRetries,
               host |-> "kInit"]
    /\ conn = NoConn

-----------------------------------------------------------------------------
(* Helpers, each one a method of the fetcher.                              *)

IsHttpResponseSuccess(code) == code = "success"
IsHttpResponseError(code) == code = "error"

(* SetOffset, SetLength and BeginTransfer for the range that starts.       *)
BaseBegin(c, r) ==
    [c EXCEPT !.bytes = ranges[r.multi.index].offset,
              !.length = ranges[r.multi.index].length,
              !.resolving = TRUE, !.callback = TRUE]
BaseBeginChecks(c) == ~c.inProgress /\ ~c.callback

(* CancelProxyResolution leaves callback_ as it is.                        *)
CancelProxyResolution(c) == [c EXCEPT !.resolving = FALSE]

(* Faulty: the handles are freed, but the transfer still counts as one in  *)
(* progress.                                                               *)
CleanUpStaysInProgress(c) ==
    [c EXCEPT !.retry = FALSE, !.paused = FALSE, !.restartOnUnpause = FALSE]

CleanUp(c) ==
    [c EXCEPT !.retry = FALSE, !.inProgress = FALSE, !.paused = FALSE,
              !.restartOnUnpause = FALSE]

(* UnresolvedHostStateMachine::UpdateState.                                *)
UpdateState(host, failedToResolve) ==
    CASE host = "kInit" -> IF failedToResolve THEN "kRetry" ELSE "kInit"
      [] host = "kRetry" -> IF failedToResolve THEN "kNotRetry" ELSE "kRetriedSuccess"
      [] OTHER -> host

(* ResumeTransfer's request: from bytes_downloaded_, for the whole length  *)
(* of the range whatever part of it has arrived, and without an end when   *)
(* that would be position 0.  A file that ends earlier ends the response.  *)
RequestStop(c) ==
    LET last == c.bytes + c.length - 1
    IN  IF c.length > 0 /\ last > 0 /\ last < FileSize THEN last + 1 ELSE FileSize

ResumeTransfer(c) ==
    /\ curl' = [c EXCEPT !.ignoreFailure = FALSE, !.inProgress = TRUE,
                         !.resumeOffset = IF c.bytes > 0 \/ c.length > 0 THEN c.bytes ELSE @]
    /\ conn' = [NoConn EXCEPT !.state = "open", !.pos = c.bytes, !.stop = RequestStop(c)]

(* What a method of MultiRangeHttpFetcher called last does to the fetcher  *)
(* c it was called from.                                                   *)
Continue(c, r) ==
    /\ curl' = IF r.begin THEN BaseBegin(c, r) ELSE c
    /\ Returned([r EXCEPT !.checks = @ /\ (r.begin => BaseBeginChecks(c))])

(* ForceTransferTermination: TransferTerminated comes after the clean up.  *)
ForceTransferTermination(c, r) ==
    /\ conn' = NoConn
    /\ Continue(CleanUp(CancelProxyResolution(c)), r)

-----------------------------------------------------------------------------
(* The end of a connection, in CurlPerformOnce.                            *)

(* The counters after the response code, or its absence, is known.  While  *)
(* the state is kRetry every end of a connection raises                    *)
(* no_network_max_retries_.  The code only compares the two counters:      *)
(* beyond NoNetworkBound the count of retries is lowered instead, which    *)
(* leaves as many retries as the code has.                                 *)
Accounted(c, code, unresolved) ==
    LET host == IF code # "0" THEN UpdateState(c.host, FALSE)
                ELSE IF unresolved THEN UpdateState(c.host, TRUE) ELSE c.host
        retries == IF code # "0" THEN 0 ELSE c.noNetRetries
        bounded == c.noNetMax >= NoNetworkBound
    IN  [CleanUp(c) EXCEPT
            !.host = host,
            !.noNetRetries = IF host = "kRetry" /\ bounded /\ retries > 0
                             THEN retries - 1 ELSE retries,
            !.noNetMax = IF host = "kRetry" /\ ~bounded THEN @ + 1 ELSE @]

(* retry_count_ > max_retry_count_.                                        *)
Exhausted(tries) == tries > MaxRetryCount

(* A retry is posted, at once or with a delay.                             *)
PostRetry(c, d) ==
    /\ curl' = [c EXCEPT !.retry = TRUE, !.ignoreFailure = FALSE]
    /\ dl' = d
    /\ UNCHANGED <<ranges, multi, checks>>

(* No byte and no response: wait for the network.  An error, or no byte:   *)
(* next proxy.  Less than announced: resume where it broke off.  Otherwise *)
(* the transfer is complete, and the response says whether it succeeded.   *)
Finished(c, d, code, unresolved) ==
    LET a == Accounted(c, code, unresolved)
        noNetwork == ~a.sentByte /\ code = "0" /\ a.noNetRetries < a.noNetMax
        badAnswer == (~a.sentByte /\ ~IsHttpResponseSuccess(code)) \/ IsHttpResponseError(code)
        interrupted == a.size >= 0 /\ a.bytes < a.size
        tries == IF a.ignoreFailure THEN a.retryCount ELSE a.retryCount + 1
        complete(successful) == TransferEnded(multi, d, successful)
    IN  /\ conn' = NoConn
        /\ \/ noNetwork /\ PostRetry([a EXCEPT !.noNetRetries = @ + 1], d)
           \/ /\ ~noNetwork /\ badAnswer
              /\ IF a.proxies > 1 THEN PostRetry([a EXCEPT !.proxies = @ - 1], d)
                 ELSE Continue([a EXCEPT !.proxies = 0], complete(FALSE))
           \/ /\ ~noNetwork /\ ~badAnswer /\ interrupted
              /\ IF Exhausted(tries)
                 THEN Continue([a EXCEPT !.retryCount = tries], complete(FALSE))
                 ELSE PostRetry([a EXCEPT !.retryCount = tries], d)
           \/ /\ ~noNetwork /\ ~badAnswer /\ ~interrupted
              /\ Continue(a, complete(IsHttpResponseSuccess(code)))

-----------------------------------------------------------------------------
(* Steps.                                                                  *)

CurlBeginTransfer ==
    /\ ~dl.begun
    /\ Continue(curl, BeginTransfer(multi, dl))
    /\ UNCHANGED conn

(* The counters of a new transfer.                                         *)
StartCounting(c, n) ==
    [c EXCEPT !.resolving = FALSE, !.callback = FALSE, !.proxies = n, !.size = -1,
              !.resumeOffset = 0, !.retryCount = 0, !.noNetRetries = 0, !.sentByte = FALSE]

(* Faulty: a paused fetcher does not note that it has to start later.      *)
StartUnlessPausedForgets(c) ==
    IF c.paused THEN curl' = c /\ UNCHANGED conn ELSE ResumeTransfer(c)

(* ProxiesResolved and RetryTimeoutCallback: a paused fetcher starts when  *)
(* it is unpaused.                                                         *)
StartUnlessPaused(c) ==
    IF c.paused
    THEN curl' = [c EXCEPT !.restartOnUnpause = TRUE] /\ UNCHANGED conn
    ELSE ResumeTransfer(c)

(* The proxy resolver answers, and the first connection of the range opens *)
(* unless the fetcher is paused.                                           *)
ProxiesResolved ==
    /\ curl.resolving
    /\ \E n \in 1..MaxProxies : StartUnlessPaused(StartCounting(curl, n))
    /\ checks' = (checks /\ ~curl.inProgress)
    /\ UNCHANGED <<ranges, multi, dl>>

(* Faulty: the retry does not look at the pause.                           *)
RetryTimeoutCallbackIgnoresPause ==
    /\ curl.retry
    /\ ResumeTransfer([curl EXCEPT !.retry = FALSE])
    /\ checks' = (checks /\ ~curl.inProgress /\ curl.proxies > 0)
    /\ UNCHANGED <<ranges, multi, dl>>

RetryTimeoutCallback ==
    /\ curl.retry
    /\ StartUnlessPaused([curl EXCEPT !.retry = FALSE])
    /\ checks' = (checks /\ ~curl.inProgress /\ curl.proxies > 0)
    /\ UNCHANGED <<ranges, multi, dl>>

(* The server's answer: the file, with or without its length, or an error  *)
(* code, as for a request that starts past the end of the file.            *)
Response ==
    /\ Open /\ conn.code = "0" /\ ~conn.paused
    /\ \/ /\ conn.pos < FileSize
          /\ \E length \in {0, conn.stop - conn.pos} :
                 conn' = [conn EXCEPT !.code = "success", !.contentLength = length]
       \/ conn' = [conn EXCEPT !.code = "error"]
    /\ UNCHANGED <<multiVars, curl>>

(* LibcurlWrite, with what the delegate does with the bytes.  When the     *)
(* delegate or MultiRangeHttpFetcher has called TerminateTransfer from     *)
(* here, the transfer is terminated as soon as libcurl returns.            *)
LibcurlWrite ==
    /\ Open /\ IsHttpResponseSuccess(conn.code) /\ ~conn.paused
    /\ \E n \in 1..MaxChunk, accepted \in BOOLEAN :
        /\ conn.pos + n <= conn.stop
        /\ LET r == ReceivedBytes(multi, dl, conn.pos, n, accepted)
               e == TransferEnded(r.multi, r.dl, FALSE)
               c == [curl EXCEPT
                        !.sentByte = TRUE, !.bytes = @ + n,
                        !.size = IF conn.contentLength > 0
                                 THEN curl.resumeOffset + conn.contentLength ELSE @]
           IN  IF r.end
               THEN ForceTransferTermination(c, [e EXCEPT !.checks = @ /\ r.checks])
               ELSE /\ curl' = c
                    /\ conn' = [conn EXCEPT !.pos = @ + n]
                    /\ Returned(r)

(* The connection is over: the response was an error or is complete, or    *)
(* the connection failed, before or after the response began.  A paused    *)
(* fetcher only takes note of it.                                          *)
ConnectionEnds ==
    /\ Open
    /\ \E unresolved \in BOOLEAN :
        /\ unresolved => conn.code = "0"
        /\ IF curl.paused
           THEN /\ conn' = [conn EXCEPT !.state = "closed", !.unresolved = unresolved]
                /\ curl' = [curl EXCEPT !.ignoreFailure = TRUE]
                /\ UNCHANGED multiVars
           ELSE Finished(curl, dl, conn.code, unresolved)

CurlPause ==
    /\ dl.begun /\ dl.outcome = "none" /\ ~dl.suspended
    /\ curl' = [curl EXCEPT !.paused = TRUE]
    /\ conn' = [conn EXCEPT !.paused = curl.inProgress]
    /\ dl' = [dl EXCEPT !.suspended = TRUE]
    /\ UNCHANGED <<ranges, multi, checks>>

(* Faulty: Unpause leaves the connection that was put off to somebody      *)
(* else.                                                                   *)
CurlUnpauseForgetsRestart ==
    /\ dl.suspended /\ dl.outcome = "none"
    /\ curl' = [curl EXCEPT !.paused = FALSE, !.restartOnUnpause = FALSE]
    /\ conn' = [conn EXCEPT !.paused = FALSE]
    /\ dl' = [dl EXCEPT !.suspended = FALSE]
    /\ UNCHANGED <<ranges, multi, checks>>

(* Unpause starts the connection that was put off, or looks after the one  *)
(* there is.                                                               *)
CurlUnpause ==
    /\ dl.suspended /\ dl.outcome = "none"
    /\ LET c == [curl EXCEPT !.paused = FALSE, !.restartOnUnpause = FALSE]
       IN  \/ /\ curl.paused /\ curl.restartOnUnpause
              /\ ResumeTransfer(c)
              /\ dl' = [dl EXCEPT !.suspended = FALSE]
              /\ checks' = (checks /\ ~curl.inProgress /\ curl.proxies > 0)
              /\ UNCHANGED <<ranges, multi>>
           \/ /\ curl.paused /\ ~curl.restartOnUnpause /\ conn.state = "closed"
              /\ Finished(c, [dl EXCEPT !.suspended = FALSE], conn.code, conn.unresolved)
           \/ /\ ~curl.paused \/ (~curl.restartOnUnpause /\ conn.state # "closed")
              /\ curl' = c
              /\ conn' = [conn EXCEPT !.paused = FALSE]
              /\ dl' = [dl EXCEPT !.suspended = FALSE]
              /\ UNCHANGED <<ranges, multi, checks>>

(* TerminateProcessing of the DownloadAction, between two callbacks.       *)
CurlTerminate ==
    /\ dl.begun /\ dl.outcome = "none"
    /\ ForceTransferTermination(curl, TerminateTransfer(multi, dl))

CurlNext ==
    \/ CurlBeginTransfer \/ ProxiesResolved \/ RetryTimeoutCallback
    \/ Response \/ LibcurlWrite \/ ConnectionEnds
    \/ CurlPause \/ CurlUnpause \/ CurlTerminate
=============================================================================
