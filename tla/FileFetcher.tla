---------------------------- MODULE FileFetcher ----------------------------
(***************************************************************************)
(* FileFetcher (common/file_fetcher.cc), the base fetcher of a             *)
(* MultiRangeHttpFetcher for file:// and fd:// URLs.  A read is            *)
(* asynchronous: it is scheduled, and its callback comes later, from the   *)
(* message loop.                                                           *)
(***************************************************************************)
EXTENDS MultiRangeHttpFetcher

CONSTANT ReadBufferSize     \* kReadBufferSize

ASSUME BufferAssumption == ReadBufferSize \in Nat \ {0}

VARIABLE file

NewFile == [inProgress |-> FALSE, paused |-> FALSE, ongoing |-> FALSE,
            copied |-> 0, offset |-> 0, length |-> -1]
FileInit == file = NewFile

Smaller(a, b) == IF a < b THEN a ELSE b

(* CleanUp cancels the read in flight, and forgets that it was paused.     *)
FileCleanUp(f) ==
    [f EXCEPT !.ongoing = FALSE, !.inProgress = FALSE, !.paused = FALSE]

(* How much ScheduleRead reads: UnsetLength leaves a length of 0.          *)
BytesToRead(f) ==
    IF f.length >= 0 THEN Smaller(ReadBufferSize, f.length - f.copied) ELSE ReadBufferSize

(* A range that ends while it begins ends the whole transfer: it has       *)
(* failed, or it is the last one, the one without a length.                *)
EndedAtOnce(f, r, successful) ==
    LET e == TransferEnded(r.multi, r.dl, successful)
    IN  /\ file' = FileCleanUp(f)
        /\ Returned([e EXCEPT !.checks = @ /\ r.checks /\ ~e.begin])

(* ScheduleRead, for a fetcher whose MultiRangeHttpFetcher returned r.     *)
ScheduleRead(f, r) ==
    \/ /\ f.paused \/ f.ongoing \/ ~f.inProgress
       /\ file' = f
       /\ Returned(r)
    \/ /\ ~f.paused /\ ~f.ongoing /\ f.inProgress
       /\ \/ BytesToRead(f) = 0 /\ EndedAtOnce(f, r, TRUE)
          \/ BytesToRead(f) > 0 /\ EndedAtOnce(f, r, FALSE)
          \/ BytesToRead(f) > 0 /\ file' = [f EXCEPT !.ongoing = TRUE] /\ Returned(r)

(* BeginTransfer, when MultiRangeHttpFetcher calls it: the file opens, or  *)
(* is not found.                                                           *)
FileContinue(f, r) ==
    LET g == [f EXCEPT !.offset = ranges[r.multi.index].offset,
                       !.length = ranges[r.multi.index].length]
    IN  \/ ~r.begin /\ file' = f /\ Returned(r)
        \/ /\ r.begin
           /\ \/ EndedAtOnce(g, r, FALSE)
              \/ ScheduleRead([g EXCEPT !.copied = 0, !.inProgress = TRUE],
                              [r EXCEPT !.checks = @ /\ ~f.inProgress])

FileBeginTransfer ==
    /\ ~dl.begun
    /\ FileContinue(file, BeginTransfer(multi, dl))

(* A read returns: bytes, or none at the end of the file.                  *)
OnReadDoneCallback ==
    /\ file.ongoing
    /\ LET at == file.offset + file.copied
           f == [file EXCEPT !.ongoing = FALSE]
       IN  \/ /\ at >= FileSize
              /\ FileContinue(FileCleanUp(f), TransferEnded(multi, dl, TRUE))
           \/ \E n \in 1..BytesToRead(file), accepted \in BOOLEAN :
                /\ at + n <= FileSize
                /\ LET r == ReceivedBytes(multi, dl, at, n, accepted)
                       e == TransferEnded(r.multi, r.dl, FALSE)
                       g == [f EXCEPT !.copied = @ + n]
                   IN  IF r.end
                       THEN FileContinue(FileCleanUp(g), [e EXCEPT !.checks = @ /\ r.checks])
                       ELSE ScheduleRead(g, r)

OnReadErrorCallback ==
    /\ file.ongoing
    /\ FileContinue(FileCleanUp(file), TransferEnded(multi, dl, FALSE))

FilePause ==
    /\ dl.begun /\ dl.outcome = "none" /\ ~dl.suspended
    /\ file' = [file EXCEPT !.paused = TRUE]
    /\ dl' = [dl EXCEPT !.suspended = TRUE]
    /\ UNCHANGED <<ranges, multi, checks>>

FileUnpause ==
    /\ dl.suspended /\ dl.outcome = "none"
    /\ LET d == [dl EXCEPT !.suspended = FALSE]
       IN  \/ file.paused /\ ScheduleRead([file EXCEPT !.paused = FALSE], Stay(multi, d, TRUE))
           \/ ~file.paused /\ UNCHANGED file /\ Returned(Stay(multi, d, TRUE))

FileTerminate ==
    /\ dl.begun /\ dl.outcome = "none"
    /\ FileContinue(FileCleanUp(file), TerminateTransfer(multi, dl))

FileNext ==
    \/ FileBeginTransfer \/ OnReadDoneCallback \/ OnReadErrorCallback
    \/ FilePause \/ FileUnpause \/ FileTerminate
=============================================================================
