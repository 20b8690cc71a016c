----------------------- MODULE MultiRangeHttpFetcher -----------------------
(***************************************************************************)
(* MultiRangeHttpFetcher (common/multi_range_http_fetcher.cc) between a    *)
(* base fetcher and its delegate, the DownloadAction (download_action.cc). *)
(*                                                                         *)
(* Its methods run inside calls of the base fetcher, and call the base     *)
(* fetcher back.  Each is an operator that takes the state and returns it  *)
(* changed, with a field begin that says that the method's last act is to  *)
(* call BeginTransfer of the base fetcher for the current range.           *)
(***************************************************************************)
EXTENDS Integers, Sequences

CONSTANTS
    FileSize,   \* bytes in the payload file
    Requests    \* the lists of ranges a DownloadAction may ask for

VARIABLES
    ranges,     \* ranges_; a length of 0 means up to the end of the file
    multi,      \* base_fetcher_active_, pending_transfer_ended_, terminating_,
                \* current_index_ and bytes_received_this_range_
    dl,         \* the DownloadAction's view of the transfer
    checks      \* no CHECK of the fetchers has failed

multiVars == <<ranges, multi, dl, checks>>

HasLength(range) == range.length > 0

(* DownloadAction::StartDownloading asks for nothing, for one range, or    *)
(* for the manifest and then the rest; only the last range may lack a      *)
(* length, as AddRange checks.                                             *)
ASSUME FileAssumption == FileSize \in Nat
ASSUME RequestsAssumption ==
    \A rs \in Requests :
        /\ rs \in Seq([offset : Nat, length : Nat])
        /\ Len(rs) <= 2
        /\ Len(rs) = 2 => HasLength(rs[1])

CurrentRange(m) == ranges[m.index]

(* The file positions a list of ranges asks for, in order, and how many of *)
(* them the ranges with a length make up.                                  *)
Positions(range) ==
    LET end == IF HasLength(range) THEN range.offset + range.length ELSE FileSize
    IN  [i \in 1..(end - range.offset) |-> range.offset + i - 1]
Wanted ==
    LET upTo[i \in 0..Len(ranges)] == IF i = 0 THEN <<>> ELSE upTo[i - 1] \o Positions(ranges[i])
    IN  upTo[Len(ranges)]
Needed ==
    LET upTo[i \in 0..Len(ranges)] == IF i = 0 THEN 0 ELSE upTo[i - 1] + ranges[i].length
    IN  upTo[Len(ranges)]

MultiReset == [active |-> FALSE, pending |-> FALSE, terminating |-> FALSE,
               index |-> 1, received |-> 0]

MultiInit ==
    /\ ranges \in Requests
    /\ multi = MultiReset
    /\ dl = [offset |-> 0, stream |-> <<>>, asked |-> FALSE, outcome |-> "none",
             begun |-> FALSE, suspended |-> FALSE]
    /\ checks = TRUE

-----------------------------------------------------------------------------
(* Methods of the delegate and of MultiRangeHttpFetcher.                   *)

Stay(m, d, ok) == [multi |-> m, dl |-> d, checks |-> ok, begin |-> FALSE]

(* StartTransfer: the delegate is told the range's offset, and the base    *)
(* fetcher begins.                                                         *)
StartTransfer(m, d, ok) ==
    [multi |-> [m EXCEPT !.received = 0, !.active = TRUE],
     dl |-> [d EXCEPT !.offset = ranges[m.index].offset],
     checks |-> ok, begin |-> TRUE]

BeginTransfer(m, d) ==
    LET ok == ~m.active /\ ~m.pending /\ ~m.terminating
        begun == [d EXCEPT !.begun = TRUE]
    IN  IF ranges = <<>>
        THEN Stay(m, [begun EXCEPT !.outcome = "success"], ok)
        ELSE StartTransfer([m EXCEPT !.index = 1], begun, ok)

(* TransferEnded, called by the base fetcher's last callback.              *)
TransferEnded(m, d, successful) ==
    LET range == CurrentRange(m)
        short == HasLength(range) /\ m.received < range.length
        ok == m.active
    IN  IF m.terminating
        THEN Stay(MultiReset, [d EXCEPT !.outcome = "terminated"], ok)
        ELSE IF short
        THEN Stay(MultiReset, [d EXCEPT !.outcome = "failure"], ok)
        ELSE IF m.index < Len(ranges)
        THEN StartTransfer([m EXCEPT !.pending = FALSE, !.index = @ + 1], d, ok)
        ELSE Stay(MultiReset,
                  [d EXCEPT !.outcome = IF HasLength(range) \/ successful
                                        THEN "success" ELSE "failure"], ok)

(* Faulty: what a resumed request brings past the end of the range is not  *)
(* cut off.                                                                *)
ReceivedBytesUncut(m, d, at, n, accepted) ==
    LET range == CurrentRange(m)
        counted == [m EXCEPT !.received = @ + n]
        given == [d EXCEPT !.offset = @ + n,
                           !.stream = @ \o [i \in 1..n |-> at + i - 1]]
        done == HasLength(range) /\ counted.received >= range.length
    IN  [multi |-> IF ~accepted THEN [counted EXCEPT !.terminating = TRUE, !.pending = TRUE]
                   ELSE [counted EXCEPT !.pending = done],
         dl |-> IF accepted THEN given ELSE [given EXCEPT !.asked = TRUE],
         checks |-> ~m.pending /\ m.index <= Len(ranges),
         end |-> ~accepted \/ done]

(* ReceivedBytes: n bytes from file position at on, cut to what the range  *)
(* still wants, go to the delegate.  It keeps them, or its writer refuses  *)
(* them and the DownloadAction terminates the transfer.  end says that the *)
(* base fetcher's TerminateTransfer was called from here.                  *)
ReceivedBytes(m, d, at, n, accepted) ==
    LET range == CurrentRange(m)
        next == IF HasLength(range) /\ range.length - m.received < n
                THEN range.length - m.received ELSE n
        counted == [m EXCEPT !.received = @ + n]
        given == [d EXCEPT !.offset = @ + next,
                           !.stream = @ \o [i \in 1..next |-> at + i - 1]]
        done == HasLength(range) /\ counted.received >= range.length
    IN  [multi |-> IF ~accepted THEN [counted EXCEPT !.terminating = TRUE, !.pending = TRUE]
                   ELSE [counted EXCEPT !.pending = done],
         dl |-> IF accepted THEN given ELSE [given EXCEPT !.asked = TRUE],
         checks |-> ~m.pending /\ m.index <= Len(ranges),
         end |-> ~accepted \/ done]

(* DownloadAction::TerminateProcessing between two calls: the base fetcher *)
(* is told to terminate, and calls TransferEnded before it returns.        *)
TerminateTransfer(m, d) ==
    LET asking == [d EXCEPT !.asked = TRUE]
    IN  IF m.active
        THEN TransferEnded([m EXCEPT !.terminating = TRUE, !.pending = TRUE], asking, FALSE)
        ELSE Stay(m, [asking EXCEPT !.outcome = "terminated"], TRUE)

Returned(r) ==
    /\ multi' = r.multi
    /\ dl' = r.dl
    /\ checks' = (checks /\ r.checks)
    /\ UNCHANGED ranges
=============================================================================
