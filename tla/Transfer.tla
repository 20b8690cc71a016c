------------------------------ MODULE Transfer ------------------------------
(***************************************************************************)
(* What an HttpFetcher promises its delegate (common/http_fetcher.h), as   *)
(* the DownloadAction relies on it: the bytes it asked for, each once and  *)
(* in order, then exactly one end, and nothing after it.  The end is       *)
(* TransferTerminated when, and only when, the delegate asked for it, and  *)
(* a success stands for every byte of every range whose length was given.  *)
(***************************************************************************)
EXTENDS Naturals, Sequences

VARIABLES
    wanted,     \* the file positions asked for, in order; never changes
    needed,     \* how many of them a success stands for; never changes
    stream,     \* the file positions of the bytes handed to the delegate
    asked,      \* the delegate called TerminateTransfer
    outcome     \* how the transfer ended, "none" until it did

transferVars == <<wanted, needed, stream, asked, outcome>>

Outcomes == {"none", "success", "failure", "terminated"}

TransferInit ==
    /\ wanted \in Seq(Nat)
    /\ needed \in 0..Len(wanted)
    /\ stream = <<>>
    /\ asked = FALSE
    /\ outcome = "none"

(* The bytes handed over so far are the first ones of those wanted.        *)
Advance(n) == stream' = SubSeq(wanted, 1, Len(stream) + n)

(* Some bytes, possibly none, arrive, and the transfer may end with them.  *)
Progress ==
    /\ outcome = "none"
    /\ \E n \in 0..(Len(wanted) - Len(stream)) : Advance(n)
    /\ outcome' \in Outcomes
    /\ outcome' = "success" => Len(stream') >= needed
    /\ asked' = (outcome' = "terminated")
    /\ UNCHANGED <<wanted, needed>>

TransferSpec == TransferInit /\ [][Progress]_transferVars
=============================================================================
