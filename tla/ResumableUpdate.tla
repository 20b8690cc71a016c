--------------------------- MODULE ResumableUpdate ---------------------------
(***************************************************************************)
(* What a DeltaPerformer promises (payload_consumer/delta_performer.h): an *)
(* update is applied operation by operation, may be interrupted at any     *)
(* moment, and the next attempt goes on with exactly the state that was    *)
(* saved last, or begins anew if none is.  A state is saved and dropped in *)
(* one step each, is never mixed with another, and never outlives its      *)
(* payload.  States are sequences of at most one.                          *)
(***************************************************************************)
EXTENDS Integers, Sequences

CONSTANTS
    Payloads,           \* update check response hashes
    NoPayload,          \* the empty hash
    NumOperations,      \* operations of a payload
    DataOffset,         \* where the data of each operation begins, then the signature
    PayloadEnd          \* where the signature message ends

VARIABLES
    payload,    \* the payload that is applied, and that saved belongs to
    performer,  \* the state of the attempt that runs, empty if none does
    saved,      \* the state to go on with, empty if there is none
    applied     \* the attempt has applied the payload

updateVars == <<payload, performer, saved, applied>>

(* After n operations: the offset of the next data, and the two digests,   *)
(* each the length of the prefix of the payload that it has digested.      *)
Performed(n) ==
    [op |-> n, offset |-> DataOffset[n], digest |-> DataOffset[n],
     signed |-> DataOffset[n], sig |-> FALSE]

(* After the signature message, too.                                       *)
Signed ==
    [op |-> NumOperations, offset |-> PayloadEnd, digest |-> PayloadEnd,
     signed |-> DataOffset[NumOperations], sig |-> TRUE]

UpdateInit ==
    /\ payload = NoPayload
    /\ performer = <<>> /\ saved = <<>> /\ applied = FALSE

(* Another payload, or the same one anew.                                  *)
Choose ==
    /\ performer = <<>>
    /\ payload' \in Payloads
    /\ saved' = <<>>
    /\ UNCHANGED <<performer, applied>>

Begin ==
    /\ performer = <<>>
    /\ performer' = IF saved = <<>> THEN <<Performed(0)>> ELSE saved
    /\ UNCHANGED <<payload, saved, applied>>

Perform ==
    /\ ~applied
    /\ \E n \in 1..NumOperations :
            performer = <<Performed(n - 1)>> /\ performer' = <<Performed(n)>>
    /\ UNCHANGED <<payload, saved, applied>>

ExtractSignature ==
    /\ ~applied
    /\ performer = <<Performed(NumOperations)>>
    /\ performer' = <<Signed>>
    /\ UNCHANGED <<payload, saved, applied>>

(* The signature may be lost, in which case the payload does not verify.   *)
Save ==
    /\ performer # <<>> /\ saved = <<>>
    /\ saved' \in {performer, <<[performer[1] EXCEPT !.sig = FALSE]>>}
    /\ UNCHANGED <<payload, performer, applied>>

Drop == saved' = <<>> /\ UNCHANGED <<payload, performer, applied>>

Complete ==
    /\ performer = <<Signed>>
    /\ applied' = TRUE
    /\ UNCHANGED <<payload, performer, saved>>

Interrupt ==
    /\ performer # <<>>
    /\ performer' = <<>> /\ applied' = FALSE
    /\ UNCHANGED <<payload, saved>>

UpdateNext ==
    \/ Choose \/ Begin \/ Perform \/ ExtractSignature
    \/ Save \/ Drop \/ Complete \/ Interrupt

UpdateSpec == UpdateInit /\ [][UpdateNext]_updateVars
=============================================================================
