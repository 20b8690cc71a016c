---------------------------- MODULE DeltaPerformer ----------------------------
(***************************************************************************)
(* DeltaPerformer (payload_consumer/delta_performer.cc) applying a payload *)
(* through its partition writers, the progress it keeps in preferences,    *)
(* and the DownloadAction that feeds it (download_action.cc).  Every write *)
(* of a preference by CheckpointUpdateProgress is a step of its own: the   *)
(* daemon may die, or the write fail, between any two of them.             *)
(*                                                                         *)
(* Operations are numbered through the payload.  Data is measured in       *)
(* abstract units: the blob of operation k is DataOffset[k] ..             *)
(* DataOffset[k + 1], and the signature message follows the last one.  A   *)
(* hash context is the length of the prefix it has digested, or Corrupt    *)
(* when what it digested is not a prefix.  The metadata is digested first  *)
(* and is the prefix of length 0.  The build is an official one, in which  *)
(* hash_checks_mandatory is set.                                           *)
(***************************************************************************)
EXTENDS Integers, FiniteSets

CONSTANTS
    Payloads,               \* update check response hashes
    NoPayload,              \* the empty hash
    NumPartitions,          \* partitions_.size()
    NumOperations,          \* num_total_operations_
    Acc,                    \* acc_num_operations_
    DataOffset,             \* data_offset of each operation, then signatures_offset
    PayloadEnd,             \* where the signature message ends
    kMaxResumedUpdateFailures,
    Writers,                \* subset of BOOLEAN: is a VABCPartitionWriter used
    Unnoticed,              \* results that CheckpointUpdateProgress does not look
                            \* at and that a run lets be failures
    MaxFaults               \* bound: crashes, failures and changes of payload

Partitions == 1..NumPartitions
Corrupt == -2

ASSUME PayloadAssumption ==
    /\ NoPayload \notin Payloads
    /\ NumPartitions \in Nat \ {0}
    /\ NumOperations \in Nat
    /\ Acc \in [Partitions -> 0..NumOperations]
    /\ Acc[NumPartitions] = NumOperations
    /\ \A p, q \in Partitions : p <= q => Acc[p] <= Acc[q]
    /\ DataOffset \in [0..NumOperations -> Nat]
    /\ DataOffset[0] = 0
    /\ \A j, k \in 0..NumOperations : j <= k => DataOffset[j] <= DataOffset[k]
    /\ PayloadEnd \in Nat
    /\ DataOffset[NumOperations] < PayloadEnd
ASSUME BoundAssumption ==
    /\ kMaxResumedUpdateFailures \in Nat
    /\ MaxFaults \in Nat
    /\ Writers \subseteq BOOLEAN
    /\ Unnoticed \subseteq {"Reset", "Writer"}

VARIABLES
    phase,          \* where the download is
    payload,        \* the payload of this attempt
    code,           \* DownloadAction's code_
    cached,         \* inside LoadCachedManifest()
    stream,         \* the payload position of the next data to arrive
    nextOp,         \* next_operation_num_
    cur,            \* current_partition_, from 1
    open,           \* partition_writer_ is not null
    bufferOffset,   \* buffer_offset_
    hashCtx,        \* payload_hash_calculator_
    signedCtx,      \* signed_hash_calculator_
    sig,            \* signatures_message_data_ is not empty
    isResume,       \* install_plan_->is_resume
    pHash,          \* kPrefsUpdateCheckResponseHash
    pPrepared,      \* kPrefsDynamicPartitionMetadataUpdated
    pNextOp,        \* kPrefsUpdateStateNextOperation
    pOffset,        \* kPrefsUpdateStateNextDataOffset
    pCtx,           \* kPrefsUpdateStateSHA256Context, -1 when empty
    pSigned,        \* kPrefsUpdateStateSignedSHA256Context, -1 when empty
    pSig,           \* kPrefsUpdateStateSignatureBlob is not empty
    pMetadata,      \* kPrefsManifestMetadataSize and SignatureSize are set
    pFailures,      \* kPrefsResumedUpdateFailures
    target,         \* the payload whose operations are on the target
    durable,        \* per partition, the operations on storage for good
    labels,         \* per partition, the labels in its COW
    endLabel,       \* the partitions whose COW holds kEndOfInstallLabel
    vabc,           \* the writers are VABCPartitionWriters
    faults          \* faults so far

attemptVars == <<phase, payload, code, cached, stream, isResume>>
memoryVars == <<nextOp, cur, open, bufferOffset, hashCtx, signedCtx, sig>>
progressPrefs == <<pNextOp, pOffset, pCtx, pSigned, pSig>>
otherPrefs == <<pHash, pPrepared, pMetadata, pFailures>>
diskVars == <<target, durable, labels, endLabel>>
envVars == <<vabc, faults>>
vars == <<attemptVars, memoryVars, progressPrefs, otherPrefs, diskVars, envVars>>

Checkpoint == {"ckReset", "ckSignature", "ckContext", "ckSigned", "ckOffset",
               "ckWriter", "ckNext"}
Phases == {"idle", "manifest", "prime", "open", "ops", "terminated", "applied"}
          \cup Checkpoint
Codes == {"kSuccess", "kError", "kDownloadStateInitializationError"}

(* acc_num_operations_ before partition p.                                 *)
Base(p) == IF p = 1 THEN 0 ELSE Acc[p - 1]

FlagsTypeOK ==
    /\ cached \in BOOLEAN /\ isResume \in BOOLEAN /\ vabc \in BOOLEAN
    /\ open \in BOOLEAN /\ sig \in BOOLEAN
    /\ pSig \in BOOLEAN /\ pMetadata \in BOOLEAN

AttemptTypeOK ==
    /\ phase \in Phases
    /\ payload \in Payloads \cup {NoPayload}
    /\ code \in Codes
    /\ stream \in -1..PayloadEnd
    /\ faults \in 0..MaxFaults

MemoryTypeOK ==
    /\ nextOp \in 0..NumOperations
    /\ cur \in Partitions
    /\ bufferOffset \in 0..PayloadEnd
    /\ hashCtx \in 0..PayloadEnd \cup {Corrupt}
    /\ signedCtx \in 0..PayloadEnd \cup {Corrupt}

PrefsTypeOK ==
    /\ pHash \in Payloads \cup {NoPayload}
    /\ pPrepared \in Payloads \cup {NoPayload}
    /\ pNextOp \in -1..NumOperations
    /\ pOffset \in -1..PayloadEnd
    /\ pCtx \in -1..PayloadEnd \cup {Corrupt}
    /\ pSigned \in -1..PayloadEnd \cup {Corrupt}
    /\ pFailures \in Nat

DiskTypeOK ==
    /\ target \in Payloads \cup {NoPayload}
    /\ durable \in [Partitions -> 0..NumOperations]
    /\ labels \in [Partitions -> SUBSET (0..NumOperations)]
    /\ endLabel \subseteq Partitions

(* Every field, every preference and every COW has its type.               *)
TypeOK ==
    /\ FlagsTypeOK
    /\ AttemptTypeOK
    /\ MemoryTypeOK
    /\ PrefsTypeOK
    /\ DiskTypeOK

Init ==
    /\ phase = "idle" /\ payload = NoPayload /\ code = "kSuccess"
    /\ cached = FALSE /\ stream = 0 /\ isResume = FALSE
    /\ nextOp = 0 /\ cur = 1 /\ open = FALSE
    /\ bufferOffset = 0 /\ hashCtx = 0 /\ signedCtx = 0 /\ sig = FALSE
    /\ pHash = NoPayload /\ pPrepared = NoPayload
    /\ pNextOp = -1 /\ pOffset = -1 /\ pCtx = -1 /\ pSigned = -1
    /\ pSig = FALSE /\ pMetadata = FALSE /\ pFailures = 0
    /\ target = NoPayload
    /\ durable = [p \in Partitions |-> Base(p)]
    /\ labels = [p \in Partitions |-> {}]
    /\ endLabel = {}
    /\ vabc \in Writers
    /\ faults = 0

(* An error costs a fault unless the state forces it.                      *)
Fault(forced) ==
    IF forced THEN UNCHANGED faults
    ELSE /\ faults < MaxFaults
         /\ faults' = faults + 1

-------------------------------------------------------------------------------
(* Closing a partition writer flushes what it holds.                       *)
CloseCurrentPartition ==
    /\ open' = FALSE
    /\ durable' = IF open THEN [durable EXCEPT ![cur] = nextOp] ELSE durable

(* Write() returned false.  A cached manifest that does not load is        *)
(* fetched again by a new performer, and the data from the offset now in   *)
(* the preferences; otherwise DownloadAction terminates the transfer.      *)
WriteFails(c) ==
    /\ IF cached
       THEN /\ phase' = "manifest" /\ cached' = FALSE /\ code' = code
            /\ stream' = pOffset'
       ELSE /\ phase' = "terminated" /\ code' = c
            /\ UNCHANGED <<cached, stream>>
    /\ UNCHANGED <<payload, isResume>>

(* ResetUpdateProgress(prefs, false, ...), but for the sizes and the       *)
(* prepared hash, which the callers below set.                             *)
ResetUpdateProgress ==
    /\ pNextOp' = -1 /\ pOffset' = -1 /\ pCtx' = -1 /\ pSigned' = -1
    /\ pSig' = FALSE /\ pFailures' = 0

(* Faulty variants of CanResumeUpdate: a payload other than the            *)
(* interrupted one is resumed; resumes are not limited.                    *)
CanResumeAnyUpdate(p) ==
    /\ pNextOp > 0
    /\ pFailures <= kMaxResumedUpdateFailures
    /\ pOffset >= 0 /\ pCtx # -1 /\ pMetadata
CanResumeUpdateAlways(p) ==
    /\ pNextOp > 0
    /\ pHash = p
    /\ pOffset >= 0 /\ pCtx # -1 /\ pMetadata

CanResumeUpdate(p) ==
    /\ pNextOp > 0
    /\ pHash = p
    /\ pFailures <= kMaxResumedUpdateFailures
    /\ pOffset >= 0 /\ pCtx # -1 /\ pMetadata

(* ApplyPayload(): an interrupted update of this payload is resumed, any   *)
(* other progress is dropped, the record of the prepared partitions        *)
(* excepted.  Then DownloadAction starts downloading.                      *)
ApplyPayload(p) ==
    /\ phase = "idle"
    /\ Fault(payload \in {p, NoPayload})
    /\ payload' = p
    /\ isResume' = CanResumeUpdate(p)
    /\ IF CanResumeUpdate(p)
       THEN UNCHANGED <<progressPrefs, otherPrefs>>
       ELSE /\ ResetUpdateProgress
            /\ pMetadata' = FALSE
            /\ pHash' = p
            /\ UNCHANGED pPrepared
    /\ phase' = "manifest"
    /\ cached' = CanResumeUpdate(p)
    /\ stream' = 0
    /\ UNCHANGED <<code, memoryVars, diskVars, vabc>>

(* DynamicPartitionControl lays out the target for the new payload.        *)
LayOutTarget(owner) ==
    /\ target' = owner
    /\ durable' = [p \in Partitions |-> Base(p)]
    /\ labels' = [p \in Partitions |-> {}]
    /\ endLabel' = {}

PreparePartitionsForUpdate ==
    IF pPrepared = pHash
    THEN UNCHANGED <<progressPrefs, pPrepared, pFailures, diskVars>>
    ELSE /\ ResetUpdateProgress
         /\ LayOutTarget(payload)
         /\ pPrepared' = pHash

(* A new performer parses the manifest, prepares the partitions and saves  *)
(* the sizes.                                                              *)
NewPerformer ==
    /\ nextOp' = 0 /\ cur' = 1 /\ open' = FALSE
    /\ bufferOffset' = 0 /\ hashCtx' = 0 /\ signedCtx' = 0 /\ sig' = FALSE

ParseManifest ==
    /\ phase = "manifest"
    /\ phase' = "prime"
    /\ NewPerformer
    /\ PreparePartitionsForUpdate
    /\ pMetadata' = TRUE
    /\ UNCHANGED <<payload, code, cached, stream, isResume, pHash, envVars>>

(* The manifest is not valid; the partitions are prepared but then cannot  *)
(* be listed, which in a partial update sets no error; or they cannot be   *)
(* prepared, which may leave the target half laid out and unrecorded.      *)
ParseManifestFails ==
    /\ phase = "manifest"
    /\ Fault(FALSE)
    /\ \/ /\ UNCHANGED <<progressPrefs, otherPrefs, diskVars>>
          /\ WriteFails("kError")
       \/ /\ PreparePartitionsForUpdate
          /\ pMetadata' = IF pPrepared = pHash THEN pMetadata ELSE FALSE
          /\ UNCHANGED pHash
          /\ \E c \in {"kError", "kSuccess"} : WriteFails(c)
       \/ /\ pPrepared # pHash
          /\ ResetUpdateProgress
          /\ pMetadata' = FALSE
          /\ pPrepared' = NoPayload
          /\ LayOutTarget(NoPayload)
          /\ UNCHANGED pHash
          /\ WriteFails("kError")
    /\ UNCHANGED <<memoryVars, vabc>>

(* PrimeUpdateState() and the opening of the first partition: the state is *)
(* loaded, and the resume speculatively counted as a failure.              *)
NextPhase(n) == IF n < Acc[1] THEN "open" ELSE "ops"

PrimeUpdateStateNew ==
    /\ phase = "prime"
    /\ pNextOp <= 0
    /\ phase' = NextPhase(0)
    /\ UNCHANGED <<payload, code, cached, stream, isResume, memoryVars,
                   progressPrefs, otherPrefs, diskVars, envVars>>

(* Faulty variants: the digest of the interrupted attempt is not loaded;   *)
(* the resume is not counted.                                              *)
PrimeUpdateStateNoContext ==
    /\ phase = "prime"
    /\ pNextOp > 0
    /\ pOffset >= 0 /\ pCtx # -1 /\ pSigned # -1 /\ pMetadata
    /\ nextOp' = pNextOp /\ bufferOffset' = pOffset
    /\ signedCtx' = pSigned /\ sig' = pSig
    /\ pFailures' = pFailures + 1
    /\ phase' = NextPhase(pNextOp)
    /\ UNCHANGED <<payload, code, cached, stream, isResume, cur, open, hashCtx,
                   progressPrefs, pHash, pPrepared, pMetadata, diskVars, envVars>>
PrimeUpdateStateUncounted ==
    /\ phase = "prime"
    /\ pNextOp > 0
    /\ pOffset >= 0 /\ pCtx # -1 /\ pSigned # -1 /\ pMetadata
    /\ nextOp' = pNextOp /\ bufferOffset' = pOffset
    /\ hashCtx' = pCtx /\ signedCtx' = pSigned /\ sig' = pSig
    /\ phase' = NextPhase(pNextOp)
    /\ UNCHANGED <<payload, code, cached, stream, isResume, cur, open,
                   progressPrefs, otherPrefs, diskVars, envVars>>

PrimeUpdateState ==
    /\ phase = "prime"
    /\ pNextOp > 0
    /\ pOffset >= 0 /\ pCtx # -1 /\ pSigned # -1 /\ pMetadata
    /\ nextOp' = pNextOp /\ bufferOffset' = pOffset
    /\ hashCtx' = pCtx /\ signedCtx' = pSigned /\ sig' = pSig
    /\ pFailures' = pFailures + 1
    /\ phase' = NextPhase(pNextOp)
    /\ UNCHANGED <<payload, code, cached, stream, isResume, cur, open,
                   progressPrefs, pHash, pPrepared, pMetadata, diskVars, envVars>>

(* A preference of the state cannot be read back.                          *)
PrimeUpdateStateFails ==
    /\ phase = "prime"
    /\ pNextOp > 0
    /\ Fault(pOffset < 0 \/ pCtx = -1 \/ pSigned = -1 \/ ~pMetadata)
    /\ UNCHANGED <<memoryVars, progressPrefs, otherPrefs, diskVars, vabc>>
    /\ WriteFails("kDownloadStateInitializationError")

-------------------------------------------------------------------------------
(* OpenCurrentPartition().  A VABCPartitionWriter that resumes inside the  *)
(* partition appends after the label of the next operation and drops what  *)
(* follows it, any other one starts an empty COW.                          *)
Appends == vabc /\ isResume /\ nextOp > Base(cur)

OpenCurrentPartition ==
    /\ phase = "open"
    /\ Appends => nextOp \in labels[cur]
    /\ IF vabc
       THEN /\ durable' = [durable EXCEPT ![cur] = IF Appends THEN nextOp ELSE Base(cur)]
            /\ labels' = [labels EXCEPT ![cur] =
                            IF Appends THEN {n \in labels[cur] : n <= nextOp} ELSE {}]
            /\ endLabel' = endLabel \ {cur}
       ELSE UNCHANGED <<durable, labels, endLabel>>
    /\ open' = TRUE
    /\ phase' = "ckReset"
    /\ UNCHANGED <<payload, code, cached, stream, isResume, nextOp, cur, bufferOffset,
                   hashCtx, signedCtx, sig, progressPrefs, otherPrefs, target, envVars>>

OpenCurrentPartitionFails ==
    /\ phase = "open"
    /\ Fault(Appends /\ nextOp \notin labels[cur])
    /\ UNCHANGED <<memoryVars, progressPrefs, otherPrefs, diskVars, vabc>>
    /\ WriteFails("kError")

(* Data at payload positions from .. to is added to a digest.              *)
Digest(ctx, from, to) == IF ctx = from THEN to ELSE Corrupt

HasData == DataOffset[nextOp] < DataOffset[nextOp + 1]
DataFits == stream = DataOffset[nextOp] /\ bufferOffset = DataOffset[nextOp]

(* One operation: its blob, which ValidateOperationHash() found to be the  *)
(* right one, is consumed, its extents are written through the writer's    *)
(* cache, and a checkpoint follows if the last one is a second old.        *)
PerformOperation ==
    /\ phase = "ops"
    /\ nextOp < Acc[cur]
    /\ HasData => ~cached /\ DataFits
    /\ IF HasData
       THEN /\ stream' = DataOffset[nextOp + 1]
            /\ bufferOffset' = DataOffset[nextOp + 1]
            /\ hashCtx' = Digest(hashCtx, stream, DataOffset[nextOp + 1])
            /\ signedCtx' = Digest(signedCtx, stream, DataOffset[nextOp + 1])
       ELSE UNCHANGED <<stream, bufferOffset, hashCtx, signedCtx>>
    /\ durable' = IF durable[cur] > nextOp THEN [durable EXCEPT ![cur] = nextOp]
                  ELSE durable
    /\ nextOp' = nextOp + 1
    /\ phase' \in {"ops", "ckReset"}
    /\ UNCHANGED <<payload, code, cached, isResume, cur, open, sig, progressPrefs,
                   otherPrefs, target, labels, endLabel, envVars>>

(* The data is not the operation's, or the operation cannot be performed.  *)
OperationFails ==
    /\ phase = "ops"
    /\ nextOp < Acc[cur]
    /\ HasData => ~cached /\ stream < PayloadEnd
    /\ Fault(HasData /\ ~DataFits)
    /\ CloseCurrentPartition
    /\ UNCHANGED <<nextOp, cur, bufferOffset, hashCtx, signedCtx, sig, progressPrefs,
                   otherPrefs, target, labels, endLabel, vabc>>
    /\ WriteFails("kError")

(* FinishedInstallOps() of an open VABCPartitionWriter.                    *)
FinishedInstallOps ==
    endLabel' = IF open /\ vabc THEN endLabel \cup {cur} ELSE endLabel

(* Faulty variant: the partition after the current one is opened, even     *)
(* when there is none.                                                     *)
NextPartitionUnchecked ==
    /\ phase = "ops"
    /\ nextOp >= Acc[cur]
    /\ FinishedInstallOps
    /\ CloseCurrentPartition
    /\ cur' = cur + 1
    /\ phase' = "open"
    /\ UNCHANGED <<payload, code, cached, stream, isResume, nextOp, bufferOffset, hashCtx,
                   signedCtx, sig, progressPrefs, otherPrefs, target, labels, envVars>>

(* The current partition has no operations left: the next one that has any *)
(* is opened.                                                              *)
NextPartition ==
    /\ phase = "ops"
    /\ nextOp < NumOperations
    /\ nextOp >= Acc[cur]
    /\ FinishedInstallOps
    /\ CloseCurrentPartition
    /\ \E p \in Partitions :
        /\ cur < p /\ nextOp < Acc[p]
        /\ \A q \in Partitions : q < p => Acc[q] <= nextOp
        /\ cur' = p
    /\ phase' = "open"
    /\ UNCHANGED <<payload, code, cached, stream, isResume, nextOp, bufferOffset, hashCtx,
                   signedCtx, sig, progressPrefs, otherPrefs, target, labels, envVars>>

(* All operations are done: the last writer is closed.                     *)
LastPartition ==
    /\ phase = "ops"
    /\ nextOp = NumOperations
    /\ open
    /\ FinishedInstallOps
    /\ CloseCurrentPartition
    /\ UNCHANGED <<attemptVars, nextOp, cur, bufferOffset, hashCtx, signedCtx, sig,
                   progressPrefs, otherPrefs, target, labels, envVars>>

(* The label cannot be added: Write() returns false and leaves its error   *)
(* at kSuccess.                                                            *)
FinishedInstallOpsFails ==
    /\ phase = "ops"
    /\ nextOp >= Acc[cur]
    /\ open /\ vabc
    /\ Fault(FALSE)
    /\ CloseCurrentPartition
    /\ UNCHANGED <<nextOp, cur, bufferOffset, hashCtx, signedCtx, sig, progressPrefs,
                   otherPrefs, target, labels, endLabel, vabc>>
    /\ WriteFails("kSuccess")

(* The signature message follows the last blob; it is digested into the    *)
(* payload hash only.                                                      *)
ExtractSignature ==
    /\ phase = "ops"
    /\ nextOp = NumOperations /\ ~open /\ ~sig /\ ~cached
    /\ DataFits
    /\ sig' = TRUE
    /\ stream' = PayloadEnd
    /\ bufferOffset' = PayloadEnd
    /\ hashCtx' = Digest(hashCtx, stream, PayloadEnd)
    /\ phase' = "ckReset"
    /\ UNCHANGED <<payload, code, cached, isResume, nextOp, cur, open, signedCtx,
                   progressPrefs, otherPrefs, diskVars, envVars>>

ExtractSignatureFails ==
    /\ phase = "ops"
    /\ nextOp = NumOperations /\ ~open /\ ~sig
    /\ \/ bufferOffset # DataOffset[NumOperations]
       \/ ~cached /\ stream < PayloadEnd
    /\ Fault(bufferOffset # DataOffset[NumOperations])
    /\ UNCHANGED <<memoryVars, progressPrefs, otherPrefs, diskVars, vabc>>
    /\ WriteFails("kError")

(* Write() has returned true: nothing can be done until more data arrives. *)
WaitsForData ==
    \/ nextOp < Acc[cur] /\ HasData
    \/ nextOp = NumOperations /\ ~open /\ (sig \/ bufferOffset = DataOffset[nextOp])

(* LoadCachedManifest() succeeded: nothing more can be done without data,  *)
(* which is requested from the offset now in the preferences.              *)
CachedManifestLoaded ==
    /\ phase = "ops" /\ cached
    /\ WaitsForData
    /\ cached' = FALSE
    /\ stream' = pOffset
    /\ UNCHANGED <<phase, payload, code, isResume, memoryVars, progressPrefs, otherPrefs,
                   diskVars, envVars>>

(* The daemon dies: the performer and all that no writer flushed is lost.  *)
Crash ==
    /\ phase # "idle"
    /\ Fault(FALSE)
    /\ phase' = "idle" /\ code' = "kSuccess" /\ cached' = FALSE
    /\ NewPerformer
    /\ UNCHANGED <<payload, stream, isResume, progressPrefs, otherPrefs, diskVars, vabc>>

(* VerifyPayload() when the transfer is complete.                          *)
VerifyPayload ==
    /\ bufferOffset = PayloadEnd
    /\ hashCtx = PayloadEnd
    /\ sig /\ signedCtx = DataOffset[NumOperations]

(* That the operations have been performed is not looked at.               *)
TransferComplete ==
    /\ phase = "ops" /\ ~cached
    /\ WaitsForData /\ stream = PayloadEnd
    /\ VerifyPayload
    /\ CloseCurrentPartition
    /\ phase' = "applied"
    /\ UNCHANGED <<payload, code, cached, stream, isResume, nextOp, cur, bufferOffset,
                   hashCtx, signedCtx, sig, progressPrefs, otherPrefs, target, labels,
                   endLabel, envVars>>

(* All data has been handed to Write(); what follows the operations when   *)
(* the signature is known already is not looked at.                        *)
AllReceived == stream = PayloadEnd \/ (nextOp = NumOperations /\ ~open /\ sig)

(* The transfer fails, or the payload that was received does not verify.   *)
TransferFails ==
    /\ ~cached
    /\ phase = "manifest" \/ (phase = "ops" /\ WaitsForData)
    /\ Fault(phase = "ops" /\ AllReceived /\ ~VerifyPayload)
    /\ CloseCurrentPartition
    /\ phase' = "idle"
    /\ UNCHANGED <<payload, code, cached, stream, isResume, nextOp, cur, bufferOffset,
                   hashCtx, signedCtx, sig, progressPrefs, otherPrefs, target, labels,
                   endLabel, vabc>>

(* The client cancels the update, TerminateProcessing() closes the writer. *)
CancelUpdate ==
    /\ \/ phase = "manifest" /\ ~cached
       \/ phase = "ops" /\ ~cached /\ WaitsForData
       \/ phase = "terminated"
    /\ Fault(FALSE)
    /\ CloseCurrentPartition
    /\ phase' = "idle" /\ code' = "kSuccess"
    /\ UNCHANGED <<payload, cached, stream, isResume, nextOp, cur, bufferOffset, hashCtx,
                   signedCtx, sig, progressPrefs, otherPrefs, target, labels, endLabel, vabc>>

(* TransferTerminated() completes the action if there is a code to         *)
(* complete it with; ProcessingDone() may drop the progress.               *)
TransferTerminated ==
    /\ phase = "terminated"
    /\ code # "kSuccess"
    /\ phase' = "idle" /\ code' = "kSuccess"
    /\ IF code = "kDownloadStateInitializationError"
       THEN /\ ResetUpdateProgress
            /\ pMetadata' = FALSE
            /\ pPrepared' = NoPayload
            /\ UNCHANGED pHash
       ELSE UNCHANGED <<progressPrefs, otherPrefs>>
    /\ UNCHANGED <<payload, cached, stream, isResume, memoryVars, diskVars, envVars>>

-------------------------------------------------------------------------------
(* Faulty variant: the operation number of the last checkpoint stays valid *)
(* until it is overwritten.                                                *)
CheckpointResetLate ==
    /\ phase = "ckReset"
    /\ phase' = "ckSignature"
    /\ UNCHANGED <<payload, code, cached, stream, isResume, memoryVars, progressPrefs,
                   otherPrefs, diskVars, envVars>>

(* What a call whose result is not looked at may return.                   *)
Results(call) == IF call \in Unnoticed THEN BOOLEAN ELSE {TRUE}

(* CheckpointUpdateProgress(): the operation number is made invalid first  *)
(* and written last.  If the first write fails the checkpoint goes on.     *)
CheckpointReset ==
    /\ phase = "ckReset"
    /\ phase' = "ckSignature"
    /\ \E done \in Results("Reset") :
        /\ Fault(done)
        /\ pNextOp' = IF done THEN -1 ELSE pNextOp
    /\ UNCHANGED <<payload, code, cached, stream, isResume, memoryVars, pOffset, pCtx,
                   pSigned, pSig, otherPrefs, diskVars, vabc>>

(* A failure to store the signature blob is only logged.                   *)
CheckpointSignature ==
    /\ phase = "ckSignature"
    /\ phase' = "ckContext"
    /\ \/ pSig' = (sig \/ pSig) /\ UNCHANGED faults
       \/ sig /\ Fault(FALSE) /\ UNCHANGED pSig
    /\ UNCHANGED <<payload, code, cached, stream, isResume, memoryVars, pNextOp, pOffset,
                   pCtx, pSigned, otherPrefs, diskVars, vabc>>

CheckpointContext ==
    /\ phase = "ckContext"
    /\ phase' = "ckSigned"
    /\ pCtx' = hashCtx
    /\ UNCHANGED <<payload, code, cached, stream, isResume, memoryVars, pNextOp, pOffset,
                   pSigned, pSig, otherPrefs, diskVars, envVars>>

CheckpointSigned ==
    /\ phase = "ckSigned"
    /\ phase' = "ckOffset"
    /\ pSigned' = signedCtx
    /\ UNCHANGED <<payload, code, cached, stream, isResume, memoryVars, pNextOp, pOffset,
                   pCtx, pSig, otherPrefs, diskVars, envVars>>

CheckpointOffset ==
    /\ phase = "ckOffset"
    /\ phase' = "ckWriter"
    /\ pOffset' = bufferOffset
    /\ UNCHANGED <<payload, code, cached, stream, isResume, memoryVars, pNextOp, pCtx,
                   pSigned, pSig, otherPrefs, diskVars, envVars>>

(* Faulty variant: the writer is not told of the checkpoint.               *)
CheckpointWriterSkipped ==
    /\ phase = "ckWriter"
    /\ open \/ nextOp = NumOperations
    /\ phase' = "ckNext"
    /\ UNCHANGED <<payload, code, cached, stream, isResume, memoryVars, progressPrefs,
                   otherPrefs, diskVars, envVars>>

(* partition_writer_->CheckpointUpdateProgress(): a PartitionWriter        *)
(* flushes its cache, a VABCPartitionWriter adds a label; whether that     *)
(* succeeds is not looked at.  Without a writer all operations must be     *)
(* done, or the code's CHECK_EQ fails.                                     *)
CheckpointWriter ==
    /\ phase = "ckWriter"
    /\ open \/ nextOp = NumOperations
    /\ phase' = "ckNext"
    /\ \E done \in Results("Writer") :
        /\ Fault(done)
        /\ durable' = IF open /\ done THEN [durable EXCEPT ![cur] = nextOp] ELSE durable
        /\ labels' = IF open /\ done /\ vabc
                     THEN [labels EXCEPT ![cur] = @ \cup {nextOp}]
                     ELSE labels
    /\ UNCHANGED <<payload, code, cached, stream, isResume, memoryVars, progressPrefs,
                   otherPrefs, target, endLabel, vabc>>

CheckpointNext ==
    /\ phase = "ckNext"
    /\ phase' = "ops"
    /\ pNextOp' = nextOp
    /\ UNCHANGED <<payload, code, cached, stream, isResume, memoryVars, pOffset, pCtx,
                   pSigned, pSig, otherPrefs, diskVars, envVars>>

(* A preference cannot be written (in "ckWriter", the next data length):   *)
(* the checkpoint is given up, the update goes on.                         *)
CheckpointFails ==
    /\ phase \in {"ckContext", "ckSigned", "ckOffset", "ckWriter", "ckNext"}
    /\ Fault(FALSE)
    /\ phase' = "ops"
    /\ UNCHANGED <<payload, code, cached, stream, isResume, memoryVars, progressPrefs,
                   otherPrefs, diskVars, vabc>>

-------------------------------------------------------------------------------
Progress ==
    \/ \E p \in Payloads : p = payload /\ ApplyPayload(p)
    \/ ParseManifest
    \/ PrimeUpdateStateNew
    \/ PrimeUpdateState
    \/ PrimeUpdateStateFails
    \/ OpenCurrentPartition
    \/ OpenCurrentPartitionFails
    \/ PerformOperation
    \/ OperationFails
    \/ NextPartition
    \/ LastPartition
    \/ ExtractSignature
    \/ ExtractSignatureFails
    \/ CachedManifestLoaded
    \/ TransferComplete
    \/ TransferFails
    \/ TransferTerminated
    \/ CheckpointReset
    \/ CheckpointSignature
    \/ CheckpointContext
    \/ CheckpointSigned
    \/ CheckpointOffset
    \/ CheckpointWriter
    \/ CheckpointNext

Next ==
    \/ Progress
    \/ \E p \in Payloads : p # payload /\ ApplyPayload(p)
    \/ ParseManifestFails
    \/ FinishedInstallOpsFails
    \/ CheckpointFails
    \/ CancelUpdate
    \/ Crash

Spec == Init /\ [][Next]_vars

(* The daemon's loop runs, and the client applies the payload it wants     *)
(* again after a failure.                                                  *)
FairSpec == Spec /\ WF_vars(Progress)

-------------------------------------------------------------------------------
(* Partition p holds its operations before operation n, and a COW of which *)
(* n is an operation has the label to append after.                        *)
HoldsUpTo(p, n) ==
    /\ Acc[p] <= n => durable[p] = Acc[p]
    /\ Base(p) < n /\ n < Acc[p] => durable[p] >= n /\ (vabc => n \in labels[p])

(* Whatever the preferences say can be resumed is there: a valid           *)
(* kPrefsUpdateStateNextOperation means that the digests and the offset in *)
(* the preferences are those after that operation, and that the target     *)
(* holds every earlier operation of that payload.                          *)
ResumePointIsConsistent ==
    pNextOp > 0 =>
        /\ pPrepared = pHash /\ target = pHash
        /\ \/ pOffset = DataOffset[pNextOp]
           \/ pNextOp = NumOperations /\ pOffset = PayloadEnd
        /\ pCtx = pOffset
        /\ pSigned = DataOffset[pNextOp]
        /\ \A p \in Partitions : HoldsUpTo(p, pNextOp)

(* Across any number of interruptions each byte of the payload is digested *)
(* once and in order: while operations are performed the digests and the   *)
(* offset agree with the operations done.                                  *)
DigestedOnceInOrder ==
    phase \in {"open", "ops"} \cup Checkpoint =>
        /\ hashCtx = bufferOffset
        /\ signedCtx = DataOffset[nextOp]
        /\ sig => bufferOffset = PayloadEnd

(* A download that DownloadAction reports as complete left every operation *)
(* of the payload on the target.                                           *)
AppliedCompletely ==
    phase = "applied" =>
        /\ target = payload
        /\ \A p \in Partitions : durable[p] = Acc[p]

(* An update is resumed no more often than the limit allows; an attempt    *)
(* whose cached manifest does not load counts twice.                       *)
ResumesAreBounded == pFailures <= kMaxResumedUpdateFailures + 2

(* Whatever was interrupted, and wherever, the update is applied in the    *)
(* end if faults cease and the client retries, unless a download is left   *)
(* terminated without a code.                                              *)
UpdateCompletes ==
    \/ <>(phase = "applied")
    \/ <>[](phase = "terminated" /\ code = "kSuccess")
    \/ [](payload = NoPayload)

(* Every partition written through a VABCPartitionWriter ends with the     *)
(* label FilesystemVerifierAction appends its writes after.                *)
VerifierFindsLabel ==
    phase = "applied" /\ vabc =>
        \A p \in Partitions : Base(p) < Acc[p] => p \in endLabel

(* Write() that returns false "stores an action exit code in |error|", so  *)
(* the download action completes.                                          *)
AttemptEnds == phase = "terminated" ~> phase = "idle"

(* A checkpoint is seven writes, between any two of which the daemon may   *)
(* die and any of which may fail, the first and the writer's, whose        *)
(* failures the code does not notice, only if the run admits it            *)
(* (Unnoticed).  Yet what the next attempt goes on with is what one moment *)
(* of this payload's application was, as ResumableUpdate promises: a state *)
(* counts as saved once its operation number is written.                   *)
Running == {"open", "ops"} \cup Checkpoint

PerformerState ==
    IF phase \in Running \cup {"applied"}
    THEN <<[op |-> nextOp, offset |-> bufferOffset, digest |-> hashCtx,
            signed |-> signedCtx, sig |-> sig]>>
    ELSE <<>>

SavedState ==
    IF pNextOp > 0
    THEN <<[op |-> pNextOp, offset |-> pOffset, digest |-> pCtx,
            signed |-> pSigned, sig |-> pSig]>>
    ELSE <<>>

Promise == INSTANCE ResumableUpdate WITH
    payload <- pHash, performer <- PerformerState, saved <- SavedState,
    applied <- (phase = "applied")

GoesOnWhereSaved == Promise!UpdateSpec

-------------------------------------------------------------------------------
(* The inductive invariant behind the safety properties, by subject.       *)
(* An attempt works on the payload of the preferences, on a target that is *)
(* laid out for it.                                                        *)
AttemptInv ==
    /\ phase # "idle" => payload = pHash /\ payload \in Payloads
    /\ pPrepared # NoPayload => target = pPrepared
    /\ phase \in Running \cup {"prime", "applied"} => pPrepared = pHash
    /\ phase \in {"manifest", "prime"} /\ pNextOp > 0 => isResume
    /\ cached => isResume /\ phase \notin {"idle", "terminated"}

DigestInv ==
    /\ phase = "prime" =>
        /\ nextOp = 0 /\ cur = 1
        /\ bufferOffset = 0 /\ hashCtx = 0 /\ signedCtx = 0 /\ ~sig
    /\ phase \in Running =>
        /\ hashCtx = bufferOffset
        /\ signedCtx = DataOffset[nextOp]
        /\ \/ bufferOffset = DataOffset[nextOp]
           \/ nextOp = NumOperations /\ bufferOffset = PayloadEnd

(* A partition is written while it is open; those before are complete.     *)
WriterInv ==
    /\ open => phase \in {"ops"} \cup Checkpoint
    /\ open => Base(cur) <= nextOp /\ nextOp <= Acc[cur]
    /\ phase = "open" =>
        /\ Base(cur) <= nextOp /\ nextOp < Acc[cur]
        /\ Base(cur) < nextOp => isResume
    /\ phase = "ops" =>
        /\ nextOp < Acc[cur] => open
        /\ ~open /\ nextOp < NumOperations => nextOp = 0 \/ isResume
    /\ phase \in Checkpoint => open \/ nextOp = NumOperations
    /\ phase \in Running => pNextOp <= nextOp
    /\ phase = "applied" => nextOp = NumOperations

StorageInv ==
    /\ \A p \in Partitions : Base(p) <= durable[p] /\ durable[p] <= Acc[p]
    /\ phase \in Running \cup {"applied"} =>
        \A p \in Partitions :
            Acc[p] <= nextOp /\ ~(open /\ p = cur) => durable[p] = Acc[p]

CheckpointInv ==
    /\ phase \in Checkpoint \ {"ckReset"} => pNextOp = -1
    /\ phase \in {"ckSigned", "ckOffset", "ckWriter", "ckNext"} => pCtx = hashCtx
    /\ phase \in {"ckOffset", "ckWriter", "ckNext"} => pSigned = signedCtx
    /\ phase \in {"ckWriter", "ckNext"} => pOffset = bufferOffset
    /\ phase = "ckNext" /\ open =>
        durable[cur] = nextOp /\ (vabc => nextOp \in labels[cur])

SignatureInv ==
    /\ phase \in Running /\ sig => nextOp = NumOperations /\ bufferOffset = PayloadEnd
    /\ phase \in Running /\ pSig => sig
    /\ phase \in Checkpoint /\ cached => ~sig
    /\ phase = "ops" /\ cached /\ sig => pNextOp > 0
    /\ phase \in {"manifest", "prime"} /\ pSig => pNextOp > 0
    /\ pSig /\ pNextOp > 0 => pOffset = PayloadEnd

FailuresInv ==
    /\ phase \in {"manifest", "prime"} =>
        pFailures <= kMaxResumedUpdateFailures + (IF cached THEN 0 ELSE 1)
    /\ phase \in Running /\ cached => pFailures <= kMaxResumedUpdateFailures + 1
    /\ ResumesAreBounded

IInv ==
    /\ TypeOK
    /\ AttemptInv
    /\ DigestInv
    /\ WriterInv
    /\ StorageInv
    /\ CheckpointInv
    /\ SignatureInv
    /\ FailuresInv
    /\ ResumePointIsConsistent
===============================================================================
