------------------------ MODULE DeltaPerformerProofs ------------------------
(***************************************************************************)
(* The safety properties of DeltaPerformer for every payload, partition    *)
(* layout, limit of resumes and number of faults, as long as no failure of *)
(* a checkpoint goes unnoticed (Unnoticed = {}).  The inductive invariant  *)
(* IInv is stated by subject in DeltaPerformer.  First come lemmas about   *)
(* the operators and actions: the layout of the payload, what keeps each   *)
(* part of the invariant when the variables it speaks of do not change,    *)
(* opening, writing and closing a partition, and the resume point that the *)
(* checkpoint leaves.  Then there is one lemma per action, with one step   *)
(* per conjunct of the invariant, and the theorems follow.                 *)
(***************************************************************************)
EXTENDS DeltaPerformer, TLAPS

(* The operations of the partitions follow one another: what               *)
(* acc_num_operations_ says of one partition is at most where the next one *)
(* begins.                                                                 *)
LEMMA BaseFacts ==
    /\ \A p \in Partitions : Base(p) \in 0..NumOperations /\ Base(p) <= Acc[p]
    /\ \A p \in Partitions : Acc[p] \in 0..NumOperations
    /\ \A p, q \in Partitions : p < q => Acc[p] <= Base(q)
BY PayloadAssumption DEF Base, Partitions

(* Blobs lie one after the other in the payload, and the signature message *)
(* after them.                                                             *)
LEMMA OffsetFacts ==
    /\ \A n \in 0..NumOperations : DataOffset[n] \in 0..PayloadEnd /\ DataOffset[n] < PayloadEnd
    /\ \A n \in 0..NumOperations : n < NumOperations =>
        n + 1 \in 0..NumOperations /\ DataOffset[n] <= DataOffset[n + 1]
BY PayloadAssumption

(* What a step leaves alone keeps its type.                                *)
LEMMA SameMemory ==
    ASSUME MemoryTypeOK, UNCHANGED memoryVars
    PROVE  MemoryTypeOK'
BY DEF MemoryTypeOK, memoryVars

(* Preferences that are not written keep their type.                       *)
LEMMA SamePrefs ==
    ASSUME PrefsTypeOK, UNCHANGED <<pHash, pPrepared, pNextOp, pOffset, pCtx, pSigned, pFailures>>
    PROVE  PrefsTypeOK'
BY DEF PrefsTypeOK

(* A target that is not written keeps its type.                            *)
LEMMA SameDisk ==
    ASSUME DiskTypeOK, UNCHANGED diskVars
    PROVE  DiskTypeOK'
BY DEF DiskTypeOK, diskVars

(* Nothing is claimed of complete partitions that was not claimed before.  *)
LEMMA SameStorage ==
    ASSUME StorageInv, UNCHANGED <<nextOp, cur, open, durable>>,
           phase' \in Running \cup {"applied"} => phase \in Running \cup {"applied"}
    PROVE  StorageInv'
BY DEF StorageInv

(* Once an attempt is over, or about to start, the performer's state does  *)
(* not matter: no writer is open and no checkpoint under way.              *)
LEMMA Ended ==
    ASSUME phase' \in {"idle", "manifest", "terminated"}, open' = FALSE
    PROVE  DigestInv' /\ WriterInv' /\ CheckpointInv'
BY DEF DigestInv, WriterInv, CheckpointInv, Running, Checkpoint

(* A checkpoint changes preferences only: what the performer has in memory *)
(* stays right from its first step until operations go on.                 *)
LEMMA CheckpointDigest ==
    ASSUME DigestInv, phase \in Checkpoint, phase' \in Checkpoint \cup {"ops"},
           UNCHANGED memoryVars
    PROVE  DigestInv'
BY DEF DigestInv, memoryVars, Running, Checkpoint

(* Nor does a checkpoint open or close a writer, and the operation number  *)
(* it stores is the performer's.                                           *)
LEMMA CheckpointKeepsWriter ==
    ASSUME WriterInv, MemoryTypeOK, phase \in Checkpoint, phase' \in Checkpoint \cup {"ops"},
           UNCHANGED memoryVars, pNextOp' \in {pNextOp, -1, nextOp}
    PROVE  WriterInv'
<1>1. /\ nextOp \in 0..NumOperations /\ cur \in Partitions
      /\ Acc[cur] \in 0..NumOperations
    BY BaseFacts DEF MemoryTypeOK
<1>2. /\ open => Base(cur) <= nextOp /\ nextOp <= Acc[cur]
      /\ open \/ nextOp = NumOperations
      /\ pNextOp <= nextOp
    BY DEF WriterInv, Running
<1>3. nextOp' = nextOp /\ cur' = cur /\ open' = open
    BY DEF memoryVars
<1>4. pNextOp' <= nextOp
    BY <1>1, <1>2, PayloadAssumption
<1>5. nextOp < Acc[cur] => open
    BY <1>1, <1>2, PayloadAssumption
<1>6. /\ phase' # "open" /\ phase' # "applied"
      /\ phase' \in {"ops"} \cup Checkpoint
    BY DEF Checkpoint
<1>7. ~open => ~(nextOp < NumOperations)
    BY <1>1, <1>2, PayloadAssumption
<1> QED BY <1>2, <1>3, <1>4, <1>5, <1>6, <1>7 DEF WriterInv, Base

(* A target that was just laid out has its type and holds no operation of  *)
(* any partition.                                                          *)
LEMMA LaidOut ==
    ASSUME NEW owner \in Payloads \cup {NoPayload}, LayOutTarget(owner)
    PROVE  /\ DiskTypeOK'
           /\ \A p \in Partitions : Base(p) <= durable'[p] /\ durable'[p] <= Acc[p]
BY BaseFacts DEF LayOutTarget, DiskTypeOK

(* The resume point stays consistent when neither the preferences nor the  *)
(* storage it speaks of change.                                            *)
LEMMA SamePoint ==
    ASSUME ResumePointIsConsistent,
           UNCHANGED <<pHash, pPrepared, pNextOp, pOffset, pCtx, pSigned,
                       target, durable, labels, vabc>>
    PROVE  ResumePointIsConsistent'
BY DEF ResumePointIsConsistent, HoldsUpTo

(* Without a valid next operation in the preferences there is no resume    *)
(* point to be consistent.                                                 *)
LEMMA NoPoint ==
    ASSUME pNextOp' = -1
    PROVE  ResumePointIsConsistent'
BY DEF ResumePointIsConsistent

(* With the preferences as they were, the resume point stays consistent if *)
(* every partition goes on holding what it held.                           *)
LEMMA PointKept ==
    ASSUME ResumePointIsConsistent,
           UNCHANGED <<pHash, pPrepared, pNextOp, pOffset, pCtx, pSigned, target>>,
           \A p \in Partitions : pNextOp > 0 /\ HoldsUpTo(p, pNextOp) => HoldsUpTo(p, pNextOp)'
    PROVE  ResumePointIsConsistent'
BY DEF ResumePointIsConsistent

(* Closing the writer (CloseCurrentPartition) leaves every partition whose *)
(* operations are all done complete on storage.                            *)
LEMMA CloseCompletes ==
    ASSUME MemoryTypeOK, DiskTypeOK, WriterInv, StorageInv, open => phase \in Running,
           CloseCurrentPartition
    PROVE  \A p \in Partitions :
            /\ Base(p) <= durable'[p] /\ durable'[p] <= Acc[p]
            /\ phase \in Running /\ Acc[p] <= nextOp => durable'[p] = Acc[p]
BY BaseFacts DEF MemoryTypeOK, DiskTypeOK, WriterInv, StorageInv, CloseCurrentPartition

(* Closing the writer never takes away what the resume point relies on:    *)
(* the writer has done at least the operations of the last checkpoint.     *)
LEMMA CloseKeepsPoint ==
    ASSUME MemoryTypeOK, PrefsTypeOK, DiskTypeOK, WriterInv, ResumePointIsConsistent,
           CloseCurrentPartition,
           UNCHANGED <<pHash, pPrepared, pNextOp, pOffset, pCtx, pSigned,
                       target, labels, vabc>>
    PROVE  ResumePointIsConsistent'
<1> SUFFICES ASSUME NEW p \in Partitions, pNextOp > 0, HoldsUpTo(p, pNextOp)
             PROVE  HoldsUpTo(p, pNextOp)'
    BY PointKept
<1>1. CASE open /\ p = cur
  <2>1. durable'[p] = nextOp BY <1>1 DEF CloseCurrentPartition, DiskTypeOK
  <2>2. pNextOp <= nextOp /\ nextOp <= Acc[p]
    BY <1>1 DEF WriterInv, Running
  <2>3. Acc[p] \in 0..NumOperations BY BaseFacts
  <2> QED BY <1>1, <2>1, <2>2, <2>3, PayloadAssumption DEF HoldsUpTo, MemoryTypeOK, PrefsTypeOK
<1>2. CASE ~(open /\ p = cur)
  <2>1. durable'[p] = durable[p] BY <1>2 DEF CloseCurrentPartition, DiskTypeOK
  <2> QED BY <2>1 DEF HoldsUpTo
<1> QED BY <1>1, <1>2

(* What OpenCurrentPartition does to the storage of each partition, by the *)
(* kind of writer and by whether it appends.                               *)
LEMMA OpenFacts ==
    ASSUME MemoryTypeOK, DiskTypeOK, OpenCurrentPartition
    PROVE  /\ \A p \in Partitions : p # cur => durable'[p] = durable[p] /\ labels'[p] = labels[p]
           /\ vabc /\ Appends => durable'[cur] = nextOp /\ labels'[cur] = {n \in labels[cur] : n <= nextOp}
           /\ vabc /\ ~Appends => durable'[cur] = Base(cur) /\ labels'[cur] = {}
           /\ ~vabc => durable' = durable /\ labels' = labels
           /\ DiskTypeOK'
<1>0. cur \in Partitions /\ Base(cur) \in 0..NumOperations /\ nextOp \in 0..NumOperations BY BaseFacts DEF MemoryTypeOK
<1>1. CASE ~vabc
  BY <1>1 DEF OpenCurrentPartition, DiskTypeOK
<1>2. CASE vabc /\ Appends
  BY <1>0, <1>2 DEF OpenCurrentPartition, DiskTypeOK
<1>3. CASE vabc /\ ~Appends
  BY <1>0, <1>3 DEF OpenCurrentPartition, DiskTypeOK
<1> QED BY <1>1, <1>2, <1>3

(* Opening a partition leaves the complete partitions before it alone.     *)
LEMMA OpenStorage ==
    ASSUME MemoryTypeOK, DiskTypeOK, WriterInv, StorageInv, OpenCurrentPartition
    PROVE  StorageInv'
<1>0. phase = "open" /\ nextOp' = nextOp /\ cur' = cur /\ Base(cur) <= nextOp /\ nextOp < Acc[cur]
    BY DEF OpenCurrentPartition, WriterInv
<1> SUFFICES ASSUME NEW p \in Partitions
             PROVE  /\ Base(p) <= durable'[p] /\ durable'[p] <= Acc[p]
                    /\ Acc[p] <= nextOp /\ p # cur => durable'[p] = Acc[p]
    BY <1>0 DEF StorageInv, OpenCurrentPartition
<1>1. CASE p # cur
    BY <1>0, <1>1, OpenFacts DEF StorageInv, Running, WriterInv
<1>2. CASE p = cur
    BY <1>0, <1>2, OpenFacts, BaseFacts DEF StorageInv, MemoryTypeOK
<1> QED BY <1>1, <1>2

(* Opening a partition keeps the resume point: a COW that is started anew  *)
(* is one that no resume point speaks of.                                  *)
LEMMA OpenPoint ==
    ASSUME MemoryTypeOK, PrefsTypeOK, DiskTypeOK, WriterInv, ResumePointIsConsistent, OpenCurrentPartition
    PROVE  ResumePointIsConsistent'
<1>0. /\ phase = "open" /\ Base(cur) <= nextOp /\ nextOp < Acc[cur] /\ pNextOp <= nextOp
      /\ Base(cur) < nextOp => isResume
      /\ UNCHANGED <<pHash, pPrepared, pNextOp, pOffset, pCtx, pSigned, target, vabc>>
    BY DEF OpenCurrentPartition, WriterInv, Running, progressPrefs, otherPrefs, envVars
<1> SUFFICES ASSUME NEW p \in Partitions, pNextOp > 0, HoldsUpTo(p, pNextOp)
             PROVE  HoldsUpTo(p, pNextOp)'
    BY <1>0, PointKept
<1>1. CASE p # cur \/ ~vabc
    BY <1>0, <1>1, OpenFacts DEF HoldsUpTo
<1>2. CASE p = cur /\ vabc /\ Appends
    BY <1>0, <1>2, OpenFacts, BaseFacts DEF HoldsUpTo, MemoryTypeOK, PrefsTypeOK
<1>3. CASE p = cur /\ vabc /\ ~Appends
    BY <1>0, <1>3, OpenFacts, BaseFacts DEF HoldsUpTo, MemoryTypeOK, PrefsTypeOK, Appends
<1> QED BY <1>1, <1>2, <1>3

(* What PerformOperation does to the operation number, the partition and   *)
(* its storage.                                                            *)
LEMMA PerformFacts ==
    ASSUME MemoryTypeOK, DiskTypeOK, WriterInv, PerformOperation
    PROVE  /\ phase = "ops" /\ open /\ cur \in Partitions /\ cur' = cur /\ open' = open
           /\ Base(cur) <= nextOp /\ nextOp < Acc[cur] /\ nextOp < NumOperations
           /\ nextOp \in 0..NumOperations /\ nextOp + 1 \in 0..NumOperations
           /\ nextOp' = nextOp + 1
           /\ pNextOp <= nextOp
           /\ phase' \in {"ops", "ckReset"}
           /\ \A p \in Partitions : p # cur => durable'[p] = durable[p]
           /\ durable'[cur] = IF durable[cur] > nextOp THEN nextOp ELSE durable[cur]
<1>1. phase = "ops" /\ nextOp < Acc[cur] /\ nextOp' = nextOp + 1 /\ cur' = cur /\ open' = open
      /\ phase' \in {"ops", "ckReset"}
    BY DEF PerformOperation
<1>2. open /\ Base(cur) <= nextOp /\ pNextOp <= nextOp
    BY <1>1 DEF WriterInv, Running
<1>3. cur \in Partitions /\ nextOp \in 0..NumOperations /\ Acc[cur] \in 0..NumOperations
    BY BaseFacts DEF MemoryTypeOK
<1>4. nextOp < NumOperations /\ nextOp + 1 \in 0..NumOperations
    BY <1>1, <1>3, PayloadAssumption
<1>5. /\ \A p \in Partitions : p # cur => durable'[p] = durable[p]
      /\ durable'[cur] = IF durable[cur] > nextOp THEN nextOp ELSE durable[cur]
    BY <1>3 DEF PerformOperation, DiskTypeOK
<1> QED BY <1>1, <1>2, <1>3, <1>4, <1>5

(* An operation that is performed advances both digests and the offset to  *)
(* the end of its blob.                                                    *)
LEMMA PerformData ==
    ASSUME MemoryTypeOK, DiskTypeOK, AttemptTypeOK, WriterInv, DigestInv, SignatureInv, PerformOperation
    PROVE  /\ ~sig
           /\ bufferOffset' = DataOffset[nextOp + 1]
           /\ hashCtx' = DataOffset[nextOp + 1]
           /\ signedCtx' = DataOffset[nextOp + 1]
           /\ stream' \in -1..PayloadEnd
<1>1. phase = "ops" /\ nextOp < NumOperations /\ nextOp \in 0..NumOperations /\ nextOp + 1 \in 0..NumOperations
    BY PerformFacts
<1>2. ~sig BY <1>1 DEF SignatureInv, Running
<1>3. hashCtx = DataOffset[nextOp] /\ bufferOffset = DataOffset[nextOp] /\ signedCtx = DataOffset[nextOp]
    BY <1>1, PayloadAssumption DEF DigestInv, Running
<1>4. DataOffset[nextOp] \in 0..PayloadEnd /\ DataOffset[nextOp + 1] \in 0..PayloadEnd
      /\ DataOffset[nextOp] <= DataOffset[nextOp + 1]
    BY <1>1, OffsetFacts
<1>5. CASE HasData
    BY <1>2, <1>3, <1>4, <1>5 DEF PerformOperation, DataFits, Digest
<1>6. CASE ~HasData
  <2>1. DataOffset[nextOp] = DataOffset[nextOp + 1] BY <1>4, <1>6, PayloadAssumption DEF HasData
  <2> QED BY <1>2, <1>3, <1>6, <2>1 DEF PerformOperation, AttemptTypeOK
<1> QED BY <1>5, <1>6

(* An operation only touches the partition that is open.                   *)
LEMMA PerformStorage ==
    ASSUME MemoryTypeOK, DiskTypeOK, WriterInv, StorageInv, PerformOperation
    PROVE  StorageInv'
<1> SUFFICES ASSUME NEW p \in Partitions
             PROVE  /\ Base(p) <= durable'[p] /\ durable'[p] <= Acc[p]
                    /\ Acc[p] <= nextOp' /\ ~(open' /\ p = cur') => durable'[p] = Acc[p]
    BY DEF StorageInv
<1>1. Base(p) \in 0..NumOperations /\ Acc[p] \in 0..NumOperations /\ durable[p] \in 0..NumOperations
    BY BaseFacts DEF DiskTypeOK
<1>2. Base(p) <= durable[p] /\ durable[p] <= Acc[p] BY DEF StorageInv
<1>3. CASE p = cur
    BY <1>1, <1>2, <1>3, PerformFacts, PayloadAssumption, SMTT(30)
<1>4. CASE p # cur
  <2>1. CASE Acc[p] <= nextOp
    BY <1>2, <1>4, <2>1, PerformFacts DEF StorageInv, Running
  <2>2. CASE ~(Acc[p] <= nextOp)
    <3>1. p > cur
      <4>1. ~(p < cur)
        BY <1>1, <2>2, PerformFacts, BaseFacts, PayloadAssumption
      <4> QED BY <1>4, <4>1, PerformFacts, PayloadAssumption DEF Partitions
    <3>2. Acc[cur] <= Base(p) BY <3>1, PerformFacts, BaseFacts
    <3>3. Acc[cur] \in 0..NumOperations BY PerformFacts, BaseFacts
    <3>4. nextOp + 1 <= Base(p) BY <3>2, <3>3, <1>1, PerformFacts, PayloadAssumption
    <3> QED BY <1>1, <1>2, <1>4, <3>4, PerformFacts, PayloadAssumption, SMTT(30)
  <2> QED BY <2>1, <2>2
<1> QED BY <1>3, <1>4

(* An operation after the resume point does not touch what the resume      *)
(* point relies on.                                                        *)
LEMMA PerformPoint ==
    ASSUME MemoryTypeOK, PrefsTypeOK, DiskTypeOK, WriterInv, ResumePointIsConsistent, PerformOperation
    PROVE  ResumePointIsConsistent'
<1>0. UNCHANGED <<pHash, pPrepared, pNextOp, pOffset, pCtx, pSigned, target, labels, vabc>>
    BY DEF PerformOperation, progressPrefs, otherPrefs, envVars
<1> SUFFICES ASSUME NEW p \in Partitions, pNextOp > 0, HoldsUpTo(p, pNextOp)
             PROVE  HoldsUpTo(p, pNextOp)'
    BY <1>0, PointKept
<1>1. CASE p # cur BY <1>0, <1>1, PerformFacts DEF HoldsUpTo
<1>2. CASE p = cur
  <2>1. Acc[p] \in 0..NumOperations /\ durable[p] \in 0..NumOperations /\ pNextOp \in Int
    BY BaseFacts DEF DiskTypeOK, PrefsTypeOK
  <2> QED BY <1>0, <1>2, <2>1, PerformFacts, PayloadAssumption, SMTT(30) DEF HoldsUpTo
<1> QED BY <1>1, <1>2

(* The partition opened next is the one that holds the next operation, and *)
(* it is entered in the middle only by a resumed update.                   *)
LEMMA NextPartitionWriter ==
    ASSUME FlagsTypeOK, MemoryTypeOK, PrefsTypeOK, WriterInv, NextPartition
    PROVE  WriterInv'
<1>0. phase = "ops" /\ nextOp >= Acc[cur] /\ nextOp < NumOperations /\ phase' = "open" /\ open' = FALSE
      /\ UNCHANGED <<nextOp, pNextOp, isResume>>
    BY DEF NextPartition, CloseCurrentPartition, progressPrefs
<1>1. PICK p \in Partitions : /\ cur < p /\ nextOp < Acc[p]
                              /\ \A q \in Partitions : q < p => Acc[q] <= nextOp
                              /\ cur' = p
    BY DEF NextPartition
<1>2. Base(p) <= nextOp
    BY <1>1, PayloadAssumption DEF Base, Partitions, MemoryTypeOK
<1>3. Base(p) < nextOp => isResume
  <2>1. CASE open
    <3>1. nextOp <= Acc[cur] /\ Acc[cur] <= Base(p) BY <2>1, <1>1, BaseFacts DEF WriterInv, MemoryTypeOK
    <3>2. Acc[cur] \in 0..NumOperations /\ Base(p) \in 0..NumOperations BY BaseFacts DEF MemoryTypeOK
    <3> QED BY <3>1, <3>2, PayloadAssumption DEF MemoryTypeOK
  <2>2. CASE ~open
    <3>1. nextOp = 0 \/ isResume BY <1>0, <2>2 DEF WriterInv
    <3>2. Base(p) \in 0..NumOperations BY BaseFacts
    <3> QED BY <3>1, <3>2, PayloadAssumption
  <2> QED BY <2>1, <2>2
<1>4. pNextOp <= nextOp BY <1>0 DEF WriterInv, Running
<1> QED BY <1>0, <1>1, <1>2, <1>3, <1>4 DEF WriterInv, Running, Checkpoint, Base

(* When the checkpoint is about to write the operation number, the target  *)
(* holds every operation before it.                                        *)
LEMMA HoldsAtCheckpoint ==
    ASSUME MemoryTypeOK, DiskTypeOK, WriterInv, StorageInv, CheckpointInv, phase = "ckNext",
           NEW p \in Partitions
    PROVE  HoldsUpTo(p, nextOp)
<1>1. Base(p) \in 0..NumOperations /\ Acc[p] \in 0..NumOperations /\ nextOp \in 0..NumOperations
      /\ cur \in Partitions /\ Base(cur) \in 0..NumOperations /\ Acc[cur] \in 0..NumOperations
    BY BaseFacts DEF MemoryTypeOK
<1>2. CASE open /\ p = cur
  BY <1>1, <1>2, PayloadAssumption DEF HoldsUpTo, CheckpointInv, WriterInv
<1>3. CASE open /\ p # cur
  <2>1. Base(cur) <= nextOp /\ nextOp <= Acc[cur] BY <1>3 DEF WriterInv
  <2>2. Acc[p] <= nextOp \/ nextOp <= Base(p)
    <3>1. p < cur \/ cur < p BY <1>1, <1>3, PayloadAssumption DEF Partitions
    <3> QED BY <1>1, <2>1, <3>1, BaseFacts, PayloadAssumption, SMTT(30)
  <2>3. Acc[p] <= nextOp => durable[p] = Acc[p]
    BY <1>3 DEF StorageInv, Running, Checkpoint
  <2> QED BY <1>1, <2>2, <2>3, PayloadAssumption DEF HoldsUpTo
<1>4. CASE ~open
  <2>1. nextOp = NumOperations BY <1>4 DEF WriterInv, Checkpoint
  <2>2. durable[p] = Acc[p]
    BY <1>1, <1>4, <2>1, PayloadAssumption DEF StorageInv, Running, Checkpoint
  <2> QED BY <1>1, <2>1, <2>2, PayloadAssumption DEF HoldsUpTo
<1> QED BY <1>2, <1>3, <1>4

-----------------------------------------------------------------------------
(* ApplyPayload preserves the inductive invariant.                         *)
LEMMA ApplyPayloadInv ==
    ASSUME NEW p \in Payloads, IInv, ApplyPayload(p)
    PROVE  IInv'
<1> USE DEF attemptVars, memoryVars, progressPrefs, otherPrefs, diskVars, envVars,
            Running, Checkpoint, Partitions, Corrupt
<1> /\ FlagsTypeOK /\ AttemptTypeOK /\ MemoryTypeOK /\ PrefsTypeOK /\ DiskTypeOK
    /\ AttemptInv /\ DigestInv /\ WriterInv /\ StorageInv /\ CheckpointInv
    /\ SignatureInv /\ FailuresInv /\ ResumePointIsConsistent
    BY DEF IInv, TypeOK
<1>1. FlagsTypeOK'
  BY Zenon DEF FlagsTypeOK, ApplyPayload, CanResumeUpdate, ResetUpdateProgress
<1>2. AttemptTypeOK'
  BY PayloadAssumption, BoundAssumption
  DEF AttemptTypeOK, PrefsTypeOK, Phases, Codes, ApplyPayload, Fault, CanResumeUpdate,
      ResetUpdateProgress
<1>3. MemoryTypeOK'
  BY DEF MemoryTypeOK, ApplyPayload
<1>4. PrefsTypeOK'
  <2>1. CASE CanResumeUpdate(p)
    BY <2>1 DEF ApplyPayload, PrefsTypeOK
  <2>2. CASE ~CanResumeUpdate(p)
    BY <2>2, PayloadAssumption
    DEF ApplyPayload, ResetUpdateProgress, PrefsTypeOK
  <2> QED BY <2>1, <2>2
<1>5. DiskTypeOK'
  BY DEF DiskTypeOK, ApplyPayload
<1>6. AttemptInv'
  BY PayloadAssumption
  DEF AttemptInv, ApplyPayload, CanResumeUpdate, ResetUpdateProgress
<1>7. FailuresInv'
  BY BoundAssumption
  DEF FailuresInv, ResumesAreBounded, ApplyPayload, CanResumeUpdate,
      ResetUpdateProgress
<1>8. DigestInv'
  BY DEF DigestInv, ApplyPayload
<1>9. WriterInv'
  BY DEF WriterInv, ApplyPayload
<1>10. StorageInv'
  BY DEF StorageInv, ApplyPayload
<1>11. CheckpointInv'
  BY DEF CheckpointInv, ApplyPayload
<1>12. SignatureInv'
  BY PayloadAssumption
  DEF SignatureInv, ApplyPayload, CanResumeUpdate, ResetUpdateProgress
<1>13. ResumePointIsConsistent'
  <2>1. CASE CanResumeUpdate(p)
    BY <2>1, SamePoint
    DEF ApplyPayload
  <2>2. CASE ~CanResumeUpdate(p)
    BY <2>2, NoPoint DEF ApplyPayload, ResetUpdateProgress
  <2> QED BY <2>1, <2>2
<1> QED BY <1>1, <1>2, <1>3, <1>4, <1>5, <1>6, <1>7, <1>8, <1>9, <1>10, <1>11,
           <1>12, <1>13
  DEF IInv, TypeOK

(* ParseManifest preserves the inductive invariant.                        *)
LEMMA ParseManifestInv ==
    ASSUME IInv, ParseManifest
    PROVE  IInv'
<1> USE DEF attemptVars, memoryVars, progressPrefs, otherPrefs, diskVars, envVars,
            Running, Checkpoint, Partitions, Corrupt
<1> /\ FlagsTypeOK /\ AttemptTypeOK /\ MemoryTypeOK /\ PrefsTypeOK /\ DiskTypeOK
    /\ AttemptInv /\ DigestInv /\ WriterInv /\ StorageInv /\ CheckpointInv
    /\ SignatureInv /\ FailuresInv /\ ResumePointIsConsistent
    BY DEF IInv, TypeOK
<1>1. FlagsTypeOK'
  BY Zenon
  DEF FlagsTypeOK, ParseManifest, NewPerformer, PreparePartitionsForUpdate,
      ResetUpdateProgress, LayOutTarget
<1>2. AttemptTypeOK'
  BY DEF AttemptTypeOK, Phases, Codes, ParseManifest
<1>3. MemoryTypeOK'
  BY PayloadAssumption
  DEF MemoryTypeOK, ParseManifest, NewPerformer, PreparePartitionsForUpdate,
      ResetUpdateProgress, LayOutTarget
<1>4. PrefsTypeOK'
  BY PayloadAssumption, SMTT(30)
  DEF PrefsTypeOK, ParseManifest, NewPerformer, PreparePartitionsForUpdate,
      ResetUpdateProgress, LayOutTarget
<1>5. DiskTypeOK' /\ StorageInv'
  <2>1. CASE pPrepared = pHash
    BY <2>1, Zenon DEF ParseManifest, PreparePartitionsForUpdate, DiskTypeOK,
      StorageInv
  <2>2. CASE pPrepared # pHash
    BY <2>2, LaidOut DEF ParseManifest, PreparePartitionsForUpdate,
      AttemptTypeOK, StorageInv
  <2> QED BY <2>1, <2>2
<1>6. AttemptInv'
  BY PayloadAssumption
  DEF AttemptTypeOK, PrefsTypeOK, AttemptInv, ParseManifest, NewPerformer,
      PreparePartitionsForUpdate, ResetUpdateProgress, LayOutTarget
<1>7. FailuresInv'
  BY BoundAssumption
  DEF AttemptTypeOK, PrefsTypeOK, FailuresInv, ResumesAreBounded, ParseManifest,
      NewPerformer, PreparePartitionsForUpdate, ResetUpdateProgress, LayOutTarget
<1>8. DigestInv'
  BY PayloadAssumption
  DEF MemoryTypeOK, DigestInv, WriterInv, SignatureInv, ParseManifest, NewPerformer,
      PreparePartitionsForUpdate, ResetUpdateProgress, LayOutTarget
<1>9. WriterInv'
  BY PayloadAssumption, Zenon
  DEF WriterInv, ParseManifest, NewPerformer, PreparePartitionsForUpdate,
      ResetUpdateProgress, LayOutTarget
<1>10. CheckpointInv'
  BY DEF CheckpointInv, ParseManifest
<1>11. SignatureInv'
  BY PayloadAssumption
  DEF SignatureInv, ParseManifest, NewPerformer, PreparePartitionsForUpdate,
      ResetUpdateProgress, LayOutTarget
<1>12. ResumePointIsConsistent'
  <2>1. CASE pPrepared = pHash
    BY <2>1, SamePoint DEF ParseManifest, PreparePartitionsForUpdate
  <2>2. CASE pPrepared # pHash
    BY <2>2, NoPoint
    DEF ParseManifest, PreparePartitionsForUpdate, ResetUpdateProgress
  <2> QED BY <2>1, <2>2
<1> QED BY <1>1, <1>2, <1>3, <1>4, <1>5, <1>6, <1>7, <1>8, <1>9, <1>10, <1>11,
           <1>12
  DEF IInv, TypeOK

(* ParseManifestFails preserves the inductive invariant.                   *)
LEMMA ParseManifestFailsInv ==
    ASSUME IInv, ParseManifestFails
    PROVE  IInv'
<1> USE DEF attemptVars, memoryVars, progressPrefs, otherPrefs, diskVars, envVars,
            Running, Checkpoint, Partitions, Corrupt
<1> /\ FlagsTypeOK /\ AttemptTypeOK /\ MemoryTypeOK /\ PrefsTypeOK /\ DiskTypeOK
    /\ AttemptInv /\ DigestInv /\ WriterInv /\ StorageInv /\ CheckpointInv
    /\ SignatureInv /\ FailuresInv /\ ResumePointIsConsistent
    BY DEF IInv, TypeOK
<1>a. /\ phase = "manifest"
      /\ faults < MaxFaults /\ faults' = faults + 1
      /\ UNCHANGED <<payload, isResume, pHash, memoryVars, vabc>>
      /\ \/ /\ cached /\ phase' = "manifest" /\ cached' = FALSE
            /\ code' = code /\ stream' = pOffset'
         \/ /\ ~cached /\ phase' = "terminated" /\ code' \in Codes
            /\ UNCHANGED <<cached, stream>>
  BY Zenon DEF ParseManifestFails, Fault, WriteFails, Codes
<1>b. /\ pMetadata' = pMetadata \/ pMetadata' = FALSE
      /\ \/ /\ UNCHANGED <<pNextOp, pOffset, pCtx, pSigned, pSig, pPrepared, pFailures>>
            /\ UNCHANGED <<target, durable, labels, endLabel>>
         \/ /\ pNextOp' = -1 /\ pOffset' = -1 /\ pCtx' = -1 /\ pSigned' = -1
            /\ pSig' = FALSE /\ pFailures' = 0
            /\ \/ pPrepared' = pHash /\ LayOutTarget(payload)
               \/ pPrepared' = NoPayload /\ LayOutTarget(NoPayload)
  BY Zenon DEF ParseManifestFails, PreparePartitionsForUpdate, ResetUpdateProgress
<1>1. PrefsTypeOK'
  <2>1. CASE pNextOp' = -1
    BY <1>a, <1>b, <2>1, PayloadAssumption, SMTT(30) DEF PrefsTypeOK
  <2>2. CASE pNextOp' # -1
    BY <1>a, <1>b, <2>2 DEF PrefsTypeOK
  <2> QED BY <2>1, <2>2
<1>2. FlagsTypeOK'
  BY <1>a, <1>b, Zenon
  DEF FlagsTypeOK
<1>3. AttemptTypeOK'
  BY <1>1, <1>a, BoundAssumption
  DEF AttemptTypeOK, PrefsTypeOK, Phases, FlagsTypeOK
<1>4. MemoryTypeOK'
  BY <1>a
  DEF MemoryTypeOK, FlagsTypeOK
<1>5. DiskTypeOK' /\ StorageInv'
  <2>1. CASE UNCHANGED <<target, durable, labels, endLabel>>
    BY <2>1, <1>a DEF DiskTypeOK, StorageInv
  <2>2. ASSUME NEW owner \in Payloads \cup {NoPayload}, LayOutTarget(owner)
        PROVE  DiskTypeOK' /\ StorageInv'
    BY <2>2, LaidOut, <1>a DEF StorageInv
  <2> QED BY <2>1, <2>2, <1>b DEF AttemptTypeOK
<1>6. AttemptInv'
  BY <1>a, <1>b
  DEF AttemptInv, LayOutTarget, FlagsTypeOK
<1>7. FailuresInv'
  BY <1>a, <1>b, BoundAssumption
  DEF FailuresInv, ResumesAreBounded, PrefsTypeOK, FlagsTypeOK
<1>8. DigestInv'
  BY <1>a
  DEF DigestInv, FlagsTypeOK
<1>9. WriterInv'
  BY <1>a
  DEF WriterInv, FlagsTypeOK
<1>10. CheckpointInv'
  BY <1>a
  DEF CheckpointInv, FlagsTypeOK
<1>11. SignatureInv'
  BY <1>a, <1>b
  DEF SignatureInv, FlagsTypeOK
<1>12. ResumePointIsConsistent'
  BY SamePoint, NoPoint, <1>a, <1>b
<1> QED BY <1>1, <1>2, <1>3, <1>4, <1>5, <1>6, <1>7, <1>8, <1>9, <1>10, <1>11,
           <1>12
  DEF IInv, TypeOK

(* PrimeUpdateStateNew preserves the inductive invariant.                  *)
LEMMA PrimeUpdateStateNewInv ==
    ASSUME IInv, PrimeUpdateStateNew
    PROVE  IInv'
<1> USE DEF attemptVars, memoryVars, progressPrefs, otherPrefs, diskVars, envVars,
            Running, Checkpoint, Partitions, Corrupt
<1> /\ FlagsTypeOK /\ AttemptTypeOK /\ MemoryTypeOK /\ PrefsTypeOK /\ DiskTypeOK
    /\ AttemptInv /\ DigestInv /\ WriterInv /\ StorageInv /\ CheckpointInv
    /\ SignatureInv /\ FailuresInv /\ ResumePointIsConsistent
    BY DEF IInv, TypeOK
<1>1. FlagsTypeOK'
  BY DEF FlagsTypeOK, PrimeUpdateStateNew
<1>2. AttemptTypeOK'
  BY PayloadAssumption, BoundAssumption
  DEF AttemptTypeOK, PrefsTypeOK, Phases, Codes, PrimeUpdateStateNew, NextPhase
<1>3. MemoryTypeOK'
  BY DEF MemoryTypeOK, PrimeUpdateStateNew
<1>4. PrefsTypeOK'
  BY DEF PrefsTypeOK, PrimeUpdateStateNew
<1>5. DiskTypeOK'
  BY DEF DiskTypeOK, PrimeUpdateStateNew
<1>6. AttemptInv'
  BY PayloadAssumption DEF AttemptInv, PrimeUpdateStateNew, NextPhase
<1>7. FailuresInv'
  BY BoundAssumption
  DEF AttemptTypeOK, PrefsTypeOK, FailuresInv, ResumesAreBounded, PrimeUpdateStateNew,
      NextPhase
<1>8. DigestInv'
  BY PayloadAssumption DEF DigestInv, PrimeUpdateStateNew, NextPhase
<1>9. WriterInv'
  BY PayloadAssumption
  DEF FlagsTypeOK, AttemptTypeOK, MemoryTypeOK, PrefsTypeOK, WriterInv, DigestInv,
      AttemptInv, Base, PrimeUpdateStateNew, NextPhase
<1>10. StorageInv'
  BY PayloadAssumption, BaseFacts, SMTT(30)
  DEF MemoryTypeOK, DiskTypeOK, StorageInv, WriterInv, DigestInv, PrimeUpdateStateNew,
      NextPhase
<1>11. CheckpointInv'
  BY PayloadAssumption
  DEF FlagsTypeOK, AttemptTypeOK, MemoryTypeOK, PrefsTypeOK, DiskTypeOK,
      CheckpointInv, PrimeUpdateStateNew, NextPhase
<1>12. SignatureInv'
  BY PayloadAssumption
  DEF FlagsTypeOK, AttemptTypeOK, MemoryTypeOK, PrefsTypeOK, SignatureInv, DigestInv,
      WriterInv, CheckpointInv, PrimeUpdateStateNew, NextPhase
<1>13. ResumePointIsConsistent'
  BY SamePoint
  DEF PrimeUpdateStateNew
<1> QED BY <1>1, <1>2, <1>3, <1>4, <1>5, <1>6, <1>7, <1>8, <1>9, <1>10, <1>11,
           <1>12, <1>13
  DEF IInv, TypeOK

(* PrimeUpdateState preserves the inductive invariant.                     *)
LEMMA PrimeUpdateStateInv ==
    ASSUME IInv, PrimeUpdateState
    PROVE  IInv'
<1> USE DEF attemptVars, memoryVars, progressPrefs, otherPrefs, diskVars, envVars,
            Running, Checkpoint, Partitions, Corrupt
<1> /\ FlagsTypeOK /\ AttemptTypeOK /\ MemoryTypeOK /\ PrefsTypeOK /\ DiskTypeOK
    /\ AttemptInv /\ DigestInv /\ WriterInv /\ StorageInv /\ CheckpointInv
    /\ SignatureInv /\ FailuresInv /\ ResumePointIsConsistent
    BY DEF IInv, TypeOK
<1>1. FlagsTypeOK'
  BY DEF FlagsTypeOK, PrimeUpdateState
<1>2. AttemptTypeOK'
  BY PayloadAssumption, BoundAssumption
  DEF AttemptTypeOK, Phases, Codes, PrimeUpdateState, NextPhase
<1>3. MemoryTypeOK'
  BY PayloadAssumption, OffsetFacts, SMTT(30)
  DEF MemoryTypeOK, PrefsTypeOK, ResumePointIsConsistent, PrimeUpdateState, NextPhase
<1>4. PrefsTypeOK'
  BY DEF PrefsTypeOK, PrimeUpdateState
<1>5. DiskTypeOK'
  BY DEF DiskTypeOK, PrimeUpdateState
<1>6. AttemptInv'
  BY PayloadAssumption DEF AttemptInv, PrimeUpdateState, NextPhase
<1>7. FailuresInv'
  BY BoundAssumption
  DEF AttemptTypeOK, PrefsTypeOK, FailuresInv, ResumesAreBounded, PrimeUpdateState,
      NextPhase
<1>8. DigestInv'
  BY PayloadAssumption, Zenon
  DEF MemoryTypeOK, PrefsTypeOK, DigestInv, ResumePointIsConsistent, PrimeUpdateState,
      NextPhase
<1>9. WriterInv'
  BY PayloadAssumption, SMTT(30)
  DEF FlagsTypeOK, AttemptTypeOK, MemoryTypeOK, PrefsTypeOK, WriterInv, DigestInv,
      AttemptInv, Base, PrimeUpdateState, NextPhase
<1>10. StorageInv'
  BY PayloadAssumption, BaseFacts, Zenon
  DEF MemoryTypeOK, PrefsTypeOK, DiskTypeOK, StorageInv, ResumePointIsConsistent,
      DigestInv, WriterInv, HoldsUpTo, PrimeUpdateState, NextPhase
<1>11. CheckpointInv'
  BY PayloadAssumption DEF CheckpointInv, PrimeUpdateState, NextPhase
<1>12. SignatureInv'
  BY PayloadAssumption, OffsetFacts, SMTT(30)
  DEF FlagsTypeOK, AttemptTypeOK, MemoryTypeOK, PrefsTypeOK, SignatureInv,
      ResumePointIsConsistent, DigestInv, PrimeUpdateState, NextPhase
<1>13. ResumePointIsConsistent'
  BY SamePoint
  DEF PrimeUpdateState
<1> QED BY <1>1, <1>2, <1>3, <1>4, <1>5, <1>6, <1>7, <1>8, <1>9, <1>10, <1>11,
           <1>12, <1>13
  DEF IInv, TypeOK

(* PrimeUpdateStateFails preserves the inductive invariant.                *)
LEMMA PrimeUpdateStateFailsInv ==
    ASSUME IInv, PrimeUpdateStateFails
    PROVE  IInv'
<1> USE DEF attemptVars, memoryVars, progressPrefs, otherPrefs, diskVars, envVars,
            Running, Checkpoint, Partitions, Corrupt
<1> /\ FlagsTypeOK /\ AttemptTypeOK /\ MemoryTypeOK /\ PrefsTypeOK /\ DiskTypeOK
    /\ AttemptInv /\ DigestInv /\ WriterInv /\ StorageInv /\ CheckpointInv
    /\ SignatureInv /\ FailuresInv /\ ResumePointIsConsistent
    BY DEF IInv, TypeOK
<1>1. FlagsTypeOK'
  BY Zenon DEF FlagsTypeOK, PrimeUpdateStateFails, WriteFails
<1>2. AttemptTypeOK'
  BY PayloadAssumption, BoundAssumption, SMTT(30)
  DEF AttemptTypeOK, PrefsTypeOK, Phases, Codes, PrimeUpdateStateFails, Fault,
      WriteFails
<1>3. MemoryTypeOK'
  BY DEF MemoryTypeOK, PrimeUpdateStateFails
<1>4. PrefsTypeOK'
  BY DEF PrefsTypeOK, PrimeUpdateStateFails
<1>5. DiskTypeOK'
  BY DEF DiskTypeOK, PrimeUpdateStateFails
<1>6. AttemptInv'
  BY PayloadAssumption DEF AttemptInv, PrimeUpdateStateFails, WriteFails
<1>7. FailuresInv'
  BY BoundAssumption
  DEF AttemptTypeOK, PrefsTypeOK, FailuresInv, ResumesAreBounded,
      PrimeUpdateStateFails, Fault, WriteFails
<1>8. DigestInv'
  BY PayloadAssumption DEF DigestInv, PrimeUpdateStateFails, WriteFails
<1>9. WriterInv'
  BY Ended DEF PrimeUpdateStateFails, WriteFails, WriterInv, FlagsTypeOK
<1>10. StorageInv'
  BY SameStorage DEF PrimeUpdateStateFails, WriteFails
<1>11. CheckpointInv'
  BY PayloadAssumption DEF CheckpointInv, PrimeUpdateStateFails, WriteFails
<1>12. SignatureInv'
  BY PayloadAssumption, Zenon
  DEF SignatureInv, PrimeUpdateStateFails, WriteFails
<1>13. ResumePointIsConsistent'
  BY SamePoint
  DEF PrimeUpdateStateFails
<1> QED BY <1>1, <1>2, <1>3, <1>4, <1>5, <1>6, <1>7, <1>8, <1>9, <1>10, <1>11,
           <1>12, <1>13
  DEF IInv, TypeOK

(* OpenCurrentPartition preserves the inductive invariant.                 *)
LEMMA OpenCurrentPartitionInv ==
    ASSUME IInv, OpenCurrentPartition
    PROVE  IInv'
<1> USE DEF attemptVars, memoryVars, progressPrefs, otherPrefs, diskVars, envVars,
            Running, Checkpoint, Partitions, Corrupt
<1> /\ FlagsTypeOK /\ AttemptTypeOK /\ MemoryTypeOK /\ PrefsTypeOK /\ DiskTypeOK
    /\ AttemptInv /\ DigestInv /\ WriterInv /\ StorageInv /\ CheckpointInv
    /\ SignatureInv /\ FailuresInv /\ ResumePointIsConsistent
    BY DEF IInv, TypeOK
<1>1. FlagsTypeOK'
  BY DEF FlagsTypeOK, OpenCurrentPartition
<1>2. AttemptTypeOK'
  BY DEF AttemptTypeOK, Phases, Codes, OpenCurrentPartition
<1>3. MemoryTypeOK'
  BY DEF MemoryTypeOK, OpenCurrentPartition
<1>4. PrefsTypeOK'
  BY DEF PrefsTypeOK, OpenCurrentPartition
<1>5. DiskTypeOK'
  BY OpenFacts
<1>6. AttemptInv'
  BY Zenon DEF AttemptInv, OpenCurrentPartition
<1>7. FailuresInv'
  BY Zenon DEF FailuresInv, ResumesAreBounded, OpenCurrentPartition
<1>8. DigestInv'
  BY Zenon DEF DigestInv, OpenCurrentPartition
<1>9. WriterInv'
  BY PayloadAssumption, SMTT(30)
  DEF FlagsTypeOK, AttemptTypeOK, MemoryTypeOK, PrefsTypeOK, WriterInv, CheckpointInv,
      AttemptInv, OpenCurrentPartition, Appends
<1>10. StorageInv'
  BY OpenStorage
<1>11. CheckpointInv'
  BY SMTT(30) DEF CheckpointInv, OpenCurrentPartition
<1>12. SignatureInv'
  BY PayloadAssumption, SMTT(30)
  DEF FlagsTypeOK, AttemptTypeOK, MemoryTypeOK, PrefsTypeOK, SignatureInv, DigestInv,
      WriterInv, CheckpointInv, OpenCurrentPartition, Appends
<1>13. ResumePointIsConsistent'
  BY OpenPoint
<1> QED BY <1>1, <1>2, <1>3, <1>4, <1>5, <1>6, <1>7, <1>8, <1>9, <1>10, <1>11,
           <1>12, <1>13
  DEF IInv, TypeOK

(* OpenCurrentPartitionFails preserves the inductive invariant.            *)
LEMMA OpenCurrentPartitionFailsInv ==
    ASSUME IInv, OpenCurrentPartitionFails
    PROVE  IInv'
<1> USE DEF attemptVars, memoryVars, progressPrefs, otherPrefs, diskVars, envVars,
            Running, Checkpoint, Partitions, Corrupt
<1> /\ FlagsTypeOK /\ AttemptTypeOK /\ MemoryTypeOK /\ PrefsTypeOK /\ DiskTypeOK
    /\ AttemptInv /\ DigestInv /\ WriterInv /\ StorageInv /\ CheckpointInv
    /\ SignatureInv /\ FailuresInv /\ ResumePointIsConsistent
    BY DEF IInv, TypeOK
<1>1. FlagsTypeOK'
  BY Zenon DEF FlagsTypeOK, OpenCurrentPartitionFails, Appends, WriteFails
<1>2. AttemptTypeOK'
  BY PayloadAssumption, BoundAssumption, SMTT(30)
  DEF AttemptTypeOK, PrefsTypeOK, Phases, Codes, OpenCurrentPartitionFails, Appends,
      Fault, WriteFails
<1>3. MemoryTypeOK'
  BY DEF MemoryTypeOK, OpenCurrentPartitionFails
<1>4. PrefsTypeOK'
  BY DEF PrefsTypeOK, OpenCurrentPartitionFails
<1>5. DiskTypeOK'
  BY DEF DiskTypeOK, OpenCurrentPartitionFails
<1>6. AttemptInv'
  BY PayloadAssumption
  DEF AttemptInv, OpenCurrentPartitionFails, Appends, WriteFails
<1>7. FailuresInv'
  BY BoundAssumption, Zenon
  DEF FailuresInv, ResumesAreBounded, OpenCurrentPartitionFails, Appends, WriteFails
<1>8. DigestInv'
  BY PayloadAssumption, Zenon
  DEF DigestInv, OpenCurrentPartitionFails, Appends, WriteFails
<1>9. WriterInv'
  BY Ended DEF OpenCurrentPartitionFails, WriteFails, WriterInv, FlagsTypeOK
<1>10. StorageInv'
  BY DEF StorageInv, OpenCurrentPartitionFails
<1>11. CheckpointInv'
  BY PayloadAssumption, Zenon
  DEF CheckpointInv, OpenCurrentPartitionFails, Appends, WriteFails
<1>12. SignatureInv'
  BY PayloadAssumption, SMTT(30)
  DEF FlagsTypeOK, AttemptTypeOK, MemoryTypeOK, PrefsTypeOK, SignatureInv, DigestInv,
      WriterInv, CheckpointInv, OpenCurrentPartitionFails, Appends, Fault, WriteFails
<1>13. ResumePointIsConsistent'
  BY SamePoint, Zenon
  DEF OpenCurrentPartitionFails
<1> QED BY <1>1, <1>2, <1>3, <1>4, <1>5, <1>6, <1>7, <1>8, <1>9, <1>10, <1>11,
           <1>12, <1>13
  DEF IInv, TypeOK

(* PerformOperation preserves the inductive invariant.                     *)
LEMMA PerformOperationInv ==
    ASSUME IInv, PerformOperation
    PROVE  IInv'
<1> USE DEF attemptVars, memoryVars, progressPrefs, otherPrefs, diskVars, envVars,
            Running, Checkpoint, Partitions, Corrupt
<1> /\ FlagsTypeOK /\ AttemptTypeOK /\ MemoryTypeOK /\ PrefsTypeOK /\ DiskTypeOK
    /\ AttemptInv /\ DigestInv /\ WriterInv /\ StorageInv /\ CheckpointInv
    /\ SignatureInv /\ FailuresInv /\ ResumePointIsConsistent
    BY DEF IInv, TypeOK
<1>1. FlagsTypeOK'
  BY Zenon DEF FlagsTypeOK, PerformOperation
<1>2. AttemptTypeOK'
  BY PerformFacts, PerformData
  DEF PerformOperation, AttemptTypeOK, Phases
<1>3. MemoryTypeOK'
  BY PerformFacts, PerformData, OffsetFacts DEF MemoryTypeOK
<1>4. PrefsTypeOK'
  BY Zenon DEF PrefsTypeOK, PerformOperation
<1>5. DiskTypeOK'
  BY PayloadAssumption, BaseFacts, Zenon
  DEF DiskTypeOK, MemoryTypeOK, PerformOperation, HasData, DataFits, Digest
<1>6. AttemptInv'
  BY DEF AttemptInv, PerformOperation
<1>7. FailuresInv'
  BY DEF FailuresInv, ResumesAreBounded, PerformOperation
<1>8. DigestInv'
  BY PerformFacts, PerformData, SMTT(30) DEF DigestInv
<1>9. WriterInv'
  <2>1. nextOp + 1 <= Acc[cur]
    BY PerformFacts, BaseFacts
  <2>2. Base(cur) <= nextOp + 1
    BY PerformFacts, BaseFacts
  <2>3. pNextOp <= nextOp + 1
    BY PerformFacts, PayloadAssumption DEF PrefsTypeOK
  <2> QED BY <2>1, <2>2, <2>3, PerformFacts
    DEF PerformOperation, WriterInv, Base
<1>10. StorageInv'
  BY PerformStorage
<1>11. CheckpointInv'
  BY SMTT(30) DEF CheckpointInv, PerformOperation
<1>12. SignatureInv'
  BY PerformFacts, PerformData
  DEF PerformOperation, SignatureInv, WriterInv
<1>13. ResumePointIsConsistent'
  BY PerformPoint
<1> QED BY <1>1, <1>2, <1>3, <1>4, <1>5, <1>6, <1>7, <1>8, <1>9, <1>10, <1>11,
           <1>12, <1>13
  DEF IInv, TypeOK

(* OperationFails preserves the inductive invariant.                       *)
LEMMA OperationFailsInv ==
    ASSUME IInv, OperationFails
    PROVE  IInv'
<1> USE DEF attemptVars, memoryVars, progressPrefs, otherPrefs, diskVars, envVars,
            Running, Checkpoint, Partitions, Corrupt
<1> /\ FlagsTypeOK /\ AttemptTypeOK /\ MemoryTypeOK /\ PrefsTypeOK /\ DiskTypeOK
    /\ AttemptInv /\ DigestInv /\ WriterInv /\ StorageInv /\ CheckpointInv
    /\ SignatureInv /\ FailuresInv /\ ResumePointIsConsistent
    BY DEF IInv, TypeOK
<1>1. FlagsTypeOK'
  BY Zenon DEF FlagsTypeOK, OperationFails, WriteFails, CloseCurrentPartition
<1>2. AttemptTypeOK'
  BY PayloadAssumption, BoundAssumption
  DEF AttemptTypeOK, PrefsTypeOK, Phases, Codes, OperationFails, Fault, WriteFails,
      CloseCurrentPartition
<1>3. MemoryTypeOK'
  BY DEF MemoryTypeOK, OperationFails
<1>4. PrefsTypeOK'
  BY DEF PrefsTypeOK, OperationFails
<1>5. DiskTypeOK'
  BY PayloadAssumption, BaseFacts, Zenon
  DEF DiskTypeOK, MemoryTypeOK, OperationFails, Fault, WriteFails,
      CloseCurrentPartition
<1>6. AttemptInv'
  BY PayloadAssumption
  DEF AttemptTypeOK, PrefsTypeOK, AttemptInv, OperationFails, Fault, WriteFails,
      CloseCurrentPartition
<1>7. FailuresInv'
  BY BoundAssumption
  DEF AttemptTypeOK, PrefsTypeOK, FailuresInv, ResumesAreBounded, OperationFails,
      Fault, WriteFails, CloseCurrentPartition
<1>8. DigestInv'
  BY PayloadAssumption, Zenon
  DEF DigestInv, OperationFails, WriteFails, CloseCurrentPartition
<1>9. WriterInv'
  BY PayloadAssumption, Zenon
  DEF WriterInv, OperationFails, WriteFails, CloseCurrentPartition
<1>10. StorageInv'
  BY PayloadAssumption, BaseFacts, Zenon
  DEF MemoryTypeOK, DiskTypeOK, StorageInv, WriterInv, OperationFails, Fault,
      WriteFails, CloseCurrentPartition
<1>11. CheckpointInv'
  BY PayloadAssumption
  DEF CheckpointInv, OperationFails, WriteFails, CloseCurrentPartition
<1>12. SignatureInv'
  BY PayloadAssumption
  DEF SignatureInv, OperationFails, WriteFails, CloseCurrentPartition
<1>13. ResumePointIsConsistent'
  BY CloseKeepsPoint
  DEF OperationFails
<1> QED BY <1>1, <1>2, <1>3, <1>4, <1>5, <1>6, <1>7, <1>8, <1>9, <1>10, <1>11,
           <1>12, <1>13
  DEF IInv, TypeOK

(* NextPartition preserves the inductive invariant.                        *)
LEMMA NextPartitionInv ==
    ASSUME IInv, NextPartition
    PROVE  IInv'
<1> USE DEF attemptVars, memoryVars, progressPrefs, otherPrefs, diskVars, envVars,
            Running, Checkpoint, Partitions, Corrupt
<1> /\ FlagsTypeOK /\ AttemptTypeOK /\ MemoryTypeOK /\ PrefsTypeOK /\ DiskTypeOK
    /\ AttemptInv /\ DigestInv /\ WriterInv /\ StorageInv /\ CheckpointInv
    /\ SignatureInv /\ FailuresInv /\ ResumePointIsConsistent
    BY DEF IInv, TypeOK
<1>1. FlagsTypeOK'
  BY Zenon
  DEF FlagsTypeOK, NextPartition, FinishedInstallOps, CloseCurrentPartition
<1>2. AttemptTypeOK'
  BY DEF AttemptTypeOK, Phases, Codes, NextPartition
<1>3. MemoryTypeOK'
  BY DEF MemoryTypeOK, NextPartition
<1>4. PrefsTypeOK'
  BY DEF PrefsTypeOK, NextPartition
<1>5. DiskTypeOK'
  BY PayloadAssumption, BaseFacts, Zenon
  DEF DiskTypeOK, MemoryTypeOK, NextPartition, FinishedInstallOps,
      CloseCurrentPartition
<1>6. AttemptInv'
  BY DEF AttemptInv, NextPartition
<1>7. FailuresInv'
  BY DEF FailuresInv, ResumesAreBounded, NextPartition
<1>8. DigestInv'
  BY DEF DigestInv, NextPartition
<1>9. WriterInv'
  BY NextPartitionWriter, SMTT(30)
<1>10. StorageInv'
  BY CloseCompletes, Zenon
  DEF NextPartition, WriterInv, StorageInv, CloseCurrentPartition
<1>11. CheckpointInv'
  BY PayloadAssumption
  DEF FlagsTypeOK, AttemptTypeOK, MemoryTypeOK, PrefsTypeOK, DiskTypeOK,
      CheckpointInv, NextPartition, FinishedInstallOps, CloseCurrentPartition
<1>12. SignatureInv'
  BY Zenon DEF SignatureInv, NextPartition
<1>13. ResumePointIsConsistent'
  BY CloseKeepsPoint
  DEF NextPartition
<1> QED BY <1>1, <1>2, <1>3, <1>4, <1>5, <1>6, <1>7, <1>8, <1>9, <1>10, <1>11,
           <1>12, <1>13
  DEF IInv, TypeOK

(* LastPartition preserves the inductive invariant.                        *)
LEMMA LastPartitionInv ==
    ASSUME IInv, LastPartition
    PROVE  IInv'
<1> USE DEF attemptVars, memoryVars, progressPrefs, otherPrefs, diskVars, envVars,
            Running, Checkpoint, Partitions, Corrupt
<1> /\ FlagsTypeOK /\ AttemptTypeOK /\ MemoryTypeOK /\ PrefsTypeOK /\ DiskTypeOK
    /\ AttemptInv /\ DigestInv /\ WriterInv /\ StorageInv /\ CheckpointInv
    /\ SignatureInv /\ FailuresInv /\ ResumePointIsConsistent
    BY DEF IInv, TypeOK
<1>1. FlagsTypeOK'
  BY Zenon
  DEF FlagsTypeOK, LastPartition, FinishedInstallOps, CloseCurrentPartition
<1>2. AttemptTypeOK'
  BY DEF AttemptTypeOK, Phases, Codes, LastPartition
<1>3. MemoryTypeOK'
  BY DEF MemoryTypeOK, LastPartition
<1>4. PrefsTypeOK'
  BY DEF PrefsTypeOK, LastPartition
<1>5. DiskTypeOK'
  BY PayloadAssumption, BaseFacts, Zenon
  DEF DiskTypeOK, MemoryTypeOK, LastPartition, FinishedInstallOps,
      CloseCurrentPartition
<1>6. AttemptInv'
  BY DEF AttemptInv, LastPartition
<1>7. FailuresInv'
  BY DEF FailuresInv, ResumesAreBounded, LastPartition
<1>8. DigestInv'
  BY SMTT(30) DEF DigestInv, LastPartition
<1>9. WriterInv'
  BY PayloadAssumption, SMTT(30)
  DEF FlagsTypeOK, AttemptTypeOK, MemoryTypeOK, PrefsTypeOK, WriterInv, CheckpointInv,
      AttemptInv, LastPartition, FinishedInstallOps, CloseCurrentPartition
<1>10. StorageInv'
  BY CloseCompletes, Zenon
  DEF LastPartition, WriterInv, StorageInv, CloseCurrentPartition
<1>11. CheckpointInv'
  BY Zenon DEF CheckpointInv, LastPartition
<1>12. SignatureInv'
  BY Zenon DEF SignatureInv, LastPartition
<1>13. ResumePointIsConsistent'
  BY CloseKeepsPoint
  DEF LastPartition
<1> QED BY <1>1, <1>2, <1>3, <1>4, <1>5, <1>6, <1>7, <1>8, <1>9, <1>10, <1>11,
           <1>12, <1>13
  DEF IInv, TypeOK

(* FinishedInstallOpsFails preserves the inductive invariant.              *)
LEMMA FinishedInstallOpsFailsInv ==
    ASSUME IInv, FinishedInstallOpsFails
    PROVE  IInv'
<1> USE DEF attemptVars, memoryVars, progressPrefs, otherPrefs, diskVars, envVars,
            Running, Checkpoint, Partitions, Corrupt
<1> /\ FlagsTypeOK /\ AttemptTypeOK /\ MemoryTypeOK /\ PrefsTypeOK /\ DiskTypeOK
    /\ AttemptInv /\ DigestInv /\ WriterInv /\ StorageInv /\ CheckpointInv
    /\ SignatureInv /\ FailuresInv /\ ResumePointIsConsistent
    BY DEF IInv, TypeOK
<1>1. FlagsTypeOK'
  BY Zenon
  DEF FlagsTypeOK, FinishedInstallOpsFails, WriteFails, CloseCurrentPartition
<1>2. AttemptTypeOK'
  BY PayloadAssumption, BoundAssumption
  DEF AttemptTypeOK, PrefsTypeOK, Phases, Codes, FinishedInstallOpsFails, Fault,
      WriteFails, CloseCurrentPartition
<1>3. MemoryTypeOK'
  BY DEF MemoryTypeOK, FinishedInstallOpsFails
<1>4. PrefsTypeOK'
  BY DEF PrefsTypeOK, FinishedInstallOpsFails
<1>5. DiskTypeOK'
  BY PayloadAssumption, BaseFacts, Zenon
  DEF DiskTypeOK, MemoryTypeOK, FinishedInstallOpsFails, Fault, WriteFails,
      CloseCurrentPartition
<1>6. AttemptInv'
  BY PayloadAssumption
  DEF AttemptTypeOK, PrefsTypeOK, AttemptInv, FinishedInstallOpsFails, Fault,
      WriteFails, CloseCurrentPartition
<1>7. FailuresInv'
  BY BoundAssumption
  DEF AttemptTypeOK, PrefsTypeOK, FailuresInv, ResumesAreBounded,
      FinishedInstallOpsFails, Fault, WriteFails, CloseCurrentPartition
<1>8. DigestInv'
  BY PayloadAssumption
  DEF DigestInv, FinishedInstallOpsFails, WriteFails, CloseCurrentPartition
<1>9. WriterInv'
  BY PayloadAssumption, Zenon
  DEF WriterInv, FinishedInstallOpsFails, WriteFails, CloseCurrentPartition
<1>10. StorageInv'
  BY PayloadAssumption, BaseFacts, Zenon
  DEF MemoryTypeOK, DiskTypeOK, StorageInv, WriterInv, FinishedInstallOpsFails, Fault,
      WriteFails, CloseCurrentPartition
<1>11. CheckpointInv'
  BY PayloadAssumption, SMTT(30)
  DEF CheckpointInv, FinishedInstallOpsFails, WriteFails, CloseCurrentPartition
<1>12. SignatureInv'
  BY PayloadAssumption
  DEF SignatureInv, FinishedInstallOpsFails, WriteFails, CloseCurrentPartition
<1>13. ResumePointIsConsistent'
  BY CloseKeepsPoint
  DEF FinishedInstallOpsFails
<1> QED BY <1>1, <1>2, <1>3, <1>4, <1>5, <1>6, <1>7, <1>8, <1>9, <1>10, <1>11,
           <1>12, <1>13
  DEF IInv, TypeOK

(* ExtractSignature preserves the inductive invariant.                     *)
LEMMA ExtractSignatureInv ==
    ASSUME IInv, ExtractSignature
    PROVE  IInv'
<1> USE DEF attemptVars, memoryVars, progressPrefs, otherPrefs, diskVars, envVars,
            Running, Checkpoint, Partitions, Corrupt
<1> /\ FlagsTypeOK /\ AttemptTypeOK /\ MemoryTypeOK /\ PrefsTypeOK /\ DiskTypeOK
    /\ AttemptInv /\ DigestInv /\ WriterInv /\ StorageInv /\ CheckpointInv
    /\ SignatureInv /\ FailuresInv /\ ResumePointIsConsistent
    BY DEF IInv, TypeOK
<1>1. FlagsTypeOK'
  BY Zenon DEF FlagsTypeOK, ExtractSignature
<1>2. AttemptTypeOK'
  BY PayloadAssumption, BoundAssumption
  DEF AttemptTypeOK, Phases, Codes, ExtractSignature, DataFits, Digest
<1>3. MemoryTypeOK'
  BY PayloadAssumption, SMTT(30)
  DEF MemoryTypeOK, ExtractSignature, DataFits, Digest
<1>4. PrefsTypeOK'
  BY DEF PrefsTypeOK, ExtractSignature
<1>5. DiskTypeOK'
  BY DEF DiskTypeOK, ExtractSignature
<1>6. AttemptInv'
  BY DEF AttemptInv, ExtractSignature
<1>7. FailuresInv'
  BY DEF FailuresInv, ResumesAreBounded, ExtractSignature
<1>8. DigestInv'
  BY PayloadAssumption, Zenon DEF DigestInv, ExtractSignature, DataFits, Digest
<1>9. WriterInv'
  BY DEF WriterInv, ExtractSignature
<1>10. StorageInv'
  BY DEF StorageInv, ExtractSignature
<1>11. CheckpointInv'
  BY Zenon DEF CheckpointInv, ExtractSignature
<1>12. SignatureInv'
  BY Zenon DEF SignatureInv, ExtractSignature
<1>13. ResumePointIsConsistent'
  BY SamePoint
  DEF ExtractSignature
<1> QED BY <1>1, <1>2, <1>3, <1>4, <1>5, <1>6, <1>7, <1>8, <1>9, <1>10, <1>11,
           <1>12, <1>13
  DEF IInv, TypeOK

(* ExtractSignatureFails preserves the inductive invariant.                *)
LEMMA ExtractSignatureFailsInv ==
    ASSUME IInv, ExtractSignatureFails
    PROVE  IInv'
<1> USE DEF attemptVars, memoryVars, progressPrefs, otherPrefs, diskVars, envVars,
            Running, Checkpoint, Partitions, Corrupt
<1> /\ FlagsTypeOK /\ AttemptTypeOK /\ MemoryTypeOK /\ PrefsTypeOK /\ DiskTypeOK
    /\ AttemptInv /\ DigestInv /\ WriterInv /\ StorageInv /\ CheckpointInv
    /\ SignatureInv /\ FailuresInv /\ ResumePointIsConsistent
    BY DEF IInv, TypeOK
<1>1. FlagsTypeOK'
  BY Zenon DEF FlagsTypeOK, ExtractSignatureFails, WriteFails
<1>2. AttemptTypeOK'
  BY PayloadAssumption, BoundAssumption
  DEF AttemptTypeOK, PrefsTypeOK, Phases, Codes, ExtractSignatureFails, Fault,
      WriteFails
<1>3. MemoryTypeOK'
  BY DEF MemoryTypeOK, ExtractSignatureFails
<1>4. PrefsTypeOK'
  BY DEF PrefsTypeOK, ExtractSignatureFails
<1>5. DiskTypeOK'
  BY DEF DiskTypeOK, ExtractSignatureFails
<1>6. AttemptInv'
  BY PayloadAssumption, Zenon DEF AttemptInv, ExtractSignatureFails, WriteFails
<1>7. FailuresInv'
  BY BoundAssumption, Zenon
  DEF FailuresInv, ResumesAreBounded, ExtractSignatureFails, WriteFails
<1>8. DigestInv'
  BY PayloadAssumption, Zenon DEF DigestInv, ExtractSignatureFails, WriteFails
<1>9. WriterInv'
  BY PayloadAssumption, Zenon DEF WriterInv, ExtractSignatureFails, WriteFails
<1>10. StorageInv'
  BY DEF StorageInv, ExtractSignatureFails
<1>11. CheckpointInv'
  BY PayloadAssumption, Zenon
  DEF CheckpointInv, ExtractSignatureFails, WriteFails
<1>12. SignatureInv'
  BY DEF SignatureInv, ExtractSignatureFails
<1>13. ResumePointIsConsistent'
  BY SamePoint
  DEF ExtractSignatureFails
<1> QED BY <1>1, <1>2, <1>3, <1>4, <1>5, <1>6, <1>7, <1>8, <1>9, <1>10, <1>11,
           <1>12, <1>13
  DEF IInv, TypeOK

(* CachedManifestLoaded preserves the inductive invariant.                 *)
LEMMA CachedManifestLoadedInv ==
    ASSUME IInv, CachedManifestLoaded
    PROVE  IInv'
<1> USE DEF attemptVars, memoryVars, progressPrefs, otherPrefs, diskVars, envVars,
            Running, Checkpoint, Partitions, Corrupt
<1> /\ FlagsTypeOK /\ AttemptTypeOK /\ MemoryTypeOK /\ PrefsTypeOK /\ DiskTypeOK
    /\ AttemptInv /\ DigestInv /\ WriterInv /\ StorageInv /\ CheckpointInv
    /\ SignatureInv /\ FailuresInv /\ ResumePointIsConsistent
    BY DEF IInv, TypeOK
<1>1. FlagsTypeOK'
  BY Zenon DEF FlagsTypeOK, CachedManifestLoaded
<1>2. AttemptTypeOK'
  BY PayloadAssumption, BoundAssumption
  DEF AttemptTypeOK, PrefsTypeOK, Phases, Codes, CachedManifestLoaded
<1>3. MemoryTypeOK'
  BY DEF MemoryTypeOK, CachedManifestLoaded
<1>4. PrefsTypeOK'
  BY DEF PrefsTypeOK, CachedManifestLoaded
<1>5. DiskTypeOK'
  BY DEF DiskTypeOK, CachedManifestLoaded
<1>6. AttemptInv'
  BY DEF AttemptInv, CachedManifestLoaded
<1>7. FailuresInv'
  BY DEF FailuresInv, ResumesAreBounded, CachedManifestLoaded
<1>8. DigestInv'
  BY DEF DigestInv, CachedManifestLoaded
<1>9. WriterInv'
  BY DEF WriterInv, CachedManifestLoaded
<1>10. StorageInv'
  BY DEF StorageInv, CachedManifestLoaded
<1>11. CheckpointInv'
  BY Zenon DEF CheckpointInv, CachedManifestLoaded
<1>12. SignatureInv'
  BY Zenon DEF SignatureInv, CachedManifestLoaded
<1>13. ResumePointIsConsistent'
  BY SamePoint
  DEF CachedManifestLoaded
<1> QED BY <1>1, <1>2, <1>3, <1>4, <1>5, <1>6, <1>7, <1>8, <1>9, <1>10, <1>11,
           <1>12, <1>13
  DEF IInv, TypeOK

(* Crash preserves the inductive invariant.                                *)
LEMMA CrashInv ==
    ASSUME IInv, Crash
    PROVE  IInv'
<1> USE DEF attemptVars, memoryVars, progressPrefs, otherPrefs, diskVars, envVars,
            Running, Checkpoint, Partitions, Corrupt
<1> /\ FlagsTypeOK /\ AttemptTypeOK /\ MemoryTypeOK /\ PrefsTypeOK /\ DiskTypeOK
    /\ AttemptInv /\ DigestInv /\ WriterInv /\ StorageInv /\ CheckpointInv
    /\ SignatureInv /\ FailuresInv /\ ResumePointIsConsistent
    BY DEF IInv, TypeOK
<1>1. FlagsTypeOK'
  BY Zenon DEF FlagsTypeOK, Crash, NewPerformer
<1>2. AttemptTypeOK'
  BY PayloadAssumption, BoundAssumption
  DEF AttemptTypeOK, PrefsTypeOK, Phases, Codes, Crash, Fault, NewPerformer
<1>3. MemoryTypeOK'
  BY PayloadAssumption DEF MemoryTypeOK, Crash, Fault, NewPerformer
<1>4. PrefsTypeOK'
  BY DEF PrefsTypeOK, Crash
<1>5. DiskTypeOK'
  BY DEF DiskTypeOK, Crash
<1>6. AttemptInv'
  BY DEF AttemptInv, Crash
<1>7. FailuresInv'
  BY Zenon DEF FailuresInv, ResumesAreBounded, Crash
<1>8. DigestInv'
  BY Zenon DEF DigestInv, Crash
<1>9. WriterInv'
  BY PayloadAssumption, Zenon DEF WriterInv, Crash, NewPerformer
<1>10. StorageInv'
  BY DEF StorageInv, Crash
<1>11. CheckpointInv'
  BY DEF CheckpointInv, Crash
<1>12. SignatureInv'
  BY Zenon DEF SignatureInv, Crash
<1>13. ResumePointIsConsistent'
  BY SamePoint
  DEF Crash
<1> QED BY <1>1, <1>2, <1>3, <1>4, <1>5, <1>6, <1>7, <1>8, <1>9, <1>10, <1>11,
           <1>12, <1>13
  DEF IInv, TypeOK

(* A transfer that verifies has reached the end of the last partition: the *)
(* signature is known only then.                                           *)
CompleteInOrder ==
    /\ phase = "ops" /\ ~cached
    /\ nextOp = NumOperations /\ ~open /\ stream = PayloadEnd
    /\ VerifyPayload
    /\ phase' = "applied"
    /\ UNCHANGED <<payload, code, cached, stream, isResume, memoryVars, progressPrefs,
                   otherPrefs, diskVars, envVars>>

(* VerifyPayload() does not look at the operations; that none is missing   *)
(* follows from the invariant.                                             *)
LEMMA CompletesInOrder ==
    ASSUME IInv, TransferComplete
    PROVE  CompleteInOrder
<1>1. phase \in Running /\ sig
  BY DEF TransferComplete, VerifyPayload, Running
<1>2. nextOp = NumOperations
  BY <1>1, Zenon DEF IInv, SignatureInv
<1>3. cur \in Partitions /\ Acc[cur] <= NumOperations /\ NumOperations \in Nat
  <2>1. cur \in Partitions
    BY DEF IInv, TypeOK, MemoryTypeOK
  <2> QED
    BY <2>1, BaseFacts, PayloadAssumption
<1>4. Acc[cur] \in Nat
  BY <1>3, PayloadAssumption
<1>5. ~open
  BY <1>2, <1>3, <1>4 DEF TransferComplete, WaitsForData
<1>6. open' = open /\ durable' = durable
  BY <1>5, Zenon DEF TransferComplete, CloseCurrentPartition, IInv, TypeOK, FlagsTypeOK
<1> QED
  BY <1>2, <1>5, <1>6, Zenon DEF TransferComplete, CompleteInOrder, memoryVars, diskVars

(* TransferComplete preserves the inductive invariant.                     *)
LEMMA TransferCompleteInv ==
    ASSUME IInv, CompleteInOrder
    PROVE  IInv'
<1> USE DEF attemptVars, memoryVars, progressPrefs, otherPrefs, diskVars, envVars,
            Running, Checkpoint, Partitions, Corrupt
<1> /\ FlagsTypeOK /\ AttemptTypeOK /\ MemoryTypeOK /\ PrefsTypeOK /\ DiskTypeOK
    /\ AttemptInv /\ DigestInv /\ WriterInv /\ StorageInv /\ CheckpointInv
    /\ SignatureInv /\ FailuresInv /\ ResumePointIsConsistent
    BY DEF IInv, TypeOK
<1>1. FlagsTypeOK'
  BY Zenon DEF FlagsTypeOK, CompleteInOrder
<1>2. AttemptTypeOK'
  BY Zenon DEF AttemptTypeOK, Phases, Codes, CompleteInOrder
<1>3. MemoryTypeOK'
  BY Zenon DEF MemoryTypeOK, CompleteInOrder
<1>4. PrefsTypeOK'
  BY Zenon DEF PrefsTypeOK, CompleteInOrder
<1>5. DiskTypeOK'
  BY Zenon DEF DiskTypeOK, CompleteInOrder
<1>6. AttemptInv'
  BY Zenon DEF AttemptInv, CompleteInOrder
<1>7. FailuresInv'
  BY Zenon DEF FailuresInv, ResumesAreBounded, CompleteInOrder
<1>8. DigestInv'
  BY Zenon DEF DigestInv, CompleteInOrder
<1>9. WriterInv'
  BY Zenon DEF WriterInv, CompleteInOrder
<1>10. StorageInv'
  BY Zenon DEF StorageInv, CompleteInOrder
<1>11. CheckpointInv'
  BY Zenon DEF CheckpointInv, CompleteInOrder
<1>12. SignatureInv'
  BY Zenon DEF SignatureInv, CompleteInOrder
<1>13. ResumePointIsConsistent'
  BY SamePoint
  DEF CompleteInOrder
<1> QED BY <1>1, <1>2, <1>3, <1>4, <1>5, <1>6, <1>7, <1>8, <1>9, <1>10, <1>11,
           <1>12, <1>13
  DEF IInv, TypeOK

(* TransferFails preserves the inductive invariant.                        *)
LEMMA TransferFailsInv ==
    ASSUME IInv, TransferFails
    PROVE  IInv'
<1> USE DEF attemptVars, memoryVars, progressPrefs, otherPrefs, diskVars, envVars,
            Running, Checkpoint, Partitions, Corrupt
<1> /\ FlagsTypeOK /\ AttemptTypeOK /\ MemoryTypeOK /\ PrefsTypeOK /\ DiskTypeOK
    /\ AttemptInv /\ DigestInv /\ WriterInv /\ StorageInv /\ CheckpointInv
    /\ SignatureInv /\ FailuresInv /\ ResumePointIsConsistent
    BY DEF IInv, TypeOK
<1>1. FlagsTypeOK'
  BY Zenon DEF FlagsTypeOK, TransferFails, CloseCurrentPartition
<1>2. AttemptTypeOK'
  BY PayloadAssumption, BoundAssumption
  DEF AttemptTypeOK, PrefsTypeOK, Phases, Codes, TransferFails, Fault,
      CloseCurrentPartition
<1>3. MemoryTypeOK'
  BY DEF MemoryTypeOK, TransferFails
<1>4. PrefsTypeOK'
  BY DEF PrefsTypeOK, TransferFails
<1>5. DiskTypeOK'
  BY PayloadAssumption, BaseFacts, Zenon
  DEF DiskTypeOK, MemoryTypeOK, TransferFails, Fault, CloseCurrentPartition
<1>6. AttemptInv'
  BY DEF AttemptInv, TransferFails
<1>7. FailuresInv'
  BY DEF FailuresInv, ResumesAreBounded, TransferFails
<1>8. DigestInv'
  BY DEF DigestInv, TransferFails
<1>9. WriterInv'
  BY PayloadAssumption DEF WriterInv, TransferFails, CloseCurrentPartition
<1>10. StorageInv'
  BY PayloadAssumption, BaseFacts, Zenon
  DEF MemoryTypeOK, DiskTypeOK, StorageInv, WriterInv, TransferFails, Fault,
      CloseCurrentPartition
<1>11. CheckpointInv'
  BY DEF CheckpointInv, TransferFails
<1>12. SignatureInv'
  BY DEF SignatureInv, TransferFails
<1>13. ResumePointIsConsistent'
  BY CloseKeepsPoint
  DEF TransferFails
<1> QED BY <1>1, <1>2, <1>3, <1>4, <1>5, <1>6, <1>7, <1>8, <1>9, <1>10, <1>11,
           <1>12, <1>13
  DEF IInv, TypeOK

(* CancelUpdate preserves the inductive invariant.                         *)
LEMMA CancelUpdateInv ==
    ASSUME IInv, CancelUpdate
    PROVE  IInv'
<1> USE DEF attemptVars, memoryVars, progressPrefs, otherPrefs, diskVars, envVars,
            Running, Checkpoint, Partitions, Corrupt
<1> /\ FlagsTypeOK /\ AttemptTypeOK /\ MemoryTypeOK /\ PrefsTypeOK /\ DiskTypeOK
    /\ AttemptInv /\ DigestInv /\ WriterInv /\ StorageInv /\ CheckpointInv
    /\ SignatureInv /\ FailuresInv /\ ResumePointIsConsistent
    BY DEF IInv, TypeOK
<1>1. FlagsTypeOK'
  BY Zenon DEF FlagsTypeOK, CancelUpdate, CloseCurrentPartition
<1>2. AttemptTypeOK'
  BY PayloadAssumption, BoundAssumption
  DEF AttemptTypeOK, PrefsTypeOK, Phases, Codes, CancelUpdate, Fault,
      CloseCurrentPartition
<1>3. MemoryTypeOK'
  BY DEF MemoryTypeOK, CancelUpdate
<1>4. PrefsTypeOK'
  BY DEF PrefsTypeOK, CancelUpdate
<1>5. DiskTypeOK'
  BY PayloadAssumption, BaseFacts, Zenon
  DEF DiskTypeOK, MemoryTypeOK, CancelUpdate, Fault, CloseCurrentPartition
<1>6. AttemptInv'
  BY DEF AttemptInv, CancelUpdate
<1>7. FailuresInv'
  BY DEF FailuresInv, ResumesAreBounded, CancelUpdate
<1>8. DigestInv'
  BY DEF DigestInv, CancelUpdate
<1>9. WriterInv'
  BY PayloadAssumption DEF WriterInv, CancelUpdate, CloseCurrentPartition
<1>10. StorageInv'
  BY PayloadAssumption, BaseFacts, Zenon
  DEF MemoryTypeOK, DiskTypeOK, StorageInv, WriterInv, CancelUpdate, Fault,
      CloseCurrentPartition
<1>11. CheckpointInv'
  BY DEF CheckpointInv, CancelUpdate
<1>12. SignatureInv'
  BY DEF SignatureInv, CancelUpdate
<1>13. ResumePointIsConsistent'
  BY CloseKeepsPoint
  DEF CancelUpdate
<1> QED BY <1>1, <1>2, <1>3, <1>4, <1>5, <1>6, <1>7, <1>8, <1>9, <1>10, <1>11,
           <1>12, <1>13
  DEF IInv, TypeOK

(* TransferTerminated preserves the inductive invariant.                   *)
LEMMA TransferTerminatedInv ==
    ASSUME IInv, TransferTerminated
    PROVE  IInv'
<1> USE DEF attemptVars, memoryVars, progressPrefs, otherPrefs, diskVars, envVars,
            Running, Checkpoint, Partitions, Corrupt
<1> /\ FlagsTypeOK /\ AttemptTypeOK /\ MemoryTypeOK /\ PrefsTypeOK /\ DiskTypeOK
    /\ AttemptInv /\ DigestInv /\ WriterInv /\ StorageInv /\ CheckpointInv
    /\ SignatureInv /\ FailuresInv /\ ResumePointIsConsistent
    BY DEF IInv, TypeOK
<1>1. FlagsTypeOK'
  BY Zenon DEF FlagsTypeOK, TransferTerminated, ResetUpdateProgress
<1>2. AttemptTypeOK'
  BY DEF AttemptTypeOK, Phases, Codes, TransferTerminated
<1>3. MemoryTypeOK'
  BY DEF MemoryTypeOK, TransferTerminated
<1>4. PrefsTypeOK'
  BY PayloadAssumption, SMTT(30)
  DEF PrefsTypeOK, TransferTerminated, ResetUpdateProgress
<1>5. DiskTypeOK'
  BY DEF DiskTypeOK, TransferTerminated
<1>6. AttemptInv'
  BY DEF AttemptInv, TransferTerminated
<1>7. FailuresInv'
  BY BoundAssumption
  DEF FailuresInv, ResumesAreBounded, TransferTerminated, ResetUpdateProgress
<1>8. DigestInv'
  BY DEF DigestInv, TransferTerminated
<1>9. WriterInv'
  BY DEF WriterInv, TransferTerminated
<1>10. StorageInv'
  BY DEF StorageInv, TransferTerminated
<1>11. CheckpointInv'
  BY Zenon DEF CheckpointInv, TransferTerminated
<1>12. SignatureInv'
  BY PayloadAssumption
  DEF SignatureInv, TransferTerminated, ResetUpdateProgress
<1>13. ResumePointIsConsistent'
  <2>1. CASE code = "kDownloadStateInitializationError"
    BY <2>1, NoPoint DEF TransferTerminated, ResetUpdateProgress
  <2>2. CASE code # "kDownloadStateInitializationError"
    BY <2>2, SamePoint
    DEF TransferTerminated
  <2> QED BY <2>1, <2>2
<1> QED BY <1>1, <1>2, <1>3, <1>4, <1>5, <1>6, <1>7, <1>8, <1>9, <1>10, <1>11,
           <1>12, <1>13
  DEF IInv, TypeOK

(* The two steps of a checkpoint whose results the code does not look at,  *)
(* when they succeed.                                                      *)
ResetNoticed ==
    /\ phase = "ckReset"
    /\ phase' = "ckSignature"
    /\ pNextOp' = -1
    /\ UNCHANGED <<payload, code, cached, stream, isResume, memoryVars, pOffset, pCtx,
                   pSigned, pSig, otherPrefs, diskVars, envVars>>

WriterNoticed ==
    /\ phase = "ckWriter"
    /\ open \/ nextOp = NumOperations
    /\ phase' = "ckNext"
    /\ durable' = IF open THEN [durable EXCEPT ![cur] = nextOp] ELSE durable
    /\ labels' = IF open /\ vabc THEN [labels EXCEPT ![cur] = @ \cup {nextOp}] ELSE labels
    /\ UNCHANGED <<payload, code, cached, stream, isResume, memoryVars, progressPrefs,
                   otherPrefs, target, endLabel, envVars>>

(* With nothing that goes unnoticed there are no other such steps.         *)
LEMMA AllNoticed ==
    ASSUME Unnoticed = {}
    PROVE  /\ CheckpointReset => ResetNoticed
           /\ CheckpointWriter => WriterNoticed
<1>1. Results("Reset") = {TRUE} /\ Results("Writer") = {TRUE}
  BY DEF Results
<1>2. CheckpointReset => ResetNoticed
  BY <1>1, Zenon DEF CheckpointReset, ResetNoticed, Fault, envVars
<1>3. CheckpointWriter => WriterNoticed
  BY <1>1, Zenon DEF CheckpointWriter, WriterNoticed, Fault, envVars
<1> QED  BY <1>2, <1>3

(* CheckpointReset preserves the inductive invariant.                      *)
LEMMA CheckpointResetInv ==
    ASSUME IInv, ResetNoticed
    PROVE  IInv'
<1> USE DEF attemptVars, memoryVars, progressPrefs, otherPrefs, diskVars, envVars,
            Running, Checkpoint, Partitions, Corrupt
<1> /\ FlagsTypeOK /\ AttemptTypeOK /\ MemoryTypeOK /\ PrefsTypeOK /\ DiskTypeOK
    /\ AttemptInv /\ DigestInv /\ WriterInv /\ StorageInv /\ CheckpointInv
    /\ SignatureInv /\ FailuresInv /\ ResumePointIsConsistent
    BY DEF IInv, TypeOK
<1>1. FlagsTypeOK'
  BY DEF FlagsTypeOK, ResetNoticed
<1>2. AttemptTypeOK'
  BY Zenon DEF AttemptTypeOK, Phases, Codes, ResetNoticed
<1>3. MemoryTypeOK'
  BY Zenon DEF MemoryTypeOK, ResetNoticed
<1>4. PrefsTypeOK'
  BY PayloadAssumption, SMTT(30) DEF PrefsTypeOK, MemoryTypeOK, ResetNoticed
<1>5. DiskTypeOK'
  BY DEF DiskTypeOK, ResetNoticed
<1>6. AttemptInv'
  BY DEF AttemptInv, ResetNoticed
<1>7. FailuresInv'
  BY DEF FailuresInv, ResumesAreBounded, ResetNoticed
<1>8. DigestInv'
  BY DEF DigestInv, ResetNoticed
<1>9. WriterInv'
  BY CheckpointKeepsWriter, SMTT(30) DEF ResetNoticed
<1>10. StorageInv'
  BY DEF StorageInv, ResetNoticed
<1>11. CheckpointInv'
  BY DEF CheckpointInv, ResetNoticed
<1>12. SignatureInv'
  BY PayloadAssumption DEF SignatureInv, ResetNoticed
<1>13. ResumePointIsConsistent'
  BY NoPoint
  DEF ResetNoticed, CheckpointInv
<1> QED BY <1>1, <1>2, <1>3, <1>4, <1>5, <1>6, <1>7, <1>8, <1>9, <1>10, <1>11,
           <1>12, <1>13
  DEF IInv, TypeOK

(* CheckpointSignature preserves the inductive invariant.                  *)
LEMMA CheckpointSignatureInv ==
    ASSUME IInv, CheckpointSignature
    PROVE  IInv'
<1> USE DEF attemptVars, memoryVars, progressPrefs, otherPrefs, diskVars, envVars,
            Running, Checkpoint, Partitions, Corrupt
<1> /\ FlagsTypeOK /\ AttemptTypeOK /\ MemoryTypeOK /\ PrefsTypeOK /\ DiskTypeOK
    /\ AttemptInv /\ DigestInv /\ WriterInv /\ StorageInv /\ CheckpointInv
    /\ SignatureInv /\ FailuresInv /\ ResumePointIsConsistent
    BY DEF IInv, TypeOK
<1>1. FlagsTypeOK'
  BY DEF FlagsTypeOK, CheckpointSignature, Fault
<1>2. AttemptTypeOK'
  BY PayloadAssumption, BoundAssumption
  DEF AttemptTypeOK, Phases, Codes, CheckpointSignature, Fault
<1>3. MemoryTypeOK'
  BY DEF MemoryTypeOK, CheckpointSignature
<1>4. PrefsTypeOK'
  BY DEF PrefsTypeOK, CheckpointSignature
<1>5. DiskTypeOK'
  BY DEF DiskTypeOK, CheckpointSignature
<1>6. AttemptInv'
  BY DEF AttemptInv, CheckpointSignature
<1>7. FailuresInv'
  BY DEF FailuresInv, ResumesAreBounded, CheckpointSignature
<1>8. DigestInv'
  BY DEF DigestInv, CheckpointSignature
<1>9. WriterInv'
  BY DEF WriterInv, CheckpointSignature
<1>10. StorageInv'
  BY Zenon DEF StorageInv, CheckpointSignature
<1>11. CheckpointInv'
  BY Zenon DEF CheckpointInv, CheckpointSignature
<1>12. SignatureInv'
  <2>1. /\ phase = "ckSignature" /\ phase' = "ckContext" /\ pNextOp = -1
        /\ UNCHANGED <<cached, sig, nextOp, bufferOffset, pNextOp, pOffset>>
    BY Zenon DEF CheckpointSignature, CheckpointInv
  <2>2. /\ pSig' => sig \/ pSig
        /\ pSig => sig
    BY <2>1, Zenon DEF CheckpointSignature, SignatureInv
  <2>3. /\ sig => nextOp = NumOperations /\ bufferOffset = PayloadEnd
        /\ cached => ~sig
    BY <2>1, Zenon DEF SignatureInv
  <2>4. phase' \notin {"manifest", "prime", "ops"} /\ ~(pNextOp' > 0)
    BY <2>1, SMTT(30)
  <2> QED BY <2>1, <2>2, <2>3, <2>4, Zenon DEF SignatureInv
<1>13. ResumePointIsConsistent'
  BY NoPoint, Zenon
  DEF CheckpointSignature, CheckpointInv
<1> QED BY <1>1, <1>2, <1>3, <1>4, <1>5, <1>6, <1>7, <1>8, <1>9, <1>10, <1>11,
           <1>12, <1>13
  DEF IInv, TypeOK

(* CheckpointContext preserves the inductive invariant.                    *)
LEMMA CheckpointContextInv ==
    ASSUME IInv, CheckpointContext
    PROVE  IInv'
<1> USE DEF attemptVars, memoryVars, progressPrefs, otherPrefs, diskVars, envVars,
            Running, Checkpoint, Partitions, Corrupt
<1> /\ FlagsTypeOK /\ AttemptTypeOK /\ MemoryTypeOK /\ PrefsTypeOK /\ DiskTypeOK
    /\ AttemptInv /\ DigestInv /\ WriterInv /\ StorageInv /\ CheckpointInv
    /\ SignatureInv /\ FailuresInv /\ ResumePointIsConsistent
    BY DEF IInv, TypeOK
<1>1. FlagsTypeOK'
  BY DEF FlagsTypeOK, CheckpointContext
<1>2. AttemptTypeOK'
  BY Zenon DEF AttemptTypeOK, Phases, Codes, CheckpointContext
<1>3. MemoryTypeOK'
  BY Zenon DEF MemoryTypeOK, CheckpointContext
<1>4. DiskTypeOK'
  BY Zenon DEF DiskTypeOK, CheckpointContext
<1>5. PrefsTypeOK'
  BY PayloadAssumption DEF PrefsTypeOK, MemoryTypeOK, CheckpointContext
<1>6. AttemptInv'
  BY DEF AttemptInv, CheckpointContext
<1>7. FailuresInv'
  BY DEF FailuresInv, ResumesAreBounded, CheckpointContext
<1>8. DigestInv'
  BY DEF DigestInv, CheckpointContext
<1>9. WriterInv'
  BY DEF WriterInv, CheckpointContext
<1>10. StorageInv'
  BY DEF StorageInv, CheckpointContext
<1>11. CheckpointInv'
  BY DEF CheckpointInv, CheckpointContext
<1>12. SignatureInv'
  BY Zenon DEF SignatureInv, CheckpointContext
<1>13. ResumePointIsConsistent'
  BY NoPoint
  DEF CheckpointContext, CheckpointInv
<1> QED BY <1>1, <1>2, <1>3, <1>4, <1>5, <1>6, <1>7, <1>8, <1>9, <1>10, <1>11,
           <1>12, <1>13
  DEF IInv, TypeOK

(* CheckpointSigned preserves the inductive invariant.                     *)
LEMMA CheckpointSignedInv ==
    ASSUME IInv, CheckpointSigned
    PROVE  IInv'
<1> USE DEF attemptVars, memoryVars, progressPrefs, otherPrefs, diskVars, envVars,
            Running, Checkpoint, Partitions, Corrupt
<1> /\ FlagsTypeOK /\ AttemptTypeOK /\ MemoryTypeOK /\ PrefsTypeOK /\ DiskTypeOK
    /\ AttemptInv /\ DigestInv /\ WriterInv /\ StorageInv /\ CheckpointInv
    /\ SignatureInv /\ FailuresInv /\ ResumePointIsConsistent
    BY DEF IInv, TypeOK
<1>1. FlagsTypeOK'
  BY Zenon DEF FlagsTypeOK, CheckpointSigned
<1>2. AttemptTypeOK'
  BY Zenon DEF AttemptTypeOK, Phases, Codes, CheckpointSigned
<1>3. MemoryTypeOK'
  BY Zenon DEF MemoryTypeOK, CheckpointSigned
<1>4. PrefsTypeOK'
  BY PayloadAssumption, SMTT(30)
  DEF PrefsTypeOK, MemoryTypeOK, CheckpointSigned
<1>5. DiskTypeOK'
  BY DEF DiskTypeOK, CheckpointSigned
<1>6. AttemptInv'
  BY DEF AttemptInv, CheckpointSigned
<1>7. FailuresInv'
  BY DEF FailuresInv, ResumesAreBounded, CheckpointSigned
<1>8. DigestInv'
  BY DEF DigestInv, CheckpointSigned
<1>9. WriterInv'
  BY DEF WriterInv, CheckpointSigned
<1>10. StorageInv'
  BY DEF StorageInv, CheckpointSigned
<1>11. CheckpointInv'
  BY Zenon DEF CheckpointInv, CheckpointSigned
<1>12. SignatureInv'
  BY Zenon DEF SignatureInv, CheckpointSigned
<1>13. ResumePointIsConsistent'
  BY NoPoint
  DEF CheckpointSigned, CheckpointInv
<1> QED BY <1>1, <1>2, <1>3, <1>4, <1>5, <1>6, <1>7, <1>8, <1>9, <1>10, <1>11,
           <1>12, <1>13
  DEF IInv, TypeOK

(* CheckpointOffset preserves the inductive invariant.                     *)
LEMMA CheckpointOffsetInv ==
    ASSUME IInv, CheckpointOffset
    PROVE  IInv'
<1> USE DEF attemptVars, memoryVars, progressPrefs, otherPrefs, diskVars, envVars,
            Running, Checkpoint, Partitions, Corrupt
<1> /\ FlagsTypeOK /\ AttemptTypeOK /\ MemoryTypeOK /\ PrefsTypeOK /\ DiskTypeOK
    /\ AttemptInv /\ DigestInv /\ WriterInv /\ StorageInv /\ CheckpointInv
    /\ SignatureInv /\ FailuresInv /\ ResumePointIsConsistent
    BY DEF IInv, TypeOK
<1>1. FlagsTypeOK'
  BY Zenon DEF FlagsTypeOK, CheckpointOffset
<1>2. AttemptTypeOK'
  BY Zenon DEF AttemptTypeOK, Phases, Codes, CheckpointOffset
<1>3. MemoryTypeOK'
  BY Zenon DEF MemoryTypeOK, CheckpointOffset
<1>4. PrefsTypeOK'
  BY PayloadAssumption, SMTT(30)
  DEF PrefsTypeOK, MemoryTypeOK, CheckpointOffset
<1>5. DiskTypeOK'
  BY DEF DiskTypeOK, CheckpointOffset
<1>6. AttemptInv'
  BY DEF AttemptInv, CheckpointOffset
<1>7. FailuresInv'
  BY DEF FailuresInv, ResumesAreBounded, CheckpointOffset
<1>8. DigestInv'
  BY DEF DigestInv, CheckpointOffset
<1>9. WriterInv'
  BY Zenon DEF WriterInv, CheckpointOffset
<1>10. StorageInv'
  BY Zenon DEF StorageInv, CheckpointOffset
<1>11. CheckpointInv'
  BY Zenon DEF CheckpointInv, CheckpointOffset
<1>12. SignatureInv'
  BY Zenon DEF SignatureInv, CheckpointOffset
<1>13. ResumePointIsConsistent'
  BY NoPoint
  DEF CheckpointOffset, CheckpointInv
<1> QED BY <1>1, <1>2, <1>3, <1>4, <1>5, <1>6, <1>7, <1>8, <1>9, <1>10, <1>11,
           <1>12, <1>13
  DEF IInv, TypeOK

(* CheckpointWriter preserves the inductive invariant.                     *)
LEMMA CheckpointWriterInv ==
    ASSUME IInv, WriterNoticed
    PROVE  IInv'
<1> USE DEF attemptVars, memoryVars, progressPrefs, otherPrefs, diskVars, envVars,
            Running, Checkpoint, Partitions, Corrupt
<1> /\ FlagsTypeOK /\ AttemptTypeOK /\ MemoryTypeOK /\ PrefsTypeOK /\ DiskTypeOK
    /\ AttemptInv /\ DigestInv /\ WriterInv /\ StorageInv /\ CheckpointInv
    /\ SignatureInv /\ FailuresInv /\ ResumePointIsConsistent
    BY DEF IInv, TypeOK
<1>1. FlagsTypeOK'
  BY Zenon DEF FlagsTypeOK, WriterNoticed
<1>2. AttemptTypeOK'
  BY Zenon DEF AttemptTypeOK, Phases, Codes, WriterNoticed
<1>3. MemoryTypeOK'
  BY Zenon DEF MemoryTypeOK, WriterNoticed
<1>4. PrefsTypeOK'
  BY Zenon DEF PrefsTypeOK, WriterNoticed
<1>5. DiskTypeOK'
  BY PayloadAssumption, BaseFacts, Zenon
  DEF DiskTypeOK, MemoryTypeOK, WriterNoticed
<1>6. AttemptInv'
  BY DEF AttemptInv, WriterNoticed
<1>7. FailuresInv'
  BY DEF FailuresInv, ResumesAreBounded, WriterNoticed
<1>8. DigestInv'
  BY DEF DigestInv, WriterNoticed
<1>9. WriterInv'
  BY DEF WriterInv, WriterNoticed
<1>10. StorageInv'
  BY PayloadAssumption, BaseFacts, Zenon
  DEF MemoryTypeOK, DiskTypeOK, StorageInv, WriterInv, WriterNoticed
<1>11. CheckpointInv'
  BY PayloadAssumption
  DEF FlagsTypeOK, AttemptTypeOK, MemoryTypeOK, PrefsTypeOK, DiskTypeOK,
      CheckpointInv, WriterNoticed
<1>12. SignatureInv'
  BY DEF SignatureInv, WriterNoticed
<1>13. ResumePointIsConsistent'
  BY NoPoint
  DEF WriterNoticed, CheckpointInv
<1> QED BY <1>1, <1>2, <1>3, <1>4, <1>5, <1>6, <1>7, <1>8, <1>9, <1>10, <1>11,
           <1>12, <1>13
  DEF IInv, TypeOK

(* CheckpointNext preserves the inductive invariant.                       *)
LEMMA CheckpointNextInv ==
    ASSUME IInv, CheckpointNext
    PROVE  IInv'
<1> USE DEF attemptVars, memoryVars, progressPrefs, otherPrefs, diskVars, envVars,
            Running, Checkpoint, Partitions, Corrupt
<1> /\ FlagsTypeOK /\ AttemptTypeOK /\ MemoryTypeOK /\ PrefsTypeOK /\ DiskTypeOK
    /\ AttemptInv /\ DigestInv /\ WriterInv /\ StorageInv /\ CheckpointInv
    /\ SignatureInv /\ FailuresInv /\ ResumePointIsConsistent
    BY DEF IInv, TypeOK
<1>1. FlagsTypeOK'
  BY Zenon DEF FlagsTypeOK, CheckpointNext
<1>2. AttemptTypeOK'
  BY Zenon DEF AttemptTypeOK, Phases, Codes, CheckpointNext
<1>3. MemoryTypeOK'
  BY Zenon DEF MemoryTypeOK, CheckpointNext
<1>4. PrefsTypeOK'
  <2>1. pNextOp' = nextOp /\ nextOp \in 0..NumOperations
    BY Zenon DEF MemoryTypeOK, CheckpointNext
  <2>2. pNextOp' \in -1..NumOperations
    BY <2>1, PayloadAssumption
  <2> QED  BY <2>2, Zenon DEF PrefsTypeOK, CheckpointNext
<1>5. DiskTypeOK'
  BY DEF DiskTypeOK, CheckpointNext
<1>6. AttemptInv'
  BY DEF AttemptInv, CheckpointNext
<1>7. FailuresInv'
  BY DEF FailuresInv, ResumesAreBounded, CheckpointNext
<1>8. DigestInv'
  BY DEF DigestInv, CheckpointNext
<1>9. WriterInv'
  BY CheckpointKeepsWriter, SMTT(30) DEF CheckpointNext
<1>10. StorageInv'
  BY DEF StorageInv, CheckpointNext
<1>11. CheckpointInv'
  BY DEF CheckpointInv, CheckpointNext
<1>12. SignatureInv'
  BY PayloadAssumption, Zenon
  DEF FlagsTypeOK, AttemptTypeOK, MemoryTypeOK, PrefsTypeOK, SignatureInv, DigestInv,
      WriterInv, CheckpointInv, CheckpointNext
<1>13. ResumePointIsConsistent'
  <2>1. /\ phase = "ckNext" /\ pNextOp' = nextOp
        /\ pPrepared = pHash /\ target = pHash
        /\ pCtx = hashCtx /\ pSigned = signedCtx /\ pOffset = bufferOffset
        /\ UNCHANGED <<pHash, pPrepared, pOffset, pCtx, pSigned, target, durable, labels, vabc>>
    BY PayloadAssumption DEF CheckpointNext, AttemptInv, CheckpointInv
  <2>2. /\ pCtx = pOffset /\ pSigned = DataOffset[nextOp]
        /\ \/ pOffset = DataOffset[nextOp]
           \/ nextOp = NumOperations /\ pOffset = PayloadEnd
    BY <2>1 DEF DigestInv
  <2>3. ASSUME NEW p \in Partitions PROVE HoldsUpTo(p, nextOp)
    BY <2>1, <2>3, HoldsAtCheckpoint
  <2> QED BY <2>1, <2>2, <2>3 DEF ResumePointIsConsistent, HoldsUpTo
<1> QED BY <1>1, <1>2, <1>3, <1>4, <1>5, <1>6, <1>7, <1>8, <1>9, <1>10, <1>11,
           <1>12, <1>13
  DEF IInv, TypeOK

(* CheckpointFails preserves the inductive invariant.                      *)
LEMMA CheckpointFailsInv ==
    ASSUME IInv, CheckpointFails
    PROVE  IInv'
<1> USE DEF attemptVars, memoryVars, progressPrefs, otherPrefs, diskVars, envVars,
            Running, Checkpoint, Partitions, Corrupt
<1> /\ FlagsTypeOK /\ AttemptTypeOK /\ MemoryTypeOK /\ PrefsTypeOK /\ DiskTypeOK
    /\ AttemptInv /\ DigestInv /\ WriterInv /\ StorageInv /\ CheckpointInv
    /\ SignatureInv /\ FailuresInv /\ ResumePointIsConsistent
    BY DEF IInv, TypeOK
<1>1. FlagsTypeOK'
  BY Zenon DEF FlagsTypeOK, CheckpointFails
<1>2. AttemptTypeOK'
  BY PayloadAssumption, BoundAssumption, SMTT(30)
  DEF AttemptTypeOK, PrefsTypeOK, Phases, Codes, CheckpointFails, Fault
<1>3. MemoryTypeOK'
  BY DEF MemoryTypeOK, CheckpointFails
<1>4. PrefsTypeOK'
  BY DEF PrefsTypeOK, CheckpointFails
<1>5. DiskTypeOK'
  BY DEF DiskTypeOK, CheckpointFails
<1>6. AttemptInv'
  BY DEF AttemptInv, CheckpointFails
<1>7. FailuresInv'
  BY DEF FailuresInv, ResumesAreBounded, CheckpointFails
<1>8. DigestInv'
  BY DEF DigestInv, CheckpointFails
<1>9. WriterInv'
  BY CheckpointKeepsWriter, SMTT(30) DEF CheckpointFails
<1>10. StorageInv'
  BY DEF StorageInv, CheckpointFails
<1>11. CheckpointInv'
  BY Zenon DEF CheckpointInv, CheckpointFails
<1>12. SignatureInv'
  BY Zenon DEF SignatureInv, CheckpointFails
<1>13. ResumePointIsConsistent'
  BY SamePoint
  DEF CheckpointFails
<1> QED BY <1>1, <1>2, <1>3, <1>4, <1>5, <1>6, <1>7, <1>8, <1>9, <1>10, <1>11,
           <1>12, <1>13
  DEF IInv, TypeOK

(* A step that changes nothing preserves the inductive invariant.          *)
LEMMA StutterInv ==
    ASSUME IInv, UNCHANGED vars
    PROVE  IInv'
<1>1. /\ UNCHANGED attemptVars /\ UNCHANGED memoryVars /\ UNCHANGED progressPrefs
      /\ UNCHANGED otherPrefs /\ UNCHANGED diskVars /\ UNCHANGED envVars
    BY DEF vars
<1>2. TypeOK'
    BY <1>1, SMTT(30) DEF IInv, TypeOK, FlagsTypeOK, AttemptTypeOK, MemoryTypeOK, PrefsTypeOK,
        DiskTypeOK, attemptVars, memoryVars, progressPrefs, otherPrefs, diskVars, envVars
<1>3. AttemptInv' /\ DigestInv' /\ WriterInv' /\ StorageInv'
    BY <1>1, SMTT(30) DEF IInv, AttemptInv, DigestInv, WriterInv, StorageInv, attemptVars,
        memoryVars, progressPrefs, otherPrefs, diskVars
<1>4. CheckpointInv' /\ SignatureInv' /\ FailuresInv'
    BY <1>1, Zenon DEF IInv, CheckpointInv, SignatureInv, FailuresInv, ResumesAreBounded,
        attemptVars, memoryVars, progressPrefs, otherPrefs, diskVars, envVars
<1>5. ResumePointIsConsistent'
    BY <1>1, SamePoint DEF IInv, progressPrefs, otherPrefs, diskVars, envVars
<1> QED BY <1>2, <1>3, <1>4, <1>5 DEF IInv

(* Every step of Next preserves the inductive invariant.                   *)
LEMMA NextIInv ==
    ASSUME Unnoticed = {}, IInv, [Next]_vars
    PROVE  IInv'
<1>1. CASE CheckpointReset
  BY <1>1, AllNoticed, CheckpointResetInv
<1>2. CASE CheckpointWriter
  BY <1>2, AllNoticed, CheckpointWriterInv
<1>3. CASE TransferComplete
  BY <1>3, CompletesInOrder, TransferCompleteInv
<1> QED BY <1>1, <1>2, <1>3, ApplyPayloadInv, ParseManifestInv, ParseManifestFailsInv,
           PrimeUpdateStateNewInv, PrimeUpdateStateInv, PrimeUpdateStateFailsInv,
           OpenCurrentPartitionInv, OpenCurrentPartitionFailsInv,
           PerformOperationInv, OperationFailsInv, NextPartitionInv,
           LastPartitionInv, FinishedInstallOpsFailsInv, ExtractSignatureInv,
           ExtractSignatureFailsInv, CachedManifestLoadedInv, CrashInv,
           TransferFailsInv, CancelUpdateInv,
           TransferTerminatedInv, CheckpointSignatureInv,
           CheckpointContextInv, CheckpointSignedInv, CheckpointOffsetInv,
           CheckpointNextInv, CheckpointFailsInv, StutterInv
    DEF Next, Progress

-----------------------------------------------------------------------------
(* The initial states satisfy the inductive invariant.                     *)
LEMMA InitIInv == Init => IInv
<1> SUFFICES ASSUME Init PROVE IInv
    OBVIOUS
<1>1. FlagsTypeOK
    BY BoundAssumption, Zenon DEF Init, FlagsTypeOK
<1>2. AttemptTypeOK /\ MemoryTypeOK /\ PrefsTypeOK
    BY PayloadAssumption, BoundAssumption
    DEF Init, AttemptTypeOK, MemoryTypeOK, PrefsTypeOK, Phases, Codes, Partitions
<1>3. DiskTypeOK /\ StorageInv
    BY BaseFacts DEF Init, DiskTypeOK, StorageInv, Running, Checkpoint
<1>4. AttemptInv /\ DigestInv /\ WriterInv /\ CheckpointInv
    BY DEF Init, AttemptInv, DigestInv, WriterInv, CheckpointInv, Running, Checkpoint
<1>5. SignatureInv /\ FailuresInv /\ ResumePointIsConsistent
    BY BoundAssumption DEF Init, SignatureInv, FailuresInv, ResumesAreBounded,
        ResumePointIsConsistent, Running, Checkpoint
<1> QED
    BY <1>1, <1>2, <1>3, <1>4, <1>5 DEF IInv, TypeOK

(* The inductive invariant holds in every state of every behaviour in      *)
(* which no failure of a checkpoint goes unnoticed.                        *)
THEOREM Invariance ==
    ASSUME Unnoticed = {}
    PROVE  Spec => []IInv
<1>1. IInv /\ [Next]_vars => IInv'
    BY NextIInv
<1> QED
    BY InitIInv, <1>1, PTL DEF Spec

(* The type invariant, for every payload, partition layout and limit.      *)
THEOREM TypeCorrect ==
    ASSUME Unnoticed = {}
    PROVE  Spec => []TypeOK
<1>1. IInv => TypeOK
    BY DEF IInv
<1> QED
    BY <1>1, Invariance, PTL

(* However the attempts are interrupted, what CheckpointUpdateProgress()   *)
(* left in the preferences describes what is on the target, as long as its *)
(* reset of the operation number and the writer's part succeed, whose      *)
(* results it does not look at.                                            *)
THEOREM ResumeIsSafe ==
    ASSUME Unnoticed = {}
    PROVE  Spec => []ResumePointIsConsistent
<1>1. IInv => ResumePointIsConsistent
    BY DEF IInv
<1> QED
    BY <1>1, Invariance, PTL

(* The hashes VerifyPayload() compares are those of the payload's bytes,   *)
(* each digested once and in order, whatever was resumed.                  *)
THEOREM DigestsAreExact ==
    ASSUME Unnoticed = {}
    PROVE  Spec => []DigestedOnceInOrder
<1>1. IInv => DigestedOnceInOrder
    BY DEF IInv, DigestInv, SignatureInv, DigestedOnceInOrder, Running
<1> QED
    BY <1>1, Invariance, PTL

(* A payload DownloadAction reports as applied is on the target in full.   *)
THEOREM AppliedMeansComplete ==
    ASSUME Unnoticed = {}
    PROVE  Spec => []AppliedCompletely
<1>1. IInv => AppliedCompletely
  <2> SUFFICES ASSUME IInv, phase = "applied"
               PROVE  target = payload /\ \A p \in Partitions : durable[p] = Acc[p]
      BY DEF AppliedCompletely
  <2>1. target = payload
      BY PayloadAssumption DEF IInv, AttemptInv
  <2>2. nextOp = NumOperations /\ ~open
      BY DEF IInv, WriterInv, Checkpoint
  <2>3. \A p \in Partitions : Acc[p] <= NumOperations
      BY BaseFacts, PayloadAssumption
  <2> QED
      BY <2>1, <2>2, <2>3 DEF IInv, StorageInv
<1> QED
    BY <1>1, Invariance, PTL

(* CanResumeUpdate() and PrimeUpdateState() limit how often an update is   *)
(* resumed before it starts over.                                          *)
THEOREM ResumesLimited ==
    ASSUME Unnoticed = {}
    PROVE  Spec => []ResumesAreBounded
<1>1. IInv => ResumesAreBounded
    BY DEF IInv, FailuresInv
<1> QED
    BY <1>1, Invariance, PTL

-----------------------------------------------------------------------------
(* Steps of DeltaPerformer as steps of ResumableUpdate.                    *)
Attempting == Running \cup {"applied"}

UpdateStep == [Promise!UpdateNext]_(Promise!updateVars)

(* No attempt runs outside of these phases.                                *)
LEMMA NoPerformer ==
    /\ phase \notin Attempting => PerformerState = <<>> /\ (phase = "applied") = FALSE
    /\ phase' \notin Attempting => PerformerState' = <<>> /\ (phase = "applied")' = FALSE
BY Zenon DEF PerformerState, Attempting

(* The state of an attempt that runs.                                      *)
LEMMA APerformer ==
    phase \in Attempting =>
        PerformerState = <<[op |-> nextOp, offset |-> bufferOffset, digest |-> hashCtx,
                            signed |-> signedCtx, sig |-> sig]>>
BY Zenon DEF PerformerState, Attempting

(* The same of the next state.                                             *)
LEMMA APerformerNext ==
    phase' \in Attempting =>
        PerformerState' = <<[op |-> nextOp', offset |-> bufferOffset', digest |-> hashCtx',
                             signed |-> signedCtx', sig |-> sig']>>
BY Zenon DEF PerformerState, Attempting

(* Nothing is saved without an operation number.                           *)
LEMMA NothingSaved ==
    /\ pNextOp \in Int /\ pNextOp <= 0 => SavedState = <<>>
    /\ pNextOp' \in Int /\ pNextOp' <= 0 => SavedState' = <<>>
BY DEF SavedState

(* What is saved is in the preferences.                                    *)
LEMMA SameSaved == UNCHANGED progressPrefs => UNCHANGED SavedState
BY Zenon DEF SavedState, progressPrefs

(* An attempt that goes on in the same state, or does not run.             *)
LEMMA SamePerformer ==
    ASSUME UNCHANGED <<nextOp, bufferOffset, hashCtx, signedCtx, sig>>,
           phase \in Running <=> phase' \in Running, phase # "applied", phase' # "applied"
    PROVE  UNCHANGED PerformerState /\ UNCHANGED (phase = "applied")
BY Zenon DEF PerformerState

(* Nothing happens to the update.                                          *)
LEMMA Stutters ==
    ASSUME UNCHANGED pHash, UNCHANGED PerformerState, UNCHANGED SavedState,
           UNCHANGED (phase = "applied")
    PROVE  UpdateStep
BY Zenon DEF UpdateStep, Promise!updateVars

(* An attempt ends, if one runs.                                           *)
LEMMA Interrupts ==
    ASSUME phase' \notin Attempting, UNCHANGED pHash, UNCHANGED SavedState
    PROVE  UpdateStep
<1>1. PerformerState' = <<>> /\ (phase = "applied")' = FALSE
  BY NoPerformer, Zenon
<1>2. CASE phase \in Attempting
  <2>1. PerformerState # <<>>
    BY <1>2, APerformer
  <2>2. Promise!Interrupt
    BY <1>1, <2>1, Zenon DEF Promise!Interrupt
  <2> QED  BY <2>2, Zenon DEF UpdateStep, Promise!UpdateNext
<1>3. CASE phase \notin Attempting
  <2>1. UNCHANGED PerformerState /\ UNCHANGED (phase = "applied")
    BY <1>1, <1>3, NoPerformer, Zenon
  <2> QED  BY <2>1, Stutters, Zenon
<1> QED
  BY <1>2, <1>3

(* The saved operation number is a number.                                 *)
LEMMA SavedNumber == TypeOK => pNextOp \in Int
BY PayloadAssumption DEF TypeOK, PrefsTypeOK

(* ApplyPayload goes on with an update or chooses one anew.                *)
LEMMA ApplyPayloadMaps ==
    ASSUME IInv, NEW p \in Payloads, ApplyPayload(p)
    PROVE  UpdateStep
<1>1. phase \notin Attempting /\ phase' \notin Attempting
  BY DEF ApplyPayload, Attempting, Running, Checkpoint
<1>2. UNCHANGED PerformerState /\ UNCHANGED (phase = "applied") /\ PerformerState = <<>>
  BY <1>1, NoPerformer, Zenon
<1>3. CASE CanResumeUpdate(p)
  <2>1. UNCHANGED pHash /\ UNCHANGED progressPrefs
    BY <1>3, Zenon DEF ApplyPayload, otherPrefs
  <2> QED  BY <1>2, <2>1, SameSaved, Stutters, Zenon
<1>4. CASE ~CanResumeUpdate(p)
  <2>1. pHash' = p /\ pNextOp' = -1
    BY <1>4, Zenon DEF ApplyPayload, ResetUpdateProgress
  <2>2. SavedState' = <<>>
    BY <2>1, NothingSaved
  <2>3. Promise!Choose
    BY <1>2, <2>1, <2>2, Zenon DEF Promise!Choose
  <2> QED  BY <2>3, Zenon DEF UpdateStep, Promise!UpdateNext
<1> QED
  BY <1>3, <1>4

(* Preparing the partitions drops nothing that could be resumed: it resets *)
(* the progress only when the target was laid out for another payload.     *)
LEMMA PrepareKeepsSaved ==
    ASSUME IInv, pPrepared # pHash, ResetUpdateProgress
    PROVE  UNCHANGED SavedState
<1>1. pNextOp \in Int /\ ~(pNextOp > 0)
  BY SavedNumber DEF IInv, ResumePointIsConsistent
<1>2. pNextOp' = -1
  BY DEF ResetUpdateProgress
<1>3. SavedState = <<>> /\ SavedState' = <<>>
  BY <1>1, <1>2, NothingSaved
<1> QED
  BY <1>3

(* ParseManifest comes before the attempt.                                 *)
LEMMA ParseManifestMaps ==
    ASSUME IInv, ParseManifest
    PROVE  UpdateStep
<1>1. phase' \notin Attempting /\ UNCHANGED pHash
  BY DEF ParseManifest, Attempting, Running, Checkpoint
<1>2. UNCHANGED SavedState
  <2>1. CASE pPrepared = pHash
    BY <2>1, SameSaved, Zenon DEF ParseManifest, PreparePartitionsForUpdate
  <2>2. CASE pPrepared # pHash
    BY <2>2, PrepareKeepsSaved, Zenon DEF ParseManifest, PreparePartitionsForUpdate
  <2> QED  BY <2>1, <2>2
<1> QED
  BY <1>1, <1>2, Interrupts, Zenon

(* A Write() that fails ends the attempt.                                  *)
LEMMA WriteFailsEnds ==
    ASSUME NEW c, WriteFails(c)
    PROVE  phase' \notin Attempting
BY DEF WriteFails, Attempting, Running, Checkpoint

(* So does a manifest that cannot be used.                                 *)
LEMMA ParseManifestFailsMaps ==
    ASSUME IInv, ParseManifestFails
    PROVE  UpdateStep
<1>1. phase' \notin Attempting
  BY WriteFailsEnds, Zenon DEF ParseManifestFails
<1>2. UNCHANGED pHash
  BY Zenon DEF ParseManifestFails, otherPrefs
<1>3. UNCHANGED SavedState
  <2>1. \/ UNCHANGED progressPrefs
        \/ PreparePartitionsForUpdate
        \/ pPrepared # pHash /\ ResetUpdateProgress
    BY Zenon DEF ParseManifestFails
  <2>2. \/ UNCHANGED progressPrefs
        \/ pPrepared # pHash /\ ResetUpdateProgress
    BY <2>1, Zenon DEF PreparePartitionsForUpdate
  <2> QED  BY <2>2, SameSaved, PrepareKeepsSaved, Zenon
<1> QED
  BY <1>1, <1>2, <1>3, Interrupts, Zenon

(* PrimeUpdateState begins an attempt, with what is saved if there is any. *)
LEMMA PrimeUpdateStateNewMaps ==
    ASSUME IInv, PrimeUpdateStateNew
    PROVE  UpdateStep
<1>1. phase \notin Attempting /\ phase' \in Attempting /\ phase' # "applied"
  BY DEF PrimeUpdateStateNew, NextPhase, Attempting, Running, Checkpoint
<1>2. PerformerState = <<>> /\ UNCHANGED (phase = "applied")
  BY <1>1, NoPerformer, Zenon DEF Attempting
<1>3. UNCHANGED pHash /\ UNCHANGED SavedState
  BY SameSaved, Zenon DEF PrimeUpdateStateNew, otherPrefs
<1>4. SavedState = <<>>
  BY SavedNumber, NothingSaved DEF PrimeUpdateStateNew, IInv
<1>5. /\ nextOp' = 0 /\ bufferOffset' = 0 /\ hashCtx' = 0 /\ signedCtx' = 0
      /\ sig' = FALSE /\ DataOffset[0] = 0
  BY PayloadAssumption, Zenon
  DEF PrimeUpdateStateNew, IInv, DigestInv, memoryVars, TypeOK, FlagsTypeOK
<1>6. PerformerState' = <<Promise!Performed(0)>>
  BY <1>1, <1>5, APerformerNext, Zenon DEF Promise!Performed
<1>7. Promise!Begin
  BY <1>2, <1>3, <1>4, <1>6, Zenon DEF Promise!Begin
<1> QED
  BY <1>7, Zenon DEF UpdateStep, Promise!UpdateNext

(* The state of the preferences becomes that of the attempt.               *)
LEMMA PrimeUpdateStateMaps ==
    ASSUME IInv, PrimeUpdateState
    PROVE  UpdateStep
<1>1. phase \notin Attempting /\ phase' \in Attempting /\ phase' # "applied"
  BY DEF PrimeUpdateState, NextPhase, Attempting, Running, Checkpoint
<1>2. PerformerState = <<>> /\ UNCHANGED (phase = "applied")
  BY <1>1, NoPerformer, Zenon DEF Attempting
<1>3. UNCHANGED pHash /\ UNCHANGED SavedState
  BY SameSaved, Zenon DEF PrimeUpdateState
<1>4. SavedState = <<[op |-> pNextOp, offset |-> pOffset, digest |-> pCtx,
                      signed |-> pSigned, sig |-> pSig]>>
  BY Zenon DEF PrimeUpdateState, SavedState
<1>5. PerformerState' = SavedState
  BY <1>1, <1>4, APerformerNext, Zenon DEF PrimeUpdateState
<1>6. SavedState # <<>>
  BY <1>4
<1>7. Promise!Begin
  BY <1>2, <1>3, <1>5, <1>6, Zenon DEF Promise!Begin
<1> QED
  BY <1>7, Zenon DEF UpdateStep, Promise!UpdateNext

(* Errors before and between the operations end the attempt.               *)
LEMMA ErrorsMap ==
    ASSUME IInv, \/ PrimeUpdateStateFails \/ OpenCurrentPartitionFails \/ OperationFails
                 \/ FinishedInstallOpsFails \/ ExtractSignatureFails
    PROVE  UpdateStep
<1>1. phase' \notin Attempting
  BY WriteFailsEnds, Zenon
  DEF PrimeUpdateStateFails, OpenCurrentPartitionFails, OperationFails,
      FinishedInstallOpsFails, ExtractSignatureFails
<1>2. UNCHANGED pHash /\ UNCHANGED progressPrefs
  BY Zenon
  DEF PrimeUpdateStateFails, OpenCurrentPartitionFails, OperationFails,
      FinishedInstallOpsFails, ExtractSignatureFails, otherPrefs
<1> QED
  BY <1>1, <1>2, SameSaved, Interrupts, Zenon

(* So do a crash, a transfer that fails and a client that cancels.         *)
LEMMA EndsMap ==
    ASSUME IInv, Crash \/ TransferFails \/ CancelUpdate
    PROVE  UpdateStep
<1>1. phase' \notin Attempting
  BY Zenon DEF Crash, TransferFails, CancelUpdate, Attempting, Running, Checkpoint
<1>2. UNCHANGED pHash /\ UNCHANGED progressPrefs
  BY Zenon DEF Crash, TransferFails, CancelUpdate, otherPrefs
<1> QED
  BY <1>1, <1>2, SameSaved, Interrupts, Zenon

(* Partitions are opened and closed within a state of the attempt, and the *)
(* data is requested.                                                      *)
LEMMA PartitionsMap ==
    ASSUME IInv, OpenCurrentPartition \/ NextPartition \/ LastPartition \/ CachedManifestLoaded
    PROVE  UpdateStep
<1>1. UNCHANGED <<nextOp, bufferOffset, hashCtx, signedCtx, sig>>
  BY Zenon
  DEF OpenCurrentPartition, NextPartition, LastPartition, CachedManifestLoaded, memoryVars
<1>2. phase \in Running /\ phase' \in Running /\ phase # "applied" /\ phase' # "applied"
  BY DEF OpenCurrentPartition, NextPartition, LastPartition, CachedManifestLoaded,
         attemptVars, Running, Checkpoint
<1>3. UNCHANGED pHash /\ UNCHANGED progressPrefs
  BY Zenon
  DEF OpenCurrentPartition, NextPartition, LastPartition, CachedManifestLoaded, otherPrefs
<1>4. UNCHANGED PerformerState /\ UNCHANGED (phase = "applied")
  BY <1>1, <1>2, SamePerformer, Zenon
<1> QED
  BY <1>3, <1>4, SameSaved, Stutters, Zenon

(* While operations are left the state is the one after the last of them.  *)
LEMMA StateOfOperations ==
    ASSUME IInv, phase \in Running, nextOp < NumOperations \/ bufferOffset # PayloadEnd
    PROVE  PerformerState = <<Promise!Performed(nextOp)>>
<1>1. /\ hashCtx = DataOffset[nextOp] /\ bufferOffset = DataOffset[nextOp]
      /\ signedCtx = DataOffset[nextOp]
  BY PayloadAssumption DEF IInv, DigestInv, TypeOK, MemoryTypeOK
<1>2. sig = FALSE
  BY PayloadAssumption DEF IInv, SignatureInv, TypeOK, MemoryTypeOK, FlagsTypeOK
<1>3. phase \in Attempting
  BY DEF Attempting
<1> QED
  BY <1>1, <1>2, <1>3, APerformer, Zenon DEF Promise!Performed

(* PerformOperation performs the next one.                                 *)
LEMMA PerformOperationMaps ==
    ASSUME IInv, PerformOperation, IInv'
    PROVE  UpdateStep
<1>1. /\ phase \in Running /\ phase' \in Running /\ phase # "applied" /\ phase' # "applied"
      /\ phase' \in Attempting
  BY DEF PerformOperation, Running, Checkpoint, Attempting
<1>2. nextOp \in Nat /\ nextOp < NumOperations /\ nextOp' = nextOp + 1 /\ nextOp + 1 \in 1..NumOperations
  BY PayloadAssumption, BaseFacts DEF PerformOperation, IInv, TypeOK, MemoryTypeOK
<1>3. PerformerState = <<Promise!Performed(nextOp)>>
  BY <1>1, <1>2, StateOfOperations
<1>4. /\ bufferOffset = DataOffset[nextOp] /\ hashCtx = DataOffset[nextOp]
      /\ signedCtx = DataOffset[nextOp] /\ sig = FALSE
  BY <1>1, <1>2, PayloadAssumption
  DEF IInv, DigestInv, SignatureInv, TypeOK, MemoryTypeOK, FlagsTypeOK
<1>5. /\ bufferOffset' = DataOffset[nextOp + 1] /\ hashCtx' = DataOffset[nextOp + 1]
      /\ signedCtx' = DataOffset[nextOp + 1] /\ sig' = FALSE
  <2>1. sig' = FALSE
    BY <1>4, Zenon DEF PerformOperation
  <2>2. CASE HasData
    BY <1>4, <2>1, <2>2 DEF PerformOperation, DataFits, Digest
  <2>3. CASE ~HasData
    <3>1. DataOffset[nextOp] = DataOffset[nextOp + 1]
      BY <1>2, <2>3, PayloadAssumption DEF HasData
    <3> QED  BY <1>4, <2>1, <2>3, <3>1 DEF PerformOperation
  <2> QED  BY <2>2, <2>3, Zenon
<1>6. PerformerState' = <<Promise!Performed(nextOp + 1)>>
  BY <1>1, <1>2, <1>5, APerformerNext, Zenon DEF Promise!Performed
<1>7. UNCHANGED pHash /\ UNCHANGED SavedState /\ UNCHANGED (phase = "applied") /\ ~(phase = "applied")
  BY <1>1, SameSaved, Zenon DEF PerformOperation, otherPrefs
<1>8. \E n \in 1..NumOperations : /\ PerformerState = <<Promise!Performed(n - 1)>>
                                  /\ PerformerState' = <<Promise!Performed(n)>>
  <2>1. (nextOp + 1) - 1 = nextOp
    BY <1>2
  <2> QED  BY <1>2, <1>3, <1>6, <2>1, Zenon
<1>9. Promise!Perform
  BY <1>7, <1>8, Zenon DEF Promise!Perform
<1> QED
  BY <1>9, Zenon DEF UpdateStep, Promise!UpdateNext

(* ExtractSignature reads the signature after the last operation.          *)
LEMMA ExtractSignatureMaps ==
    ASSUME IInv, ExtractSignature
    PROVE  UpdateStep
<1>1. /\ phase \in Running /\ phase' \in Running /\ phase # "applied" /\ phase' # "applied"
      /\ phase' \in Attempting
  BY DEF ExtractSignature, Running, Checkpoint, Attempting
<1>2. nextOp = NumOperations /\ bufferOffset = DataOffset[NumOperations] /\ stream = bufferOffset
  BY DEF ExtractSignature, DataFits
<1>3. bufferOffset # PayloadEnd
  BY <1>2, PayloadAssumption
<1>4. PerformerState = <<Promise!Performed(NumOperations)>>
  BY <1>1, <1>2, <1>3, StateOfOperations
<1>5. /\ nextOp' = NumOperations /\ bufferOffset' = PayloadEnd /\ hashCtx' = PayloadEnd
      /\ signedCtx' = DataOffset[NumOperations] /\ sig' = TRUE
  BY <1>1, <1>2 DEF ExtractSignature, IInv, DigestInv, Digest
<1>6. PerformerState' = <<Promise!Signed>>
  BY <1>1, <1>5, APerformerNext, Zenon DEF Promise!Signed
<1>7. UNCHANGED pHash /\ UNCHANGED SavedState /\ UNCHANGED (phase = "applied") /\ ~(phase = "applied")
  BY <1>1, SameSaved, Zenon DEF ExtractSignature, otherPrefs
<1>8. Promise!ExtractSignature
  BY <1>4, <1>6, <1>7, Zenon DEF Promise!ExtractSignature
<1> QED
  BY <1>8, Zenon DEF UpdateStep, Promise!UpdateNext

(* TransferComplete: the payload has been applied and verified.            *)
LEMMA TransferCompleteMaps ==
    ASSUME IInv, CompleteInOrder
    PROVE  UpdateStep
<1>1. /\ phase \in Attempting /\ phase' \in Attempting /\ (phase = "applied")' = TRUE
  BY DEF CompleteInOrder, Running, Checkpoint, Attempting
<1>2. /\ nextOp = NumOperations /\ bufferOffset = PayloadEnd /\ hashCtx = PayloadEnd
      /\ signedCtx = DataOffset[NumOperations] /\ sig = TRUE
  BY Zenon DEF CompleteInOrder, VerifyPayload, IInv, TypeOK, FlagsTypeOK
<1>3. PerformerState = <<Promise!Signed>>
  BY <1>1, <1>2, APerformer, Zenon DEF Promise!Signed
<1>4. UNCHANGED PerformerState
  BY <1>1, APerformer, APerformerNext, Zenon DEF CompleteInOrder, memoryVars
<1>5. UNCHANGED pHash /\ UNCHANGED SavedState
  BY SameSaved, Zenon DEF CompleteInOrder, otherPrefs
<1>6. Promise!Complete
  BY <1>1, <1>3, <1>4, <1>5, Zenon DEF Promise!Complete
<1> QED
  BY <1>6, Zenon DEF UpdateStep, Promise!UpdateNext

(* What was saved is dropped.                                              *)
LEMMA Drops ==
    ASSUME UNCHANGED pHash, UNCHANGED PerformerState, UNCHANGED (phase = "applied"),
           SavedState' = <<>>
    PROVE  UpdateStep
<1>1. Promise!Drop
  BY Zenon DEF Promise!Drop
<1> QED
  BY <1>1, Zenon DEF UpdateStep, Promise!UpdateNext

(* TransferTerminated may drop the progress.                               *)
LEMMA TransferTerminatedMaps ==
    ASSUME IInv, TransferTerminated
    PROVE  UpdateStep
<1>1. phase \notin Attempting /\ phase' \notin Attempting
  BY DEF TransferTerminated, Attempting, Running, Checkpoint
<1>2. UNCHANGED PerformerState /\ UNCHANGED (phase = "applied")
  BY <1>1, NoPerformer, Zenon
<1>3. UNCHANGED pHash
  BY Zenon DEF TransferTerminated, otherPrefs
<1>4. CASE code = "kDownloadStateInitializationError"
  <2>1. pNextOp' = -1
    BY <1>4, Zenon DEF TransferTerminated, ResetUpdateProgress
  <2>2. SavedState' = <<>>
    BY <2>1, NothingSaved
  <2> QED  BY <1>2, <1>3, <2>2, Drops, Zenon
<1>5. CASE code # "kDownloadStateInitializationError"
  <2>1. UNCHANGED progressPrefs
    BY <1>5, Zenon DEF TransferTerminated
  <2> QED  BY <1>2, <1>3, <2>1, SameSaved, Stutters, Zenon
<1> QED
  BY <1>4, <1>5

(* The first write of a checkpoint drops what was saved before.            *)
LEMMA CheckpointResetMaps ==
    ASSUME IInv, ResetNoticed
    PROVE  UpdateStep
<1>1. phase \in Running /\ phase' \in Running /\ phase # "applied" /\ phase' # "applied"
  BY DEF ResetNoticed, Running, Checkpoint
<1>2. UNCHANGED PerformerState /\ UNCHANGED (phase = "applied")
  BY <1>1, SamePerformer, Zenon DEF ResetNoticed, memoryVars
<1>3. UNCHANGED pHash /\ pNextOp' = -1
  BY Zenon DEF ResetNoticed, otherPrefs
<1>4. SavedState' = <<>>
  BY <1>3, NothingSaved
<1> QED
  BY <1>2, <1>3, <1>4, Drops, Zenon

(* The writes that follow are not seen, and neither is that one fails.     *)
LEMMA CheckpointsMap ==
    ASSUME IInv, \/ CheckpointSignature \/ CheckpointContext \/ CheckpointSigned
                 \/ CheckpointOffset \/ CheckpointWriter \/ CheckpointFails
    PROVE  UpdateStep
<1>1. phase \in Running /\ phase' \in Running /\ phase # "applied" /\ phase' # "applied"
  BY Zenon DEF CheckpointSignature, CheckpointContext, CheckpointSigned, CheckpointOffset,
         CheckpointWriter, CheckpointFails, Running, Checkpoint
<1>2. UNCHANGED memoryVars /\ UNCHANGED pHash /\ UNCHANGED pNextOp
  BY Zenon DEF CheckpointSignature, CheckpointContext, CheckpointSigned, CheckpointOffset,
         CheckpointWriter, CheckpointFails, otherPrefs, progressPrefs
<1>3. UNCHANGED PerformerState /\ UNCHANGED (phase = "applied")
  BY <1>1, <1>2, SamePerformer, Zenon DEF memoryVars
<1>4. pNextOp = -1
  BY Zenon DEF CheckpointSignature, CheckpointContext, CheckpointSigned, CheckpointOffset,
         CheckpointWriter, CheckpointFails, IInv, CheckpointInv, Checkpoint
<1>5. UNCHANGED SavedState
  BY <1>2, <1>4, NothingSaved
<1> QED
  BY <1>2, <1>3, <1>5, Stutters, Zenon

(* A state with another signature.                                         *)
LEMMA SetSignature ==
    \A n, o, d, s, old, new :
        [[op |-> n, offset |-> o, digest |-> d, signed |-> s, sig |-> old] EXCEPT !.sig = new]
        = [op |-> n, offset |-> o, digest |-> d, signed |-> s, sig |-> new]
OBVIOUS

(* The last write saves the state: all of it, or all but the signature,    *)
(* whose write failed.                                                     *)
LEMMA CheckpointNextMaps ==
    ASSUME IInv, CheckpointNext
    PROVE  UpdateStep
<1>1. /\ phase \in Running /\ phase' \in Running /\ phase # "applied" /\ phase' # "applied"
      /\ phase \in Attempting
  BY DEF CheckpointNext, Running, Checkpoint, Attempting
<1>2. UNCHANGED PerformerState /\ UNCHANGED (phase = "applied") /\ UNCHANGED pHash
  BY <1>1, SamePerformer, Zenon DEF CheckpointNext, memoryVars, otherPrefs
<1>3. pNextOp = -1 /\ pCtx = hashCtx /\ pSigned = signedCtx /\ pOffset = bufferOffset
  BY Zenon DEF CheckpointNext, IInv, CheckpointInv, Checkpoint
<1>4. SavedState = <<>>
  BY <1>3, NothingSaved
<1>5. nextOp \in Nat /\ pNextOp' = nextOp
  BY PayloadAssumption DEF CheckpointNext, IInv, TypeOK, MemoryTypeOK
<1>6. CASE nextOp = 0
  <2>1. SavedState' = <<>>
    BY <1>5, <1>6, NothingSaved
  <2> QED  BY <1>2, <1>4, <2>1, Stutters, Zenon
<1>7. CASE nextOp > 0
  <2> DEFINE state == [op |-> nextOp, offset |-> bufferOffset, digest |-> hashCtx,
                       signed |-> signedCtx, sig |-> sig]
             kept == [op |-> nextOp, offset |-> bufferOffset, digest |-> hashCtx,
                      signed |-> signedCtx, sig |-> pSig]
  <2>1. PerformerState = <<state>>
    BY <1>1, APerformer, Zenon
  <2>2. UNCHANGED <<pOffset, pCtx, pSigned, pSig>>
    BY Zenon DEF CheckpointNext
  <2>3. SavedState' = <<kept>>
    BY <1>3, <1>5, <1>7, <2>2, Zenon DEF SavedState
  <2>4. pSig = sig \/ pSig = FALSE
    BY <1>1, Zenon DEF IInv, SignatureInv, TypeOK, FlagsTypeOK
  <2>5. PerformerState[1] = state /\ PerformerState # <<>>
    BY <2>1
  <2>6. kept = state \/ kept = [state EXCEPT !.sig = FALSE]
    <3>1. CASE pSig = sig
      BY <3>1, Zenon
    <3>2. CASE pSig = FALSE
      <4>1. [state EXCEPT !.sig = pSig]
            = [op |-> nextOp, offset |-> bufferOffset, digest |-> hashCtx,
               signed |-> signedCtx, sig |-> pSig]
        BY SetSignature
      <4>2. kept = [state EXCEPT !.sig = pSig]
        BY <4>1, Zenon
      <4> HIDE DEF state, kept
      <4> QED  BY <3>2, <4>2, Zenon
    <3> QED  BY <2>4, <3>1, <3>2, Zenon
  <2> HIDE DEF state, kept
  <2>7. SavedState' \in {PerformerState, <<[PerformerState[1] EXCEPT !.sig = FALSE]>>}
    BY <2>1, <2>3, <2>5, <2>6, Zenon
  <2>8. Promise!Save
    BY <1>2, <1>4, <2>5, <2>7, Zenon DEF Promise!Save
  <2> QED  BY <2>8, Zenon DEF UpdateStep, Promise!UpdateNext
<1> QED
  BY <1>5, <1>6, <1>7

(* A step that changes nothing.                                            *)
LEMMA UnchangedMaps ==
    ASSUME UNCHANGED vars
    PROVE  UpdateStep
<1>1. /\ phase' = phase /\ pHash' = pHash /\ UNCHANGED progressPrefs
      /\ UNCHANGED <<nextOp, bufferOffset, hashCtx, signedCtx, sig>>
  BY Zenon DEF vars, attemptVars, memoryVars, otherPrefs
<1>2. UNCHANGED PerformerState /\ UNCHANGED (phase = "applied")
  BY <1>1, Zenon DEF PerformerState
<1> QED
  BY <1>1, <1>2, SameSaved, Stutters, Zenon

(* Every step is one of ResumableUpdate, or none.                          *)
LEMMA StepMaps ==
    ASSUME Unnoticed = {}, IInv, IInv', [Next]_vars
    PROVE  UpdateStep
<1>1. CASE CheckpointReset
  BY <1>1, AllNoticed, CheckpointResetMaps
<1>2. CASE TransferComplete
  BY <1>2, CompletesInOrder, TransferCompleteMaps
<1> QED
  BY <1>1, <1>2, ApplyPayloadMaps, ParseManifestMaps, ParseManifestFailsMaps, PrimeUpdateStateNewMaps,
     PrimeUpdateStateMaps, ErrorsMap, EndsMap, PartitionsMap, PerformOperationMaps,
     ExtractSignatureMaps, TransferTerminatedMaps, CheckpointsMap, CheckpointNextMaps, UnchangedMaps, Zenon
  DEF Next, Progress

(* DeltaPerformer implements ResumableUpdate: for every payload, partition *)
(* layout and number of faults, an attempt goes on with exactly the state  *)
(* that CheckpointUpdateProgress() saved last for this payload, although a *)
(* checkpoint is many writes any of which may be the last one before the   *)
(* daemon dies, and a payload is reported as applied only after its last   *)
(* operation and its signature.  A write may fail if the code looks at its *)
(* result; the reset that comes first and the writer's part are not looked *)
(* at and have to succeed.                                                 *)
THEOREM ImplementsResumableUpdate ==
    ASSUME Unnoticed = {}
    PROVE  Spec => GoesOnWhereSaved
<1>1. Init => Promise!UpdateInit
  <2> SUFFICES ASSUME Init PROVE Promise!UpdateInit
    OBVIOUS
  <2>1. phase \notin Attempting /\ pNextOp = -1 /\ pHash = NoPayload
    BY DEF Init, Attempting, Running, Checkpoint
  <2>2. PerformerState = <<>> /\ (phase = "applied") = FALSE
    BY <2>1, NoPerformer, Zenon
  <2>3. SavedState = <<>>
    BY <2>1, NothingSaved
  <2> QED  BY <2>1, <2>2, <2>3, Zenon DEF Promise!UpdateInit
<1>2. IInv /\ IInv' /\ [Next]_vars => [Promise!UpdateNext]_(Promise!updateVars)
  BY StepMaps, Zenon DEF UpdateStep
<1> QED
  BY <1>1, <1>2, Invariance, PTL DEF Spec, GoesOnWhereSaved, Promise!UpdateSpec
=============================================================================
