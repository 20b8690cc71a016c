---------------------- MODULE FilesystemVerifierAction ----------------------
(***************************************************************************)
(* FilesystemVerifierAction (payload_consumer/filesystem_verifier_action   *)
(* .cc): writes the verity data of each partition and compares its hash,   *)
(* one buffer per task of the message loop.  Under Virtual A/B compression *)
(* a dynamic partition is written through its COW and read back through a  *)
(* mapped device, whose view is the one of the moment it was mapped.       *)
(***************************************************************************)
EXTENDS ActionHost, Integers, Sequences, FiniteSets

CONSTANT Partitions     \* the partitions of the install plan, a sequence

Verifier == "FilesystemVerifierAction"

VARIABLES
    plan,       \* write_verity, and what the other actions read of the plan
    image,      \* what is on the device: which targets and sources are right,
                \* and which verity data is in place; external
    mapping,    \* the devices MapAllPartitions makes, external
    verifier    \* partition_index_, verifier_step_, partition_fd_, the
                \* pending task, and whether all that was hashed is right

verifierVars == <<image, mapping, verifier>>

Parts == DOMAIN Partitions

(* Verity data takes up room in its partition.                             *)
ASSUME PartitionsAssumption ==
    /\ Partitions \in Seq([dynamic : BOOLEAN, verity : BOOLEAN, delta : BOOLEAN, size : Nat,
                           dataEnd : Nat, path : BOOLEAN, runPostinstall : BOOLEAN,
                           optional : BOOLEAN])
    /\ \A p \in Parts : Partitions[p].verity => Partitions[p].size > 0
Unmapped == [up |-> FALSE, shows |-> {}]
NoTask == [op |-> "none", at |-> 0]
NewVerifier == [index |-> 1, step |-> "target", fd |-> "none", task |-> NoTask, good |-> TRUE]

(* UnmapAllPartitions cannot take the devices down while a descriptor is   *)
(* open.  MapAllPartitions leaves a device that is up as it is.            *)
UnmapAllPartitions(open) == IF open THEN mapping ELSE Unmapped
MapAllPartitions(m, verity) == IF m.up THEN m ELSE [up |-> TRUE, shows |-> verity]

ShouldWriteVerity(v) == v.step = "target" /\ plan.writeVerity /\ Partitions[v.index].verity
IsVABC(v) == plan.compression /\ v.step = "target" /\ Partitions[v.index].dynamic
PartitionSize(v) == Partitions[v.index].size

(* Cleanup: partition_fd_ is dropped, but the argument or the closure of   *)
(* the function that hashes keeps it open while the partitions are         *)
(* unmapped.                                                               *)
Released(v) ==
    /\ verifier' = [v EXCEPT !.fd = "none", !.task = NoTask]
    /\ mapping' = IF ~plan.writeVerity /\ plan.compression
                  THEN UnmapAllPartitions(v.fd # "none") ELSE mapping

VerifierCleanup(v, code) == Released(v) /\ Complete(code) /\ UNCHANGED image

(* The function goes on with the next buffer: in a task it posts, or, for  *)
(* the first one, at once.                                                 *)
PostTask(v, op, at) ==
    /\ verifier' = [v EXCEPT !.task = [op |-> op, at |-> at]]
    /\ IF at = 0 THEN Calls("HashPartition") ELSE Return

(* Whether the block at offset at reads as the payload says it should.     *)
Right(v, at) ==
    LET shown == IF v.fd = "view" THEN mapping.shows ELSE image.verity
    IN  IF v.step = "source" THEN v.index \in image.source
        ELSE /\ v.index \in image.target
             /\ at >= Partitions[v.index].dataEnd => v.index \in shown

Closed(v) == [v EXCEPT !.fd = "none", !.task = NoTask, !.good = TRUE]

NextHashing(v) ==
    /\ verifier' = Closed(v)
    /\ Calls("StartPartitionHashing")
    /\ UNCHANGED <<mapping, image>>

(* Faulty variant: a source that is right lets the action go on.           *)
FinishPartitionHashingGoesOn(v) ==
    LET delta == Partitions[v.index].delta IN
    \/ VerifierCleanup(v, "kError")
    \/ v.step = "target" /\ v.good /\ NextHashing([v EXCEPT !.index = @ + 1])
    \/ v.step = "target" /\ ~v.good /\ delta /\ NextHashing([v EXCEPT !.step = "source"])
    \/ v.step = "target" /\ ~v.good /\ ~delta /\ VerifierCleanup(v, "kNewRootfsVerificationError")
    \/ v.step = "source" /\ v.good /\ NextHashing([v EXCEPT !.index = @ + 1, !.step = "target"])
    \/ v.step = "source" /\ ~v.good /\ VerifierCleanup(v, "kDownloadStateInitializationError")

(* FinishPartitionHashing: on to the next partition; or, when the target   *)
(* is wrong and the payload is a delta, to the source of this one, which   *)
(* only decides what is reported.                                          *)
FinishPartitionHashing(v) ==
    LET delta == Partitions[v.index].delta IN
    \/ VerifierCleanup(v, "kError")
    \/ v.step = "target" /\ v.good /\ NextHashing([v EXCEPT !.index = @ + 1])
    \/ v.step = "target" /\ ~v.good /\ delta /\ NextHashing([v EXCEPT !.step = "source"])
    \/ v.step = "target" /\ ~v.good /\ ~delta /\ VerifierCleanup(v, "kNewRootfsVerificationError")
    \/ v.step = "source" /\ v.good /\ VerifierCleanup(v, "kNewRootfsVerificationError")
    \/ v.step = "source" /\ ~v.good /\ VerifierCleanup(v, "kDownloadStateInitializationError")

(* HashPartition: one buffer, or the end of the partition.                 *)
HashPartition(v, at) ==
    \/ at >= PartitionSize(v) /\ FinishPartitionHashing(v)
    \/ at < PartitionSize(v) /\ VerifierCleanup(v, "kFilesystemVerifierError")
    \/ /\ at < PartitionSize(v)
       /\ PostTask([v EXCEPT !.good = @ /\ Right(v, at)], "hash", at + 1)
       /\ UNCHANGED <<mapping, image>>

(* Faulty variant: the descriptor is only dropped, and whatever holds a    *)
(* copy of it keeps it open.                                               *)
RemapWithoutClose(v, verity) == MapAllPartitions(UnmapAllPartitions(v.fd # "none"), verity)

(* InitializeFdVABC(false): the descriptor is closed, then all partitions  *)
(* are unmapped and mapped again, so that what was written can be seen.    *)
Remap(v, verity) == MapAllPartitions(UnmapAllPartitions(FALSE), verity)

(* WriteVerityAndHashPartition: one buffer; or, at the end of the data,    *)
(* the verity data is put in place and the partition is hashed, under      *)
(* compression through devices that are mapped afresh.                     *)
WriteVerityAndHashPartition(v, at) ==
    \/ VerifierCleanup(v, "kVerityCalculationError")
    \/ /\ at < Partitions[v.index].dataEnd
       /\ PostTask(v, "verity", at + 1)
       /\ UNCHANGED <<mapping, image>>
    \/ /\ at >= Partitions[v.index].dataEnd
       /\ image' = [image EXCEPT !.verity = @ \cup {v.index}]
       /\ mapping' = IF plan.compression THEN Remap(v, image'.verity) ELSE mapping
       /\ \/ PostTask([v EXCEPT !.fd = IF plan.compression THEN "view" ELSE @], "hash", 0)
          \/ /\ plan.compression
             /\ verifier' = Closed(v) /\ Complete("kFilesystemVerifierError")

(* StartPartitionHashing opens the partition: its target through the COW   *)
(* to write verity, through mapped devices only to read, or by its path.   *)
(* A device that does not open has been mapped afresh all the same.        *)
OpenPartition(v) ==
    LET fd == CASE IsVABC(v) /\ ShouldWriteVerity(v) -> "cow"
                [] IsVABC(v) /\ ~ShouldWriteVerity(v) -> "view"
                [] OTHER -> "path"
    IN  \/ fd # "view" /\ VerifierCleanup(v, "kFilesystemVerifierError")
        \/ /\ fd = "view"
           /\ verifier' = Closed(v) /\ Complete("kFilesystemVerifierError")
           /\ mapping' = IF plan.writeVerity THEN Remap(v, image.verity) ELSE Unmapped
           /\ UNCHANGED image
        \/ ShouldWriteVerity(v) /\ VerifierCleanup(v, "kVerityCalculationError")
        \/ /\ PostTask([v EXCEPT !.fd = fd], IF ShouldWriteVerity(v) THEN "verity" ELSE "hash", 0)
           /\ mapping' = IF fd = "view" THEN Remap(v, image.verity) ELSE mapping
           /\ UNCHANGED image

(* StartPartitionHashing, for each partition and once more at the end.  An *)
(* empty partition without a device path is passed over.                   *)
StartPartitionHashing ==
    /\ current = Verifier /\ call \in {"PerformAction", "StartPartitionHashing"}
    /\ LET v == verifier
           done == v.index > Len(Partitions)
           openable == IsVABC(v) \/ Partitions[v.index].path
       IN  \/ done /\ VerifierCleanup(v, "kSuccess")
           \/ done /\ plan.untouched /\ VerifierCleanup(v, "kFilesystemVerifierError")
           \/ ~done /\ openable /\ OpenPartition(v)
           \/ ~done /\ ~openable /\ PartitionSize(v) = 0 /\ NextHashing([v EXCEPT !.index = @ + 1])
           \/ ~done /\ ~openable /\ PartitionSize(v) > 0
              /\ VerifierCleanup(v, "kFilesystemVerifierError")

(* The pending task runs, or the function goes straight on.                *)
RunVerifierTask ==
    /\ verifier.task.op # "none" /\ call \in {"none", "HashPartition"}
    /\ LET v == [verifier EXCEPT !.task = NoTask]
           at == verifier.task.at
       IN  \/ verifier.task.op = "hash" /\ HashPartition(v, at)
           \/ verifier.task.op = "verity" /\ WriteVerityAndHashPartition(v, at)

VerifierStep == StartPartitionHashing \/ RunVerifierTask
=============================================================================
