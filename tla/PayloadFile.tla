----------------------------- MODULE PayloadFile -----------------------------
(***************************************************************************)
(* The payload that is written from the operations of its partitions       *)
(* (payload_generator/payload_file.cc), and the two host tools that read   *)
(* it: PayloadChecker and PayloadApplier (scripts/update_payload).         *)
(*                                                                         *)
(* A hash is what was hashed.  A payload is the list of its partitions and *)
(* the units of its data section.  Versions, signatures and the bytes of   *)
(* the manifest are left out.                                              *)
(***************************************************************************)
EXTENDS ABGenerator

HasData(op) == op.len > 0

BlobAt(units, op) == SubSeq(units, op.off + 1, op.off + op.len)

(* AddPartition(): a partition without an old image has no old_info.       *)
AddPartition(part, aops, merge_sequence) ==
    [aops |-> aops,
     merge |-> merge_sequence,
     old_info |-> IF part.isDelta THEN part.old ELSE <<>>,
     new_info |-> part.new,
     verity |-> part.verity]

(* Faulty: a blob is read after its offset has been changed.               *)
ReorderDataBlobsLate(parts, units) ==
    LET Blob(acc, op) ==
            IF ~HasData(op) THEN [acc EXCEPT !.aops = Append(@, op)]
            ELSE LET moved == [op EXCEPT !.off = Len(acc.out)]
                 IN  [aops |-> Append(acc.aops, [moved EXCEPT !.data_hash = BlobAt(units, moved)]),
                      out |-> acc.out \o BlobAt(units, moved)]
        Partition(acc, p) ==
            LET ordered == FoldLeft(Blob, [aops |-> <<>>, out |-> acc.out], p.aops)
            IN  [parts |-> Append(acc.parts, [p EXCEPT !.aops = ordered.aops]),
                 out |-> ordered.out]
    IN  FoldLeft(Partition, [parts |-> <<>>, out |-> <<>>], parts)

(* ReorderDataBlobs() with AddOperationHash(): the blobs in the order of   *)
(* the operations.                                                         *)
ReorderDataBlobs(parts, units) ==
    LET Blob(acc, op) ==
            IF ~HasData(op) THEN [acc EXCEPT !.aops = Append(@, op)]
            ELSE [aops |-> Append(acc.aops, [op EXCEPT !.data_hash = BlobAt(units, op),
                                                       !.off = Len(acc.out)]),
                  out |-> acc.out \o BlobAt(units, op)]
        Partition(acc, p) ==
            LET ordered == FoldLeft(Blob, [aops |-> <<>>, out |-> acc.out], p.aops)
            IN  [parts |-> Append(acc.parts, [p EXCEPT !.aops = ordered.aops]),
                 out |-> ordered.out]
    IN  FoldLeft(Partition, [parts |-> <<>>, out |-> <<>>], parts)

AllOps(parts) == FlattenSeq([n \in DOMAIN parts |-> parts[n].aops])

(* "bad blob offset!" of WritePayload(), which is LOG(FATAL).              *)
BadBlobOffset(parts) ==
    FoldLeft(LAMBDA acc, op :
                IF ~HasData(op) THEN acc
                ELSE [bad |-> acc.bad \/ op.off # acc.next, next |-> acc.next + op.len],
             [bad |-> FALSE, next |-> 0], AllOps(parts)).bad

NoPayload == [parts |-> <<>>, blobs |-> <<>>]

-----------------------------------------------------------------------------
(* PayloadChecker.  A unit is half a block.                                *)
TotalNum(extents) == FoldLeft(LAMBDA n, e : n + e.num, 0, extents)

CheckExtents(extents, usable) ==
    \A i \in DOMAIN extents : extents[i].num > 0 /\ End(extents[i]) <= usable

CheckReplaceOperation(op) ==
    /\ op.src = <<>>
    /\ HasData(op)
    /\ IF op.type = "REPLACE"
       THEN 2 * (TotalNum(op.dst) - 1) < op.len /\ op.len <= 2 * TotalNum(op.dst)
       ELSE op.len < 2 * TotalNum(op.dst)

CheckZeroOperation(op) == op.src = <<>> /\ ~HasData(op)

CheckAnyDiffOperation(op) == HasData(op) /\ op.len < 2 * TotalNum(op.dst)

CheckSourceCopyOperation(op) == ~HasData(op) /\ TotalNum(op.src) = TotalNum(op.dst)

(* The test for a missing source hash compares with None, which a field    *)
(* never is.                                                               *)
CheckAnySourceOperation(op) == TotalNum(op.src) # 0

CheckOperation(op, p, payload, used) ==
    /\ CheckExtents(op.src, NumBlocks(p.old_info))
    /\ CheckExtents(op.dst, NumBlocks(p.new_info))
    /\ op.dst # <<>>
    /\ HasData(op) => op.data_hash = BlobAt(payload.blobs, op) /\ op.off = used
    /\ CASE IsAReplaceOperation(op.type) -> CheckReplaceOperation(op)
         [] op.type = "ZERO" -> CheckZeroOperation(op)
         [] op.type = "SOURCE_COPY" -> CheckSourceCopyOperation(op) /\ CheckAnySourceOperation(op)
         [] op.type = "DIFF" -> CheckAnyDiffOperation(op) /\ CheckAnySourceOperation(op)
         [] OTHER -> FALSE

(* The blocks written, for the histogram of a full payload.                *)
WrittenBlocks(p) == FlattenSeq([i \in DOMAIN p.aops |-> Blocks(p.aops[i].dst)])

CheckOperations(p, payload, used) ==
    LET Check(acc, op) == [ok |-> acc.ok /\ CheckOperation(op, p, payload, acc.used),
                           used |-> acc.used + op.len]
        all == FoldLeft(Check, [ok |-> TRUE, used |-> used], p.aops)
        written == WrittenBlocks(p)
        once == ToSet(written) = DOMAIN p.new_info /\ Len(written) = NumBlocks(p.new_info)
    IN  [ok |-> all.ok /\ (p.old_info = <<>> => once), used |-> all.used]

(* A payload with an old image for some partitions only is refused.        *)
CheckManifest(payload) ==
    \A m, n \in DOMAIN payload.parts :
        payload.parts[m].old_info = <<>> <=> payload.parts[n].old_info = <<>>

PayloadCheckerRun(payload) ==
    LET all == FoldLeft(LAMBDA acc, p :
                            LET ops == CheckOperations(p, payload, acc.used)
                            IN  [ok |-> acc.ok /\ ops.ok, used |-> ops.used],
                        [ok |-> TRUE, used |-> 0], payload.parts)
    IN  CheckManifest(payload) /\ all.ok /\ all.used = Len(payload.blobs)

-----------------------------------------------------------------------------
(* What the data of an operation decodes to: decompressed, or the result   *)
(* of the patch.  <<>> when the data is not what the type says, or when    *)
(* the source is not the one the patch was made from.                      *)
Decoded(op, data, source) ==
    LET raw == [i \in 1..(op.len \div 2) |-> data[2 * i].data[1]]
    IN  IF op.type = "REPLACE" THEN IF data = RawUnits(raw) THEN raw ELSE <<>>
        ELSE IF /\ op.len = 1
                /\ data[1].kind = (IF op.type = "DIFF" THEN "patch" ELSE "xz")
                /\ data[1].from = source
        THEN data[1].data ELSE <<>>

WriteExtents(image, extents, data) ==
    LET blocks == Blocks(extents)
    IN  FoldLeft(LAMBDA acc, i : [acc EXCEPT ![blocks[i]] = data[i]], image,
                 [i \in DOMAIN blocks |-> i])

(* PayloadApplier, into a new file that is empty.                          *)
ApplyOperation(acc, op, p, payload) ==
    LET source == ReadExtents(p.old_info, op.src)
        data == CASE op.type = "ZERO" -> [i \in 1..TotalNum(op.dst) |-> 0]
                  [] op.type = "SOURCE_COPY" -> source
                  [] OTHER -> Decoded(op, BlobAt(payload.blobs, op), source)
    IN  IF ~acc.ok \/ Len(data) # TotalNum(op.dst) THEN [acc EXCEPT !.ok = FALSE]
        ELSE [acc EXCEPT !.image = WriteExtents(@, op.dst, data)]

(* _ApplyToPartition(): a file that was not written to its end is too      *)
(* short.                                                                  *)
ApplyToPartition(p, payload) ==
    LET applied == FoldLeft(LAMBDA acc, op : ApplyOperation(acc, op, p, payload),
                            [ok |-> TRUE, image |-> [b \in DOMAIN p.new_info |-> 0]], p.aops)
    IN  /\ applied.ok
        /\ NumBlocks(p.new_info) - 1 \in ToSet(WrittenBlocks(p))
        /\ applied.image = p.new_info

(* Does Run() succeed?                                                     *)
PayloadApplierRun(payload) ==
    /\ CheckManifest(payload)
    /\ \A n \in DOMAIN payload.parts : ApplyToPartition(payload.parts[n], payload)
=============================================================================
