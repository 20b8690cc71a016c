----------------------------- MODULE ABGenerator -----------------------------
(***************************************************************************)
(* How the payload generator turns a pair of images into operations: the   *)
(* blob file (blob_file_writer.cc, annotated_operation.cc), the diffing of *)
(* blocks and files (delta_diff_utils.cc) and the splitting, sorting and   *)
(* merging of operations (ab_generator.cc).                                *)
(*                                                                         *)
(* An image is a function from block numbers to contents, 0 being zeros.   *)
(* The blob file is a sequence of units: a block stored as it is takes     *)
(* two, and a compressed blob or a patch takes one.  REPLACE_XZ stands for *)
(* REPLACE_BZ too and DIFF for the bsdiff and puffdiff types.  Whether     *)
(* data compresses and whether a diff pays depends on the contents.        *)
(***************************************************************************)
EXTENDS ExtentUtils

CONSTANTS
    Compressible,   \* contents that compress
    Diffable        \* contents for which a diff is better than a full operation

Unit(kind, half, data, from) == [kind |-> kind, half |-> half, data |-> data, from |-> from]

RawUnits(data) ==
    FlattenSeq([i \in DOMAIN data |-> <<Unit("raw", 1, <<data[i]>>, <<>>),
                                        Unit("raw", 2, <<data[i]>>, <<>>)>>])

(* blob_file: what it holds, whether the disk is full, and, as history,    *)
(* whether the failure of a write went unnoticed.                          *)
NewBlobFile == [units |-> <<>>, full |-> FALSE, lost |-> FALSE]

IsAReplaceOperation(type) == type \in {"REPLACE", "REPLACE_XZ"}

(* With StoreBlob(): the operation, the file and whether it worked.        *)
SetOperationBlob(op, blob, file) ==
    IF blob = <<>> THEN [op |-> [op EXCEPT !.off = 0, !.len = 0], file |-> file, ok |-> TRUE]
    ELSE IF file.full THEN [op |-> op, file |-> file, ok |-> FALSE]
    ELSE [op |-> [op EXCEPT !.off = Len(file.units), !.len = Len(blob)],
          file |-> [file EXCEPT !.units = @ \o blob], ok |-> TRUE]

ReadExtents(image, extents) ==
    LET blocks == Blocks(extents) IN [i \in DOMAIN blocks |-> image[blocks[i]]]

GenerateBestFullOperation(data, zeroAllowed) ==
    IF zeroAllowed /\ ToSet(data) = {0} THEN [type |-> "ZERO", blob |-> <<>>]
    ELSE IF ToSet(data) \subseteq Compressible
    THEN [type |-> "REPLACE_XZ", blob |-> <<Unit("xz", 0, data, <<>>)>>]
    ELSE [type |-> "REPLACE", blob |-> RawUnits(data)]

(* The best operation for the contents new, given the contents old.        *)
BestOperation(old, new, old_extents, new_extents, zeroAllowed) ==
    LET best == GenerateBestFullOperation(new, zeroAllowed)
    IN  IF old # <<>> /\ old = new
        THEN [op |-> NewOp("SOURCE_COPY", old_extents, new_extents), blob |-> <<>>]
        ELSE IF old # <<>> /\ best.type # "ZERO" /\ ToSet(new) \subseteq Diffable
        THEN [op |-> NewOp("DIFF", old_extents, new_extents),
              blob |-> <<Unit("patch", 0, new, old)>>]
        ELSE [op |-> NewOp(best.type, <<>>, new_extents), blob |-> best.blob]

ReadExtentsToDiff(part, old_extents, new_extents) ==
    BestOperation(ReadExtents(part.old, old_extents), ReadExtents(part.new, new_extents),
                  old_extents, new_extents, part.zeroAllowed)

StoreOperation(diff, file) == SetOperationBlob(diff.op, diff.blob, file)

(* One round of DeltaReadFile()'s loop, at a block offset of the file.     *)
DeltaReadChunk(part, old_extents, new_extents, offset, chunk, file) ==
    StoreOperation(ReadExtentsToDiff(part,
                        NormalizeExtents(ExtentsSublist(old_extents, offset, chunk)),
                        NormalizeExtents(ExtentsSublist(new_extents, offset, chunk))), file)

(* An extent cut into chunks, as a list of extents.                        *)
Chunks(extent, chunk) ==
    [i \in 1..((extent.num + chunk - 1) \div chunk) |->
        ExtentForRange(extent.start + (i - 1) * chunk,
                       Min({chunk, extent.num - (i - 1) * chunk}))]

ChunksOf(extents, chunk) ==
    FlattenSeq([i \in DOMAIN extents |-> Chunks(extents[i], chunk)])

-----------------------------------------------------------------------------
NumBlocks(image) == Cardinality(DOMAIN image)

(* The list in ascending order of the blocks of an image that pass a test. *)
BlocksWith(image, Test(_)) ==
    SelectSeq([i \in 1..NumBlocks(image) |-> i - 1], Test)

ExtentsOfBlocks(blocks) == FoldLeft(AppendBlockToExtents, <<>>, blocks)

(* The first block of the old image with a content of the new one:         *)
(* old_blocks_map lists them from the last to the first.                   *)
OldBlock(part, content) == Min({b \in DOMAIN part.old : part.old[b] = content})

(* The blocks that are not visited and are zero, and those that the old    *)
(* image has.                                                              *)
ZeroBlocks(part, visited) ==
    BlocksWith(part.new, LAMBDA b : ~ContainsBlock(visited, b) /\ part.new[b] = 0)

MovedBlocks(part, visited) ==
    BlocksWith(part.new, LAMBDA b :
        /\ ~ContainsBlock(visited, b)
        /\ part.new[b] # 0
        /\ \E o \in DOMAIN part.old : part.old[o] = part.new[b])

AddStored(acc, stored) ==
    [ops |-> Append(acc.ops, stored.op), file |-> stored.file, ok |-> acc.ok /\ stored.ok]

ZeroOperations(part, chunks, file) ==
    IF part.zeroAllowed
    THEN [ops |-> [i \in DOMAIN chunks |-> NewOp("ZERO", <<>>, <<chunks[i]>>)],
          file |-> file, ok |-> TRUE]
    ELSE FoldLeft(LAMBDA acc, e :
                    AddStored(acc, DeltaReadChunk(part, <<>>, <<e>>, 0, e.num, acc.file)),
                  [ops |-> <<>>, file |-> file, ok |-> TRUE], chunks)

MoveOperations(old, chunks) ==
    FoldLeft(LAMBDA acc, e :
                [ops |-> Append(acc.ops, NewOp("SOURCE_COPY",
                                               ExtentsSublist(old, acc.used, e.num), <<e>>)),
                 used |-> acc.used + e.num],
             [ops |-> <<>>, used |-> 0], chunks).ops

OldZeros(part) ==
    AddExtents(NoRanges, ExtentsOfBlocks(BlocksWith(part.old, LAMBDA b : part.old[b] = 0)))

(* DeltaMovedAndZeroBlocks(): the operations for zeros and for blocks that *)
(* the old image has, and the blocks visited.                              *)
MovedAndZero(visited, zeros, old, new, oldZeros, zeroed, moves) ==
    [ops |-> zeroed.ops \o moves,
     file |-> zeroed.file,
     ok |-> zeroed.ok,
     oldZeros |-> oldZeros,
     oldVisited |-> AddExtents(oldZeros, old),
     newVisited |-> AddExtents(AddExtents(visited, zeros), new)]

DeltaMovedAndZeroBlocks(part, chunk, visited, file) ==
    LET moved == MovedBlocks(part, visited)
        zeros == ExtentsOfBlocks(ZeroBlocks(part, visited))
        identicalOld == ExtentsOfBlocks([i \in DOMAIN moved |-> OldBlock(part, part.new[moved[i]])])
        identicalNew == ExtentsOfBlocks(moved)
    IN  MovedAndZero(visited, zeros, identicalOld, identicalNew, OldZeros(part),
                     ZeroOperations(part, ChunksOf(zeros, chunk), file),
                     MoveOperations(identicalOld, ChunksOf(identicalNew, chunk)))

-----------------------------------------------------------------------------
(* AddDataAndSetType() drops what SetOperationBlob() returns.              *)
AddDataAndSetType(op, part, file) ==
    LET best == GenerateBestFullOperation(ReadExtents(part.new, op.dst), part.zeroAllowed)
        stored == SetOperationBlob([op EXCEPT !.type = best.type], best.blob, file)
    IN  IF op.type # best.type \/ op.len # Len(best.blob)
        THEN [op |-> stored.op, file |-> [stored.file EXCEPT !.lost = @ \/ ~stored.ok]]
        ELSE [op |-> op, file |-> file]

(* Faulty: every part of a REPLACE points at the start of the blob.        *)
SplitAReplaceOpSameOffset(op, part, file) ==
    LET Split(acc, extent) ==
            LET added == AddDataAndSetType(
                    IF op.type = "REPLACE"
                    THEN [NewOp("REPLACE", <<>>, <<extent>>)
                            EXCEPT !.off = op.off, !.len = 2 * extent.num]
                    ELSE NewOp("REPLACE", <<>>, <<extent>>), part, acc.file)
            IN  [ops |-> Append(acc.ops, added.op), file |-> added.file]
    IN  FoldLeft(Split, [ops |-> <<>>, file |-> file], op.dst)

(* The parts of a REPLACE point into its blob; those of the other types    *)
(* have no data yet.                                                       *)
SplitAReplaceOp(op, part, file) ==
    LET Split(acc, extent) ==
            LET added == AddDataAndSetType(
                    IF op.type = "REPLACE"
                    THEN [NewOp("REPLACE", <<>>, <<extent>>)
                            EXCEPT !.off = acc.off, !.len = 2 * extent.num]
                    ELSE NewOp("REPLACE", <<>>, <<extent>>), part, acc.file)
            IN  [ops |-> Append(acc.ops, added.op), file |-> added.file,
                 off |-> acc.off + 2 * extent.num]
    IN  FoldLeft(Split, [ops |-> <<>>, file |-> file, off |-> op.off], op.dst)

FragmentOperations(ops, part, file) ==
    LET Fragment(acc, op) ==
            IF Len(op.dst) > 1 /\ op.type = "SOURCE_COPY"
            THEN [acc EXCEPT !.ops = @ \o SplitSourceCopy(op)]
            ELSE IF Len(op.dst) > 1 /\ IsAReplaceOperation(op.type)
            THEN LET split == SplitAReplaceOp(op, part, acc.file)
                 IN  [ops |-> acc.ops \o split.ops, file |-> split.file]
            ELSE [acc EXCEPT !.ops = Append(@, op)]
    IN  FoldLeft(Fragment, [ops |-> <<>>, file |-> file], ops)

(* CompareAopsByDestination compares the start blocks as 32-bit numbers:   *)
(* the same for partitions of fewer than 2^32 blocks, 16 TiB.              *)
SortOperationsByDestination(ops) ==
    SortSeq(ops, LAMBDA a, b : a.dst[1].start < b.dst[1].start)

Mergeable(last, op, chunk) ==
    /\ \/ op.type = "SOURCE_COPY" /\ last.type = "SOURCE_COPY"
       \/ IsAReplaceOperation(op.type) /\ IsAReplaceOperation(last.type)
    /\ End(Last(last.dst)) = op.dst[1].start
    /\ Last(last.dst).num + op.dst[1].num <= chunk

(* A merged REPLACE loses its data until the second loop adds it again.    *)
MergeOperations(ops, chunk, part, file) ==
    LET Merge(acc, op) ==
            IF acc # <<>> /\ Mergeable(Last(acc), op, chunk)
            THEN ReplaceAt(acc, Len(acc),
                    [Last(acc) EXCEPT !.src = IF op.type = "SOURCE_COPY"
                                              THEN ExtendExtents(@, op.src) ELSE @,
                                      !.dst = ExtendExtents(@, op.dst),
                                      !.len = IF IsAReplaceOperation(op.type) THEN 0 ELSE @])
            ELSE Append(acc, op)
        AddData(acc, op) ==
            LET added == IF op.len = 0 /\ IsAReplaceOperation(op.type)
                         THEN AddDataAndSetType(op, part, acc.file)
                         ELSE [op |-> op, file |-> acc.file]
            IN  [ops |-> Append(acc.ops, added.op), file |-> added.file]
    IN  FoldLeft(AddData, [ops |-> <<>>, file |-> file], FoldLeft(Merge, <<>>, ops))

AddSourceHash(ops, part) ==
    [i \in DOMAIN ops |-> IF ops[i].src = <<>> THEN ops[i]
                          ELSE [ops[i] EXCEPT !.hash = ReadExtents(part.old, ops[i].src)]]
=============================================================================
