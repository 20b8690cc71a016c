--------------------------- MODULE PartitionWriter ---------------------------
(***************************************************************************)
(* The writers of the device's partitions: DirectExtentWriter over the     *)
(* cached target (extent_writer.cc), SnapshotExtentWriter over a COW, the  *)
(* choice of the source in PartitionWriter (partition_writer.cc), what     *)
(* VABCPartitionWriter::Init() writes (vabc_partition_writer.cc) and the   *)
(* rounds of EncodeFEC() (verity_writer_android.cc).                       *)
(***************************************************************************)
EXTENDS FileDescriptors, PayloadFile, MergeSequenceGenerator

CONSTANTS
    CopyBuffer,     \* half blocks copied by one Write of CopyAndHashExtents()
    OutputBuffer    \* half blocks decompressed by one Write of an XzExtentWriter

(* An ExtentWriter: its extents, the current one, what of it is written    *)
(* and, of a SnapshotExtentWriter, what is held back.                      *)
ExtentWriter(extents) == [extents |-> extents, cur |-> 1, written |-> 0, buffer |-> <<>>]

Exhausted(w) == w.cur > Len(w.extents)

NextExtent(w) == [w EXCEPT !.cur = @ + 1, !.written = 0, !.buffer = <<>>]

Advanced(w) ==
    IF w.written + 1 = 2 * w.extents[w.cur].num THEN NextExtent(w)
    ELSE [w EXCEPT !.written = @ + 1]

(* DirectExtentWriter::Write() seeks to where the current extent is filled *)
(* up to.                                                                  *)
DirectWrite(w, target, halves) ==
    LET Put(acc, h) ==
            IF Exhausted(acc.w) THEN [acc EXCEPT !.ok = FALSE]
            ELSE [acc EXCEPT
                    !.target = CachedWrite(CachedSeek(@, 2 * acc.w.extents[acc.w.cur].start
                                                            + acc.w.written), <<h>>),
                    !.w = Advanced(@)]
    IN  FoldLeft(Put, [w |-> w, target |-> target, ok |-> TRUE], halves)

(* Faulty: a full buffer is sent on but not cleared.                       *)
ConsumeKeepingBuffer(acc) ==
    LET e == acc.w.extents[acc.w.cur]
        size == 2 * e.num
        count == Min({Len(acc.data), size - Len(acc.w.buffer)})
        buffer == acc.w.buffer \o SubSeq(acc.data, 1, count)
    IN  [acc EXCEPT
            !.data = SubSeq(@, count + 1, Len(@)),
            !.cow = IF Len(buffer) = size THEN @ \o AddRawBlocks(e.start, buffer) ELSE @,
            !.w = IF Len(buffer) = size THEN [NextExtent(@) EXCEPT !.buffer = buffer]
                  ELSE [@ EXCEPT !.buffer = buffer]]

(* ConsumeWithBuffer(): a whole extent that is there goes to the COW, less *)
(* is held back until the extent is full.                                  *)
ConsumeWithBuffer(acc) ==
    LET e == acc.w.extents[acc.w.cur]
        size == 2 * e.num
        count == Min({Len(acc.data), size - Len(acc.w.buffer)})
        buffer == acc.w.buffer \o SubSeq(acc.data, 1, count)
    IN  [acc EXCEPT
            !.data = SubSeq(@, count + 1, Len(@)),
            !.cow = IF Len(buffer) = size THEN @ \o AddRawBlocks(e.start, buffer) ELSE @,
            !.w = IF Len(buffer) = size THEN NextExtent(@)
                  ELSE [@ EXCEPT !.buffer = buffer]]

(* SnapshotExtentWriter::Write(), with the CHECKs that data is left only   *)
(* while an extent is, and that the buffer never holds a whole extent.     *)
SnapshotWrite(w, cow, halves) ==
    LET Step(acc, i) ==
            IF acc.data = <<>> THEN acc
            ELSE IF Exhausted(acc.w) \/ Len(acc.w.buffer) >= 2 * acc.w.extents[acc.w.cur].num
            THEN [acc EXCEPT !.check = FALSE, !.data = <<>>]
            ELSE ConsumeWithBuffer(acc)
    IN  FoldLeft(Step, [w |-> w, cow |-> cow, data |-> halves, check |-> TRUE],
                 [i \in DOMAIN halves |-> i])

(* How much of the left halves the next Write of an operation brings: the  *)
(* patchers write as they like.                                            *)
WriteSizes(type, left) ==
    CASE type = "SOURCE_COPY" -> {Min({left, CopyBuffer})}
      [] type = "REPLACE_XZ" -> {Min({left, OutputBuffer})}
      [] type = "REPLACE" -> {left}
      [] OTHER -> 1..left

-----------------------------------------------------------------------------
(* What a partition's raw source holds, bad blocks included, and what      *)
(* error correction reads there.                                           *)
kBadBlock == -2

RawSource(p, bad) == [b \in DOMAIN p.old_info |-> IF b \in bad THEN kBadBlock ELSE p.old_info[b]]

SourceMatches(op, source) == ReadExtents(source, op.src) = op.hash

(* ChooseSourceFD(): the raw device, else the corrected one, else none.    *)
ChooseSourceFD(op, p, bad, ecc) ==
    IF SourceMatches(op, RawSource(p, bad)) THEN {RawSource(p, bad)}
    ELSE IF ecc THEN {p.old_info} ELSE {}

(* OptimizeOperation() with libsnapshot's OptimizeSourceCopyOperation():   *)
(* a block that is copied to where a snapshot shows it already is dropped. *)
Optimized(op) ==
    LET src == Blocks(op.src)
        dst == Blocks(op.dst)
        moved == SelectSeq([i \in DOMAIN src |-> i], LAMBDA i : src[i] # dst[i])
    IN  [op EXCEPT !.src = [i \in DOMAIN moved |-> ExtentForRange(src[moved[i]], 1)],
                   !.dst = [i \in DOMAIN moved |-> ExtentForRange(dst[moved[i]], 1)]]

(* What VABCPartitionWriter::Init() writes to a new COW.                   *)
WriteAllCowOps(converted, source) ==
    LET copies == SelectSeq(converted.copy, LAMBDA c : c.src # c.dst)
    IN  [i \in DOMAIN copies |-> CowCopy(copies[i].dst, copies[i].src)]
            \o [i \in DOMAIN converted.replace |->
                    CowRaw(converted.replace[i].dst, source[converted.replace[i].src])]

kEndOfInstallLabel == -1

-----------------------------------------------------------------------------
(* dm-verity.  The first extent of p.verity is the hash tree, the second   *)
(* one, if any, error correction data; each covers what is before it.  The *)
(* two functions are those of libverity_tree and libfec.                   *)
HashTree(contents) == 1000 + FoldLeft(LAMBDA n, c : 10 * n + c, 0, contents)
Parity(contents) == 5000 + FoldLeft(LAMBDA n, c : 100 * n + c, 0, contents)

TreeOf(image, p) == HashTree([i \in 1..p.verity[1].start |-> image[i - 1]])

HasFec(p) == Len(p.verity) > 1

FecRounds(p) == p.verity[2].num

(* The blocks of round i: rs_n of them, fec_ecc_interleave()d; past the    *)
(* end of the data they are zeros.                                         *)
FecBlocks(p, i) ==
    LET rounds == FecRounds(p)
        rs_n == (p.verity[2].start + rounds - 1) \div rounds
    IN  [j \in 1..rs_n |-> i + (j - 1) * rounds]

(* A round of EncodeFEC(): the blocks are read from the descriptor that    *)
(* the cached one writes to.                                               *)
FecRound(c, p, i) ==
    LET Read(acc, b) ==
            IF b >= p.verity[2].start THEN [acc EXCEPT !.data = Append(@, 0)]
            ELSE LET read == PReadAll(acc.f, 2 * b, 2)
                 IN  [f |-> read.f, data |-> acc.data \o BlocksOfHalves(read.halves)]
        all == FoldLeft(Read, [f |-> c.f, data |-> <<>>], FecBlocks(p, i))
    IN  CachedWrite(CachedSeek([c EXCEPT !.f = all.f], 2 * (p.verity[2].start + i)),
                    Halves(<<Parity(all.data)>>))
==============================================================================
