--------------------------- MODULE FileDescriptors ---------------------------
(***************************************************************************)
(* The file descriptors through which an update writes and reads back a    *)
(* target partition: EintrSafeFileDescriptor on a block device,            *)
(* CachedFileDescriptor and CowWriterFileDescriptor.                       *)
(*                                                                         *)
(* Offsets and lengths count half blocks, so that a write may end inside a *)
(* block.  A half block is a pair of the contents of its block and which   *)
(* half it is.  A COW is the list of the entries that libsnapshot keeps.   *)
(***************************************************************************)
EXTENDS ExtentUtils

CONSTANT CacheSize      \* half blocks in the cache of a CachedFileDescriptor

Halves(contents) ==
    [i \in 1..(2 * Len(contents)) |-> <<contents[(i + 1) \div 2], i % 2>>]

(* The contents of blocks given by their halves; -1 is a torn block.       *)
BlocksOfHalves(halves) ==
    [i \in 1..(Len(halves) \div 2) |->
        IF Halves(<<halves[2 * i][1]>>) = SubSeq(halves, 2 * i - 1, 2 * i)
        THEN halves[2 * i][1] ELSE -1]

-----------------------------------------------------------------------------
(* Entries of a COW.  CowWriter, CowReader and snapuserd are libsnapshot's. *)
CowCopy(dst, src) == [op |-> "copy", dst |-> dst, src |-> src, data |-> 0]
CowRaw(dst, data) == [op |-> "raw", dst |-> dst, src |-> 0, data |-> data]
CowLabel(label) == [op |-> "label", dst |-> label, src |-> 0, data |-> 0]

AddRawBlocks(start, halves) ==
    LET blocks == BlocksOfHalves(halves)
    IN  [i \in DOMAIN blocks |-> CowRaw(start + i - 1, blocks[i])]

AddZeroBlocks(start, num) == [i \in 1..num |-> CowRaw(start + i - 1, 0)]

HasLabel(cow, label) == \E i \in DOMAIN cow : cow[i] = CowLabel(label)

(* InitializeAppend(): what comes after the label is dropped.              *)
UpToLabel(cow, label) == SubSeq(cow, 1, Min({i \in DOMAIN cow : cow[i] = CowLabel(label)}))

(* Block b as a snapshot shows it over the source.                         *)
SnapshotBlock(cow, source, b) ==
    LET hits == {i \in DOMAIN cow : cow[i].op # "label" /\ cow[i].dst = b}
        entry == cow[Max(hits)]
    IN  IF hits = {} THEN IF b \in DOMAIN source THEN source[b] ELSE 0
        ELSE IF entry.op = "copy" THEN source[entry.src] ELSE entry.data

-----------------------------------------------------------------------------
(* A descriptor of a block device.                                         *)
DeviceFd(disk) == [kind |-> "device", disk |-> disk, pos |-> 0]

(* OpenCowFd(): the writer continues after a label, the reader sees every  *)
(* entry until it is opened again.                                         *)
CowFd(cow, label, source, blocks) ==
    [kind |-> "cow", cow |-> UpToLabel(cow, label), reader |-> cow, source |-> source,
     blocks |-> blocks, pos |-> 0, dirty |-> FALSE]

Seek(f, pos) == [f EXCEPT !.pos = pos]

WriteFd(f, halves) ==
    IF f.kind = "device"
    THEN [f EXCEPT !.disk = [u \in DOMAIN @ |->
                                IF u \in f.pos..(f.pos + Len(halves) - 1)
                                THEN halves[u - f.pos + 1] ELSE @[u]],
                   !.pos = @ + Len(halves)]
    ELSE [f EXCEPT !.cow = @ \o AddRawBlocks(f.pos \div 2, halves),
                   !.pos = @ + Len(halves),
                   !.dirty = TRUE]

(* Before a read a dirty COW is finalized and its reader opened again.     *)
Refresh(f) ==
    IF f.kind = "cow" /\ f.dirty THEN [f EXCEPT !.reader = f.cow, !.dirty = FALSE] ELSE f

HalvesAt(f, pos, count) ==
    IF f.kind = "device" THEN [i \in 1..count |-> f.disk[pos + i - 1]]
    ELSE [i \in 1..count |-> LET u == pos + i - 1
                             IN  <<SnapshotBlock(f.reader, f.source, u \div 2), (u + 1) % 2>>]

ReadFd(f, count) ==
    LET fresh == Refresh(f)
    IN  [f |-> Seek(fresh, f.pos + count), halves |-> HalvesAt(fresh, f.pos, count)]

(* Faulty: the position is left where the read ended.                      *)
PReadAllMoving(f, pos, count) == ReadFd(Seek(f, pos), count)

(* PReadAll() goes back to where the descriptor was.                       *)
PReadAll(f, pos, count) ==
    LET read == ReadFd(Seek(f, pos), count)
    IN  [f |-> Seek(read.f, f.pos), halves |-> read.halves]

(* Close(): a COW that was written is finalized, another one is left as it *)
(* is, with the entries after the label.                                   *)
CloseFd(f) == IF f.kind = "device" THEN f.disk ELSE IF f.dirty THEN f.cow ELSE f.reader

-----------------------------------------------------------------------------
(* CachedFileDescriptor.                                                   *)
CachedFd(f) == [f |-> f, cache |-> <<>>, offset |-> 0]

FlushCache(c) == [c EXCEPT !.f = WriteFd(@, c.cache), !.cache = <<>>]

(* Faulty: the cache is kept when the position changes.                    *)
CachedSeekKeeping(c, offset) ==
    IF offset = c.offset THEN c ELSE [c EXCEPT !.f = Seek(@, offset), !.offset = offset]

CachedSeek(c, offset) ==
    IF offset = c.offset THEN c
    ELSE [FlushCache(c) EXCEPT !.f = Seek(@, offset), !.offset = offset]

CachedWrite(c, halves) ==
    LET Put(acc, h) ==
            LET filled == [acc EXCEPT !.cache = Append(@, h)]
            IN  IF Len(filled.cache) = CacheSize THEN FlushCache(filled) ELSE filled
    IN  [FoldLeft(Put, c, halves) EXCEPT !.offset = c.offset + Len(halves)]
==============================================================================
