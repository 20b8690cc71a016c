---------------------------- MODULE PayloadInstall ----------------------------
(***************************************************************************)
(* From images to images: the payload that PayloadGenerator wrote is       *)
(* installed on a device.  DeltaPerformer's loop over operations and       *)
(* partitions (delta_performer.cc), with PartitionWriter or                *)
(* VABCPartitionWriter writing a few half blocks a step, then              *)
(* FilesystemVerifierAction, which makes the dm-verity data and compares   *)
(* every partition with the payload.  The process may die or be stopped at *)
(* any step; the next attempt resumes where the last checkpoint says.      *)
(*                                                                         *)
(* A device writes to partitions of their own ("plain"), to dm-snapshots   *)
(* over the source ("snapshot") or to COWs ("vabc").  Blocks of its source *)
(* may be bad, and error correction may repair them or not.                *)
(***************************************************************************)
EXTENDS PayloadGenerator, PartitionWriter

CONSTANTS
    DevicesFor(_),  \* the devices that a payload is installed on
    MaxRestarts     \* bound: how often the update is interrupted

VARIABLE dev        \* the device

vars == <<phase, tasks, file, payload, ranges, covered, dev>>

NoDevice == [state |-> "off"]

NoWork == [data |-> <<>>, w |-> ExtentWriter(<<>>), pass |-> "none"]

Init == GeneratorInit /\ dev = NoDevice

-----------------------------------------------------------------------------
Parts == payload.parts
OpsBefore(n) == Len(AllOps(SubSeq(Parts, 1, n - 1)))
TotalOps == OpsBefore(Len(Parts) + 1)

(* current_partition_ once the loop has skipped those that are done.       *)
PartitionOf(next) == Max({n \in DOMAIN Parts : OpsBefore(n) <= next})

Bad(n) == {d[2] : d \in {e \in dev.on.bad : e[1] = n}}
Vabc == dev.on.kind = "vabc"
Source(n) == RawSource(Parts[n], Bad(n))

(* A target before anything is written: what happens to be there, or what  *)
(* a snapshot shows of the source.                                         *)
kJunk == 9
FreshDisk(n, kind, bad) ==
    LET old == RawSource(Parts[n], {d[2] : d \in {e \in bad : e[1] = n}})
        content(b) == IF kind = "snapshot" /\ b \in DOMAIN old THEN old[b] ELSE kJunk
    IN  [u \in 0..(2 * NumBlocks(Parts[n].new_info) - 1) |-> <<content(u \div 2), (u + 1) % 2>>]

FreshTarget(n, kind, bad) == IF kind = "vabc" THEN <<>> ELSE FreshDisk(n, kind, bad)

InstallPayload ==
    /\ phase = "written" /\ ~file.lost /\ dev = NoDevice
    /\ \E device \in DevicesFor(payload) :
            dev' = [state |-> "loop", on |-> device, next |-> 0, n |-> 0, resume |-> FALSE,
                    saved |-> -1, signed |-> FALSE, restarts |-> 0, check |-> TRUE,
                    targets |-> [n \in DOMAIN Parts |-> FreshTarget(n, device.kind, device.bad)],
                    out |-> CachedFd(DeviceFd(<<>>)), work |-> NoWork]
    /\ UNCHANGED generatorVars

-----------------------------------------------------------------------------
(* DeltaPerformer::Write().                                                *)
Index == dev.next - OpsBefore(dev.n)
Op == Parts[dev.n].aops[Index + 1]

Closed(d) == [d EXCEPT !.n = 0, !.out = CachedFd(DeviceFd(<<>>)), !.work = NoWork]

(* The writer's Init(): a COW is continued after the label of the next     *)
(* operation, or begun anew with all the copies.                           *)
InitWriter(n, index) ==
    IF ~Vabc THEN {[dev EXCEPT !.n = n, !.out = CachedFd(DeviceFd(dev.targets[n]))]}
    ELSE IF dev.resume /\ index > 0
    THEN {[dev EXCEPT !.n = n, !.targets[n] = UpToLabel(@, index)]}
    ELSE {[dev EXCEPT !.n = n,
                      !.targets[n] = WriteAllCowOps(
                            ConvertToCowOperations(Parts[n].aops, Parts[n].merge), Source(n))]}

(* CheckpointUpdateProgress(): the progress is invalid while the writer    *)
(* flushes its cache or writes a label.                                    *)
Checkpointing(d) ==
    LET flushed == FlushCache(d.out)
    IN  IF d.n = 0 THEN [d EXCEPT !.state = "checkpoint", !.saved = -1]
        ELSE IF Vabc
        THEN [d EXCEPT !.state = "checkpoint", !.saved = -1,
                       !.targets[d.n] = Append(@, CowLabel(d.next - OpsBefore(d.n)))]
        ELSE [d EXCEPT !.state = "checkpoint", !.saved = -1, !.out = flushed,
                       !.targets[d.n] = flushed.f.disk]

OpenCurrentPartition ==
    LET n == PartitionOf(dev.next)
        index == dev.next - OpsBefore(n)
    IN  /\ dev.state = "loop" /\ dev.n = 0 /\ dev.next < TotalOps
        /\ \E opened \in InitWriter(n, index) : dev' = Checkpointing(opened)
        /\ UNCHANGED generatorVars

(* FinishedInstallOps() and CloseCurrentPartition().                       *)
CloseCurrentPartition ==
    /\ dev.state = "loop" /\ dev.n # 0 /\ Index = Len(Parts[dev.n].aops)
    /\ dev' = IF Vabc
              THEN Closed([dev EXCEPT !.targets[dev.n] = Append(@, CowLabel(kEndOfInstallLabel))])
              ELSE Closed([dev EXCEPT !.targets[dev.n] = FlushCache(dev.out).f.disk])
    /\ UNCHANGED generatorVars

EndCheckpoint ==
    /\ dev.state = "checkpoint"
    /\ dev' = [dev EXCEPT !.saved = dev.next, !.signed = (dev.n = 0),
                          !.state = IF dev.n = 0 THEN "installed" ELSE "loop"]
    /\ UNCHANGED generatorVars

(* The signature is read, and the last checkpoint made with it, unless     *)
(* that was done before the restart.                                       *)
LastCheckpoint ==
    /\ dev.state = "loop" /\ dev.n = 0 /\ dev.next = TotalOps
    /\ dev' = IF dev.signed THEN [dev EXCEPT !.state = "installed"] ELSE Checkpointing(dev)
    /\ UNCHANGED generatorVars

Perform(d) == dev' = d /\ UNCHANGED generatorVars

Failed == [Closed(dev) EXCEPT !.state = "failed"]

Writing(extents, data, pass) ==
    [dev EXCEPT !.state = "writing",
                !.work = [data |-> Halves(data), w |-> ExtentWriter(extents), pass |-> pass]]

Ready == dev.state = "loop" /\ dev.n # 0 /\ Index < Len(Parts[dev.n].aops)

PerformReplaceOperation ==
    /\ Ready /\ IsAReplaceOperation(Op.type)
    /\ Perform(Writing(Op.dst, Decoded(Op, BlobAt(payload.blobs, Op), <<>>), "none"))

PerformDiffOperation ==
    LET source == ChooseSourceFD(Op, Parts[dev.n], Bad(dev.n), dev.on.ecc)
    IN  /\ Ready /\ Op.type = "DIFF"
        /\ \/ source = {} /\ Perform(Failed)
           \/ \E s \in source :
                Perform(Writing(Op.dst,
                                Decoded(Op, BlobAt(payload.blobs, Op), ReadExtents(s, Op.src)),
                                "none"))

(* The copies of a COW were written when it was opened.                    *)
CopyOperation == IF dev.on.kind = "snapshot" THEN Optimized(Op) ELSE Op

PerformSourceCopyOperation ==
    /\ Ready /\ Op.type = "SOURCE_COPY"
    /\ Perform(IF Vabc THEN [dev EXCEPT !.state = "performed"]
               ELSE Writing(CopyOperation.dst, ReadExtents(Source(dev.n), CopyOperation.src), "raw"))

(* One extent of a ZERO: by ioctl until that fails, then by writing.       *)
ZeroExtent ==
    /\ dev.state = "zeroing"
    /\ LET w == dev.work.w
           e == w.extents[w.cur]
           next == [dev EXCEPT !.work.w = NextExtent(w),
                               !.state = IF w.cur = Len(w.extents) THEN "performed" ELSE "zeroing"]
           zeros == Halves([i \in 1..e.num |-> 0])
       IN  \/ /\ dev.work.pass = "ioctl"
              /\ Perform([next EXCEPT !.out.f = [WriteFd(Seek(@, 2 * e.start), zeros)
                                                    EXCEPT !.pos = dev.out.f.pos]])
           \/ Perform([next EXCEPT !.work.pass = "write",
                                   !.out = CachedWrite(CachedSeek(@, 2 * e.start), zeros)])

PerformZeroOperation ==
    /\ Ready /\ Op.type = "ZERO"
    /\ Perform(IF Vabc
               THEN [dev EXCEPT !.state = "performed",
                                !.targets[dev.n] = @ \o FlattenSeq([i \in DOMAIN Op.dst |->
                                        AddZeroBlocks(Op.dst[i].start, Op.dst[i].num)])]
               ELSE [Writing(Op.dst, <<>>, "ioctl") EXCEPT !.state = "zeroing"])

(* One Write() of the ExtentWriter.                                        *)
WriteStep ==
    LET work == dev.work
        left == Len(work.data)
    IN  /\ dev.state = "writing" /\ left > 0
        /\ \E size \in WriteSizes(Op.type, left) :
            LET halves == SubSeq(work.data, 1, size)
                rest == SubSeq(work.data, size + 1, left)
            IN  IF Vabc
                THEN \E wrote \in {SnapshotWrite(work.w, dev.targets[dev.n], halves)} :
                        Perform([dev EXCEPT !.targets[dev.n] = wrote.cow, !.work.w = wrote.w,
                                            !.work.data = rest, !.check = wrote.check])
                ELSE \E wrote \in {DirectWrite(work.w, dev.out, halves)} :
                        Perform(IF wrote.ok
                                THEN [dev EXCEPT !.out = wrote.target, !.work.w = wrote.w,
                                                 !.work.data = rest]
                                ELSE Failed)

(* The operation has written its data.  A copy that was read from the raw  *)
(* source and does not have the expected hash is made again from the       *)
(* corrected source.  A SnapshotExtentWriter must have passed all on.      *)
EndWrite ==
    LET p == Parts[dev.n]
        mismatch == dev.work.pass = "raw" /\ ~SourceMatches(Op, Source(dev.n))
    IN  /\ dev.state = "writing" /\ dev.work.data = <<>>
        /\ Perform(IF mismatch
                   THEN IF dev.on.ecc
                        THEN Writing(CopyOperation.dst, ReadExtents(p.old_info, CopyOperation.src), "ecc")
                        ELSE Failed
                   ELSE [dev EXCEPT !.state = "performed",
                                    !.check = @ /\ dev.work.w.buffer = <<>>,
                                    !.work = NoWork])

(* next_operation_num_++, and a checkpoint if the last one is long ago.    *)
OperationDone ==
    LET done == [dev EXCEPT !.state = "loop", !.next = @ + 1, !.work = NoWork]
    IN  /\ dev.state = "performed"
        /\ Perform(done) \/ Perform(Checkpointing(done))

-----------------------------------------------------------------------------
(* FilesystemVerifierAction with VerityWriterAndroid.  dev.n counts the    *)
(* partitions.                                                             *)
Shown(n) ==
    IF Vabc THEN [b \in DOMAIN Parts[n].new_info |-> SnapshotBlock(dev.targets[n], Source(n), b)]
    ELSE [b \in DOMAIN Parts[n].new_info |->
            BlocksOfHalves(<<dev.targets[n][2 * b], dev.targets[n][2 * b + 1]>>)[1]]

StartVerifier ==
    /\ dev.state = "installed"
    /\ Perform([dev EXCEPT !.state = "verify", !.n = 1])

(* InitializeFd() or OpenCowFd(), and all the data before the hash tree.   *)
OpenForVerity ==
    LET p == Parts[dev.n]
    IN  /\ dev.state = "verify" /\ p.verity # <<>>
        /\ IF Vabc /\ ~HasLabel(dev.targets[dev.n], kEndOfInstallLabel) THEN Perform(Failed)
           ELSE LET f == IF Vabc THEN CowFd(dev.targets[dev.n], kEndOfInstallLabel, Source(dev.n),
                                            NumBlocks(p.new_info))
                         ELSE DeviceFd(dev.targets[dev.n])
                    read == ReadFd(f, 2 * p.verity[1].start)
                IN  Perform([dev EXCEPT !.state = "tree", !.out = CachedFd(read.f),
                                        !.work.data = BlocksOfHalves(read.halves)])

Verity(state, c) ==
    Perform([dev EXCEPT !.state = state, !.out = c, !.work.data = <<>>,
                        !.targets[dev.n] = CloseFd(c.f)])

WriteHashTree ==
    LET tree == Parts[dev.n].verity[1].start
    IN  /\ dev.state = "tree"
        /\ Verity(IF HasFec(Parts[dev.n]) THEN "fec" ELSE "close",
                  CachedFd(WriteFd(Seek(dev.out.f, 2 * tree), Halves(<<HashTree(dev.work.data)>>))))

(* The rounds of EncodeFEC(), counted by work.w.cur, and its Flush().      *)
EncodeRound ==
    LET p == Parts[dev.n]
        i == dev.work.w.cur
    IN  /\ dev.state = "fec" /\ i <= FecRounds(p)
        /\ \E c \in {FecRound(dev.out, p, i - 1)} :
                Perform([dev EXCEPT !.out = c, !.work.w.cur = i + 1,
                                    !.targets[dev.n] = CloseFd(c.f)])

EncodeEnds ==
    /\ dev.state = "fec" /\ dev.work.w.cur > FecRounds(Parts[dev.n])
    /\ Verity("close", FlushCache(dev.out))

CloseVerity ==
    /\ dev.state = "close"
    /\ Perform([dev EXCEPT !.state = "hash", !.out = CachedFd(DeviceFd(<<>>)), !.work = NoWork,
                           !.targets[dev.n] = CloseFd(dev.out.f)])

(* HashPartition() and FinishPartitionHashing().                           *)
HashPartition ==
    /\ \/ dev.state = "hash"
       \/ dev.state = "verify" /\ Parts[dev.n].verity = <<>>
    /\ Perform(IF Shown(dev.n) # Parts[dev.n].new_info THEN Failed
               ELSE IF dev.n < Len(Parts) THEN [dev EXCEPT !.state = "verify", !.n = @ + 1]
               ELSE [Closed(dev) EXCEPT !.state = "verified"])

-----------------------------------------------------------------------------
Running == dev.state \notin {"off", "stopped", "failed", "verified"}

(* The process dies: what is only in memory is lost.                       *)
Crash ==
    /\ Running /\ dev.restarts < MaxRestarts
    /\ Perform([Closed(dev) EXCEPT
            !.state = "stopped",
            !.targets = IF dev.n # 0 /\ dev.out.f.kind = "device" /\ dev.out.f.disk # <<>>
                        THEN [@ EXCEPT ![dev.n] = dev.out.f.disk] ELSE @])

(* The download is cancelled or suspended and the performer closed.        *)
Cancel ==
    /\ dev.state = "loop" /\ dev.n # 0 /\ dev.next < TotalOps
    /\ dev.restarts < MaxRestarts
    /\ Perform([Closed(dev) EXCEPT
            !.state = "stopped",
            !.targets = IF Vabc THEN @ ELSE [@ EXCEPT ![dev.n] = FlushCache(dev.out).f.disk]])

(* CanResumeUpdate() and the next attempt.  One that starts over gets new  *)
(* snapshots.                                                              *)
Restart ==
    LET resume == dev.saved > 0
    IN  /\ dev.state = "stopped"
        /\ Perform([dev EXCEPT
                !.state = "loop", !.restarts = @ + 1, !.resume = resume,
                !.next = IF resume THEN dev.saved ELSE 0, !.signed = @ /\ resume,
                !.targets = IF resume \/ dev.on.kind = "plain" THEN @
                            ELSE [n \in DOMAIN Parts |-> FreshTarget(n, dev.on.kind, dev.on.bad)]])

DeviceNext ==
    \/ OpenCurrentPartition \/ CloseCurrentPartition \/ EndCheckpoint \/ LastCheckpoint
    \/ PerformReplaceOperation \/ PerformDiffOperation \/ PerformSourceCopyOperation
    \/ PerformZeroOperation \/ ZeroExtent \/ WriteStep \/ EndWrite \/ OperationDone
    \/ StartVerifier \/ OpenForVerity \/ WriteHashTree \/ EncodeRound \/ EncodeEnds
    \/ CloseVerity \/ HashPartition
    \/ Crash \/ Cancel \/ Restart

Next ==
    \/ GeneratorNext /\ UNCHANGED dev
    \/ InstallPayload
    \/ DeviceNext

Spec == Init /\ [][Next]_vars

-----------------------------------------------------------------------------
(* A COW merged into the source in place: its copies one by one, then the  *)
(* stored blocks.                                                          *)
Merged(n) ==
    LET source == Source(n)
        start == [b \in DOMAIN source \union DOMAIN Parts[n].new_info |->
                    IF b \in DOMAIN source THEN source[b] ELSE 0]
        copied == FoldLeft(LAMBDA image, e :
                                IF e.op = "copy" THEN [image EXCEPT ![e.dst] = image[e.src]]
                                ELSE image, start, dev.targets[n])
    IN  FoldLeft(LAMBDA image, e : IF e.op = "raw" THEN [image EXCEPT ![e.dst] = e.data] ELSE image,
                 copied, dev.targets[n])

EndLabelMissing ==
    Vabc /\ \E n \in DOMAIN Parts : ~HasLabel(dev.targets[n], kEndOfInstallLabel)

(* A payload that was generated installs: however often the update dies or *)
(* is stopped, whatever was cached, flushed, labelled or half written, the *)
(* verifier finds the new images with their dm-verity data, and a COW      *)
(* merges into them in place.  It fails only for a bad source that was not *)
(* corrected (a snapshot or a COW shows bad blocks of its source), or for  *)
(* a COW whose end label was never written.  No CHECK of a                 *)
(* SnapshotExtentWriter fails.                                             *)
PayloadInstalls ==
    dev # NoDevice =>
        /\ dev.check
        /\ dev.state = "failed" =>
                \/ dev.on.bad # {} /\ (~dev.on.ecc \/ dev.on.kind # "plain")
                \/ EndLabelMissing
        /\ dev.state = "verified" /\ Vabc =>
                \A n \in DOMAIN Parts : \A b \in DOMAIN Parts[n].new_info :
                    Merged(n)[b] = Parts[n].new_info[b]
===============================================================================
