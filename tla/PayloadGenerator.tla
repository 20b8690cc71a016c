-------------------------- MODULE PayloadGenerator --------------------------
(***************************************************************************)
(* The generation of a payload (delta_diff_generator.cc and                *)
(* full_update_generator.cc, with ABGenerator, MergeSequenceGenerator and  *)
(* PayloadFile), and the ExtentRanges it rests on.                         *)
(*                                                                         *)
(* Each partition has a PartitionProcessor on a pool of threads.  It makes *)
(* a delta by finding moved and zero blocks, by a FileDeltaProcessor per   *)
(* file on a pool of its own, and by sorting and merging what those made;  *)
(* then it finds the merge sequence.  It makes a full partition by a       *)
(* ChunkProcessor per chunk.  All threads share the blob file, in which a  *)
(* processor stores one blob a step.  The disk may fill up and a read may  *)
(* fail.  When all have ended the payload is written.                      *)
(***************************************************************************)
EXTENDS MergeSequenceGenerator, PayloadFile

CONSTANTS
    Configs,        \* payloads: a list of partitions with images and settings each
    RangeBlocks,    \* blocks of the ExtentRanges that is exercised
    MaxRangeLength  \* bound: length of an extent added to it or taken from it

ASSUME GeneratorAssumption ==
    /\ RangeBlocks \in Nat /\ MaxRangeLength \in Nat
    /\ \A config \in Configs : \A n \in DOMAIN config :
            config[n].soft > 0 /\ (config[n].hard = -1 \/ config[n].hard > 0)

VARIABLES
    phase,      \* where the generation is
    tasks,      \* the PartitionProcessors
    file,       \* the blob file
    payload,    \* the payload file
    ranges,     \* an ExtentRanges in use
    covered     \* history: the blocks that it should hold

generatorVars == <<phase, tasks, file, payload, ranges, covered>>

NoGen == Generate(<<>>)

NewTask(part) ==
    [part |-> part, state |-> "start", aops |-> <<>>, procs |-> <<>>, gen |-> NoGen]

NewProcessor(old, new, chunk) ==
    [old |-> old, new |-> new, chunk |-> chunk, offset |-> 0, ops |-> <<>>, state |-> "reading"]

GeneratorInit ==
    /\ phase \in {"start", "ranges"}
    /\ tasks = <<>> /\ file = NewBlobFile /\ payload = NoPayload
    /\ ranges = NoRanges /\ covered = {}

(* The processor of partition n has come to be t, and has written blobs.   *)
Becomes(n, t, blobs) ==
    /\ tasks' = [tasks EXCEPT ![n] = t]
    /\ file' = blobs
    /\ UNCHANGED <<phase, payload, ranges, covered>>

(* LOG(FATAL) in any thread ends the generation: there is no payload.      *)
Fatal == phase' = "fatal" /\ UNCHANGED <<tasks, file, payload, ranges, covered>>

GenerateUpdatePayloadFile ==
    /\ phase = "start"
    /\ phase' = "generating"
    /\ \E config \in Configs : tasks' = [n \in DOMAIN config |-> NewTask(config[n])]
    /\ UNCHANGED <<file, payload, ranges, covered>>

-----------------------------------------------------------------------------
(* ABGenerator, with DeltaReadPartition().                                 *)

(* The processors for the files, each with what no earlier file has, and   *)
(* the blocks visited.                                                     *)
AddProcessor(acc, old, new, chunk) ==
    IF new = <<>> THEN acc
    ELSE [procs |-> Append(acc.procs, NewProcessor(old, new, chunk)),
          oldVisited |-> AddExtents(acc.oldVisited, old),
          newVisited |-> AddExtents(acc.newVisited, new)]

FileProcessors(part, oldZeros, oldVisited, newVisited) ==
    FoldLeft(LAMBDA acc, f : AddProcessor(acc, FilterExtentRanges(f.old, oldZeros),
                                          FilterExtentRanges(f.new, acc.newVisited), part.hard),
             [procs |-> <<>>, oldVisited |-> oldVisited, newVisited |-> newVisited], part.files)

(* The processor for the blocks of no file.                                *)
UnvisitedProcessors(part, files) ==
    LET new == FilterExtentRanges(<<ExtentForRange(0, NumBlocks(part.new))>>, files.newVisited)
        old == IF part.oldFs
               THEN FilterExtentRanges(<<ExtentForRange(0, NumBlocks(part.old))>>, files.oldVisited)
               ELSE <<>>
    IN  IF new = <<>> THEN <<>> ELSE <<NewProcessor(old, new, part.soft)>>

AllProcessors(part, files) == files.procs \o UnvisitedProcessors(part, files)

DeltaReadPartition(n) ==
    /\ tasks[n].state = "start" /\ tasks[n].part.isDelta
    /\ LET part == tasks[n].part
           verity == AddExtents(NoRanges, part.verity)
       IN  \E moved \in {DeltaMovedAndZeroBlocks(part, part.soft, verity, file)} :
                IF ~moved.ok THEN Fatal
                ELSE Becomes(n, [tasks[n] EXCEPT
                        !.state = "delta",
                        !.aops = moved.ops,
                        !.procs = AllProcessors(part,
                                    FileProcessors(part, moved.oldZeros, moved.oldVisited,
                                                   moved.newVisited))], moved.file)

TotalBlocks(p) == Len(Blocks(p.new))

(* A round of DeltaReadFile()'s loop in the thread of processor i.         *)
ReadChunk(n, i) ==
    LET t == tasks[n]
        p == t.procs[i]
        chunk == IF p.chunk = -1 THEN TotalBlocks(p) ELSE p.chunk
    IN  /\ t.state = "delta" /\ p.state = "reading" /\ p.offset < TotalBlocks(p)
        /\ \E read \in {DeltaReadChunk(t.part, p.old, p.new, p.offset, chunk, file)} :
                Becomes(n, [t EXCEPT !.procs[i] =
                                IF read.ok
                                THEN [p EXCEPT !.ops = Append(@, read.op), !.offset = @ + chunk]
                                ELSE [p EXCEPT !.state = "failed"]],
                        read.file)

FragmentFile(n, i) ==
    LET t == tasks[n]
        p == t.procs[i]
        fragmented == FragmentOperations(p.ops, t.part, file)
    IN  /\ t.state = "delta" /\ p.state = "reading" /\ p.offset >= TotalBlocks(p)
        /\ Becomes(n, [t EXCEPT !.procs[i] = [p EXCEPT !.ops = fragmented.ops, !.state = "done"]],
                   fragmented.file)

Ended(t) == \A i \in DOMAIN t.procs : t.procs[i].state # "reading"

(* JoinAll() and the rest of GenerateOperations().                         *)
JoinFiles(n) ==
    LET t == tasks[n]
        part == t.part
        chunk == IF part.hard # -1 /\ part.hard < part.soft THEN part.hard ELSE part.soft
        all == t.aops \o FlattenSeq([i \in DOMAIN t.procs |-> t.procs[i].ops])
        merged == MergeOperations(SortOperationsByDestination(all), chunk, part, file)
    IN  /\ t.state = "delta" /\ Ended(t)
        /\ IF \E i \in DOMAIN t.procs : t.procs[i].state = "failed" THEN Fatal
           ELSE Becomes(n, [t EXCEPT !.state = IF part.vabc THEN "sequence" ELSE "done",
                                     !.aops = AddSourceHash(merged.ops, part),
                                     !.procs = <<>>],
                        merged.file)

-----------------------------------------------------------------------------
(* FullUpdateGenerator.  kDefaultFullChunkSize, in blocks of 4 KiB, bounds *)
(* the chunks when there is no hard limit.                                 *)
kDefaultFullChunkBlocks == 256

FullGenerateOperations(n) ==
    LET t == tasks[n]
        part == t.part
        chunk == Min({part.soft, IF part.hard >= 0 THEN part.hard ELSE kDefaultFullChunkBlocks})
        chunks == Chunks(ExtentForRange(0, NumBlocks(part.new)), chunk)
    IN  /\ t.state = "start" /\ ~part.isDelta
        /\ Becomes(n, [t EXCEPT
                !.state = "full",
                !.aops = [i \in DOMAIN chunks |-> NewOp("none", <<>>, <<chunks[i]>>)],
                !.procs = [i \in DOMAIN chunks |-> NewProcessor(<<>>, <<chunks[i]>>, chunk)]], file)

(* ChunkProcessor::Run(): the type is set before the data is stored, and   *)
(* that the data could not be stored is only logged.                       *)
ProcessChunk(n, i) ==
    LET t == tasks[n]
        best == GenerateBestFullOperation(ReadExtents(t.part.new, t.aops[i].dst),
                                          t.part.zeroAllowed)
        stored == SetOperationBlob([t.aops[i] EXCEPT !.type = best.type], best.blob, file)
    IN  /\ t.state = "full" /\ t.procs[i].state = "reading"
        /\ Becomes(n, [t EXCEPT !.aops[i] = stored.op, !.procs[i].state = "done"],
                   [stored.file EXCEPT !.lost = @ \/ ~stored.ok])

JoinChunks(n) ==
    LET t == tasks[n]
    IN  /\ t.state = "full" /\ Ended(t)
        /\ IF \E i \in DOMAIN t.aops : t.aops[i].type = "none" THEN Fatal
           ELSE Becomes(n, [t EXCEPT !.state = "done", !.procs = <<>>], file)

(* A thread cannot read its image.                                         *)
ReadFails(n, i) ==
    LET t == tasks[n]
    IN  /\ t.state \in {"full", "delta"} /\ t.procs[i].state = "reading"
        /\ \A j \in DOMAIN t.procs : t.procs[j].state # "failed"
        /\ Becomes(n, [t EXCEPT !.procs[i].state = "failed"], file)

-----------------------------------------------------------------------------
(* PartitionProcessor::Run() after GenerateOperations().                   *)
CreateSequence(n) ==
    LET t == tasks[n]
    IN  /\ t.state = "sequence"
        /\ IF \E i \in DOMAIN t.aops : Malformed(t.aops[i]) THEN Fatal
           ELSE Becomes(n, [t EXCEPT !.state = "merging",
                                     !.gen = Generate(CreateOperations(t.aops))], file)

SequenceRound(n) ==
    LET t == tasks[n]
    IN  /\ t.state = "merging" /\ DOMAIN t.gen.incoming # {}
        /\ IF UnexpectedCount(t.gen) THEN Fatal
           ELSE Becomes(n, [t EXCEPT !.gen = GenerateRound(@)], file)

FinishSequence(n) ==
    LET t == tasks[n]
        done == GenerateDone(t.gen)
    IN  /\ t.state = "merging" /\ DOMAIN t.gen.incoming = {}
        /\ IF ~GenerateChecks(done) \/ ~ValidateSequence(done.sequence) THEN Fatal
           ELSE Becomes(n, [t EXCEPT !.state = "done", !.gen = done], file)

(* GenerateUpdatePayloadFile() after JoinAll(): AddPartition() and         *)
(* WritePayload().                                                         *)
WritePayload ==
    LET parts == [n \in DOMAIN tasks |->
                    AddPartition(tasks[n].part, tasks[n].aops, tasks[n].gen.sequence)]
        ordered == ReorderDataBlobs(parts, file.units)
    IN  /\ phase = "generating" /\ \A n \in DOMAIN tasks : tasks[n].state = "done"
        /\ IF BadBlobOffset(ordered.parts) THEN Fatal
           ELSE /\ phase' = "written"
                /\ payload' = [parts |-> ordered.parts, blobs |-> ordered.out]
                /\ tasks' = <<>>
                /\ file' = [NewBlobFile EXCEPT !.lost = file.lost]
                /\ UNCHANGED <<ranges, covered>>

WritePayloadFails ==
    /\ phase = "generating" /\ \A n \in DOMAIN tasks : tasks[n].state = "done"
    /\ phase' = "fatal"
    /\ file' = [file EXCEPT !.full = TRUE]
    /\ UNCHANGED <<tasks, payload, ranges, covered>>

DiskFills ==
    /\ phase = "generating" /\ ~file.full
    /\ \E n \in DOMAIN tasks : tasks[n].state \in {"start", "delta", "full"}
    /\ file' = [file EXCEPT !.full = TRUE]
    /\ UNCHANGED <<phase, tasks, payload, ranges, covered>>

-----------------------------------------------------------------------------
(* Users of an ExtentRanges.                                               *)
RangeExtents ==
    {ExtentForRange(s, n) : s \in 0..(RangeBlocks - 1), n \in 0..MaxRangeLength}
        \union {ExtentForRange(kSparseHole, 2)}

Real(extent) == IF extent.start = kSparseHole THEN {} ELSE BlocksOf(extent)

ChangeRanges ==
    /\ phase = "ranges"
    /\ \E extent \in {e \in RangeExtents : End(e) <= RangeBlocks} :
        \/ ranges' = AddExtent(ranges, extent) /\ covered' = covered \union Real(extent)
        \/ ranges' = SubtractExtent(ranges, extent) /\ covered' = covered \ Real(extent)
    /\ UNCHANGED <<phase, tasks, file, payload>>

Process(n, i) == ReadChunk(n, i) \/ FragmentFile(n, i) \/ ProcessChunk(n, i) \/ ReadFails(n, i)

PartitionStep(n) ==
    \/ DeltaReadPartition(n) \/ FullGenerateOperations(n)
    \/ \E i \in DOMAIN tasks[n].procs : Process(n, i)
    \/ JoinFiles(n) \/ JoinChunks(n)
    \/ CreateSequence(n) \/ SequenceRound(n) \/ FinishSequence(n)

GeneratorNext ==
    \/ GenerateUpdatePayloadFile
    \/ phase = "generating" /\ \E n \in DOMAIN tasks : PartitionStep(n)
    \/ WritePayload \/ WritePayloadFails
    \/ DiskFills \/ ChangeRanges

GeneratorSpec == GeneratorInit /\ [][GeneratorNext]_generatorVars

-----------------------------------------------------------------------------
(* The blocks a payload must write: dm-verity data is computed on the      *)
(* device for a delta.                                                     *)
ToWrite(p) == DOMAIN p.new_info \ IF p.old_info # <<>> THEN ToSet(Blocks(p.verity)) ELSE {}

(* The contents operation op writes.                                       *)
Output(op, p) ==
    LET source == ReadExtents(p.old_info, op.src)
    IN  CASE op.type = "ZERO" -> [i \in DOMAIN Blocks(op.dst) |-> 0]
          [] op.type = "SOURCE_COPY" -> source
          [] OTHER -> Decoded(op, BlobAt(payload.blobs, op), source)

(* A payload that was generated makes the new images: every block but      *)
(* those of dm-verity is written by exactly one operation, and an          *)
(* operation writes the contents the new image has there, with the data    *)
(* its offset and length name in a file that many threads wrote, that      *)
(* splitting and merging reuse (FragmentOperations, MergeOperations) and   *)
(* that ReorderDataBlobs puts in order.  A write to the blob file that     *)
(* failed unnoticed is excepted.                                           *)
PayloadMakesTarget ==
    phase = "written" /\ ~file.lost =>
        \A n \in DOMAIN payload.parts :
            LET p == payload.parts[n]
                written == WrittenBlocks(p)
            IN  /\ ToSet(written) = ToWrite(p)
                /\ Len(written) = Cardinality(ToWrite(p))
                /\ \A i \in DOMAIN p.aops :
                        Output(p.aops[i], p) = ReadExtents(p.new_info, p.aops[i].dst)

(* The partition after a merge in place: the copies one by one, then the   *)
(* stored blocks, then what the other operations stored.                   *)
MergedImage(p) ==
    LET cow == ConvertToCowOperations(p.aops, p.merge)
        start == [b \in DOMAIN p.old_info \union DOMAIN p.new_info |->
                    IF b \in DOMAIN p.old_info THEN p.old_info[b] ELSE 0]
        copied == FoldLeft(LAMBDA image, c : [image EXCEPT ![c.dst] = image[c.src]], start, cow.copy)
        replaced == FoldLeft(LAMBDA image, c : [image EXCEPT ![c.dst] = p.old_info[c.src]],
                             copied, cow.replace)
    IN  FoldLeft(LAMBDA image, op : WriteExtents(image, op.dst, Output(op, p)), replaced,
                 SelectSeq(p.aops, LAMBDA op : op.type # "SOURCE_COPY"))

(* The merge sequence is safe in place: a device that merges the snapshot  *)
(* in the order that ConvertToCowOperations() makes of it gets the new     *)
(* image, no copy reading a block that an earlier one overwrote.  And      *)
(* MergeSequenceGenerator always finds a sequence: its loop counts right   *)
(* (SequenceInv), and a generation ends with LOG(FATAL) only when a file   *)
(* could not be read or written.                                           *)
MergesInPlace ==
    /\ phase = "written" /\ ~file.lost =>
            \A n \in DOMAIN payload.parts :
                LET p == payload.parts[n]
                IN  p.old_info # <<>> => \A b \in ToWrite(p) : MergedImage(p)[b] = p.new_info[b]
    /\ \A n \in DOMAIN tasks : tasks[n].state = "merging" => SequenceInv(tasks[n].gen)
    /\ phase = "fatal" =>
            \/ file.full
            \/ \E n \in DOMAIN tasks : \E i \in DOMAIN tasks[n].procs :
                    tasks[n].procs[i].state = "failed"

(* The host tools agree with the generator: PayloadChecker accepts the     *)
(* payload and PayloadApplier makes the new images of it and verifies      *)
(* them, unless a partition is new (PayloadChecker refuses an old image    *)
(* for some partitions only) or dm-verity data is left to the device.      *)
HostToolsAgree ==
    phase = "written" /\ ~file.lost /\ CheckManifest(payload) =>
        /\ PayloadCheckerRun(payload)
        /\ \/ PayloadApplierRun(payload)
           \/ \E n \in DOMAIN payload.parts : ToWrite(payload.parts[n]) # DOMAIN payload.parts[n].new_info

(* After any additions and subtractions an ExtentRanges holds exactly the  *)
(* blocks it should, as extents that neither overlap nor touch, with       *)
(* blocks_ their number; and what is computed from it or from its extents  *)
(* (ContainsBlock, OverlapsWithExtent, FilterExtentRanges,                 *)
(* GetExtentsForBlockCount, SplitSourceCopy) names the right blocks in the *)
(* right order.                                                            *)
RangesAreExact ==
    phase = "ranges" =>
        LET extents == InOrder(ranges.set)
            real == {e \in RangeExtents : e.start # kSparseHole /\ e.num > 0}
            first == Ascending(covered)
        IN  /\ Blocks(extents) = first
            /\ \A a, b \in ranges.set : a # b => End(a) # b.start
            /\ ranges.blocks = Cardinality(covered)
            /\ \A b \in 0..RangeBlocks : ContainsBlock(ranges, b) <=> b \in covered
            /\ \A e \in real :
                /\ OverlapsWithExtent(ranges, e) <=> BlocksOf(e) \intersect covered # {}
                /\ Blocks(FilterExtentRanges(<<e>>, ranges)) = Ascending(BlocksOf(e) \ covered)
            /\ \A n \in 0..Cardinality(covered) :
                /\ Blocks(GetExtentsForBlockCount(ranges, n)) = SubSeq(first, 1, n)
                /\ LET dst == <<ExtentForRange(0, n),
                                ExtentForRange(RangeBlocks, Len(first) - n)>>
                       ops == SplitSourceCopy(NewOp("SOURCE_COPY", extents, dst))
                   IN  /\ Blocks(ops[1].src) = SubSeq(first, 1, n)
                       /\ Blocks(ops[2].src) = SubSeq(first, n + 1, Len(first))
=============================================================================
