----------------------- MODULE MergeSequenceGenerator -----------------------
(***************************************************************************)
(* The order in which the copies of a payload may be merged in place       *)
(* (payload_generator/merge_sequence_generator.cc) and its use on the      *)
(* device (common/cow_operation_convert.cc): the loop of Generate() is one *)
(* step of the record gen a round.                                         *)
(***************************************************************************)
EXTENDS ExtentUtils

CreateCowMergeOperation(src, dst) == [src |-> src, dst |-> dst]

OpBefore(a, b) == a.dst.start < b.dst.start

(* A std::set of operations, from its first one to its last.               *)
ByDestination(set) ==
    LET starts == Ascending({op.dst.start : op \in set})
    IN  [i \in DOMAIN starts |-> CHOOSE op \in set : op.dst.start = starts[i]]

(* Faulty: a piece is one block longer than the shift.                     *)
SplitSelfOverlappingLong(src, dst) ==
    LET diff == 1 + (IF src.start > dst.start THEN src.start - dst.start ELSE dst.start - src.start)
        Piece(i) == Min({diff, src.num - i})
    IN  IF src.start = dst.start THEN <<CreateCowMergeOperation(src, dst)>>
        ELSE [k \in 1..((src.num + diff - 1) \div diff) |->
                LET i == (k - 1) * diff
                IN  CreateCowMergeOperation(ExtentForRange(src.start + i, Piece(i)),
                                            ExtentForRange(dst.start + i, Piece(i)))]

SplitSelfOverlapping(src, dst) ==
    LET diff == IF src.start > dst.start THEN src.start - dst.start ELSE dst.start - src.start
        Piece(i) == Min({diff, src.num - i})
    IN  IF src.start = dst.start THEN <<CreateCowMergeOperation(src, dst)>>
        ELSE [k \in 1..((src.num + diff - 1) \div diff) |->
                LET i == (k - 1) * diff
                IN  CreateCowMergeOperation(ExtentForRange(src.start + i, Piece(i)),
                                            ExtentForRange(dst.start + i, Piece(i)))]

(* The merge operations of one SOURCE_COPY with one destination extent.    *)
MergeOperationsOf(op) ==
    FoldLeft(LAMBDA acc, src :
                LET dst == ExtentForRange(op.dst[1].start + acc.used, src.num)
                IN  [used |-> acc.used + src.num,
                     out |-> acc.out \o IF ExtentsOverlap(src, dst)
                                        THEN SplitSelfOverlapping(src, dst)
                                        ELSE <<CreateCowMergeOperation(src, dst)>>],
             [used |-> 0, out |-> <<>>], op.src)

(* Create() returns no generator for these.                                *)
Malformed(op) ==
    /\ op.type = "SOURCE_COPY"
    /\ Len(op.dst) # 1 \/ MergeOperationsOf(op).used # op.dst[1].num

CreateOperations(aops) ==
    LET copies == SelectSeq(aops, LAMBDA op : op.type = "SOURCE_COPY")
    IN  SortSeq(FlattenSeq([i \in DOMAIN copies |-> MergeOperationsOf(copies[i]).out]), OpBefore)

(* The operations that write what op reads, in the list sorted by their    *)
(* destinations: from the first that does not end before the source to the *)
(* last that does not start after it.                                      *)
FindDependency(operations, op) ==
    LET lower == {i \in DOMAIN operations : End(operations[i].dst) - 1 >= op.src.start}
        upper == {i \in DOMAIN operations : operations[i].dst.start <= End(op.src) - 1}
    IN  {operations[i] : i \in lower \intersect upper} \ {op}

(* The state of Generate() when its loop begins: the blocked operations    *)
(* with the number of those that must come first, and the free ones.       *)
Generate(operations) ==
    LET all == ToSet(operations)
        after == [op \in all |-> FindDependency(operations, op)]
        blocked == UNION {after[op] : op \in all}
    IN  [operations |-> operations,
         after |-> after,
         incoming |-> [b \in blocked |-> Cardinality({op \in all : b \in after[op]})],
         free |-> all \ blocked,
         sequence |-> <<>>,
         raw |-> {}]

(* Without a free operation the first blocked one becomes raw data, which  *)
(* breaks a cycle.                                                         *)
ConvertToRaw(gen) ==
    LET blocked == DOMAIN gen.incoming
    IN  IF gen.free # {} THEN {}
        ELSE {CHOOSE op \in blocked : \A b \in blocked : op = b \/ OpBefore(op, b)}

(* Generate() fails when more operations free another than blocked it.     *)
UnexpectedCount(gen) ==
    \E b \in DOMAIN gen.incoming :
        LET Frees(op) == b \in gen.after[op] /\ (b \in gen.free => OpBefore(op, b))
        IN  gen.incoming[b] < Cardinality({op \in gen.free \union ConvertToRaw(gen) : Frees(op)})

(* One round of the loop.                                                  *)
GenerateRound(gen) ==
    LET free == gen.free \union ConvertToRaw(gen)
        count == [b \in DOMAIN gen.incoming \ free |->
                    gen.incoming[b] - Cardinality({op \in free : b \in gen.after[op]})]
    IN  [gen EXCEPT !.sequence = @ \o ByDestination(gen.free),
                    !.raw = @ \union ConvertToRaw(gen),
                    !.incoming = count,
                    !.free = {b \in DOMAIN count : count[b] = 0 /\ gen.incoming[b] > 0}]

GenerateDone(gen) ==
    [gen EXCEPT !.sequence = @ \o ByDestination(gen.free), !.free = {}]

ValidateSequence(sequence) ==
    \A i \in DOMAIN sequence :
        LET visited == AddExtents(NoRanges, [j \in 1..(i - 1) |-> sequence[j].dst])
        IN  ~OverlapsWithExtent(visited, sequence[i].src)

(* CHECKs of Generate() and ValidateSequence().                            *)
GenerateChecks(gen) ==
    /\ Len(gen.operations) = Len(gen.sequence) + Cardinality(gen.raw)
    /\ \A i, j \in DOMAIN gen.sequence :
            j < i => ~ExtentsOverlap(gen.sequence[j].dst, gen.sequence[i].dst)

(* Each operation has blocks, and writes some of its own.                  *)
CowMergeOperations == [src : Solid, dst : Solid]

WriteApart(operations) ==
    /\ operations \in Seq(CowMergeOperations)
    /\ \A i, j \in DOMAIN operations :
            i < j => End(operations[i].dst) <= operations[j].dst.start

(* Those neither in the sequence nor raw, and those that read what b       *)
(* writes.                                                                 *)
Left(gen) == ToSet(gen.operations) \ (ToSet(gen.sequence) \union gen.raw)

Readers(gen, b) == {op \in Left(gen) : b \in gen.after[op]}

(* The invariant of the loop.  Those left are free or counted, with the    *)
(* number of those left that read what they write; an operation is free    *)
(* when there are none.  Nothing left reads what the sequence wrote, and   *)
(* nothing in the sequence what an earlier one wrote.                      *)
SequenceInv(gen) ==
    LET all == ToSet(gen.operations)
        blocked == DOMAIN gen.incoming
        n == Len(gen.sequence)
    IN  /\ WriteApart(gen.operations)
        /\ gen.after = [op \in all |-> FindDependency(gen.operations, op)]
        /\ gen.raw \subseteq all /\ gen.sequence \in Seq(all \ gen.raw)
        /\ \A i, j \in 1..n : i # j => gen.sequence[i] # gen.sequence[j]
        /\ Left(gen) = gen.free \union blocked
        /\ \A b \in blocked : gen.incoming[b] = Cardinality(Readers(gen, b))
        /\ \A b \in blocked : gen.incoming[b] = 0 => b \in gen.free
        /\ \A f \in gen.free : Readers(gen, f) = {}
        /\ \A i \in 1..n : Readers(gen, gen.sequence[i]) = {}
        /\ \A i, j \in 1..n : j < i => gen.sequence[j] \notin gen.after[gen.sequence[i]]

-----------------------------------------------------------------------------
(* The copies of a merge operation, from its last block to its first.      *)
CowCopies(op) ==
    [i \in 1..op.src.num |-> [src |-> End(op.src) - i, dst |-> End(op.dst) - i]]

(* ConvertToCowOperations(): the copies in the order of the merge, then    *)
(* the blocks of the other copies, whose data is stored.                   *)
ConvertToCowOperations(aops, sequence) ==
    LET copies == SelectSeq(aops, LAMBDA op : op.type = "SOURCE_COPY")
        merged == AddExtents(NoRanges, [i \in DOMAIN sequence |-> sequence[i].dst])
        Pairs(op) == LET src == Blocks(op.src)
                         dst == Blocks(op.dst)
                     IN  [i \in 1..Min({Len(src), Len(dst)}) |-> [src |-> src[i], dst |-> dst[i]]]
        pairs == FlattenSeq([i \in DOMAIN copies |-> Pairs(copies[i])])
    IN  [copy |-> FlattenSeq([i \in DOMAIN sequence |-> CowCopies(sequence[i])]),
         replace |-> SelectSeq(pairs, LAMBDA c : ~ContainsBlock(merged, c.dst))]
=============================================================================
