---------------------------- MODULE ExtentRanges ----------------------------
(***************************************************************************)
(* The extents of the payload generator: ExtentRanges                      *)
(* (payload_generator/extent_ranges.cc), a set of blocks kept as extents   *)
(* ordered by their start, the blocks that a list of extents names, and    *)
(* the operations that split a copy by its destination extents.            *)
(* kSparseHole, 2^64 - 1 in the code, is -1 here: sums with it agree       *)
(* modulo 2^64, and AddExtent, SubtractExtent and the tests for overlap    *)
(* look for it before they compare.  FilterExtentRanges does not: for a    *)
(* hole the bounds of its search would differ from those of the code.  It  *)
(* is modelled for extents that have a place; no filesystem of the         *)
(* generator makes another.                                                *)
(***************************************************************************)
EXTENDS Integers, Sequences, FiniteSetsExt

kSparseHole == -1

ExtentForRange(start, num) == [start |-> start, num |-> num]

End(e) == e.start + e.num

(* The extents that have a place and are not empty.                        *)
Solid == [start : Nat, num : Nat \ {0}]

(* Faulty: extents that only touch are not found.                          *)
ExtentsOverlapOnly(a, b) ==
    \/ a.start = b.start
    \/ /\ a.start # kSparseHole /\ b.start # kSparseHole
       /\ IF a.start < b.start THEN End(a) > b.start ELSE End(b) > a.start

ExtentsOverlapOrTouch(a, b) ==
    \/ a.start = b.start
    \/ /\ a.start # kSparseHole /\ b.start # kSparseHole
       /\ IF a.start < b.start THEN End(a) >= b.start ELSE End(b) >= a.start

ExtentsOverlap(a, b) ==
    \/ a.start = b.start
    \/ /\ a.start # kSparseHole /\ b.start # kSparseHole
       /\ IF a.start < b.start THEN End(a) > b.start ELSE End(b) > a.start

(* An ExtentRanges object: extent_set_ and blocks_.                        *)
NoRanges == [set |-> {}, blocks |-> 0]

(* The numbers of a set, and the extents of one, in ascending order.       *)
Ascending(set) ==
    [i \in 1..Cardinality(set) |->
        CHOOSE a \in set : Cardinality({b \in set : b < a}) = i - 1]

InOrder(set) ==
    LET starts == Ascending({e.start : e \in set})
    IN  [i \in DOMAIN starts |-> CHOOSE e \in set : e.start = starts[i]]

UnionOverlappingExtents(a, b) ==
    LET start == Min({a.start, b.start})
    IN  ExtentForRange(start, Max({End(a), End(b)}) - start)

BlocksInExtents(set) ==
    LET s == InOrder(set)
        total[i \in 0..Len(s)] == IF i = 0 THEN 0 ELSE total[i - 1] + s[i].num
    IN  total[Len(s)]

(* erase(begin_del, end_del): from the first of the hits to the last one,  *)
(* with what lies between them.                                            *)
ErasedRange(set, hits) ==
    {e \in set : \E a, b \in hits : a.start <= e.start /\ e.start <= b.start}

(* The extents s, visited in order: those that overlap or touch what is    *)
(* added, which grows by them.                                             *)
VisitExtents(s, extent) ==
    LET Visit(acc, e) ==
            IF ExtentsOverlapOrTouch(e, acc.extent)
            THEN [extent |-> UnionOverlappingExtents(acc.extent, e), hits |-> acc.hits \union {e}]
            ELSE acc
        scan[i \in 0..Len(s)] ==
            IF i = 0 THEN [extent |-> extent, hits |-> {}] ELSE Visit(scan[i - 1], s[i])
    IN  scan[Len(s)]

AddExtent(r, extent) ==
    LET scan == VisitExtents(InOrder(r.set), extent)
    IN  IF extent.start = kSparseHole \/ extent.num = 0 THEN r
        ELSE [set |-> (r.set \ ErasedRange(r.set, scan.hits)) \union {scan.extent},
              blocks |-> r.blocks - BlocksInExtents(scan.hits) + scan.extent.num]

SubtractOverlappingExtents(base, subtractee) ==
    {e \in {ExtentForRange(base.start, subtractee.start - base.start),
            ExtentForRange(End(subtractee), End(base) - End(subtractee))} : e.num > 0}

SubtractExtent(r, extent) ==
    LET hits == {e \in r.set : ExtentsOverlap(e, extent)}
        rest == UNION {SubtractOverlappingExtents(e, extent) : e \in hits}
    IN  IF extent.start = kSparseHole \/ extent.num = 0 THEN r
        ELSE [set |-> (r.set \ ErasedRange(r.set, hits)) \union rest,
              blocks |-> r.blocks - (BlocksInExtents(hits) - BlocksInExtents(rest))]

AddExtents(r, extents) ==
    LET added[i \in 0..Len(extents)] ==
            IF i = 0 THEN r ELSE AddExtent(added[i - 1], extents[i])
    IN  added[Len(extents)]

AddRanges(r, ranges) == AddExtents(r, InOrder(ranges.set))

OverlapsWithExtent(r, extent) == \E e \in r.set : ExtentsOverlap(e, extent)

(* The position in the ordered set s of the first extent that does not     *)
(* start before block; Len(s) + 1 is end().                                *)
LowerBound(s, block) == Min({i \in DOMAIN s : s[i].start >= block} \union {Len(s) + 1})

(* Where a search for what overlaps block begins: one extent earlier.      *)
Before(s, block) == Max({1, LowerBound(s, block) - 1})

ContainsBlock(r, block) ==
    LET s == InOrder(r.set)
    IN  \E i \in Before(s, block)..(LowerBound(s, block + 1) - 1) :
            s[i].start <= block /\ block < End(s[i])

(* The first count blocks.                                                 *)
GetExtentsForBlockCount(r, count) ==
    LET s == InOrder(r.set)
        Copy(acc, e) ==
            LET num == Min({e.num, acc.left})
            IN  IF acc.left = 0 THEN acc
                ELSE [out |-> Append(acc.out, ExtentForRange(e.start, num)),
                      left |-> acc.left - num]
        scan[i \in 0..Len(s)] ==
            IF i = 0 THEN [out |-> <<>>, left |-> count] ELSE Copy(scan[i - 1], s[i])
    IN  scan[Len(s)].out

(* What is left of an extent without the extents s.  The scan ends when it *)
(* is nothing.                                                             *)
CutExtents(s, extent) ==
    LET Cut(acc, e) ==
            IF acc.rest.num = 0 \/ ~ExtentsOverlap(acc.rest, e) THEN acc
            ELSE [out |-> IF e.start <= acc.rest.start THEN acc.out
                          ELSE Append(acc.out, ExtentForRange(acc.rest.start,
                                                              e.start - acc.rest.start)),
                  rest |-> IF End(e) >= End(acc.rest) THEN [acc.rest EXCEPT !.num = 0]
                           ELSE ExtentForRange(End(e), End(acc.rest) - End(e))]
        scan[i \in 0..Len(s)] ==
            IF i = 0 THEN [out |-> <<>>, rest |-> extent] ELSE Cut(scan[i - 1], s[i])
    IN  scan[Len(s)]

(* One extent of FilterExtentRanges: what of it is not in the ranges.      *)
FilterExtent(extent, r) ==
    LET s == InOrder(r.set)
        near == SubSeq(s, Before(s, extent.start), LowerBound(s, End(extent)) - 1)
        cut == CutExtents(near, extent)
    IN  IF cut.rest.num > 0 THEN Append(cut.out, cut.rest) ELSE cut.out

FilterExtentRanges(extents, r) ==
    LET kept[i \in 0..Len(extents)] ==
            IF i = 0 THEN <<>> ELSE kept[i - 1] \o FilterExtent(extents[i], r)
    IN  kept[Len(extents)]

-----------------------------------------------------------------------------
(* The blocks of an extent, and those that a list of extents names, in     *)
(* order.                                                                  *)
BlocksOf(extent) == extent.start..(End(extent) - 1)

Run(e) == [k \in 1..e.num |-> e.start + k - 1]

Blocks(extents) ==
    LET blocks[i \in 0..Len(extents)] ==
            IF i = 0 THEN <<>> ELSE blocks[i - 1] \o Run(extents[i])
    IN  blocks[Len(extents)]

(* The first blocks of a list of extents, as many as are wanted, and what  *)
(* is left of the list: the extent that is too long is cut.                *)
TakeExtents(extents, wanted) ==
    LET Take(acc, src) ==
            IF acc.left = 0 THEN [acc EXCEPT !.rest = Append(@, src)]
            ELSE IF src.num <= acc.left
            THEN [acc EXCEPT !.taken = Append(@, src), !.left = @ - src.num]
            ELSE [taken |-> Append(acc.taken, ExtentForRange(src.start, acc.left)),
                  left |-> 0,
                  rest |-> <<ExtentForRange(src.start + acc.left, src.num - acc.left)>>]
        scan[i \in 0..Len(extents)] ==
            IF i = 0 THEN [taken |-> <<>>, left |-> wanted, rest |-> <<>>]
            ELSE Take(scan[i - 1], extents[i])
    IN  scan[Len(extents)]

(* A new InstallOperation, without data.                                   *)
NewOp(type, src, dst) ==
    [type |-> type, src |-> src, dst |-> dst, off |-> 0, len |-> 0,
     hash |-> <<>>, data_hash |-> <<>>]

(* One operation for each destination extent, which takes its sources from *)
(* the front of those left.  The code aborts when source extents are left  *)
(* over at the end: not for a copy, whose sources have as many blocks as   *)
(* its destinations.                                                       *)
SplitSourceCopy(op) ==
    LET Split(acc, dst) ==
            LET take == TakeExtents(acc.rest, dst.num)
            IN  [ops |-> Append(acc.ops, NewOp("SOURCE_COPY", take.taken, <<dst>>)),
                 rest |-> take.rest]
        split[i \in 0..Len(op.dst)] ==
            IF i = 0 THEN [ops |-> <<>>, rest |-> op.src] ELSE Split(split[i - 1], op.dst[i])
    IN  split[Len(op.dst)].ops
=============================================================================
