----------------------- MODULE PayloadGeneratorProofs -----------------------
(***************************************************************************)
(* That RangesInv, the invariant of an ExtentRanges, is kept by additions  *)
(* and subtractions of any extents, so that RangesAreExact follows from    *)
(* it; and that SequenceInv, the invariant of the loop of                  *)
(* MergeSequenceGenerator, is kept by every round, so that the loop ends   *)
(* with a sequence that may be merged in place.                            *)
(***************************************************************************)
EXTENDS PayloadGenerator, ExtentRangesProofs

(* An extent that is no sparse hole and not empty.                         *)
LEMMA RangeExtentCases ==
    ASSUME NEW extent \in RangeExtents
    PROVE  \/ (extent.start = kSparseHole \/ extent.num = 0) /\ Real(extent) = {}
           \/ extent \in Solid /\ Real(extent) = BlocksOf(extent)
<1>1. CASE extent = ExtentForRange(kSparseHole, 2)
  BY <1>1 DEF ExtentForRange, Real
<1>2. ASSUME NEW s \in 0..(RangeBlocks - 1), NEW n \in 0..MaxRangeLength, extent = ExtentForRange(s, n)
      PROVE  \/ (extent.start = kSparseHole \/ extent.num = 0) /\ Real(extent) = {}
             \/ extent \in Solid /\ Real(extent) = BlocksOf(extent)
  <2>1. s \in Nat /\ n \in Nat /\ kSparseHole = -1
    BY GeneratorAssumption DEF kSparseHole
  <2>2. extent.start = s /\ extent.num = n /\ extent = [start |-> s, num |-> n]
    BY <1>2 DEF ExtentForRange
  <2>3. extent.start # kSparseHole /\ Real(extent) = BlocksOf(extent)
    BY <2>1, <2>2 DEF Real
  <2>4. CASE n = 0
    <3>1. extent \in Extents
      BY <2>1, <2>2 DEF Extents
    <3>2. \A y : y \in BlocksOf(extent) <=> y \in Int /\ extent.start <= y /\ y < End(extent)
      BY <3>1, InBlocks, Zenon
    <3>3. End(extent) = s
      BY <2>1, <2>2, <2>4 DEF End
    <3>4. \A y : y \notin BlocksOf(extent)
      BY <3>2, <3>3, <2>1, <2>2
    <3>5. BlocksOf(extent) = {}
      BY <3>4
    <3> QED  BY <2>2, <2>3, <2>4, <3>5
  <2>5. CASE n # 0
    <3>1. extent \in Solid
      BY <2>1, <2>2, <2>5 DEF Solid
    <3> QED  BY <2>2, <2>3, <2>5, <3>1
  <2> QED  BY <2>4, <2>5
<1> QED  BY <1>1, <1>2 DEF RangeExtents

(* While an ExtentRanges is in use it holds what it should.                *)
HoldsCovered == phase = "ranges" => RangesInv(ranges, covered)

(* Every change keeps that.                                                *)
LEMMA ChangeKeeps ==
    ASSUME HoldsCovered, ChangeRanges
    PROVE  HoldsCovered'
<1>1. phase = "ranges" /\ RangesInv(ranges, covered)
  BY DEF ChangeRanges, HoldsCovered
<1>2. PICK extent \in RangeExtents :
        \/ ranges' = AddExtent(ranges, extent) /\ covered' = covered \union Real(extent)
        \/ ranges' = SubtractExtent(ranges, extent) /\ covered' = covered \ Real(extent)
  BY DEF ChangeRanges
<1>3. RangesInv(ranges', covered')
  <2>1. CASE (extent.start = kSparseHole \/ extent.num = 0) /\ Real(extent) = {}
    <3>1. AddExtent(ranges, extent) = ranges
      BY <2>1, Zenon DEF AddExtent
    <3>2. SubtractExtent(ranges, extent) = ranges
      BY <2>1, Zenon DEF SubtractExtent
    <3>3. covered \union Real(extent) = covered /\ covered \ Real(extent) = covered
      BY <2>1
    <3> QED  BY <3>1, <3>2, <3>3, <1>1, <1>2
  <2>2. CASE extent \in Solid /\ Real(extent) = BlocksOf(extent)
    BY <2>2, <1>1, <1>2, AddIsExact, SubtractIsExact
  <2> QED  BY <2>1, <2>2, RangeExtentCases
<1> QED  BY <1>3 DEF HoldsCovered

(* A step of a partition's threads leaves it alone.                        *)
LEMMA PartitionStepLeaves ==
    ASSUME NEW n, PartitionStep(n)
    PROVE  UNCHANGED <<ranges, covered>> /\ (phase' = phase \/ phase' = "fatal")
<1>1. \A t, blobs : Becomes(n, t, blobs) => UNCHANGED <<phase, ranges, covered>>
  BY DEF Becomes
<1>2. Fatal => UNCHANGED <<ranges, covered>> /\ phase' = "fatal"
  BY DEF Fatal
<1>3. CASE DeltaReadPartition(n)
  BY <1>1, <1>2, <1>3, Zenon DEF DeltaReadPartition
<1>4. CASE FullGenerateOperations(n)
  BY <1>1, <1>4, Zenon DEF FullGenerateOperations
<1>5. ASSUME NEW i, Process(n, i) PROVE UNCHANGED <<phase, ranges, covered>>
  <2>1. CASE ReadChunk(n, i)
    BY <2>1, <1>1, Zenon DEF ReadChunk
  <2>2. CASE FragmentFile(n, i)
    BY <2>2, <1>1, Zenon DEF FragmentFile
  <2>3. CASE ProcessChunk(n, i)
    BY <2>3, <1>1, Zenon DEF ProcessChunk
  <2>4. CASE ReadFails(n, i)
    BY <2>4, <1>1, Zenon DEF ReadFails
  <2> QED  BY <1>5, <2>1, <2>2, <2>3, <2>4 DEF Process
<1>6. CASE JoinFiles(n)
  BY <1>1, <1>2, <1>6, Zenon DEF JoinFiles
<1>7. CASE JoinChunks(n)
  BY <1>1, <1>2, <1>7, Zenon DEF JoinChunks
<1>8. CASE CreateSequence(n)
  BY <1>1, <1>2, <1>8, Zenon DEF CreateSequence
<1>9. CASE SequenceRound(n)
  BY <1>1, <1>2, <1>9, Zenon DEF SequenceRound
<1>10. CASE FinishSequence(n)
  BY <1>1, <1>2, <1>10, Zenon DEF FinishSequence
<1> QED  BY <1>3, <1>4, <1>5, <1>6, <1>7, <1>8, <1>9, <1>10, Zenon DEF PartitionStep

(* An ExtentRanges that holds what it should answers every question        *)
(* rightly.                                                                *)
LEMMA ExactWhenHeld == HoldsCovered => RangesAreExact
<1> SUFFICES ASSUME HoldsCovered, phase = "ranges" PROVE RangesAreExact
  BY Zenon DEF RangesAreExact
<1> DEFINE set == ranges.set
           extents == InOrder(set)
           first == Ascending(covered)
           real == {e \in RangeExtents : e.start # kSparseHole /\ e.num > 0}
<1>1. RangesInv(ranges, covered)
  BY DEF HoldsCovered
<1>2. Disjoint(set) /\ covered = BlocksIn(set) /\ ranges.blocks = Cardinality(covered)
  BY <1>1 DEF RangesInv
<1>3. extents \in Seq(Solid) /\ Blocks(extents) = first /\ IsFiniteSet(covered)
  BY <1>2, DisjointInOrder
<1>4. Cardinality(covered) \in Nat
  BY <1>2, DisjointInOrder
<1>5. ASSUME NEW a \in set, NEW b \in set, a # b PROVE End(a) # b.start
  <2>1. a \in Solid /\ b \in Solid /\ Clear(a, b)
    BY <1>2, <1>5 DEF Disjoint
  <2>2. a.start \in Nat /\ End(a) \in Nat /\ a.start < End(a) /\ b.start \in Nat /\ End(b) \in Nat
        /\ b.start < End(b)
    BY <2>1, RealFields
  <2> QED  BY <2>1, <2>2 DEF Clear
<1>6. ASSUME NEW b \in 0..RangeBlocks PROVE ContainsBlock(ranges, b) <=> b \in covered
  <2>1. b \in Int
    BY GeneratorAssumption
  <2> QED  BY <2>1, <1>1, ContainsIsExact
<1>7. ASSUME NEW e \in real
      PROVE  /\ OverlapsWithExtent(ranges, e) <=> BlocksOf(e) \intersect covered # {}
             /\ Blocks(FilterExtentRanges(<<e>>, ranges)) = Ascending(BlocksOf(e) \ covered)
  <2>1. e \in Solid
    BY RangeExtentCases
  <2>2. OverlapsWithExtent(ranges, e) <=> BlocksOf(e) \intersect covered # {}
    BY <2>1, <1>1, OverlapsIsExact
  <2>3. /\ FilterExtent(e, ranges) \in Seq(Solid)
        /\ Blocks(FilterExtent(e, ranges)) = Ascending(BlocksOf(e) \ covered)
    BY <2>1, <1>1, FilterIsExact
  <2>4. FilterExtentRanges(<<e>>, ranges) = FilterExtent(e, ranges)
    BY <2>3, FilterOne
  <2> QED  BY <2>2, <2>3, <2>4
<1>8. extents \in Seq(Extents)
  <2> HIDE DEF extents
  <2>1. Solid \subseteq Extents
    BY RealFields
  <2>2. \A i \in 1..Len(extents) : extents[i] \in Extents
    BY <2>1, <1>3, ElementOfSeq
  <2> QED  BY <2>2, <1>3, LenProperties
<1>9. first \in Seq(Int) /\ Len(first) = Cardinality(covered)
  <2>1. first \in Seq(Int)
    BY <1>3, <1>8, BlocksIsSeq
  <2>2. DOMAIN first = 1..Cardinality(covered)
    BY DEF Ascending
  <2> HIDE DEF first
  <2>3. DOMAIN first = 1..Len(first) /\ Len(first) \in Nat
    BY <2>1, LenProperties
  <2> QED  BY <2>1, <2>2, <2>3, <1>4
<1>10. ASSUME NEW n \in 0..Cardinality(covered)
       PROVE  LET dst == <<ExtentForRange(0, n), ExtentForRange(RangeBlocks, Len(first) - n)>>
                  ops == SplitSourceCopy(NewOp("SOURCE_COPY", extents, dst))
              IN  /\ Blocks(GetExtentsForBlockCount(ranges, n)) = SubSeq(first, 1, n)
                  /\ Blocks(ops[1].src) = SubSeq(first, 1, n)
                  /\ Blocks(ops[2].src) = SubSeq(first, n + 1, Len(first))
  <2> DEFINE len == Len(first)
             x == ExtentForRange(0, n)
             y == ExtentForRange(RangeBlocks, len - n)
             dst == <<x, y>>
             op == NewOp("SOURCE_COPY", extents, dst)
             ops == SplitSourceCopy(op)
  <2>1. n \in Nat /\ len \in Nat /\ n <= len /\ len - n \in Nat /\ n <= Len(Blocks(extents))
    BY <1>3, <1>4, <1>9
  <2>2. Blocks(GetExtentsForBlockCount(ranges, n)) = SubSeq(first, 1, n)
    <3>1. Blocks(GetExtentsForBlockCount(ranges, n)) = SubSeq(Blocks(extents), 1, n)
      <4>1. extents = InOrder(ranges.set)
        OBVIOUS
      <4> HIDE DEF extents, first, len
      <4> QED  BY <4>1, <2>1, <1>8, GetIsExact
    <3> QED  BY <3>1, <1>3
  <2>3. op.src = extents /\ op.dst = dst
    BY DEF NewOp
  <2>4. x \in Extents /\ y \in Extents /\ x.num = n /\ y.num = len - n
    <3> HIDE DEF len
    <3> QED  BY <2>1, GeneratorAssumption DEF ExtentForRange, Extents
  <2> HIDE DEF x, y, op, len, first, extents
  <2>5. dst \in Seq(Extents) /\ Len(dst) = 2 /\ dst[1] = x /\ dst[2] = y
    BY <2>4
  <2> HIDE DEF dst
  <2>6. PICK b : Listing(b, dst)
    BY <2>5, BlocksFollows
  <2>7. Len(b[0]) = 0
    BY <2>6 DEF Listing
  <2>8. Len(b[1]) = n /\ Len(b[2]) = len
    <3>1. 1 \in 1..2 /\ 2 \in 1..2 /\ 1 - 1 = 0 /\ 2 - 1 = 1
      OBVIOUS
    <3>2. Len(b[1]) = Len(b[0]) + x.num /\ Len(b[2]) = Len(b[1]) + y.num
      BY <3>1, <2>5, <2>6, ListingGrows, Zenon
    <3> QED  BY <3>2, <2>1, <2>4, <2>7
  <2>9. Len(b[Len(op.dst)]) <= Len(Blocks(op.src))
    BY <2>1, <2>3, <2>5, <2>8, <1>3 DEF len
  <2>10. \A j \in 1..2 : Blocks(ops[j].src) = Slice(first, Len(b[j - 1]), Len(b[j]))
    <3>1. op.src \in Seq(Extents) /\ op.dst \in Seq(Extents) /\ Listing(b, op.dst)
      BY <2>3, <2>5, <2>6, <1>8
    <3>2. \A j \in 1..Len(op.dst) :
            Blocks(ops[j].src) = Slice(Blocks(op.src), Len(b[j - 1]), Len(b[j]))
      <4>1. ops = SplitSourceCopy(op)
        OBVIOUS
      <4> HIDE DEF ops
      <4> QED  BY <3>1, <2>9, <4>1, SplitIsExact
    <3> QED  BY <3>2, <2>3, <2>5, <1>3
  <2>11. Blocks(ops[1].src) = Slice(first, 0, n) /\ Blocks(ops[2].src) = Slice(first, n, len)
    <3>1. 1 \in 1..2 /\ 2 \in 1..2 /\ 1 - 1 = 0 /\ 2 - 1 = 1
      OBVIOUS
    <3> HIDE DEF ops
    <3> QED  BY <3>1, <2>7, <2>8, <2>10
  <2>12. Slice(first, 0, n) = SubSeq(first, 1, n) /\ Slice(first, n, len) = SubSeq(first, n + 1, len)
    BY DEF Slice
  <2> QED  BY <2>2, <2>11, <2>12, Zenon DEF ops, op, dst, x, y, len
<1> HIDE DEF extents, first, real
<1> QED  BY <1>2, <1>3, <1>5, <1>6, <1>7, <1>10, Zenon DEF RangesAreExact, extents, first, real

(* After any additions and subtractions (extent_ranges.cc) the extents     *)
(* hold exactly the blocks they should, neither overlapping nor touching,  *)
(* and every question asked of them is answered rightly, in an image of    *)
(* any size and for extents of any length.                                 *)
THEOREM RangesStayExact == GeneratorSpec => []RangesAreExact
<1>1. GeneratorInit => HoldsCovered
  BY NothingHeld DEF GeneratorInit, HoldsCovered
<1>2. HoldsCovered /\ [GeneratorNext]_generatorVars => HoldsCovered'
  <2> SUFFICES ASSUME HoldsCovered, [GeneratorNext]_generatorVars PROVE HoldsCovered'
    OBVIOUS
  <2>1. CASE GenerateUpdatePayloadFile
    BY <2>1 DEF GenerateUpdatePayloadFile, HoldsCovered
  <2>2. ASSUME phase = "generating", NEW n, PartitionStep(n) PROVE HoldsCovered'
    <3>1. phase' # "ranges"
      BY <2>2, PartitionStepLeaves
    <3> QED  BY <3>1 DEF HoldsCovered
  <2>3. CASE WritePayload
    BY <2>3 DEF WritePayload, Fatal, HoldsCovered
  <2>4. CASE WritePayloadFails
    BY <2>4 DEF WritePayloadFails, HoldsCovered
  <2>5. CASE DiskFills
    BY <2>5 DEF DiskFills, HoldsCovered
  <2>6. CASE ChangeRanges
    BY <2>6, ChangeKeeps
  <2>7. CASE UNCHANGED generatorVars
    BY <2>7 DEF generatorVars, HoldsCovered
  <2> QED  BY <2>1, <2>2, <2>3, <2>4, <2>5, <2>6, <2>7 DEF GeneratorNext
<1> QED  BY <1>1, <1>2, ExactWhenHeld, PTL DEF GeneratorSpec

-----------------------------------------------------------------------------
(* The operations are told apart by where they write.                      *)
WritesDiffer(set) ==
    set \subseteq CowMergeOperations /\ \A a, b \in set : a.dst.start = b.dst.start => a = b

(* No operation is in s twice.                                             *)
NoneTwice(s) == \A i, j \in 1..Len(s) : i # j => s[i] # s[j]

(* ByDestination lists a set, each of its operations once.                 *)
LEMMA ByDestinationLists ==
    ASSUME NEW set, IsFiniteSet(set), WritesDiffer(set)
    PROVE  /\ ByDestination(set) \in Seq(set)
           /\ NoneTwice(ByDestination(set))
           /\ ToSet(ByDestination(set)) = set
<1> DEFINE K == {op.dst.start : op \in set}
           f == [op \in set |-> op.dst.start]
           a == Ascending(K)
           n == Cardinality(K)
           s == ByDestination(set)
<1>1. K \subseteq Int
  BY DEF WritesDiffer, CowMergeOperations, Solid
<1>2. f \in Surjection(set, K)
  <2>1. f \in [set -> K] /\ \A k \in K : \E e \in set : f[e] = k
    OBVIOUS
  <2> QED  BY <2>1, Zenon DEF Surjection
<1> HIDE DEF f
<1>3. IsFiniteSet(K)
  BY <1>2, FS_Surjection, Zenon
<1>4. /\ n \in Nat /\ a \in [1..n -> K] /\ Rising(a)
      /\ \A k \in K : \E i \in 1..n : a[i] = k
  <2> HIDE DEF K
  <2> QED  BY <1>1, <1>3, AscendingLists, Zenon
<1>5. s = [i \in DOMAIN a |-> CHOOSE e \in set : e.dst.start = a[i]]
  BY Zenon DEF ByDestination
<1> HIDE DEF n, a, s
<1>6. DOMAIN a = 1..n
  BY <1>4
<1>7. \A i \in 1..n : s[i] \in set /\ s[i].dst.start = a[i]
  <2> SUFFICES ASSUME NEW i \in 1..n PROVE s[i] \in set /\ s[i].dst.start = a[i]
    OBVIOUS
  <2>1. \E e \in set : e.dst.start = a[i]
    BY <1>4
  <2> QED  BY <2>1, <1>5, <1>6
<1>8. s \in [1..n -> set] /\ DOMAIN s = 1..n
  BY <1>5, <1>6, <1>7
<1>9. s \in Seq(set) /\ Len(s) = n
  <2>1. s \in Seq(set)
    BY <1>4, <1>8, SeqDef
  <2> QED  BY <2>1, <1>4, <1>8, LenProperties
<1>10. ASSUME NEW i \in 1..n, NEW j \in 1..n, i < j PROVE s[i].dst.start # s[j].dst.start
  <2>1. a[i] < a[j] /\ a[i] \in Int /\ a[j] \in Int
    BY <1>1, <1>4, <1>6, <1>10 DEF Rising
  <2> QED  BY <2>1, <1>7
<1>11. ASSUME NEW i \in 1..n, NEW j \in 1..n, i # j PROVE s[i] # s[j]
  <2>1. i < j \/ j < i
    BY <1>11
  <2> QED  BY <2>1, <1>10
<1>12. NoneTwice(s)
  BY <1>9, <1>11 DEF NoneTwice
<1>13. ASSUME NEW e \in set PROVE \E i \in DOMAIN s : s[i] = e
  <2>1. PICK i \in 1..n : a[i] = e.dst.start
    BY <1>4
  <2> QED  BY <2>1, <1>7, <1>8 DEF WritesDiffer
<1>14. ToSet(s) = set
  BY <1>7, <1>8, <1>13 DEF ToSet
<1> QED  BY <1>9, <1>12, <1>14 DEF s

(* What a list joined of two has.                                          *)
LEMMA JoinedLists ==
    ASSUME NEW A, NEW s \in Seq(A), NEW t \in Seq(A)
    PROVE  /\ s \o t \in Seq(A)
           /\ ToSet(s \o t) = ToSet(s) \union ToSet(t)
           /\ NoneTwice(s) /\ NoneTwice(t) /\ ToSet(s) \intersect ToSet(t) = {} => NoneTwice(s \o t)
           /\ \A i \in 1..Len(s) : (s \o t)[i] = s[i]
           /\ \A i \in 1..Len(s \o t) : i \in 1..Len(s) \/ (s \o t)[i] \in ToSet(t)
<1> DEFINE u == s \o t
           n == Len(s)
           m == Len(t)
<1>1. /\ u \in Seq(A) /\ Len(u) = n + m /\ n \in Nat /\ m \in Nat
      /\ \A i \in 1..(n + m) : u[i] = IF i <= n THEN s[i] ELSE t[i - n]
  BY ConcatProperties, LenProperties
<1>2. DOMAIN s = 1..n /\ DOMAIN t = 1..m /\ DOMAIN u = 1..(n + m)
  BY <1>1, LenProperties
<1> HIDE DEF u, n, m
<1>3. \A i \in 1..n : i \in 1..(n + m) /\ u[i] = s[i]
  BY <1>1
<1>4. \A i \in 1..m : n + i \in 1..(n + m) /\ u[n + i] = t[i]
  <2> SUFFICES ASSUME NEW i \in 1..m PROVE n + i \in 1..(n + m) /\ u[n + i] = t[i]
    OBVIOUS
  <2>1. n + i \in 1..(n + m) /\ ~(n + i <= n) /\ (n + i) - n = i
    BY <1>1
  <2> QED  BY <2>1, <1>1
<1>5. \A k \in 1..(n + m) : (k \in 1..n /\ u[k] = s[k]) \/ (k - n \in 1..m /\ u[k] = t[k - n])
  BY <1>1
<1>6. ToSet(u) = ToSet(s) \union ToSet(t)
  BY <1>2, <1>3, <1>4, <1>5 DEF ToSet
<1>7. ASSUME NoneTwice(s), NoneTwice(t), ToSet(s) \intersect ToSet(t) = {} PROVE NoneTwice(u)
  <2>1. /\ \A i, j \in 1..n : i # j => s[i] # s[j]
        /\ \A i, j \in 1..m : i # j => t[i] # t[j]
    BY <1>7 DEF NoneTwice, n, m
  <2>2. \A i \in 1..n, j \in 1..m : s[i] # t[j]
    BY <1>2, <1>7 DEF ToSet
  <2>3. ASSUME NEW i \in 1..(n + m), NEW j \in 1..(n + m), i # j PROVE u[i] # u[j]
    <3>1. i - n # j - n
      BY <1>1, <2>3
    <3> QED  BY <2>1, <2>2, <2>3, <3>1, <1>5
  <2> QED  BY <2>3, <1>1 DEF NoneTwice
<1>8. \A i \in 1..Len(u) : i \in 1..n \/ u[i] \in ToSet(t)
  BY <1>1, <1>2, <1>5, Zenon DEF ToSet
<1> QED  BY <1>1, <1>3, <1>6, <1>7, <1>8 DEF u, n

(* A list without repetition has as many operations as its length.         *)
LEMMA CountsOnce ==
    ASSUME NEW A, NEW s \in Seq(A), NoneTwice(s)
    PROVE  IsFiniteSet(ToSet(s)) /\ Cardinality(ToSet(s)) = Len(s)
<1>1. Len(s) \in Nat /\ DOMAIN s = 1..Len(s) /\ s \in [1..Len(s) -> A]
  BY LenProperties
<1>2. s \in [1..Len(s) -> ToSet(s)] /\ \A x \in ToSet(s) : \E i \in 1..Len(s) : s[i] = x
  BY <1>1 DEF ToSet
<1>3. s \in Surjection(1..Len(s), ToSet(s))
  BY <1>2, Zenon DEF Surjection
<1>4. s \in Injection(1..Len(s), ToSet(s))
  BY <1>2 DEF Injection, IsInjective, NoneTwice
<1>5. ExistsBijection(1..Len(s), ToSet(s))
  BY <1>3, <1>4, Zenon DEF ExistsBijection, Bijection
<1> QED  BY <1>1, <1>5, FS_CountingElements, FS_NatBijection

-----------------------------------------------------------------------------
(* What each of a list of operations that write apart is.                  *)
LEMMA OperationFields ==
    ASSUME NEW op \in CowMergeOperations
    PROVE  /\ op.src \in Solid /\ op.dst \in Solid
           /\ op.src.start \in Nat /\ End(op.src) \in Nat /\ op.src.start < End(op.src)
           /\ op.dst.start \in Nat /\ End(op.dst) \in Nat /\ op.dst.start < End(op.dst)
<1>1. op.src \in Solid /\ op.dst \in Solid
  BY DEF CowMergeOperations
<1> QED  BY <1>1, RealFields

(* They are told apart by where they write, and counted by the list.       *)
LEMMA OperationsOf ==
    ASSUME NEW operations, WriteApart(operations), NEW all, all = ToSet(operations)
    PROVE  /\ IsFiniteSet(all) /\ Cardinality(all) = Len(operations) /\ WritesDiffer(all)
           /\ \A a, b \in all : a # b => End(a.dst) <= b.dst.start \/ End(b.dst) <= a.dst.start
<1> DEFINE n == Len(operations)
<1>1. operations \in Seq(CowMergeOperations) /\ n \in Nat /\ DOMAIN operations = 1..n
  BY LenProperties DEF WriteApart
<1>2. \A i \in 1..n : operations[i] \in CowMergeOperations
  BY <1>1, ElementOfSeq
<1>3. \A i, j \in 1..n : i < j => End(operations[i].dst) <= operations[j].dst.start
  BY <1>1 DEF WriteApart
<1> HIDE DEF n
<1>4. \A x \in all : \E i \in 1..n : operations[i] = x
  BY <1>1 DEF ToSet
<1>5. ASSUME NEW a \in all, NEW b \in all, a # b
      PROVE  End(a.dst) <= b.dst.start \/ End(b.dst) <= a.dst.start
  <2>1. PICK i \in 1..n : operations[i] = a
    BY <1>4
  <2>2. PICK j \in 1..n : operations[j] = b
    BY <1>4
  <2>3. i < j \/ j < i
    BY <2>1, <2>2, <1>5
  <2> QED  BY <2>1, <2>2, <2>3, <1>3
<1>6. \A a, b \in all : a # b => End(a.dst) <= b.dst.start \/ End(b.dst) <= a.dst.start
  BY <1>5
<1>7. all \subseteq CowMergeOperations
  BY <1>2, <1>4
<1>8. \A a, b \in all : a.dst.start = b.dst.start => a = b
  <2> SUFFICES ASSUME NEW a \in all, NEW b \in all, a # b PROVE a.dst.start # b.dst.start
    OBVIOUS
  <2>1. a \in CowMergeOperations /\ b \in CowMergeOperations
    BY <1>7
  <2>2. /\ a.dst.start \in Nat /\ End(a.dst) \in Nat /\ a.dst.start < End(a.dst)
        /\ b.dst.start \in Nat /\ End(b.dst) \in Nat /\ b.dst.start < End(b.dst)
    BY <2>1, OperationFields
  <2> QED  BY <2>2, <1>5
<1>9. NoneTwice(operations)
  <2> SUFFICES ASSUME NEW i \in 1..n, NEW j \in 1..n, i # j PROVE operations[i] # operations[j]
    BY DEF NoneTwice, n
  <2>1. i < j \/ j < i
    OBVIOUS
  <2>2. \A k \in 1..n : LET d == operations[k].dst
                        IN  d.start \in Nat /\ End(d) \in Nat /\ d.start < End(d)
    BY <1>2, OperationFields
  <2> QED  BY <2>1, <2>2, <1>3
<1>10. IsFiniteSet(all) /\ Cardinality(all) = n
  BY <1>1, <1>9, CountsOnce DEF n
<1> QED  BY <1>6, <1>7, <1>8, <1>10 DEF WritesDiffer, n

(* FindDependency finds the others that write what an operation reads.     *)
LEMMA DependencyIs ==
    ASSUME NEW operations, WriteApart(operations), NEW op \in ToSet(operations)
    PROVE  /\ FindDependency(operations, op) \subseteq ToSet(operations)
           /\ \A b \in ToSet(operations) :
                b \in FindDependency(operations, op) <=>
                    b # op /\ BlocksOf(b.dst) \intersect BlocksOf(op.src) # {}
<1> DEFINE all == ToSet(operations)
           d == DOMAIN operations
           Low(x) == End(x.dst) - 1 >= op.src.start
           High(x) == x.dst.start <= End(op.src) - 1
           found == FindDependency(operations, op)
<1>1. all \subseteq CowMergeOperations
  BY OperationsOf DEF WritesDiffer
<1>2. all = {operations[i] : i \in d}
  BY DEF ToSet
<1>3. found = {operations[i] : i \in {i \in d : Low(operations[i])}
                                      \intersect {i \in d : High(operations[i])}} \ {op}
  BY DEF FindDependency
<1> HIDE DEF d, Low, High, found, all
<1>4. found = {b \in all : b # op /\ Low(b) /\ High(b)}
  BY <1>2, <1>3
<1>5. ASSUME NEW b \in all
      PROVE  Low(b) /\ High(b) <=> BlocksOf(b.dst) \intersect BlocksOf(op.src) # {}
  <2>1. op \in CowMergeOperations /\ b \in CowMergeOperations
    BY <1>1 DEF all
  <2> DEFINE x == op.src
             y == b.dst
  <2>2. /\ x.start \in Nat /\ End(x) \in Nat /\ x.start < End(x)
        /\ y.start \in Nat /\ End(y) \in Nat /\ y.start < End(y)
        /\ x \in Solid /\ y \in Solid
    BY <2>1, OperationFields
  <2>3. Low(b) <=> End(y) - 1 >= x.start
    BY DEF Low
  <2>4. High(b) <=> y.start <= End(x) - 1
    BY DEF High
  <2> HIDE DEF x, y
  <2>5. /\ \A z : z \in BlocksOf(x) <=> z \in Nat /\ x.start <= z /\ z < End(x)
        /\ \A z : z \in BlocksOf(y) <=> z \in Nat /\ y.start <= z /\ z < End(y)
    BY <2>2, RealFields
  <2>6. ASSUME Low(b), High(b) PROVE BlocksOf(y) \intersect BlocksOf(x) # {}
    <3> DEFINE z == IF x.start <= y.start THEN y.start ELSE x.start
    <3>1. z \in Nat /\ x.start <= z /\ z < End(x) /\ y.start <= z /\ z < End(y)
      BY <2>2, <2>3, <2>4, <2>6
    <3> QED  BY <3>1, <2>5
  <2>7. ASSUME NEW z, z \in BlocksOf(y), z \in BlocksOf(x) PROVE Low(b) /\ High(b)
    BY <2>2, <2>3, <2>4, <2>5, <2>7
  <2> QED  BY <2>6, <2>7 DEF x, y
<1> QED  BY <1>4, <1>5 DEF found, all

-----------------------------------------------------------------------------
(* The record of Generate() has these fields.                              *)
GenFields == {"operations", "after", "incoming", "free", "sequence", "raw"}

IsGen(gen) == gen = [field \in GenFields |-> gen[field]]

(* When the loop of Generate() begins its invariant holds.                 *)
LEMMA GenerateStarts ==
    ASSUME NEW operations, WriteApart(operations), NEW gen, gen = Generate(operations)
    PROVE  IsGen(gen) /\ gen.operations = operations /\ SequenceInv(gen)
<1> DEFINE all == ToSet(operations)
           after == [op \in all |-> FindDependency(operations, op)]
           blocked == UNION {after[op] : op \in all}
           incoming == [b \in blocked |-> Cardinality({op \in all : b \in after[op]})]
<1>1. gen = [operations |-> operations, after |-> after, incoming |-> incoming,
             free |-> all \ blocked, sequence |-> <<>>, raw |-> {}]
  BY DEF Generate
<1>2. blocked \subseteq all
  BY DependencyIs
<1> HIDE DEF all, after, incoming
<1>3. IsGen(gen)
  BY <1>1, Zenon DEF IsGen, GenFields
<1>4. /\ gen.operations = operations /\ gen.after = after /\ gen.incoming = incoming
      /\ gen.free = all \ blocked /\ gen.sequence = <<>> /\ gen.raw = {}
  BY <1>1
<1>5. ToSet(gen.sequence) = {} /\ Len(gen.sequence) = 0 /\ 1..Len(gen.sequence) = {}
  BY <1>4 DEF ToSet
<1>6. Left(gen) = all
  BY <1>4, <1>5 DEF Left, all
<1>7. \A b : Readers(gen, b) = {op \in all : b \in after[op]}
  BY <1>4, <1>6 DEF Readers
<1>8. DOMAIN gen.incoming = blocked
  BY <1>4 DEF incoming
<1>9. \A b \in blocked : gen.incoming[b] = Cardinality(Readers(gen, b))
  BY <1>4, <1>7, Zenon DEF incoming
<1>10. \A f \in gen.free : Readers(gen, f) = {}
  BY <1>4, <1>7
<1>11. ASSUME NEW b \in blocked PROVE gen.incoming[b] # 0
  <2>1. Readers(gen, b) # {}
    BY <1>7
  <2>2. IsFiniteSet(all) /\ Readers(gen, b) \in SUBSET all
    BY <1>7, OperationsOf DEF all
  <2>3. IsFiniteSet(Readers(gen, b))
    BY <2>2, FS_Subset
  <2> QED  BY <2>1, <2>3, <1>9, FS_EmptySet
<1> HIDE DEF blocked
<1>12. Left(gen) = gen.free \union DOMAIN gen.incoming
  BY <1>2, <1>4, <1>6, <1>8
<1>13. gen.after = [op \in ToSet(gen.operations) |-> FindDependency(gen.operations, op)]
  BY <1>4 DEF after, all
<1>14. gen.raw \subseteq ToSet(gen.operations) /\ gen.sequence \in Seq(ToSet(gen.operations) \ gen.raw)
  BY <1>4
<1>15. WriteApart(gen.operations)
  BY <1>4
<1> QED
  BY <1>3, <1>4, <1>5, <1>8, <1>9, <1>10, <1>11, <1>12, <1>13, <1>14, <1>15, Zenon DEF SequenceInv

(* What the invariant says, part by part.                                  *)
LEMMA InvariantSays ==
    ASSUME NEW gen, SequenceInv(gen)
    PROVE  /\ WriteApart(gen.operations)
           /\ gen.after = [op \in ToSet(gen.operations) |-> FindDependency(gen.operations, op)]
           /\ gen.raw \subseteq ToSet(gen.operations)
           /\ gen.sequence \in Seq(ToSet(gen.operations) \ gen.raw)
           /\ NoneTwice(gen.sequence)
           /\ Left(gen) = gen.free \union DOMAIN gen.incoming
           /\ \A b \in DOMAIN gen.incoming : gen.incoming[b] = Cardinality(Readers(gen, b))
           /\ \A b \in DOMAIN gen.incoming : gen.incoming[b] = 0 => b \in gen.free
           /\ \A f \in gen.free : Readers(gen, f) = {}
           /\ \A i \in 1..Len(gen.sequence) : Readers(gen, gen.sequence[i]) = {}
           /\ \A i, j \in 1..Len(gen.sequence) :
                j < i => gen.sequence[j] \notin gen.after[gen.sequence[i]]
BY Zenon DEF SequenceInv, NoneTwice

(* Those left, and those that read what one writes, are finitely many.     *)
LEMMA LeftIsFinite ==
    ASSUME NEW gen, SequenceInv(gen)
    PROVE  /\ Left(gen) \subseteq ToSet(gen.operations) /\ IsFiniteSet(Left(gen))
           /\ WritesDiffer(Left(gen))
           /\ \A b : IsFiniteSet(Readers(gen, b)) /\ Readers(gen, b) \subseteq Left(gen)
<1>1. WriteApart(gen.operations)
  BY InvariantSays, Zenon
<1>2. Left(gen) \in SUBSET ToSet(gen.operations)
  BY DEF Left
<1>3. IsFiniteSet(ToSet(gen.operations)) /\ WritesDiffer(ToSet(gen.operations))
  BY <1>1, OperationsOf
<1>4. IsFiniteSet(Left(gen))
  BY <1>2, <1>3, FS_Subset
<1>5. \A b : Readers(gen, b) \in SUBSET Left(gen)
  BY DEF Readers
<1>6. \A b : IsFiniteSet(Readers(gen, b))
  BY <1>4, <1>5, FS_Subset
<1> QED  BY <1>2, <1>3, <1>4, <1>5, <1>6 DEF WritesDiffer

(* When none is free some are blocked, and one of them is converted; it is *)
(* the only one merged in the round.                                       *)
LEMMA ConvertToRawIs ==
    ASSUME NEW gen, SequenceInv(gen), DOMAIN gen.incoming # {}
    PROVE  /\ ConvertToRaw(gen) \subseteq DOMAIN gen.incoming
           /\ gen.free = {} => ConvertToRaw(gen) # {}
           /\ gen.free # {} => ConvertToRaw(gen) = {}
<1> DEFINE blocked == DOMAIN gen.incoming
           starts == {op.dst.start : op \in blocked}
           First(op) == \A b \in blocked : op = b \/ OpBefore(op, b)
<1>1. blocked \subseteq Left(gen) /\ WritesDiffer(Left(gen))
  <2>1. Left(gen) = gen.free \union blocked
    BY InvariantSays, Zenon
  <2> QED  BY <2>1, LeftIsFinite
<1>2. /\ \A op \in blocked : op.dst.start \in Nat
      /\ \A a, b \in blocked : a.dst.start = b.dst.start => a = b
  <2>1. \A op \in blocked : op \in CowMergeOperations
    BY <1>1 DEF WritesDiffer
  <2>2. \A op \in blocked : op.dst.start \in Nat
    BY <2>1, OperationFields
  <2> QED  BY <2>2, <1>1 DEF WritesDiffer
<1>3. ConvertToRaw(gen) = IF gen.free # {} THEN {} ELSE {CHOOSE op \in blocked : First(op)}
  BY DEF ConvertToRaw
<1>4. blocked # {}
  OBVIOUS
<1> HIDE DEF blocked
<1>5. PICK m \in starts : \A k \in starts : m <= k
  <2>1. starts \subseteq Nat /\ starts # {}
    BY <1>2, <1>4
  <2> HIDE DEF starts
  <2> QED  BY <2>1, LeastNumber, Zenon
<1>6. PICK op \in blocked : op.dst.start = m
  BY <1>5
<1>7. First(op)
  <2> SUFFICES ASSUME NEW b \in blocked, op # b PROVE op.dst.start < b.dst.start
    BY DEF OpBefore
  <2>1. op.dst.start <= b.dst.start
    BY <1>5, <1>6
  <2> QED  BY <2>1, <1>2
<1> HIDE DEF First
<1>8. (CHOOSE x \in blocked : First(x)) \in blocked
  BY <1>6, <1>7
<1> QED  BY <1>3, <1>8, Zenon DEF blocked

(* The count of an operation never falls below zero: Generate() does not   *)
(* fail in a round.                                                        *)
LEMMA CountIsExpected ==
    ASSUME NEW gen, SequenceInv(gen)
    PROVE  ~UnexpectedCount(gen)
<1> SUFFICES ASSUME UnexpectedCount(gen) PROVE FALSE
  OBVIOUS
<1> DEFINE Frees(b, op) == b \in gen.after[op] /\ (b \in gen.free => OpBefore(op, b))
<1>0. PICK b \in DOMAIN gen.incoming :
        gen.incoming[b] < Cardinality({op \in gen.free \union ConvertToRaw(gen) : Frees(b, op)})
  BY DEF UnexpectedCount
<1> DEFINE T == {op \in gen.free \union ConvertToRaw(gen) : Frees(b, op)}
<1>1. /\ gen.incoming[b] = Cardinality(Readers(gen, b))
      /\ gen.free \union ConvertToRaw(gen) \subseteq Left(gen)
  <2>1. gen.incoming[b] = Cardinality(Readers(gen, b))
    BY InvariantSays, Zenon
  <2>2. Left(gen) = gen.free \union DOMAIN gen.incoming
    BY InvariantSays, Zenon
  <2>3. ConvertToRaw(gen) \subseteq DOMAIN gen.incoming
    BY ConvertToRawIs
  <2> QED  BY <2>1, <2>2, <2>3
<1>2. T \in SUBSET Readers(gen, b)
  BY <1>1 DEF Readers
<1>3. IsFiniteSet(Readers(gen, b))
  BY LeftIsFinite
<1>4. Cardinality(T) <= Cardinality(Readers(gen, b)) /\ IsFiniteSet(T)
  BY <1>2, <1>3, FS_Subset
<1>5. Cardinality(T) \in Nat /\ Cardinality(Readers(gen, b)) \in Nat
  BY <1>3, <1>4, FS_CardinalityType
<1> QED  BY <1>0, <1>1, <1>4, <1>5

(* What a round merges or makes raw, and what it leaves in each field.     *)
Merged(gen) == gen.free \union ConvertToRaw(gen)

Freed(gen, b) == {op \in Merged(gen) : b \in gen.after[op]}

RoundMakes(gen, new) ==
    /\ IsGen(new) /\ new.operations = gen.operations /\ new.after = gen.after
    /\ new.sequence = gen.sequence \o ByDestination(gen.free)
    /\ new.raw = gen.raw \union ConvertToRaw(gen)
    /\ DOMAIN new.incoming = DOMAIN gen.incoming \ Merged(gen)
    /\ \A b \in DOMAIN gen.incoming \ Merged(gen) :
            new.incoming[b] = gen.incoming[b] - Cardinality(Freed(gen, b))
    /\ new.free = {b \in DOMAIN gen.incoming \ Merged(gen) :
                        new.incoming[b] = 0 /\ gen.incoming[b] > 0}

(* A round does that.                                                      *)
LEMMA RoundFields ==
    ASSUME NEW gen, IsGen(gen), NEW new, new = GenerateRound(gen)
    PROVE  RoundMakes(gen, new)
<1> DEFINE sequence == gen.sequence \o ByDestination(gen.free)
           raw == gen.raw \union ConvertToRaw(gen)
           incoming == [b \in DOMAIN gen.incoming \ Merged(gen) |->
                            gen.incoming[b] - Cardinality(Freed(gen, b))]
           free == {b \in DOMAIN incoming : incoming[b] = 0 /\ gen.incoming[b] > 0}
<1>1. new = [gen EXCEPT !.sequence = sequence, !.raw = raw, !.incoming = incoming, !.free = free]
  BY DEF GenerateRound, Merged, Freed
<1>2. DOMAIN incoming = DOMAIN gen.incoming \ Merged(gen)
  OBVIOUS
<1>3. \A b \in DOMAIN gen.incoming \ Merged(gen) :
        incoming[b] = gen.incoming[b] - Cardinality(Freed(gen, b))
  OBVIOUS
<1>4. free = {b \in DOMAIN gen.incoming \ Merged(gen) : incoming[b] = 0 /\ gen.incoming[b] > 0}
  BY <1>2
<1> HIDE DEF sequence, raw, incoming, free
<1>5. /\ IsGen(new) /\ new.operations = gen.operations /\ new.after = gen.after
      /\ new.sequence = sequence /\ new.raw = raw /\ new.incoming = incoming /\ new.free = free
  BY <1>1, Zenon DEF IsGen, GenFields
<1> QED  BY <1>2, <1>3, <1>4, <1>5 DEF RoundMakes, sequence, raw

(* The sequence and those free, as lists.                                  *)
LEMMA SequenceAndFree ==
    ASSUME NEW gen, SequenceInv(gen), NEW all, all = ToSet(gen.operations),
           NEW next, next = ByDestination(gen.free)
    PROVE  /\ gen.sequence \in Seq(all) /\ next \in Seq(all)
           /\ ToSet(gen.sequence) \subseteq all \ gen.raw /\ ToSet(next) = gen.free
           /\ gen.free \subseteq Left(gen) /\ DOMAIN gen.incoming \subseteq Left(gen)
           /\ NoneTwice(gen.sequence) /\ NoneTwice(next)
           /\ ToSet(gen.sequence) \intersect gen.free = {}
<1>1. /\ gen.sequence \in Seq(all \ gen.raw) /\ NoneTwice(gen.sequence)
      /\ Left(gen) = gen.free \union DOMAIN gen.incoming
  BY InvariantSays, Zenon
<1>2. gen.free \in SUBSET Left(gen) /\ DOMAIN gen.incoming \subseteq Left(gen)
  BY <1>1
<1>3. Left(gen) \subseteq all /\ IsFiniteSet(Left(gen)) /\ WritesDiffer(Left(gen))
  BY LeftIsFinite
<1>4. IsFiniteSet(gen.free) /\ WritesDiffer(gen.free)
  BY <1>2, <1>3, FS_Subset DEF WritesDiffer
<1>5. next \in Seq(gen.free) /\ NoneTwice(next) /\ ToSet(next) = gen.free
  BY <1>4, ByDestinationLists
<1>6. gen.sequence \in Seq(all)
  BY <1>1
<1>7. next \in Seq(all)
  BY <1>2, <1>3, <1>5
<1>8. ToSet(gen.sequence) \subseteq all \ gen.raw
  <2>1. \A i \in DOMAIN gen.sequence : gen.sequence[i] \in all \ gen.raw
    BY <1>1, LenProperties, ElementOfSeq
  <2> QED  BY <2>1 DEF ToSet
<1>9. ToSet(gen.sequence) \intersect gen.free = {}
  BY <1>2 DEF Left
<1> QED  BY <1>1, <1>2, <1>5, <1>6, <1>7, <1>8, <1>9

(* A round leaves fewer operations: none of those it merged, which are     *)
(* some.                                                                   *)
LEMMA RoundLeaves ==
    ASSUME NEW gen, IsGen(gen), SequenceInv(gen), DOMAIN gen.incoming # {},
           NEW new, new = GenerateRound(gen)
    PROVE  /\ ToSet(new.sequence) = ToSet(gen.sequence) \union gen.free
           /\ NoneTwice(new.sequence)
           /\ new.raw \subseteq ToSet(gen.operations)
           /\ new.sequence \in Seq(ToSet(gen.operations) \ new.raw)
           /\ Merged(gen) # {} /\ Merged(gen) \subseteq Left(gen)
           /\ Left(new) = Left(gen) \ Merged(gen)
           /\ \A b : Readers(new, b) = Readers(gen, b) \ Freed(gen, b)
           /\ \A b : Freed(gen, b) \subseteq Readers(gen, b)
<1> DEFINE all == ToSet(gen.operations)
           next == ByDestination(gen.free)
           raw == ConvertToRaw(gen)
<1>1. /\ gen.sequence \in Seq(all) /\ next \in Seq(all)
      /\ ToSet(gen.sequence) \subseteq all \ gen.raw /\ ToSet(next) = gen.free
      /\ gen.free \subseteq Left(gen) /\ DOMAIN gen.incoming \subseteq Left(gen)
      /\ NoneTwice(gen.sequence) /\ NoneTwice(next)
      /\ ToSet(gen.sequence) \intersect gen.free = {}
  BY SequenceAndFree
<1>2. /\ raw \subseteq DOMAIN gen.incoming /\ (gen.free = {} => raw # {})
      /\ (gen.free # {} => raw = {})
  BY ConvertToRawIs
<1>3. /\ new.operations = gen.operations /\ new.after = gen.after
      /\ new.sequence = gen.sequence \o next /\ new.raw = gen.raw \union raw
  BY RoundFields, Zenon DEF RoundMakes
<1>4. gen.raw \subseteq all
  BY InvariantSays, Zenon
<1> HIDE DEF next, raw
<1>5. /\ new.sequence \in Seq(all)
      /\ ToSet(new.sequence) = ToSet(gen.sequence) \union gen.free
      /\ NoneTwice(new.sequence)
  BY <1>1, <1>3, JoinedLists
<1>6. Merged(gen) = gen.free \union raw
  BY DEF Merged, raw
<1>7. Merged(gen) # {} /\ Merged(gen) \subseteq Left(gen)
  BY <1>1, <1>2, <1>6
<1>8. Left(gen) = all \ (ToSet(gen.sequence) \union gen.raw)
  BY DEF Left
<1>9. Left(new) = all \ (ToSet(new.sequence) \union new.raw)
  BY <1>3 DEF Left
<1>10. Left(new) = Left(gen) \ Merged(gen)
  BY <1>3, <1>5, <1>6, <1>8, <1>9
<1>11. \A b : Freed(gen, b) \subseteq Readers(gen, b)
  BY <1>7 DEF Freed, Readers
<1>12. \A b : Readers(new, b) = Readers(gen, b) \ Freed(gen, b)
  BY <1>3, <1>10 DEF Freed, Readers
<1>13. new.raw \subseteq all
  BY <1>1, <1>2, <1>3, <1>4, <1>8
<1>14. ToSet(new.sequence) \subseteq all \ new.raw
  BY <1>1, <1>2, <1>3, <1>5, <1>8
<1>15. new.sequence \in Seq(all \ new.raw)
  <2>1. \A i \in 1..Len(new.sequence) : new.sequence[i] \in all \ new.raw
    BY <1>5, <1>14, LenProperties DEF ToSet
  <2>2. Len(new.sequence) \in Nat /\ new.sequence = [i \in 1..Len(new.sequence) |-> new.sequence[i]]
    BY <1>5, LenProperties
  <2>3. new.sequence \in [1..Len(new.sequence) -> all \ new.raw]
    BY <2>1, <2>2
  <2> QED  BY <2>2, <2>3, SeqDef
<1> QED  BY <1>5, <1>7, <1>10, <1>11, <1>12, <1>13, <1>15

(* With those free the sequence is still in order, and nothing left reads  *)
(* what it wrote.                                                          *)
LEMMA FreeMayFollow ==
    ASSUME NEW gen, SequenceInv(gen), NEW u, u = gen.sequence \o ByDestination(gen.free)
    PROVE  /\ \A i \in 1..Len(u) : Readers(gen, u[i]) = {}
           /\ \A i, j \in 1..Len(u) : j < i => u[j] \notin gen.after[u[i]]
<1> DEFINE all == ToSet(gen.operations)
           s == gen.sequence
           t == ByDestination(gen.free)
           n == Len(s)
           m == Len(u)
<1>1. s \in Seq(all) /\ t \in Seq(all) /\ ToSet(t) = gen.free /\ gen.free \subseteq Left(gen)
  BY SequenceAndFree
<1>2. /\ \A f \in gen.free : Readers(gen, f) = {}
      /\ \A i \in 1..n : Readers(gen, s[i]) = {}
      /\ \A i, j \in 1..n : j < i => s[j] \notin gen.after[s[i]]
  BY InvariantSays, Zenon
<1>3. /\ \A i \in 1..n : u[i] = s[i]
      /\ \A i \in 1..m : i \in 1..n \/ u[i] \in gen.free
  <2>1. u = s \o t
    OBVIOUS
  <2> HIDE DEF s, t
  <2> QED  BY <1>1, <2>1, JoinedLists
<1>4. n \in Nat
  BY <1>1, LenProperties
<1> HIDE DEF s, t, n, m
<1>5. \A i \in 1..m : Readers(gen, u[i]) = {}
  BY <1>2, <1>3, Zenon
<1>6. ASSUME NEW i \in 1..m, NEW j \in 1..m, j < i PROVE u[j] \notin gen.after[u[i]]
  <2>1. CASE i \in 1..n
    <3>1. j \in 1..n
      BY <1>4, <1>6, <2>1
    <3> QED  BY <3>1, <2>1, <1>2, <1>3, <1>6, Zenon
  <2>2. CASE u[i] \in gen.free
    <3>1. u[i] \in Left(gen) /\ u[i] \notin Readers(gen, u[j])
      BY <2>2, <1>1, <1>5, Zenon
    <3> QED  BY <3>1, Zenon DEF Readers
  <2> QED  BY <2>1, <2>2, <1>3, Zenon
<1> QED  BY <1>5, <1>6, Zenon DEF m

(* A round keeps the invariant of the loop, with fewer operations left, so *)
(* the loop ends.                                                          *)
LEMMA RoundKeeps ==
    ASSUME NEW gen, IsGen(gen), SequenceInv(gen), DOMAIN gen.incoming # {},
           NEW new, new = GenerateRound(gen)
    PROVE  /\ IsGen(new) /\ new.operations = gen.operations
           /\ SequenceInv(new)
           /\ Cardinality(Left(new)) < Cardinality(Left(gen))
<1>1. /\ IsGen(new) /\ new.operations = gen.operations /\ new.after = gen.after
      /\ new.sequence = gen.sequence \o ByDestination(gen.free)
      /\ DOMAIN new.incoming = DOMAIN gen.incoming \ Merged(gen)
      /\ \A b \in DOMAIN gen.incoming \ Merged(gen) :
            new.incoming[b] = gen.incoming[b] - Cardinality(Freed(gen, b))
      /\ new.free = {b \in DOMAIN gen.incoming \ Merged(gen) :
                        new.incoming[b] = 0 /\ gen.incoming[b] > 0}
  <2>1. RoundMakes(gen, new)
    BY RoundFields
  <2> QED  BY <2>1 DEF RoundMakes
<1>2. /\ NoneTwice(new.sequence)
      /\ new.raw \subseteq ToSet(gen.operations)
      /\ new.sequence \in Seq(ToSet(gen.operations) \ new.raw)
      /\ Merged(gen) # {} /\ Merged(gen) \subseteq Left(gen)
      /\ Left(new) = Left(gen) \ Merged(gen)
      /\ \A b : Readers(new, b) = Readers(gen, b) \ Freed(gen, b)
      /\ \A b : Freed(gen, b) \subseteq Readers(gen, b)
  BY RoundLeaves, Zenon
<1>3. /\ WriteApart(gen.operations)
      /\ gen.after = [op \in ToSet(gen.operations) |-> FindDependency(gen.operations, op)]
      /\ Left(gen) = gen.free \union DOMAIN gen.incoming
      /\ \A b \in DOMAIN gen.incoming : gen.incoming[b] = Cardinality(Readers(gen, b))
      /\ \A b \in DOMAIN gen.incoming : gen.incoming[b] = 0 => b \in gen.free
  BY InvariantSays, Zenon
<1>4. IsFiniteSet(Left(gen)) /\ \A b : IsFiniteSet(Readers(gen, b))
  BY LeftIsFinite
<1>5. gen.free \subseteq Merged(gen)
  BY DEF Merged
<1>6. \A i \in 1..Len(new.sequence) : Readers(gen, new.sequence[i]) = {}
  BY <1>1, FreeMayFollow, Zenon
<1>7. \A i, j \in 1..Len(new.sequence) : j < i => new.sequence[j] \notin new.after[new.sequence[i]]
  <2>1. \A i, j \in 1..Len(new.sequence) : j < i => new.sequence[j] \notin gen.after[new.sequence[i]]
    BY <1>1, FreeMayFollow, Zenon
  <2> QED  BY <2>1, <1>1, Zenon
<1>8. \A i \in 1..Len(new.sequence) : Readers(new, new.sequence[i]) = {}
  BY <1>2, <1>6
<1>9. ASSUME NEW b \in DOMAIN gen.incoming \ Merged(gen)
      PROVE  /\ new.incoming[b] = Cardinality(Readers(new, b))
             /\ gen.incoming[b] > 0
  <2>1. Cardinality(Readers(gen, b) \ Freed(gen, b))
            = Cardinality(Readers(gen, b)) - Cardinality(Readers(gen, b) \intersect Freed(gen, b))
    BY <1>4, FS_Difference, Zenon
  <2>2. Readers(gen, b) \intersect Freed(gen, b) = Freed(gen, b)
    BY <1>2
  <2>3. Cardinality(Readers(gen, b)) \in Nat /\ gen.incoming[b] # 0
    BY <1>3, <1>4, <1>5, FS_CardinalityType
  <2>4. /\ new.incoming[b] = gen.incoming[b] - Cardinality(Freed(gen, b))
        /\ gen.incoming[b] = Cardinality(Readers(gen, b))
        /\ Readers(new, b) = Readers(gen, b) \ Freed(gen, b)
    BY <1>1, <1>2, <1>3
  <2>5. Cardinality(Readers(new, b)) = Cardinality(Readers(gen, b)) - Cardinality(Freed(gen, b))
    BY <2>1, <2>2, <2>4, Zenon
  <2> QED  BY <2>3, <2>4, <2>5
<1>10. \A f \in new.free : Readers(new, f) = {}
  <2> SUFFICES ASSUME NEW f \in new.free PROVE Readers(new, f) = {}
    OBVIOUS
  <2>1. f \in DOMAIN gen.incoming \ Merged(gen) /\ new.incoming[f] = 0
    BY <1>1
  <2>2. Cardinality(Readers(new, f)) = 0
    BY <2>1, <1>9
  <2>3. IsFiniteSet(Readers(new, f))
    <3>1. IsFiniteSet(Readers(gen, f) \ Freed(gen, f))
      BY <1>4, FS_Difference, Zenon
    <3> QED  BY <3>1, <1>2, Zenon
  <2> QED  BY <2>2, <2>3, FS_EmptySet
<1>11. \A b \in DOMAIN new.incoming : new.incoming[b] = 0 => b \in new.free
  BY <1>1, <1>9
<1>12. Left(new) = new.free \union DOMAIN new.incoming
  BY <1>1, <1>2, <1>3, <1>5
<1>13. Cardinality(Left(new)) < Cardinality(Left(gen))
  <2>1. Left(new) \in SUBSET Left(gen) /\ Left(new) # Left(gen)
    BY <1>2
  <2>2. /\ Cardinality(Left(new)) <= Cardinality(Left(gen)) /\ IsFiniteSet(Left(new))
        /\ Cardinality(Left(new)) # Cardinality(Left(gen))
    BY <2>1, <1>4, FS_Subset
  <2>3. Cardinality(Left(new)) \in Nat /\ Cardinality(Left(gen)) \in Nat
    BY <2>2, <1>4, FS_CardinalityType
  <2> QED  BY <2>2, <2>3
<1>14. \A b \in DOMAIN new.incoming : new.incoming[b] = Cardinality(Readers(new, b))
  BY <1>1, <1>9
<1>15. /\ WriteApart(new.operations)
       /\ new.after = [op \in ToSet(new.operations) |-> FindDependency(new.operations, op)]
       /\ new.raw \subseteq ToSet(new.operations)
       /\ new.sequence \in Seq(ToSet(new.operations) \ new.raw)
  BY <1>1, <1>2, <1>3
<1>16. SequenceInv(new)
  BY <1>2, <1>7, <1>8, <1>10, <1>11, <1>12, <1>14, <1>15, Zenon DEF SequenceInv, NoneTwice
<1> QED  BY <1>1, <1>13, <1>16

-----------------------------------------------------------------------------
(* An operation that does not depend on another reads none of what that    *)
(* one writes.                                                             *)
LEMMA IndependentReads ==
    ASSUME NEW gen, SequenceInv(gen), NEW a \in ToSet(gen.operations),
           NEW op \in ToSet(gen.operations), a # op, a \notin gen.after[op]
    PROVE  BlocksOf(a.dst) \intersect BlocksOf(op.src) = {}
<1>1. /\ WriteApart(gen.operations)
      /\ gen.after = [x \in ToSet(gen.operations) |-> FindDependency(gen.operations, x)]
  BY InvariantSays, Zenon
<1>2. a \notin FindDependency(gen.operations, op)
  BY <1>1
<1> QED  BY <1>1, <1>2, DependencyIs

(* When nothing is blocked any more the checks at the end of Generate()    *)
(* hold of the sequence, and so does what ValidateSequence() asks: none of *)
(* its operations reads a block that an earlier one wrote.                 *)
LEMMA EndIsSafe ==
    ASSUME NEW gen, IsGen(gen), SequenceInv(gen), DOMAIN gen.incoming = {},
           NEW done, done = GenerateDone(gen)
    PROVE  GenerateChecks(done) /\ ValidateSequence(done.sequence)
<1> DEFINE all == ToSet(gen.operations)
           t == ByDestination(gen.free)
           u == done.sequence
           n == Len(u)
<1>1. u = gen.sequence \o t /\ done.operations = gen.operations /\ done.raw = gen.raw
  <2> HIDE DEF t
  <2>1. done = [gen EXCEPT !.sequence = gen.sequence \o t, !.free = {}]
    BY DEF GenerateDone, t
  <2> QED  BY <2>1, Zenon DEF IsGen, GenFields
<1>2. /\ gen.sequence \in Seq(all) /\ t \in Seq(all)
      /\ ToSet(gen.sequence) \subseteq all \ gen.raw /\ ToSet(t) = gen.free
      /\ NoneTwice(gen.sequence) /\ NoneTwice(t)
      /\ ToSet(gen.sequence) \intersect gen.free = {}
  BY SequenceAndFree
<1>3. /\ WriteApart(gen.operations) /\ gen.raw \subseteq all
      /\ Left(gen) = gen.free \union DOMAIN gen.incoming
  BY InvariantSays, Zenon
<1>4. \A i, j \in 1..n : j < i => u[j] \notin gen.after[u[i]]
  BY <1>1, FreeMayFollow, Zenon
<1>5. gen.free = all \ (ToSet(gen.sequence) \union gen.raw)
  BY <1>3 DEF Left
<1>6. IsFiniteSet(all) /\ Cardinality(all) = Len(gen.operations) /\ WritesDiffer(all)
  BY <1>3, OperationsOf
<1>7. \A a, x \in all : a # x => End(a.dst) <= x.dst.start \/ End(x.dst) <= a.dst.start
  BY <1>3, OperationsOf
<1> HIDE DEF t, u
<1>8. u \in Seq(all) /\ ToSet(u) = ToSet(gen.sequence) \union gen.free /\ NoneTwice(u)
  BY <1>1, <1>2, JoinedLists
<1>9. n \in Nat /\ DOMAIN u = 1..n /\ \A i \in 1..n : u[i] \in all
  BY <1>8, LenProperties, ElementOfSeq
<1>10. \A i, j \in 1..n : i # j => u[i] # u[j]
  BY <1>8 DEF NoneTwice
<1>11. Cardinality(ToSet(u)) = n /\ IsFiniteSet(ToSet(u))
  BY <1>8, CountsOnce, Zenon
<1> HIDE DEF n, all
<1>12. Len(done.operations) = n + Cardinality(done.raw)
  <2>1. all = ToSet(u) \union gen.raw /\ ToSet(u) \intersect gen.raw = {}
    BY <1>2, <1>3, <1>5, <1>8
  <2>2. IsFiniteSet(gen.raw) /\ gen.raw \in SUBSET all
    BY <1>3, <1>6, FS_Subset
  <2>3. Cardinality(all) = n + Cardinality(gen.raw) - Cardinality({})
    BY <2>1, <2>2, <1>11, FS_Union
  <2>4. Cardinality({}) = 0 /\ Cardinality(gen.raw) \in Nat
    BY <2>2, FS_EmptySet, FS_CardinalityType
  <2> QED  BY <2>3, <2>4, <1>1, <1>6, <1>9
<1>13. \A i \in 1..n : u[i] \in CowMergeOperations
  BY <1>6, <1>9 DEF WritesDiffer
<1>14. ASSUME NEW i \in 1..n, NEW j \in 1..n, j < i PROVE ~ExtentsOverlap(u[j].dst, u[i].dst)
  <2>1. i # j /\ u[i] # u[j]
    BY <1>9, <1>10, <1>14
  <2>2. End(u[j].dst) <= u[i].dst.start \/ End(u[i].dst) <= u[j].dst.start
    BY <2>1, <1>7, <1>9
  <2>3. /\ u[i].dst \in Solid /\ u[i].dst.start \in Nat /\ End(u[i].dst) \in Nat
        /\ u[j].dst \in Solid /\ u[j].dst.start \in Nat /\ End(u[j].dst) \in Nat
    BY <1>13, OperationFields
  <2> QED  BY <2>2, <2>3, OverlapMeans
<1>15. GenerateChecks(done)
  <2>1. u = done.sequence /\ n = Len(done.sequence)
    BY DEF u, n
  <2> QED  BY <2>1, <1>9, <1>12, <1>14 DEF GenerateChecks
<1>16. ASSUME NEW i \in 1..n
       PROVE  ~OverlapsWithExtent(AddExtents(NoRanges, [j \in 1..(i - 1) |-> u[j].dst]), u[i].src)
  <2> DEFINE w == [j \in 1..(i - 1) |-> u[j].dst]
             visited == AddExtents(NoRanges, w)
             blocks == BlocksIn({w[j] : j \in 1..Len(w)})
  <2>1. i - 1 \in Nat /\ \A j \in 1..(i - 1) : j \in 1..n /\ j < i
    BY <1>9
  <2>2. \A j \in 1..(i - 1) : u[j].dst \in Solid
    BY <2>1, <1>13, OperationFields
  <2>3. w \in Seq(Solid) /\ Len(w) = i - 1 /\ \A j \in 1..(i - 1) : w[j] = u[j].dst
    <3>1. w \in [1..(i - 1) -> Solid]
      BY <2>2
    <3> QED  BY <3>1, <2>1, SeqDef, LenProperties
  <2> HIDE DEF w
  <2>4. RangesInv(visited, blocks)
    BY <2>3, AddAllIsExact
  <2>5. ASSUME NEW x, x \in blocks, x \in BlocksOf(u[i].src) PROVE FALSE
    <3>1. PICK j \in 1..(i - 1) : x \in BlocksOf(u[j].dst)
      BY <2>3, <2>5 DEF BlocksIn
    <3>2. j \in 1..n /\ j < i /\ j # i
      BY <2>1
    <3>3. u[j] \in all /\ u[i] \in all /\ u[j] # u[i] /\ u[j] \notin gen.after[u[i]]
      BY <3>2, <1>4, <1>9, <1>10
    <3>4. BlocksOf(u[j].dst) \intersect BlocksOf(u[i].src) = {}
      BY <3>3, IndependentReads DEF all
    <3> QED  BY <3>1, <3>4, <2>5
  <2>6. u[i].src \in Solid
    BY <1>13, OperationFields
  <2> HIDE DEF visited, blocks
  <2>7. ~OverlapsWithExtent(visited, u[i].src)
    BY <2>4, <2>5, <2>6, OverlapsIsExact
  <2> QED  BY <2>7 DEF visited, w
<1>17. ValidateSequence(u)
  BY <1>9, <1>16 DEF ValidateSequence
<1> QED  BY <1>15, <1>17 DEF u

-----------------------------------------------------------------------------
(* A PartitionProcessor has these fields.                                  *)
TaskFields == {"part", "state", "aops", "procs", "gen"}

IsTask(t) == t = [field \in TaskFields |-> t[field]]

(* Its loop counts right, if its operations write apart.                   *)
LoopRight(t) ==
    t.state = "merging" => IsGen(t.gen) /\ (WriteApart(t.gen.operations) => SequenceInv(t.gen))

TaskOK(t) == IsTask(t) /\ LoopRight(t)

AllLoopsRight == tasks = [n \in DOMAIN tasks |-> tasks[n]] /\ \A n \in DOMAIN tasks : TaskOK(tasks[n])

(* One processor goes on.                                                  *)
LEMMA OneGoesOn ==
    ASSUME AllLoopsRight, NEW n \in DOMAIN tasks, NEW t, TaskOK(t), NEW blobs, Becomes(n, t, blobs)
    PROVE  AllLoopsRight'
<1>1. tasks' = [tasks EXCEPT ![n] = t]
  BY DEF Becomes
<1>2. tasks = [m \in DOMAIN tasks |-> tasks[m]] /\ \A m \in DOMAIN tasks : TaskOK(tasks[m])
  BY DEF AllLoopsRight
<1>3. tasks' = [m \in DOMAIN tasks |-> IF m = n THEN t ELSE tasks[m]]
  BY <1>1, <1>2, Zenon
<1>4. DOMAIN tasks' = DOMAIN tasks /\ tasks' = [m \in DOMAIN tasks' |-> tasks'[m]]
  BY <1>3
<1>5. \A m \in DOMAIN tasks' : TaskOK(tasks'[m])
  <2> SUFFICES ASSUME NEW m \in DOMAIN tasks PROVE TaskOK(tasks'[m])
    BY <1>4
  <2>1. tasks'[m] = IF m = n THEN t ELSE tasks[m]
    BY <1>3
  <2> QED  BY <2>1, <1>2
<1> QED  BY <1>4, <1>5 DEF AllLoopsRight, TaskOK, IsTask, LoopRight, IsGen

(* A processor that is not merging has no loop.                            *)
LEMMA NoLoop == \A t : IsTask(t) /\ t.state # "merging" => TaskOK(t)
BY DEF TaskOK, LoopRight

(* The steps before the merge sequence.                                    *)
LEMMA BeforeTheLoop ==
    ASSUME AllLoopsRight, NEW n \in DOMAIN tasks,
           \/ DeltaReadPartition(n) \/ FullGenerateOperations(n)
           \/ \E i \in DOMAIN tasks[n].procs : Process(n, i)
           \/ JoinFiles(n) \/ JoinChunks(n)
    PROVE  AllLoopsRight'
<1> DEFINE t == tasks[n]
<1>1. IsTask(t)
  BY DEF AllLoopsRight, TaskOK
<1>2. \A u, blobs : IsTask(u) /\ u.state # "merging" /\ Becomes(n, u, blobs) => AllLoopsRight'
  BY NoLoop, OneGoesOn
<1>3. \A s, a, p, blobs :
        s # "merging" /\ Becomes(n, [t EXCEPT !.state = s, !.aops = a, !.procs = p], blobs)
            => AllLoopsRight'
  <2>1. \A s, a, p : /\ IsTask([t EXCEPT !.state = s, !.aops = a, !.procs = p])
                     /\ [t EXCEPT !.state = s, !.aops = a, !.procs = p].state = s
    BY <1>1, Zenon DEF IsTask, TaskFields
  <2> SUFFICES ASSUME NEW s, NEW a, NEW p, NEW blobs, s # "merging",
                      Becomes(n, [t EXCEPT !.state = s, !.aops = a, !.procs = p], blobs)
               PROVE  AllLoopsRight'
    BY Zenon
  <2> DEFINE u == [t EXCEPT !.state = s, !.aops = a, !.procs = p]
  <2>2. IsTask(u) /\ u.state # "merging" /\ Becomes(n, u, blobs)
    BY <2>1, Zenon
  <2> HIDE DEF u
  <2> QED  BY <2>2, <1>2, Zenon
<1>4. \A s, p, blobs :
        s # "merging" /\ Becomes(n, [t EXCEPT !.state = s, !.procs = p], blobs) => AllLoopsRight'
  <2>1. \A s, p : /\ IsTask([t EXCEPT !.state = s, !.procs = p])
                  /\ [t EXCEPT !.state = s, !.procs = p].state = s
    BY <1>1, Zenon DEF IsTask, TaskFields
  <2> QED  BY <2>1, <1>2, Zenon
<1>5. \A a, p, blobs :
        t.state # "merging" /\ Becomes(n, [t EXCEPT !.aops = a, !.procs = p], blobs)
            => AllLoopsRight'
  <2>1. \A a, p : /\ IsTask([t EXCEPT !.aops = a, !.procs = p])
                  /\ [t EXCEPT !.aops = a, !.procs = p].state = t.state
    BY <1>1, Zenon DEF IsTask, TaskFields
  <2> QED  BY <2>1, <1>2, Zenon
<1>6. \A p, blobs :
        t.state # "merging" /\ Becomes(n, [t EXCEPT !.procs = p], blobs) => AllLoopsRight'
  <2>1. \A p : IsTask([t EXCEPT !.procs = p]) /\ [t EXCEPT !.procs = p].state = t.state
    BY <1>1 DEF IsTask, TaskFields
  <2> QED  BY <2>1, <1>2, Zenon
<1>7. Fatal => AllLoopsRight'
  BY DEF Fatal, AllLoopsRight, TaskOK, IsTask, LoopRight, IsGen
<1>8. CASE DeltaReadPartition(n)
  BY <1>3, <1>7, <1>8, Zenon DEF DeltaReadPartition
<1>9. CASE FullGenerateOperations(n)
  BY <1>3, <1>9, Zenon DEF FullGenerateOperations
<1>10. CASE JoinFiles(n)
  <2>1. (IF t.part.vabc THEN "sequence" ELSE "done") # "merging"
    OBVIOUS
  <2> QED  BY <1>3, <1>7, <1>10, <2>1, Zenon DEF JoinFiles
<1>11. CASE JoinChunks(n)
  BY <1>4, <1>7, <1>11, Zenon DEF JoinChunks
<1>12. ASSUME NEW i, Process(n, i) PROVE AllLoopsRight'
  <2>1. CASE ReadChunk(n, i)
    BY <2>1, <1>6, Zenon DEF ReadChunk
  <2>2. CASE FragmentFile(n, i)
    BY <2>2, <1>6, Zenon DEF FragmentFile
  <2>3. CASE ProcessChunk(n, i)
    BY <2>3, <1>5, Zenon DEF ProcessChunk
  <2>4. CASE ReadFails(n, i)
    BY <2>4, <1>6, Zenon DEF ReadFails
  <2> QED  BY <1>12, <2>1, <2>2, <2>3, <2>4 DEF Process
<1> QED  BY <1>8, <1>9, <1>10, <1>11, <1>12

(* The merge sequence: its loop starts right, each round keeps it right,   *)
(* and it never comes to LOG(FATAL).                                       *)
LEMMA TheLoop ==
    ASSUME AllLoopsRight, NEW n \in DOMAIN tasks,
           CreateSequence(n) \/ SequenceRound(n) \/ FinishSequence(n)
    PROVE  AllLoopsRight'
<1> DEFINE t == tasks[n]
<1>1. IsTask(t) /\ LoopRight(t)
  BY DEF AllLoopsRight, TaskOK
<1>2. \A s, g : LET u == [t EXCEPT !.state = s, !.gen = g]
                IN  IsTask(u) /\ u.state = s /\ u.gen = g
  BY <1>1, Zenon DEF IsTask, TaskFields
<1>3. \A g : LET u == [t EXCEPT !.gen = g]
             IN  IsTask(u) /\ u.state = t.state /\ u.gen = g
  BY <1>1 DEF IsTask, TaskFields
<1>4. Fatal => AllLoopsRight'
  BY DEF Fatal, AllLoopsRight, TaskOK, IsTask, LoopRight, IsGen
<1>5. CASE CreateSequence(n)
  <2> DEFINE g == Generate(CreateOperations(t.aops))
             u == [t EXCEPT !.state = "merging", !.gen = g]
  <2>1. Fatal \/ Becomes(n, u, file)
    BY <1>5, Zenon DEF CreateSequence
  <2>2. g.operations = CreateOperations(t.aops) /\ IsGen(g)
    BY Zenon DEF Generate, IsGen, GenFields
  <2>3. WriteApart(g.operations) => SequenceInv(g)
    <3>1. g = Generate(CreateOperations(t.aops))
      OBVIOUS
    <3> HIDE DEF g
    <3> QED  BY <3>1, <2>2, GenerateStarts
  <2> HIDE DEF g
  <2>4. IsTask(u) /\ u.gen = g
    BY <1>2, Zenon
  <2>5. TaskOK(u)
    BY <2>2, <2>3, <2>4, Zenon DEF TaskOK, LoopRight
  <2> HIDE DEF u
  <2> QED  BY <2>1, <2>5, <1>4, OneGoesOn
<1>6. CASE SequenceRound(n)
  <2> DEFINE g == GenerateRound(t.gen)
             u == [t EXCEPT !.gen = g]
  <2>1. t.state = "merging" /\ DOMAIN t.gen.incoming # {} /\ (Fatal \/ Becomes(n, u, file))
    BY <1>6, Zenon DEF SequenceRound
  <2>2. IsGen(t.gen) /\ (WriteApart(t.gen.operations) => SequenceInv(t.gen))
    BY <1>1, <2>1 DEF LoopRight
  <2>3. IsGen(g) /\ g.operations = t.gen.operations
    BY <2>2, RoundFields, Zenon DEF RoundMakes
  <2>4. WriteApart(g.operations) => SequenceInv(g)
    <3>1. g = GenerateRound(t.gen)
      OBVIOUS
    <3> HIDE DEF g
    <3> QED  BY <3>1, <2>1, <2>2, <2>3, RoundKeeps
  <2> HIDE DEF g
  <2>5. IsTask(u) /\ u.gen = g
    BY <1>3, Zenon
  <2>6. TaskOK(u)
    BY <2>3, <2>4, <2>5, Zenon DEF TaskOK, LoopRight
  <2> HIDE DEF u
  <2> QED  BY <2>1, <2>6, <1>4, OneGoesOn
<1>7. CASE FinishSequence(n)
  <2> DEFINE u == [t EXCEPT !.state = "done", !.gen = GenerateDone(t.gen)]
  <2>1. Fatal \/ Becomes(n, u, file)
    BY <1>7, Zenon DEF FinishSequence
  <2>2. IsTask(u) /\ u.state = "done"
    BY <1>2, Zenon
  <2> HIDE DEF u
  <2>3. TaskOK(u)
    BY <2>2, NoLoop
  <2> QED  BY <2>1, <2>3, <1>4, OneGoesOn
<1> QED  BY <1>5, <1>6, <1>7

(* Every step of the generation keeps the loops right.                     *)
LEMMA LoopsStayRight == GeneratorSpec => []AllLoopsRight
<1>1. GeneratorInit => AllLoopsRight
  <2> SUFFICES ASSUME tasks = <<>> PROVE AllLoopsRight
    BY DEF GeneratorInit
  <2>1. DOMAIN tasks = {} /\ tasks = [n \in {} |-> tasks[n]]
    OBVIOUS
  <2> QED  BY <2>1 DEF AllLoopsRight
<1>2. AllLoopsRight /\ [GeneratorNext]_generatorVars => AllLoopsRight'
  <2> SUFFICES ASSUME AllLoopsRight, [GeneratorNext]_generatorVars PROVE AllLoopsRight'
    OBVIOUS
  <2> USE DEF AllLoopsRight
  <2>1. CASE UNCHANGED tasks
    BY <2>1 DEF TaskOK, IsTask, LoopRight, IsGen
  <2>2. CASE GenerateUpdatePayloadFile
    <3>1. PICK config \in Configs : tasks' = [n \in DOMAIN config |-> NewTask(config[n])]
      BY <2>2 DEF GenerateUpdatePayloadFile
    <3>2. \A part : IsTask(NewTask(part)) /\ NewTask(part).state # "merging"
      BY DEF NewTask, IsTask, TaskFields
    <3>3. \A part : TaskOK(NewTask(part))
      BY <3>2, NoLoop
    <3>4. /\ DOMAIN tasks' = DOMAIN config /\ tasks' = [n \in DOMAIN tasks' |-> tasks'[n]]
          /\ \A n \in DOMAIN tasks' : TaskOK(tasks'[n])
      BY <3>1, <3>3
    <3> QED  BY <3>4 DEF TaskOK, IsTask, LoopRight, IsGen
  <2>3. ASSUME NEW n \in DOMAIN tasks, PartitionStep(n) PROVE AllLoopsRight'
    BY <2>3, BeforeTheLoop, TheLoop, Zenon DEF PartitionStep
  <2>4. CASE WritePayload
    <3>1. tasks' = <<>> \/ UNCHANGED tasks
      BY <2>4 DEF WritePayload, Fatal
    <3>2. CASE tasks' = <<>>
      <4>1. DOMAIN tasks' = {} /\ tasks' = [n \in {} |-> tasks'[n]]
        BY <3>2
      <4> QED  BY <4>1
    <3> QED  BY <3>1, <3>2, <2>1
  <2>5. CASE WritePayloadFails \/ DiskFills \/ ChangeRanges \/ UNCHANGED generatorVars
    <3>1. UNCHANGED tasks
      BY <2>5 DEF WritePayloadFails, DiskFills, ChangeRanges, generatorVars
    <3> QED  BY <3>1, <2>1
  <2> QED  BY <2>2, <2>3, <2>4, <2>5 DEF GeneratorNext
<1> QED  BY <1>1, <1>2, PTL DEF GeneratorSpec

(* The loop of MergeSequenceGenerator counts right: in every processor     *)
(* that is in it.                                                          *)
LoopCounts ==
    \A n \in DOMAIN tasks :
        tasks[n].state = "merging" /\ WriteApart(tasks[n].gen.operations)
            => SequenceInv(tasks[n].gen)

(* In whatever order the processors of the partitions run, the loop of     *)
(* MergeSequenceGenerator::Generate() counts right for any number of       *)
(* operations with disjoint destinations: what is left is free or blocked  *)
(* by as many as it counts, and nothing left reads what the sequence has   *)
(* written.                                                                *)
THEOREM MergeLoopCounts == GeneratorSpec => []LoopCounts
<1>1. AllLoopsRight => LoopCounts
  BY DEF AllLoopsRight, LoopCounts, TaskOK, LoopRight
<1> QED  BY <1>1, LoopsStayRight, PTL

(* A processor in the loop comes nearer to its end, and never to           *)
(* LOG(FATAL): neither does a round find a wrong count, nor do the checks  *)
(* at the end, ValidateSequence() among them, find a fault in the          *)
(* sequence.                                                               *)
MergeGoesOn ==
    \A n \in DOMAIN tasks :
        WriteApart(tasks[n].gen.operations) =>
            /\ SequenceRound(n) =>
                    /\ phase' = phase /\ tasks'[n].gen = GenerateRound(tasks[n].gen)
                    /\ Cardinality(Left(tasks'[n].gen)) < Cardinality(Left(tasks[n].gen))
            /\ FinishSequence(n) => phase' = phase /\ tasks'[n].state = "done"

(* Generate() always finds a sequence: for operations with disjoint        *)
(* destinations every round merges some or makes one raw, and the sequence *)
(* passes the checks, so that no operation of it reads a block that an     *)
(* earlier one overwrote.                                                  *)
THEOREM MergeSequenceIsFound == GeneratorSpec => [][MergeGoesOn]_generatorVars
<1>1. AllLoopsRight => MergeGoesOn
  <2> SUFFICES ASSUME AllLoopsRight, NEW n \in DOMAIN tasks, WriteApart(tasks[n].gen.operations)
               PROVE  /\ SequenceRound(n) =>
                            /\ phase' = phase /\ tasks'[n].gen = GenerateRound(tasks[n].gen)
                            /\ Cardinality(Left(tasks'[n].gen)) < Cardinality(Left(tasks[n].gen))
                      /\ FinishSequence(n) => phase' = phase /\ tasks'[n].state = "done"
    BY Zenon DEF MergeGoesOn
  <2> DEFINE t == tasks[n]
  <2>1. IsTask(t) /\ LoopRight(t) /\ tasks = [m \in DOMAIN tasks |-> tasks[m]]
    BY DEF AllLoopsRight, TaskOK
  <2>2. ASSUME t.state = "merging" PROVE IsGen(t.gen) /\ SequenceInv(t.gen)
    BY <2>1, <2>2 DEF LoopRight
  <2>3. ASSUME SequenceRound(n)
        PROVE  /\ phase' = phase /\ tasks'[n].gen = GenerateRound(t.gen)
               /\ Cardinality(Left(tasks'[n].gen)) < Cardinality(Left(t.gen))
    <3> DEFINE g == GenerateRound(t.gen)
    <3>1. t.state = "merging" /\ DOMAIN t.gen.incoming # {}
      BY <2>3 DEF SequenceRound
    <3>2. ~UnexpectedCount(t.gen)
      BY <3>1, <2>2, CountIsExpected
    <3>3. Becomes(n, [t EXCEPT !.gen = g], file)
      BY <3>2, <2>3, Zenon DEF SequenceRound
    <3>4. \A x : [t EXCEPT !.gen = x].gen = x
      BY <2>1 DEF IsTask, TaskFields
    <3>5. phase' = phase /\ tasks' = [tasks EXCEPT ![n] = [t EXCEPT !.gen = g]]
      BY <3>3 DEF Becomes
    <3>6. tasks'[n].gen = g
      <4> HIDE DEF g
      <4> QED  BY <3>4, <3>5, Zenon
    <3>7. Cardinality(Left(g)) < Cardinality(Left(t.gen))
      BY <3>1, <2>2, RoundKeeps
    <3> QED  BY <3>5, <3>6, <3>7
  <2>4. ASSUME FinishSequence(n) PROVE phase' = phase /\ tasks'[n].state = "done"
    <3> DEFINE g == GenerateDone(t.gen)
    <3>1. t.state = "merging" /\ DOMAIN t.gen.incoming = {}
      BY <2>4 DEF FinishSequence
    <3>2. GenerateChecks(g) /\ ValidateSequence(g.sequence)
      BY <3>1, <2>2, EndIsSafe
    <3>3. Becomes(n, [t EXCEPT !.state = "done", !.gen = g], file)
      BY <3>2, <2>4, Zenon DEF FinishSequence
    <3>4. \A x : [t EXCEPT !.state = "done", !.gen = x].state = "done"
      BY <2>1 DEF IsTask, TaskFields
    <3>5. phase' = phase /\ tasks' = [tasks EXCEPT ![n] = [t EXCEPT !.state = "done", !.gen = g]]
      BY <3>3 DEF Becomes
    <3> HIDE DEF g
    <3>6. tasks'[n].state = "done"
      BY <3>4, <3>5, Zenon
    <3> QED  BY <3>5, <3>6
  <2> QED  BY <2>3, <2>4
<1>2. AllLoopsRight => [MergeGoesOn]_generatorVars
  BY <1>1
<1> QED  BY <1>2, LoopsStayRight, PTL
=============================================================================
