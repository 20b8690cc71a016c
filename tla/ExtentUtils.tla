---------------------------- MODULE ExtentUtils ----------------------------
(***************************************************************************)
(* The lists of extents of payload_generator/extent_utils.cc.              *)
(***************************************************************************)
EXTENDS ExtentRanges, SequencesExt

AppendBlockToExtents(extents, block) ==
    IF extents # <<>> /\ block = (IF Last(extents).start = kSparseHole THEN kSparseHole
                                  ELSE End(Last(extents)))
    THEN ReplaceAt(extents, Len(extents), [Last(extents) EXCEPT !.num = @ + 1])
    ELSE Append(extents, ExtentForRange(block, 1))

NormalizeExtents(extents) ==
    FoldLeft(LAMBDA acc, e :
                IF acc # <<>> /\ End(Last(acc)) = e.start
                THEN ReplaceAt(acc, Len(acc), [Last(acc) EXCEPT !.num = @ + e.num])
                ELSE Append(acc, e),
             <<>>, extents)

ExtendExtents(extents, more) == NormalizeExtents(extents \o more)

(* The blocks offset .. offset + count - 1 of the list.                    *)
ExtentsSublist(extents, offset, count) ==
    LET end == offset + count
        Scan(acc, e) ==
            LET skip == Max({0, offset - acc.scanned})
                cut == Max({0, acc.scanned + e.num - end})
            IN  [scanned |-> acc.scanned + e.num,
                 out |-> IF acc.scanned < end /\ acc.scanned + e.num > offset
                         THEN Append(acc.out, ExtentForRange(e.start + skip, e.num - cut - skip))
                         ELSE acc.out]
    IN  IF count = 0 THEN <<>>
        ELSE FoldLeft(Scan, [scanned |-> 0, out |-> <<>>], extents).out
=============================================================================
