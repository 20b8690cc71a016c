-------------------------- MODULE MCPayloadGenerator --------------------------
(* A partition of a few blocks in every arrangement of moved, new and zero *)
(* blocks.  Contents 1 to 5 are in an old image; 7 and 8 are new.  7 does  *)
(* not compress but a diff pays for it, 8 compresses.                      *)
EXTENDS PayloadInstall

Image(contents) == [b \in 0..(Len(contents) - 1) |-> contents[b + 1]]

Delta(old, new, files, verity, hard, soft, oldFs, zeroAllowed, vabc) ==
    [name |-> "delta", isDelta |-> TRUE, old |-> old, new |-> new, files |-> files,
     verity |-> verity, hard |-> hard, soft |-> soft, oldFs |-> oldFs,
     zeroAllowed |-> zeroAllowed, vabc |-> vabc]

(* Copies only: every way to move the blocks.                              *)
MoveParts ==
    {Delta(Image(<<1, 2, 3, 4, 5>>), new, <<>>, <<>>, -1, soft, FALSE, TRUE, TRUE) :
        new \in [0..4 -> 1..5], soft \in {2, 3}}

(* Files that share blocks, in images of different sizes.                  *)
FileParts ==
    {Delta(Image(old), new,
           <<[new |-> <<ExtentForRange(1, 2), ExtentForRange(4, 1)>>,
              old |-> <<ExtentForRange(0, 2)>>],
             [new |-> <<ExtentForRange(2, 2)>>, old |-> <<ExtentForRange(2, 1)>>]>>,
           IF hard = 2 THEN <<ExtentForRange(3, 1)>> ELSE <<>>, hard, 3, TRUE, hard = 2, TRUE) :
        old \in {<<1, 0, 2>>, <<2, 1, 0, 1, 1, 0>>},
        new \in {f \in [0..4 -> {0, 1, 7, 8}] : f[0] # 1},
        hard \in {-1, 2}}

FullParts ==
    {[Delta(Image(<<>>), new, <<>>, <<>>, hard, 2, FALSE, TRUE, FALSE) EXCEPT !.isDelta = FALSE] :
        new \in [0..3 -> {0, 7, 8}], hard \in {-1, 1}}

(* Payloads of two partitions whose threads share the blob file.           *)
TwoParts ==
    LET Part(contents, zeroAllowed) ==
            Delta(Image(<<1, 0, 2>>), Image(contents), <<>>, <<>>, -1, 2, TRUE, zeroAllowed, TRUE)
        Full(contents) ==
            [Delta(Image(<<>>), Image(contents), <<>>, <<>>, 1, 2, FALSE, TRUE, FALSE)
                EXCEPT !.isDelta = FALSE]
    IN  {<<Part(<<7, 2, 8>>, TRUE), Part(<<8, 0, 7>>, FALSE)>>,
         <<Part(<<2, 7, 8>>, TRUE), Full(<<8, 7>>)>>,
         <<Full(<<7, 8>>), Full(<<0, 7, 7>>)>>}

(* Payloads that are installed: dm-verity data made on the device; the two *)
(* files, with diffs over several extents; two partitions.                 *)
VerityImage(contents) ==
    LET tree == HashTree(contents)
    IN  Image(contents \o <<tree, Parity(<<contents[1], tree>>), Parity(<<contents[2], 0>>),
                            Parity(<<contents[3], 0>>)>>)

InstallConfigs ==
    {<<Delta(Image(<<1, 2, 3, 4>>), VerityImage(<<2, 1, 8>>), <<>>,
             <<ExtentForRange(3, 1), ExtentForRange(4, 3)>>, -1, 3, FALSE, TRUE, TRUE)>>,
     <<Delta(Image(<<1, 0, 2>>), Image(<<0, 7, 7, 8, 7>>),
             <<[new |-> <<ExtentForRange(1, 2), ExtentForRange(4, 1)>>,
                old |-> <<ExtentForRange(0, 2)>>]>>, <<>>, -1, 3, TRUE, TRUE, TRUE)>>,
     <<Delta(Image(<<1, 2, 3>>), Image(<<2, 3, 7>>), <<>>, <<>>, -1, 2, FALSE, TRUE, TRUE),
       Delta(Image(<<1, 0, 2>>), Image(<<8, 8, 1>>), <<>>, <<>>, -1, 2, TRUE, TRUE, TRUE)>>}

MCConfigs ==
    {<<part>> : part \in MoveParts \union FileParts \union FullParts}
        \union TwoParts \union InstallConfigs

Device(kind, bad, ecc) == [kind |-> kind, bad |-> bad, ecc |-> ecc]

MCDevicesFor(pl) ==
    IF \E config \in InstallConfigs :
            [n \in DOMAIN config |-> <<config[n].new, config[n].verity>>]
                = [n \in DOMAIN pl.parts |-> <<pl.parts[n].new_info, pl.parts[n].verity>>]
    THEN {Device(kind, {}, FALSE) : kind \in {"plain", "snapshot", "vabc"}}
            \union {Device(kind, {<<1, 0>>}, TRUE) : kind \in {"plain", "snapshot", "vabc"}}
            \union {Device("plain", {<<1, 0>>}, FALSE)}
    ELSE {}
===============================================================================
