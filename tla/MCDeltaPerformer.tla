-------------------------- MODULE MCDeltaPerformer --------------------------
(* A payload of three partitions, the second without operations, and five  *)
(* operations, the second and the fourth without data.                     *)
EXTENDS DeltaPerformer

MCAcc == <<2, 2, 5>>
MCDataOffset == [n \in 0..5 |-> <<0, 1, 1, 2, 2, 3>>[n + 1]]
=============================================================================
