------------------------- MODULE MCUpdateAttempter -------------------------
(***************************************************************************)
(* UpdateAttempter for TLC: an action object is its kind and the attempt   *)
(* it was built for, so that two attempts never share one.                 *)
(***************************************************************************)
EXTENDS UpdateAttempter

MCActions == Kinds \X (0..MaxAttempts)
MCNoAction == <<"none", 0>>
=============================================================================
