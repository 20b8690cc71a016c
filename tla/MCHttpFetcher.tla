--------------------------- MODULE MCHttpFetcher ---------------------------
(***************************************************************************)
(* HttpFetcher for TLC: the ranges a DownloadAction asks for.  A fresh     *)
(* update wants one range, with or without a length; a resumed one may     *)
(* want the manifest and then the rest; one that has all its data wants    *)
(* nothing.                                                                *)
(***************************************************************************)
EXTENDS HttpFetcher

R(offset, length) == [offset |-> offset, length |-> length]
MCRequests == {<<>>, <<R(0, 1), R(2, 3)>>, <<R(1, 4)>>, <<R(0, 4)>>, <<R(0, 2), R(3, 0)>>}
=============================================================================
