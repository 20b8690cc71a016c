--------------------- MODULE MCChromeosUpdateAttempter ---------------------
(***************************************************************************)
(* An operating system and two DLCs, packages that can be excluded.  The   *)
(* delta does not install; the first URL of every package is bad in its    *)
(* own way, and one DLC has no other; http URLs come and go with the       *)
(* device policy, and a DLC that is installed may be left without any.     *)
(***************************************************************************)
EXTENDS ChromeosUpdateAttempter

Url(id, http) == [id |-> id, http |-> http]
Package(urls, delta, canExclude) == [urls |-> urls, delta |-> delta, canExclude |-> canExclude]

MCKind == [delta1 |-> "good", os1 |-> "down", os2 |-> "good",
           dlc1 |-> "corrupt", dlc2 |-> "good", bad |-> "corrupt", gone |-> "down",
           dlc |-> "good"]

MCDelta == << Package(<<Url("delta1", FALSE)>>, TRUE, FALSE) >>
MCFull == << Package(<<Url("os1", TRUE), Url("os2", FALSE)>>, FALSE, FALSE),
             Package(<<Url("dlc1", FALSE), Url("dlc2", FALSE)>>, FALSE, TRUE),
             Package(<<Url("bad", FALSE)>>, FALSE, TRUE) >>

MCDlc == << Package(<<Url("dlc", FALSE)>>, FALSE, FALSE),
            Package(<<Url("bad", TRUE), Url("dlc2", TRUE)>>, FALSE, FALSE) >>

Setting(policy, p2p) == [policy |-> policy, p2p |-> p2p]
Plain == {Setting("none", FALSE)}
MCSettings == Plain \union {Setting("scatter", FALSE), Setting("staging", FALSE), Setting("none", TRUE)}

(* A DLC whose first URL is a server that does not answer.                 *)
MCFullUnreachable ==
    << Package(<<Url("os2", FALSE)>>, FALSE, FALSE),
       Package(<<Url("gone", FALSE), Url("dlc2", FALSE)>>, FALSE, TRUE) >>
=============================================================================
