----------------------------- MODULE MCScanTree -----------------------------
(***************************************************************************)
(* A small instance of ScanTree: directory 0 has 1, 2 and 4 in it, and 1   *)
(* has 3.  There is a file in 2 and one in 3.  Two contents have the same  *)
(* size.                                                                   *)
(***************************************************************************)
EXTENDS ScanTree

MCParent == <<0, 0, 1, 0>>
MCIn     == <<2, 3>>
MCData   == {"a", "b"}
MCSize   == [x \in MCData |-> 1]
MCFirstIno  == [f \in Files |-> f]
MCFirstData == [i \in Inodes |-> "a"]
=============================================================================
