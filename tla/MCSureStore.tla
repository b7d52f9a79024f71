---------------------------- MODULE MCSureStore ----------------------------
(***************************************************************************)
(* Small instances of SureStore.                                           *)
(***************************************************************************)
EXTENDS SureStore, TLC

\* Scanners are interchangeable.
ScannerSymmetry == Permutations(Scanners)
=============================================================================
