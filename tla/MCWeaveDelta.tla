---------------------------- MODULE MCWeaveDelta ----------------------------
(***************************************************************************)
(* Small instances of WeaveDelta: texts of at most MaxLen lines.           *)
(***************************************************************************)
EXTENDS WeaveDelta

CONSTANT MaxLen        \* bound: lines in a text

MCTexts == BoundedSeq(Lines, MaxLen)

\* Lines are interchangeable.
LineSymmetry == Permutations(Lines)
=============================================================================
