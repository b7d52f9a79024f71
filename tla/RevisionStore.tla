--------------------------- MODULE RevisionStore ---------------------------
(***************************************************************************)
(* What a weave file promises (package comment of weave/weave.go: a file   *)
(* that holds "multiple revisions of line-oriented data"): a list of       *)
(* revisions that only grows, by one at a time, each of them the text that *)
(* was written to it, and none ever changed again.                         *)
(***************************************************************************)
EXTENDS Integers, Sequences

CONSTANTS Texts,       \* the texts a client may write
          None         \* no text is being written

VARIABLES revisions,   \* the text of every revision, oldest first
          writing      \* the text of the writer that is open, or None

vars == <<revisions, writing>>

Init == revisions = << >> /\ writing = None

\* A writer is created, and is given its text.
Begin(t) == /\ writing = None
            /\ writing' = t
            /\ UNCHANGED revisions

\* The writer is closed: its text is the newest revision.
Commit == /\ writing # None
          /\ revisions' = Append(revisions, writing)
          /\ writing' = None

Next == (\E t \in Texts : Begin(t)) \/ Commit

Spec == Init /\ [][Next]_vars
=============================================================================
