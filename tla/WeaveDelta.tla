----------------------------- MODULE WeaveDelta -----------------------------
(***************************************************************************)
(* Adding revisions to a weave file: NewNewWeave (weave/initial.go) for    *)
(* the first one, DeltaWriter (weave/delta.go) for the others.             *)
(*                                                                         *)
(* DeltaWriter.Close reads the base revision back out of the weave, has    *)
(* the program `diff` compare it with the new text, and copies the old     *)
(* body to a new one while it follows the hunks of the diff, putting its   *)
(* own marks where the text changes.  An action is one record of that      *)
(* copy, or one step of its control.                                       *)
(*                                                                         *)
(* The files themselves (temporary files, renames, failures, crashes) are  *)
(* the subject of SureStore; here a body that is complete is the main      *)
(* file.                                                                   *)
(***************************************************************************)
EXTENDS Weave

CONSTANTS Texts,       \* the texts that are written
          MaxDeltas,   \* bound: revisions in the weave
          AnyBase,     \* FALSE: the base of a delta is the latest revision, as
                       \* store.WriteDelta chooses it; TRUE: any revision
          None         \* no text is being written

ASSUME TextsAssumption == /\ Texts \subseteq Seq(Lines)
                          /\ None \notin Texts

ASSUME BoundAssumption == MaxDeltas \in Nat /\ AnyBase \in BOOLEAN

VARIABLES
    deltas,    \* number of deltas in the header of the main file
    body,      \* records of the main file
    pc,        \* where the writer is
    base,      \* DeltaWriter.base
    text,      \* the new revision (the writer's temporary file), or None
    prior,     \* the base revision as getPrior extracted it
    out,       \* records of the new weave file so far
    parser,    \* the Parser of applyDiff
    hunk,      \* the diff command being applied
    oldAt,     \* lines of prior that the diff has dealt with
    newAt,     \* lines of text that the diff has dealt with
    isDone,    \* the parser has reached the end of the old body
    isAdding   \* an Insert mark of the new delta is open

file    == <<deltas, body>>
copy    == <<out, parser>>
diff    == <<hunk, oldAt, newAt>>
vars    == <<deltas, body, pc, base, text, prior, out, parser, hunk, oldAt,
             newAt, isDone, isAdding>>

\* The number AddDelta gives the new revision.
NewDelta == deltas + 1

-----------------------------------------------------------------------------
(***************************************************************************)
(* The parser.  `at` records of the old body have been passed on to the    *)
(* sink; a pending line (isPending) has been read and counted, but is not  *)
(* among them.                                                             *)
(***************************************************************************)

NewParser == [at |-> 0, dstate |-> << >>, keeping |-> FALSE, lineNo |-> 0,
              isPending |-> FALSE]

NoHunk == [cmd |-> "none", left |-> 0, right |-> 0, from |-> 0, to |-> 0]

\* Fault: the first line to delete is passed over.
TargetPast == CASE pc = "left"  -> hunk.left + 1
                [] pc = "right" -> hunk.right + 1
                [] OTHER        -> 0

\* The line number that the call of ParseTo in progress runs to.
Target == CASE pc = "left"  -> hunk.left
            [] pc = "right" -> hunk.right + 1
            [] OTHER        -> 0

Parsing == pc \in {"left", "right", "rest"}

AtEnd == parser.at = Len(body)

\* The record under the parser.
Current == body[parser.at + 1]

\* The text line under the parser is the one ParseTo was told to run to.
Found == /\ Current.op = "P"
         /\ parser.keeping
         /\ parser.lineNo + 1 = Target

Emit(r) == out' = Append(out, r)

\* ParseTo starts by passing on the line that the previous call stopped at.
FlushPending ==
    /\ Parsing
    /\ parser.isPending
    /\ Emit(Current)
    /\ parser' = [parser EXCEPT !.at = parser.at + 1, !.isPending = FALSE]
    /\ UNCHANGED <<file, pc, base, text, prior, diff, isDone, isAdding>>

\* Fault: lines that are not in the base are not copied.
CopyKeptLine ==
    /\ Parsing /\ ~ parser.isPending /\ ~ AtEnd
    /\ Current.op = "P"
    /\ ~ Found
    /\ out' = IF parser.keeping THEN Append(out, Current) ELSE out
    /\ parser' = [parser EXCEPT !.at = parser.at + 1,
                     !.lineNo = IF parser.keeping THEN parser.lineNo + 1
                                                  ELSE parser.lineNo]
    /\ UNCHANGED <<file, pc, base, text, prior, diff, isDone, isAdding>>

\* A line of text on the way is copied, and counted if it is in the base.
CopyLine ==
    /\ Parsing /\ ~ parser.isPending /\ ~ AtEnd
    /\ Current.op = "P"
    /\ ~ Found
    /\ Emit(Current)
    /\ parser' = [parser EXCEPT !.at = parser.at + 1,
                     !.lineNo = IF parser.keeping THEN parser.lineNo + 1
                                                  ELSE parser.lineNo]
    /\ UNCHANGED <<file, pc, base, text, prior, diff, isDone, isAdding>>

\* A control record is copied, and changes what the parser keeps; pop panics
\* if there is nothing for it to remove.
CopyControl ==
    /\ Parsing /\ ~ parser.isPending /\ ~ AtEnd
    /\ Current.op # "P"
    /\ Emit(Current)
    /\ LET ds == Control(parser.dstate, Current, base)
       IN  parser' = [parser EXCEPT !.at = parser.at + 1, !.dstate = ds,
                                    !.keeping = Keeps(ds)]
    /\ pc' = IF Bad(parser.dstate, Current) THEN "panic" ELSE pc
    /\ UNCHANGED <<file, base, text, prior, diff, isDone, isAdding>>

\* Fault: the line that ParseTo stops at is not counted.
StopUncounted ==
    /\ Parsing /\ ~ parser.isPending /\ ~ AtEnd
    /\ Found
    /\ parser' = [parser EXCEPT !.isPending = TRUE]
    /\ pc' = CASE pc = "left"                    -> "delete"
               [] pc = "right" /\ hunk.cmd = "a" -> "insert"
               [] pc = "right" /\ hunk.cmd # "a" -> "endDelete"
               [] OTHER                          -> "panic"
    /\ UNCHANGED <<file, base, text, prior, out, diff, isDone, isAdding>>

\* ParseTo returns nil: the line is pending.
StopAtLine ==
    /\ Parsing /\ ~ parser.isPending /\ ~ AtEnd
    /\ Found
    /\ parser' = [parser EXCEPT !.lineNo = parser.lineNo + 1, !.isPending = TRUE]
    /\ pc' = CASE pc = "left"                    -> "delete"
               [] pc = "right" /\ hunk.cmd = "a" -> "insert"
               [] pc = "right" /\ hunk.cmd # "a" -> "endDelete"
               [] OTHER                          -> "panic"
    /\ UNCHANGED <<file, base, text, prior, out, diff, isDone, isAdding>>

\* ParseTo returns io.EOF: an error if the first line to delete was wanted.
StopAtEnd ==
    /\ Parsing /\ ~ parser.isPending /\ AtEnd
    /\ pc' = CASE pc = "left"                    -> "failed"
               [] pc = "right" /\ hunk.cmd = "a" -> "insert"
               [] pc = "right" /\ hunk.cmd # "a" -> "endDelete"
               [] OTHER                          -> "rename"
    /\ isDone' = (isDone \/ pc = "right")
    /\ UNCHANGED <<file, base, text, prior, copy, diff, isAdding>>

ParseTo == \/ FlushPending \/ CopyLine \/ CopyControl
           \/ StopAtLine \/ StopAtEnd

-----------------------------------------------------------------------------
(***************************************************************************)
(* The hunks of `diff prior text`, one at a time.  Which of the many edit  *)
(* scripts diff chooses is not fixed: a hunk follows at least one common   *)
(* line (except the first), and what it leaves over is equal lines first,  *)
(* or nothing.  This includes the scripts diff prints.                     *)
(***************************************************************************)

SameNext(i, j) == \/ i = Len(prior) /\ j = Len(text)
                  \/ i < Len(prior) /\ j < Len(text) /\ prior[i + 1] = text[j + 1]

\* After `gap` common lines, `dl` lines of prior make way for `al` of text.
IsHunk(gap, dl, al) ==
    /\ gap > 0 \/ (oldAt = 0 /\ newAt = 0)
    /\ dl + al > 0
    /\ oldAt + gap + dl <= Len(prior)
    /\ newAt + gap + al <= Len(text)
    /\ \A i \in 1..gap : prior[oldAt + i] = text[newAt + i]
    /\ SameNext(oldAt + gap + dl, newAt + gap + al)

\* Fault: an addition names the line before the one it comes after.
HunkLineShort(gap, dl, al) ==
    [cmd   |-> IF al = 0 THEN "d" ELSE IF dl = 0 THEN "a" ELSE "c",
     left  |-> oldAt + gap + (IF dl = 0 THEN -1 ELSE 1),
     right |-> oldAt + gap + dl,
     from  |-> newAt + gap,
     to    |-> newAt + gap + al]

\* The command line of the hunk: an addition names the line it comes after,
\* the others the first and the last line to delete; `from` and `to` are the
\* lines of text that follow it with a '>'.
HunkLine(gap, dl, al) ==
    [cmd   |-> IF al = 0 THEN "d" ELSE IF dl = 0 THEN "a" ELSE "c",
     left  |-> oldAt + gap + (IF dl = 0 THEN 0 ELSE 1),
     right |-> oldAt + gap + dl,
     from  |-> newAt + gap,
     to    |-> newAt + gap + al]

RestIsSame == /\ Len(prior) - oldAt = Len(text) - newAt
              /\ \A i \in 1..Len(prior) - oldAt : prior[oldAt + i] = text[newAt + i]

-----------------------------------------------------------------------------
(***************************************************************************)
(* The first revision: NewNewWeave, the lines, Close.                      *)
(***************************************************************************)

NewNewWeave(t) ==
    /\ pc = "idle" /\ deltas = 0 /\ MaxDeltas > 0
    /\ text' = t
    /\ out' = <<Insert(1)>>
    /\ pc' = "first"
    /\ UNCHANGED <<file, base, prior, parser, diff, isDone, isAdding>>

WriteFirst ==
    /\ pc = "first" /\ Len(out) <= Len(text)
    /\ Emit(Plain(text[Len(out)]))
    /\ UNCHANGED <<file, pc, base, text, prior, parser, diff, isDone, isAdding>>

CloseNewWeave ==
    /\ pc = "first" /\ Len(out) = Len(text) + 1
    /\ Emit(End(1))
    /\ pc' = "rename"
    /\ UNCHANGED <<file, base, text, prior, parser, diff, isDone, isAdding>>

(***************************************************************************)
(* A later revision.                                                       *)
(***************************************************************************)

NewDeltaWriter(t, b) ==
    /\ pc = "idle" /\ deltas \in 1..MaxDeltas - 1
    /\ b \in IF AnyBase THEN 1..deltas ELSE {deltas}
    /\ text' = t /\ base' = b
    /\ pc' = "prior"
    /\ UNCHANGED <<file, prior, copy, diff, isDone, isAdding>>

\* getPrior: one whole pass over the main file.
GetPrior ==
    /\ pc = "prior"
    /\ IF Final(body, base).ok
       THEN prior' = Extract(body, base) /\ pc' = "open"
       ELSE UNCHANGED prior /\ pc' = "panic"
    /\ UNCHANGED <<file, base, text, copy, diff, isDone, isAdding>>

\* applyDiff up to its loop; the output of diff is not yet looked at.
StartApply ==
    /\ pc = "open"
    /\ out' = << >> /\ parser' = NewParser
    /\ hunk' = NoHunk /\ oldAt' = 0 /\ newAt' = 0
    /\ isDone' = FALSE /\ isAdding' = FALSE
    /\ pc' = "diff"
    /\ UNCHANGED <<file, base, text, prior>>

\* A command line of the diff: the Insert mark of the previous hunk is
\* closed, and the parser is sent to the first line to delete, or past the
\* line to add after.
NextHunk ==
    /\ pc = "diff"
    /\ \E gap, dl \in 0..Len(prior), al \in 0..Len(text) :
          /\ IsHunk(gap, dl, al)
          /\ hunk' = HunkLine(gap, dl, al)
          /\ oldAt' = oldAt + gap + dl
          /\ newAt' = newAt + gap
          /\ pc' = IF dl > 0 THEN "left" ELSE "right"
    /\ out' = IF isAdding THEN Append(out, End(NewDelta)) ELSE out
    /\ isAdding' = FALSE
    /\ UNCHANGED <<file, base, text, prior, parser, isDone>>

StartDelete ==
    /\ pc = "delete"
    /\ Emit(Delete(NewDelta))
    /\ pc' = "right"
    /\ UNCHANGED <<file, base, text, prior, parser, diff, isDone, isAdding>>

EndDelete ==
    /\ pc = "endDelete"
    /\ Emit(End(NewDelta))
    /\ pc' = IF hunk.cmd = "c" THEN "insert" ELSE "diff"
    /\ UNCHANGED <<file, base, text, prior, parser, diff, isDone, isAdding>>

StartInsert ==
    /\ pc = "insert"
    /\ Emit(Insert(NewDelta))
    /\ isAdding' = TRUE
    /\ pc' = "adding"
    /\ UNCHANGED <<file, base, text, prior, parser, diff, isDone>>

\* A line of the diff that starts with '>'.
AddLine ==
    /\ pc = "adding"
    /\ Emit(Plain(text[newAt + 1]))
    /\ newAt' = newAt + 1
    /\ pc' = IF newAt + 1 = hunk.to THEN "diff" ELSE "adding"
    /\ UNCHANGED <<file, base, text, prior, parser, hunk, oldAt, isDone, isAdding>>

\* Fault: the last Insert mark is not closed.
EndOfDiffOpen ==
    /\ pc = "diff" /\ RestIsSame
    /\ isAdding' = FALSE
    /\ pc' = IF isDone THEN "rename" ELSE "rest"
    /\ UNCHANGED <<file, base, text, prior, out, parser, diff, isDone>>

\* Fault: what is left of the old body is not copied.
EndOfDiffShort ==
    /\ pc = "diff" /\ RestIsSame
    /\ out' = IF isAdding THEN Append(out, End(NewDelta)) ELSE out
    /\ isAdding' = FALSE
    /\ pc' = "rename"
    /\ UNCHANGED <<file, base, text, prior, parser, diff, isDone>>

\* The diff is used up: the last Insert mark is closed, and what is left of
\* the old body is to be copied, unless the parser has seen its end.
EndOfDiff ==
    /\ pc = "diff" /\ RestIsSame
    /\ out' = IF isAdding THEN Append(out, End(NewDelta)) ELSE out
    /\ isAdding' = FALSE
    /\ pc' = IF isDone THEN "rename" ELSE "rest"
    /\ UNCHANGED <<file, base, text, prior, parser, diff, isDone>>

\* Close renames the new file to the main file (either kind of writer); the
\* writer and all it held are gone.
Rename ==
    /\ pc = "rename"
    /\ deltas' = NewDelta /\ body' = out
    /\ pc' = "idle"
    /\ base' = 0 /\ text' = None /\ prior' = << >>
    /\ out' = << >> /\ parser' = NewParser
    /\ hunk' = NoHunk /\ oldAt' = 0 /\ newAt' = 0
    /\ isDone' = FALSE /\ isAdding' = FALSE

-----------------------------------------------------------------------------
Init ==
    /\ deltas = 0 /\ body = << >>
    /\ pc = "idle"
    /\ base = 0 /\ text = None /\ prior = << >>
    /\ out = << >> /\ parser = NewParser
    /\ hunk = NoHunk /\ oldAt = 0 /\ newAt = 0
    /\ isDone = FALSE /\ isAdding = FALSE

First == (\E t \in Texts : NewNewWeave(t)) \/ WriteFirst \/ CloseNewWeave

ApplyDiff == \/ StartApply \/ NextHunk \/ StartDelete \/ EndDelete
             \/ StartInsert \/ AddLine \/ EndOfDiff \/ ParseTo

Later == \/ \E t \in Texts, b \in 1..deltas : NewDeltaWriter(t, b)
         \/ GetPrior
         \/ ApplyDiff

Next == First \/ Later \/ Rename

Spec == Init /\ [][Next]_vars

\* The writer is one goroutine and waits for nobody: once its client has
\* created it, it keeps running.
Running == pc # "idle" /\ Next

FairSpec == Spec /\ WF_vars(Running)

-----------------------------------------------------------------------------
(***************************************************************************)
(* Type invariant                                                          *)
(***************************************************************************)

Hunk == [cmd : {"none", "a", "c", "d"}, left : Nat, right : Nat,
         from : Nat, to : Nat]

ParserState == [at : Nat, dstate : DeltaState, keeping : BOOLEAN,
                lineNo : Nat, isPending : BOOLEAN]

PC == {"idle", "first", "prior", "open", "diff", "left", "delete", "right",
       "endDelete", "insert", "adding", "rest", "rename", "failed", "panic"}

\* Every variable has its type.
TypeOK ==
    /\ deltas \in Nat
    /\ body \in Seq(Record)
    /\ pc \in PC
    /\ base \in Nat
    /\ text \in Texts \cup {None}
    /\ prior \in Seq(Lines)
    /\ out \in Seq(Record)
    /\ parser \in ParserState
    /\ hunk \in Hunk
    /\ oldAt \in Nat /\ newAt \in Nat
    /\ isDone \in BOOLEAN /\ isAdding \in BOOLEAN

-----------------------------------------------------------------------------
(***************************************************************************)
(* Safety                                                                  *)
(***************************************************************************)

\* Adding a revision changes none of the revisions that are there, whichever
\* revision it is based on: the marks put into the body by applyDiff, and the
\* order in which push keeps the open marks, make every older delta read
\* exactly the lines it read before.
RevisionsKept ==
    [][\A d \in 1..deltas : Extract(body', d) = Extract(body, d)]_vars

\* No write fails over the contents of the file: the parser finds the line of
\* every hunk, and neither getPrior nor applyDiff meets an End record whose
\* mark is not open (the panic of pop).
NeverFails == pc \notin {"failed", "panic"}

\* The revision just written reads back as the text that was written.
ReadsBack == [][deltas' > deltas => Extract(body', deltas') = text]_vars

\* "deltaState is kept sorted with newest (largest) delta at element 0"
\* (weave/weave.go, at type deltaState), and no delta has two marks open at
\* once: otherwise pop could remove the wrong one of them.
NewestFirst ==
    \A i, j \in 1..Len(parser.dstate) :
        i < j => parser.dstate[i].delta > parser.dstate[j].delta

\* The main file has marks of its own deltas only, whatever delta it is read
\* for pop finds its mark, and all marks are closed at its end.
WellFormed ==
    /\ \A i \in 1..Len(body) : body[i].op # "P" => body[i].delta \in 1..deltas
    /\ \A d \in 1..deltas + 1 : Balanced(body, d)

-----------------------------------------------------------------------------
(***************************************************************************)
(* The invariant behind RevisionsKept.  While the old body is copied, a    *)
(* reader of the new body for an old delta is in the state of a reader of  *)
(* the old body, but for one entry at the head: the mark of the new delta  *)
(* that is open, if any.                                                   *)
(***************************************************************************)

Copying == pc \in {"diff", "left", "delete", "right", "endDelete", "insert",
                   "adding", "rest"} \/ (pc = "rename" /\ deltas > 0)

Deleting == pc = "endDelete" \/ (pc = "right" /\ hunk.cmd # "a")

Mark(d) ==
    IF Deleting THEN <<[delta |-> NewDelta, mode |-> DeleteMode(NewDelta, d)]>>
    ELSE IF isAdding THEN <<[delta |-> NewDelta, mode |-> InsertMode(NewDelta, d)]>>
    ELSE << >>

LockStep ==
    Copying =>
        \A d \in 1..deltas :
            LET new == Final(out, d)
                old == Reading(body, d)[parser.at]
            IN  /\ new.dstate = Mark(d) \o old.dstate
                /\ new.got = old.got
                /\ new.ok = old.ok

-----------------------------------------------------------------------------
(***************************************************************************)
(* The weave implements RevisionStore when every delta is based on the     *)
(* latest revision.                                                        *)
(***************************************************************************)

Abstract == INSTANCE RevisionStore
                WITH revisions <- [d \in 1..deltas |-> Extract(body, d)],
                     writing   <- text

\* Every step of a writer is a step of RevisionStore, or no step at all.
Implements == Abstract!Spec

-----------------------------------------------------------------------------
(***************************************************************************)
(* Liveness                                                                *)
(***************************************************************************)

\* Every writer that is created gets its revision into the file.
WriteFinishes == \A k \in 0..MaxDeltas :
                     (deltas = k /\ pc # "idle") ~> (deltas = k + 1 /\ pc = "idle")
=============================================================================
