-------------------------- MODULE WeaveDelta_proofs --------------------------
(***************************************************************************)
(* Proofs about WeaveDelta, for any lines, any set of texts, any number of *)
(* revisions and any choice of the base.                                   *)
(*                                                                         *)
(*   Typed               Spec => []TypeOK                                  *)
(*   InLockStep          Spec => []LockStep                                *)
(*   Kept                Spec => RevisionsKept                             *)
(*   AlwaysWellFormed    Spec => []WellFormed                              *)
(*   AlwaysWorks         Spec => []NeverFails                              *)
(*   AlwaysNewestFirst   Spec => []NewestFirst                             *)
(*                                                                         *)
(* and, if every delta is based on the latest revision,                    *)
(*                                                                         *)
(*   AlwaysReadsBack     Spec => ReadsBack                                 *)
(*   AlwaysImplements    Spec => Implements                                *)
(***************************************************************************)
EXTENDS WeaveDelta, Weave_proofs

-----------------------------------------------------------------------------
(***************************************************************************)
(* The control state of the writer, which TypeOK needs: where the parser   *)
(* and the diff can be at each pc.                                         *)
(***************************************************************************)

HunkApplies == pc \in {"left", "delete", "right", "endDelete", "insert"}

Shape ==
    /\ pc # "idle" => text \in Texts
    /\ pc = "first" => deltas = 0 /\ Len(out) > 0
    /\ parser.at <= Len(body)
    /\ parser.isPending => parser.at < Len(body)
    /\ isDone => parser.at = Len(body) /\ ~ parser.isPending
    /\ (pc = "rename" /\ deltas > 0) => parser.at = Len(body)
    /\ isAdding => pc \in {"diff", "adding"}
    /\ HunkApplies => /\ hunk.cmd \in {"a", "c", "d"}
                      /\ hunk.to <= Len(text)
                      /\ newAt = hunk.from
                      /\ hunk.cmd # "d" => newAt < hunk.to
    /\ pc \in {"left", "delete", "endDelete"} => hunk.cmd # "a"
    /\ pc = "insert" => hunk.cmd # "d"
    /\ pc = "adding" => isAdding /\ newAt < hunk.to /\ hunk.to <= Len(text)

\* Marks in the main file are of its deltas, marks in the new file also of
\* the new one.
Marks ==
    /\ \A i \in 1..Len(body) : body[i].op # "P" => body[i].delta < NewDelta
    /\ \A i \in 1..Len(out) : out[i].op # "P" => out[i].delta < NewDelta + 1

TInv == TypeOK /\ Shape /\ Marks

LEMMA TextLines ==
    ASSUME TInv, pc # "idle"
    PROVE  text \in Seq(Lines) /\ text \in Texts
  BY TextsAssumption DEF TInv, Shape

LEMMA ParserTyped ==
    ASSUME TInv
    PROVE  /\ parser \in ParserState
           /\ parser.at \in Nat /\ parser.dstate \in DeltaState
           /\ parser.keeping \in BOOLEAN /\ parser.lineNo \in Nat
           /\ parser.isPending \in BOOLEAN
  BY DEF TInv, TypeOK, ParserState

\* The record under the parser.
LEMMA CurrentRecord ==
    ASSUME TInv, parser.isPending \/ ~ AtEnd
    PROVE  /\ parser.at + 1 \in 1..Len(body)
           /\ Current = body[parser.at + 1]
           /\ Current \in Record
           /\ Current.op # "P" => Current.delta < NewDelta
<1>1. parser.at \in Nat /\ body \in Seq(Record) /\ Len(body) \in Nat
  BY ParserTyped DEF TInv, TypeOK
<1>2. parser.at < Len(body)
  BY <1>1 DEF TInv, Shape, AtEnd
<1>3. parser.at + 1 \in 1..Len(body)
  BY <1>1, <1>2
<1>4. body[parser.at + 1] \in Record
  BY <1>1, <1>3
<1> QED
  BY <1>3, <1>4 DEF Current, TInv, Marks

LEMMA OwnMarks ==
    ASSUME TInv
    PROVE  /\ NewDelta \in Nat
           /\ Insert(NewDelta) \in Record /\ Insert(NewDelta).delta < NewDelta + 1
           /\ Delete(NewDelta) \in Record /\ Delete(NewDelta).delta < NewDelta + 1
           /\ End(NewDelta) \in Record /\ End(NewDelta).delta < NewDelta + 1
  BY DEF TInv, TypeOK, NewDelta, Insert, Delete, End, Record

\* Appending a record that may be there keeps the type of the new body.
LEMMA AppendRecord ==
    ASSUME TInv, NEW r \in Record, r.op # "P" => r.delta < NewDelta + 1
    PROVE  /\ Append(out, r) \in Seq(Record)
           /\ \A i \in 1..Len(Append(out, r)) :
                 Append(out, r)[i].op # "P" => Append(out, r)[i].delta < NewDelta + 1
<1>1. out \in Seq(Record) /\ Len(out) \in Nat
  BY DEF TInv, TypeOK
<1>2. /\ Append(out, r) \in Seq(Record) /\ Len(Append(out, r)) = Len(out) + 1
      /\ \A i \in 1..Len(out) + 1 :
            Append(out, r)[i] = IF i = Len(out) + 1 THEN r ELSE out[i]
  BY <1>1
<1>3. ASSUME NEW i \in 1..Len(Append(out, r)), Append(out, r)[i].op # "P"
      PROVE  Append(out, r)[i].delta < NewDelta + 1
  <2>1. CASE i = Len(out) + 1
    BY <1>2, <1>3, <2>1
  <2>2. CASE i \in 1..Len(out)
    <3>1. Append(out, r)[i] = out[i]
      BY <1>1, <1>2, <2>2
    <3> QED
      BY <1>3, <2>2, <3>1 DEF TInv, Marks
  <2> QED
    BY <1>1, <1>2, <2>1, <2>2
<1> QED
  BY <1>2, <1>3

\* A reader of the main file.
LEMMA BodyReader ==
    ASSUME TInv, NEW d \in Nat
    PROVE  \A i \in 0..Len(body) : Good(Reading(body, d)[i], NewDelta)
  BY ReadingGood, OwnMarks DEF TInv, TypeOK, Marks

\* A reader of the new file.
LEMMA OutReader ==
    ASSUME TInv, NEW d \in Nat
    PROVE  Good(Final(out, d), NewDelta + 1)
<1>1. NewDelta + 1 \in Nat /\ out \in Seq(Record) /\ Len(out) \in Nat
  BY OwnMarks DEF TInv, TypeOK
<1>2. \A i \in 0..Len(out) : Good(Reading(out, d)[i], NewDelta + 1)
  BY <1>1, ReadingGood DEF TInv, Marks
<1> QED
  BY <1>1, <1>2 DEF Final

LEMMA InitTInv == Init => TInv
<1> SUFFICES ASSUME Init PROVE TInv
  OBVIOUS
<1>2. << >> \in Seq(Record) /\ << >> \in Seq(Lines) /\ << >> \in DeltaState
  BY DEF DeltaState
<1>3. NewParser \in ParserState /\ NoHunk \in Hunk
  BY <1>2 DEF NewParser, ParserState, NoHunk, Hunk
<1>4. TypeOK
  BY <1>2, <1>3 DEF Init, TypeOK, PC
<1>5. Shape /\ Marks
  BY DEF Init, Shape, Marks, NewParser, HunkApplies
<1> QED
  BY <1>4, <1>5 DEF TInv

\* The first revision.
LEMMA FirstTInv == TInv /\ First => TInv'
<1> SUFFICES ASSUME TInv, First PROVE TInv'
  OBVIOUS
<1>2. ASSUME NEW t \in Texts, NewNewWeave(t) PROVE TInv'
  <2>1. Insert(1) \in Record /\ Insert(1).delta = 1
    BY DEF Insert, Record
  <2>2. /\ out' = <<Insert(1)>> /\ text' = t /\ pc' = "first" /\ deltas = 0
        /\ UNCHANGED <<file, base, prior, parser, diff, isDone, isAdding>>
    BY <1>2 DEF NewNewWeave
  <2>3. <<Insert(1)>> \in Seq(Record) /\ Len(<<Insert(1)>>) = 1 /\ <<Insert(1)>>[1] = Insert(1)
    BY <2>1
  <2>4. TypeOK'
    BY <2>2, <2>3 DEF TInv, TypeOK, PC, file, diff
  <2>5. Shape'
    BY <1>2, <2>2 DEF TInv, Shape, HunkApplies, NewNewWeave, file, diff
  <2>6. Marks'
    BY <2>1, <2>2, <2>3 DEF TInv, Marks, NewDelta, file
  <2> QED
    BY <2>4, <2>5, <2>6 DEF TInv
<1>3. ASSUME WriteFirst PROVE TInv'
  <2> DEFINE r == Plain(text[Len(out)])
  <2>1. pc = "first" /\ Len(out) <= Len(text) /\ out' = Append(out, r)
    BY <1>3 DEF WriteFirst, Emit
  <2>2. r \in Record /\ r.op = "P"
    <3>1. text \in Seq(Lines) /\ Len(out) \in 1..Len(text)
      BY <2>1, TextLines DEF TInv, TypeOK, Shape
    <3>2. text[Len(out)] \in Lines
      BY <3>1
    <3> QED
      BY <3>2 DEF Plain, Record
  <2> HIDE DEF r
  <2>3. /\ out' \in Seq(Record)
        /\ \A i \in 1..Len(out') : out'[i].op # "P" => out'[i].delta < NewDelta + 1
    BY <2>1, <2>2, AppendRecord
  <2>4. UNCHANGED <<file, pc, base, text, prior, parser, diff, isDone, isAdding>>
    BY <1>3 DEF WriteFirst
  <2>5. TypeOK'
    BY <2>3, <2>4 DEF TInv, TypeOK, file, diff
  <2>6. Shape'
    BY <2>1, <2>2, <2>4 DEF TInv, TypeOK, Shape, HunkApplies, file, diff
  <2>7. Marks'
    BY <2>3, <2>4 DEF TInv, Marks, NewDelta, file
  <2> QED
    BY <2>5, <2>6, <2>7 DEF TInv
<1>4. ASSUME CloseNewWeave PROVE TInv'
  <2>1. /\ pc = "first" /\ pc' = "rename" /\ out' = Append(out, End(1))
        /\ UNCHANGED <<file, base, text, prior, parser, diff, isDone, isAdding>>
    BY <1>4 DEF CloseNewWeave, Emit
  <2>2. deltas = 0 /\ NewDelta = 1
    BY <2>1 DEF TInv, Shape, NewDelta
  <2>3. /\ out' \in Seq(Record)
        /\ \A i \in 1..Len(out') : out'[i].op # "P" => out'[i].delta < NewDelta + 1
    BY <2>1, <2>2, OwnMarks, AppendRecord
  <2>4. TypeOK'
    BY <2>1, <2>3 DEF TInv, TypeOK, PC, file, diff
  <2>5. Shape'
    BY <2>1, <2>2 DEF TInv, Shape, HunkApplies, file, diff
  <2>6. Marks'
    BY <2>1, <2>3 DEF TInv, Marks, NewDelta, file
  <2> QED
    BY <2>4, <2>5, <2>6 DEF TInv
<1> QED
  BY <1>2, <1>3, <1>4 DEF First

\* What the parser's assignments do to it.
LEMMA ParserFlushed ==
    ASSUME NEW p \in ParserState, NEW a \in Nat, NEW q,
           q = [p EXCEPT !.at = a, !.isPending = FALSE]
    PROVE  q \in ParserState /\ q.at = a /\ q.isPending = FALSE
  BY DEF ParserState

LEMMA ParserCounted ==
    ASSUME NEW p \in ParserState, NEW a \in Nat, NEW l \in Nat, NEW q,
           q = [p EXCEPT !.at = a, !.lineNo = l], p.isPending = FALSE
    PROVE  q \in ParserState /\ q.at = a /\ q.isPending = FALSE
  BY DEF ParserState

LEMMA ParserStopped ==
    ASSUME NEW p \in ParserState, NEW l \in Nat, NEW q,
           q = [p EXCEPT !.lineNo = l, !.isPending = TRUE]
    PROVE  q \in ParserState /\ q.at = p.at /\ q.isPending = TRUE
  BY DEF ParserState

\* The parser at work.
LEMMA ParseTInv == TInv /\ ParseTo => TInv'
<1> SUFFICES ASSUME TInv, ParseTo PROVE TInv'
  OBVIOUS
<1>1. ASSUME Emit(Current), parser.isPending \/ ~ AtEnd
      PROVE  /\ out' \in Seq(Record)
             /\ \A i \in 1..Len(out') : out'[i].op # "P" => out'[i].delta < NewDelta + 1
             /\ parser.at + 1 <= Len(body) /\ ~ AtEnd
  <2>1. /\ Current \in Record /\ (Current.op # "P" => Current.delta < NewDelta)
        /\ parser.at + 1 \in 1..Len(body)
    BY <1>1, CurrentRecord
  <2>2. Current.op # "P" => Current.delta < NewDelta + 1
    BY <2>1, MarkRecord, OwnMarks
  <2>3. out' = Append(out, Current)
    BY <1>1 DEF Emit
  <2>4. parser.at \in Nat /\ Len(body) \in Nat
    BY ParserTyped DEF TInv, TypeOK
  <2> HIDE DEF Current
  <2> QED
    BY <2>1, <2>2, <2>3, <2>4, AppendRecord DEF AtEnd
<1>2. ASSUME FlushPending PROVE TInv'
  <2>1. /\ Emit(Current) /\ parser.isPending /\ Parsing
        /\ parser' = [parser EXCEPT !.at = parser.at + 1, !.isPending = FALSE]
        /\ UNCHANGED <<file, pc, base, text, prior, diff, isDone, isAdding>>
    BY <1>2 DEF FlushPending
  <2>2. parser' \in ParserState /\ parser'.at = parser.at + 1 /\ parser'.isPending = FALSE
    <3> DEFINE a == parser.at + 1
    <3>1. /\ a \in Nat /\ parser \in ParserState
          /\ parser' = [parser EXCEPT !.at = a, !.isPending = FALSE]
      BY <2>1, ParserTyped
    <3> HIDE DEF a
    <3>2. parser' \in ParserState /\ parser'.at = a /\ parser'.isPending = FALSE
      BY Zenon, <3>1, ParserFlushed
    <3> QED
      BY <3>2 DEF a
  <2>3. TypeOK'
    BY <1>1, <2>1, <2>2 DEF TInv, TypeOK, file, diff
  <2>4. Shape'
    BY <1>1, <2>1, <2>2 DEF TInv, Shape, HunkApplies, Parsing, file, diff
  <2>5. Marks'
    BY <1>1, <2>1 DEF TInv, Marks, NewDelta, file
  <2> QED
    BY <2>3, <2>4, <2>5 DEF TInv
<1>3. ASSUME CopyLine PROVE TInv'
  <2>1. /\ Emit(Current) /\ ~ AtEnd /\ ~ parser.isPending /\ Parsing
        /\ parser' = [parser EXCEPT !.at = parser.at + 1,
                         !.lineNo = IF parser.keeping THEN parser.lineNo + 1
                                                      ELSE parser.lineNo]
        /\ UNCHANGED <<file, pc, base, text, prior, diff, isDone, isAdding>>
    BY <1>3 DEF CopyLine
  <2> DEFINE l == IF parser.keeping THEN parser.lineNo + 1 ELSE parser.lineNo
  <2>2. l \in Nat
    BY ParserTyped
  <2>3. parser' = [parser EXCEPT !.at = parser.at + 1, !.lineNo = l]
    BY <2>1
  <2> HIDE DEF l
  <2>4. /\ parser' \in ParserState /\ parser'.at = parser.at + 1
        /\ parser'.isPending = FALSE
    <3> DEFINE a == parser.at + 1
    <3>1. /\ a \in Nat /\ parser \in ParserState
          /\ parser' = [parser EXCEPT !.at = a, !.lineNo = l]
      BY <2>3, ParserTyped
    <3> HIDE DEF a
    <3>2. parser.isPending = FALSE
      BY <2>1, ParserTyped
    <3>3. /\ parser' \in ParserState /\ parser'.at = a
          /\ parser'.isPending = FALSE
      BY <2>1, <2>2, <3>1, <3>2, ParserCounted
    <3> QED
      BY <3>3 DEF a
  <2>5. TypeOK'
    BY <1>1, <2>1, <2>4 DEF TInv, TypeOK, file, diff
  <2>6. Shape'
    BY <1>1, <2>1, <2>4 DEF TInv, Shape, HunkApplies, Parsing, AtEnd, file, diff
  <2>7. Marks'
    BY <1>1, <2>1 DEF TInv, Marks, NewDelta, file
  <2> QED
    BY <2>5, <2>6, <2>7 DEF TInv
<1>4. ASSUME CopyControl PROVE TInv'
  <2> DEFINE ds == Control(parser.dstate, Current, base)
  <2>1. /\ Emit(Current) /\ ~ AtEnd /\ ~ parser.isPending /\ Parsing
        /\ Current.op # "P"
        /\ parser' = [parser EXCEPT !.at = parser.at + 1, !.dstate = ds,
                                    !.keeping = Keeps(ds)]
        /\ pc' = pc \/ pc' = "panic"
        /\ UNCHANGED <<file, base, text, prior, diff, isDone, isAdding>>
    BY <1>4 DEF CopyControl
  <2>2. Current \in Record
    BY <2>1, CurrentRecord
  <2>3. ds \in DeltaState
    BY <2>1, <2>2, ParserTyped, ControlTyped DEF TInv, TypeOK
  <2> HIDE DEF ds
  <2>4. Keeps(ds) \in BOOLEAN
    BY DEF Keeps
  <2>5. /\ parser' \in ParserState /\ parser'.at = parser.at + 1
        /\ parser'.isPending = FALSE
    <3> DEFINE a == parser.at + 1
               k == Keeps(ds)
    <3>1. /\ a \in Nat /\ k \in BOOLEAN /\ parser \in ParserState
          /\ parser' = [parser EXCEPT !.at = a, !.dstate = ds, !.keeping = k]
      BY <2>1, <2>4, ParserTyped
    <3> HIDE DEF a, k
    <3>2. parser.isPending = FALSE
      BY <2>1, ParserTyped
    <3>3. /\ parser' \in ParserState /\ parser'.at = a
          /\ parser'.isPending = FALSE
      BY <2>3, <3>1, <3>2 DEF ParserState
    <3> QED
      BY <3>3 DEF a
  <2>6. TypeOK'
    BY <1>1, <2>1, <2>5 DEF TInv, TypeOK, PC, file, diff
  <2>7. Shape'
    BY <1>1, <2>1, <2>5 DEF TInv, Shape, HunkApplies, Parsing, AtEnd, file, diff
  <2>8. Marks'
    BY <1>1, <2>1 DEF TInv, Marks, NewDelta, file
  <2> QED
    BY <2>6, <2>7, <2>8 DEF TInv
<1>5. ASSUME StopAtLine PROVE TInv'
  <2>1. /\ ~ AtEnd /\ ~ parser.isPending /\ Parsing
        /\ parser' = [parser EXCEPT !.lineNo = parser.lineNo + 1, !.isPending = TRUE]
        /\ pc = "left" => pc' = "delete"
        /\ pc = "right" => pc' = IF hunk.cmd = "a" THEN "insert" ELSE "endDelete"
        /\ pc = "rest" => pc' = "panic"
        /\ UNCHANGED <<file, base, text, prior, out, diff, isDone, isAdding>>
    BY <1>5 DEF StopAtLine, Parsing
  <2>2. parser' \in ParserState /\ parser'.at = parser.at /\ parser'.isPending = TRUE
    <3> DEFINE l == parser.lineNo + 1
    <3>1. /\ l \in Nat /\ parser \in ParserState
          /\ parser' = [parser EXCEPT !.lineNo = l, !.isPending = TRUE]
      BY <2>1, ParserTyped
    <3> HIDE DEF l
    <3> QED
      BY Zenon, <3>1, ParserStopped
  <2>3. parser.at < Len(body)
    <3>1. parser.at + 1 \in 1..Len(body) /\ parser.at \in Nat
      BY <2>1, CurrentRecord, ParserTyped
    <3> QED
      BY <3>1
  <2>4. TypeOK'
    BY <2>1, <2>2 DEF TInv, TypeOK, PC, Parsing, file, diff
  <2>5. Shape'
    BY <2>1, <2>2, <2>3 DEF TInv, Shape, HunkApplies, Parsing, AtEnd, file, diff
  <2>6. Marks'
    BY <2>1 DEF TInv, Marks, NewDelta, file
  <2> QED
    BY <2>4, <2>5, <2>6 DEF TInv
<1>6. ASSUME StopAtEnd PROVE TInv'
  <2>1. /\ AtEnd /\ ~ parser.isPending /\ Parsing
        /\ pc = "left" => pc' = "failed"
        /\ pc = "right" => pc' = IF hunk.cmd = "a" THEN "insert" ELSE "endDelete"
        /\ pc = "rest" => pc' = "rename"
        /\ isDone' = (isDone \/ pc = "right")
        /\ UNCHANGED <<file, base, text, prior, copy, diff, isAdding>>
    BY <1>6 DEF StopAtEnd, Parsing
  <2>2. TypeOK'
    BY <2>1 DEF TInv, TypeOK, PC, Parsing, file, diff, copy
  <2>3. Shape'
    BY <2>1 DEF TInv, Shape, HunkApplies, Parsing, AtEnd, file, diff, copy
  <2>4. Marks'
    BY <2>1 DEF TInv, Marks, NewDelta, file, copy
  <2> QED
    BY <2>2, <2>3, <2>4 DEF TInv
<1> QED
  BY <1>2, <1>3, <1>4, <1>5, <1>6 DEF ParseTo

\* Putting an own record into the new file, and nothing else but control.
LEMMA EmitTInv ==
    ASSUME TInv, NEW r \in Record, r.op # "P" => r.delta < NewDelta + 1,
           out' = out \/ out' = Append(out, r)
    PROVE  /\ out' \in Seq(Record)
           /\ \A i \in 1..Len(out') : out'[i].op # "P" => out'[i].delta < NewDelta + 1
<1>1. CASE out' = out
  BY <1>1 DEF TInv, TypeOK, Marks
<1>2. CASE out' = Append(out, r)
  BY <1>2, AppendRecord
<1> QED
  BY <1>1, <1>2

\* The steps of applyDiff around the parser.
LEMMA DiffTInv ==
    TInv /\ (StartApply \/ NextHunk \/ StartDelete \/ EndDelete \/ StartInsert
             \/ AddLine \/ EndOfDiff) => TInv'
<1> SUFFICES ASSUME TInv, StartApply \/ NextHunk \/ StartDelete \/ EndDelete
                          \/ StartInsert \/ AddLine \/ EndOfDiff
             PROVE  TInv'
  OBVIOUS
<1>1. ASSUME StartApply PROVE TInv'
  <2>1. /\ pc = "open" /\ pc' = "diff" /\ out' = << >> /\ parser' = NewParser
        /\ hunk' = NoHunk /\ oldAt' = 0 /\ newAt' = 0
        /\ isDone' = FALSE /\ isAdding' = FALSE
        /\ UNCHANGED <<file, base, text, prior>>
    BY <1>1 DEF StartApply
  <2>2. << >> \in Seq(Record) /\ << >> \in DeltaState
    BY DEF DeltaState
  <2>3. NewParser \in ParserState /\ NewParser.at = 0 /\ NewParser.isPending = FALSE
    BY <2>2 DEF NewParser, ParserState
  <2>4. NoHunk \in Hunk
    BY DEF NoHunk, Hunk
  <2>5. TypeOK'
    BY <2>1, <2>2, <2>3, <2>4 DEF TInv, TypeOK, PC, file
  <2>6. Shape'
    BY <2>1, <2>3 DEF TInv, TypeOK, Shape, HunkApplies, file
  <2>7. Marks'
    BY <2>1 DEF TInv, Marks, NewDelta, file
  <2> QED
    BY <2>5, <2>6, <2>7 DEF TInv
<1>2. ASSUME NextHunk PROVE TInv'
  <2>1. PICK gap, dl \in 0..Len(prior), al \in 0..Len(text) :
           /\ IsHunk(gap, dl, al)
           /\ hunk' = HunkLine(gap, dl, al)
           /\ oldAt' = oldAt + gap + dl
           /\ newAt' = newAt + gap
           /\ pc' = IF dl > 0 THEN "left" ELSE "right"
    BY <1>2 DEF NextHunk
  <2>2. /\ pc = "diff" /\ isAdding' = FALSE
        /\ out' = out \/ out' = Append(out, End(NewDelta))
        /\ UNCHANGED <<file, base, text, prior, parser, isDone>>
    BY <1>2 DEF NextHunk
  <2>3. /\ gap \in Nat /\ dl \in Nat /\ al \in Nat /\ oldAt \in Nat /\ newAt \in Nat
        /\ dl + al > 0 /\ newAt + gap + al <= Len(text)
    <3>1. prior \in Seq(Lines) /\ text \in Seq(Lines)
      BY <2>2, TextLines DEF TInv, TypeOK
    <3> QED
      BY <2>1, <3>1 DEF IsHunk, TInv, TypeOK
  <2>4. /\ hunk' \in Hunk
        /\ hunk'.cmd \in {"a", "c", "d"} /\ hunk'.to <= Len(text)
        /\ newAt' = hunk'.from
        /\ hunk'.cmd # "d" => newAt' < hunk'.to
        /\ pc' = "left" => hunk'.cmd # "a"
    BY <2>1, <2>3 DEF HunkLine, Hunk
  <2>5. oldAt' \in Nat /\ newAt' \in Nat
    BY <2>1, <2>3
  <2>6. /\ out' \in Seq(Record)
        /\ \A i \in 1..Len(out') : out'[i].op # "P" => out'[i].delta < NewDelta + 1
    BY <2>2, OwnMarks, EmitTInv
  <2>7. TypeOK'
    BY <2>1, <2>2, <2>4, <2>5, <2>6 DEF TInv, TypeOK, PC, file
  <2>8. Shape'
    BY <2>1, <2>2, <2>4 DEF TInv, Shape, HunkApplies, file
  <2>9. Marks'
    BY <2>2, <2>6 DEF TInv, Marks, NewDelta, file
  <2> QED
    BY <2>7, <2>8, <2>9 DEF TInv
<1>3. ASSUME StartDelete PROVE TInv'
  <2>1. /\ pc = "delete" /\ pc' = "right" /\ out' = Append(out, Delete(NewDelta))
        /\ UNCHANGED <<file, base, text, prior, parser, diff, isDone, isAdding>>
    BY <1>3 DEF StartDelete, Emit
  <2>2. /\ out' \in Seq(Record)
        /\ \A i \in 1..Len(out') : out'[i].op # "P" => out'[i].delta < NewDelta + 1
    BY <2>1, OwnMarks, EmitTInv
  <2>3. TypeOK'
    BY <2>1, <2>2 DEF TInv, TypeOK, PC, file, diff
  <2>4. Shape'
    BY <2>1 DEF TInv, Shape, HunkApplies, file, diff
  <2>5. Marks'
    BY <2>1, <2>2 DEF TInv, Marks, NewDelta, file
  <2> QED
    BY <2>3, <2>4, <2>5 DEF TInv
<1>4. ASSUME EndDelete PROVE TInv'
  <2>1. /\ pc = "endDelete" /\ out' = Append(out, End(NewDelta))
        /\ pc' = IF hunk.cmd = "c" THEN "insert" ELSE "diff"
        /\ UNCHANGED <<file, base, text, prior, parser, diff, isDone, isAdding>>
    BY <1>4 DEF EndDelete, Emit
  <2>2. /\ out' \in Seq(Record)
        /\ \A i \in 1..Len(out') : out'[i].op # "P" => out'[i].delta < NewDelta + 1
    BY <2>1, OwnMarks, EmitTInv
  <2>3. TypeOK'
    BY <2>1, <2>2 DEF TInv, TypeOK, PC, file, diff
  <2>4. Shape'
    BY <2>1 DEF TInv, Shape, HunkApplies, file, diff
  <2>5. Marks'
    BY <2>1, <2>2 DEF TInv, Marks, NewDelta, file
  <2> QED
    BY <2>3, <2>4, <2>5 DEF TInv
<1>5. ASSUME StartInsert PROVE TInv'
  <2>1. /\ pc = "insert" /\ pc' = "adding" /\ isAdding' = TRUE
        /\ out' = Append(out, Insert(NewDelta))
        /\ UNCHANGED <<file, base, text, prior, parser, diff, isDone>>
    BY <1>5 DEF StartInsert, Emit
  <2>2. /\ out' \in Seq(Record)
        /\ \A i \in 1..Len(out') : out'[i].op # "P" => out'[i].delta < NewDelta + 1
    BY <2>1, OwnMarks, EmitTInv
  <2>3. TypeOK'
    BY <2>1, <2>2 DEF TInv, TypeOK, PC, file, diff
  <2>4. Shape'
    BY <2>1 DEF TInv, Shape, HunkApplies, file, diff
  <2>5. Marks'
    BY <2>1, <2>2 DEF TInv, Marks, NewDelta, file
  <2> QED
    BY <2>3, <2>4, <2>5 DEF TInv
<1>6. ASSUME AddLine PROVE TInv'
  <2> DEFINE r == Plain(text[newAt + 1])
  <2>1. /\ pc = "adding" /\ out' = Append(out, r)
        /\ newAt' = newAt + 1
        /\ pc' = IF newAt + 1 = hunk.to THEN "diff" ELSE "adding"
        /\ UNCHANGED <<file, base, text, prior, parser, hunk, oldAt, isDone, isAdding>>
    BY <1>6 DEF AddLine, Emit
  <2>2. newAt \in Nat /\ hunk.to \in Nat /\ newAt < hunk.to /\ hunk.to <= Len(text)
    BY <2>1 DEF TInv, TypeOK, Hunk, Shape
  <2>3. r \in Record /\ r.op = "P"
    <3>1. text \in Seq(Lines) /\ newAt + 1 \in 1..Len(text)
      BY <2>1, <2>2, TextLines
    <3>2. text[newAt + 1] \in Lines
      BY <3>1
    <3> QED
      BY <3>2 DEF Plain, Record
  <2> HIDE DEF r
  <2>4. /\ out' \in Seq(Record)
        /\ \A i \in 1..Len(out') : out'[i].op # "P" => out'[i].delta < NewDelta + 1
    BY <2>1, <2>3, EmitTInv
  <2>5. TypeOK'
    BY <2>1, <2>2, <2>4 DEF TInv, TypeOK, PC, file
  <2>6. Shape'
    BY <2>1, <2>2 DEF TInv, Shape, HunkApplies, file
  <2>7. Marks'
    BY <2>1, <2>4 DEF TInv, Marks, NewDelta, file
  <2> QED
    BY <2>5, <2>6, <2>7 DEF TInv
<1>7. ASSUME EndOfDiff PROVE TInv'
  <2>1. /\ pc = "diff" /\ isAdding' = FALSE
        /\ out' = out \/ out' = Append(out, End(NewDelta))
        /\ pc' = IF isDone THEN "rename" ELSE "rest"
        /\ UNCHANGED <<file, base, text, prior, parser, diff, isDone>>
    BY <1>7 DEF EndOfDiff
  <2>2. /\ out' \in Seq(Record)
        /\ \A i \in 1..Len(out') : out'[i].op # "P" => out'[i].delta < NewDelta + 1
    BY <2>1, OwnMarks, EmitTInv
  <2>3. TypeOK'
    BY <2>1, <2>2 DEF TInv, TypeOK, PC, file, diff
  <2>4. Shape'
    BY <2>1 DEF TInv, Shape, HunkApplies, file, diff
  <2>5. Marks'
    BY <2>1, <2>2 DEF TInv, Marks, NewDelta, file
  <2> QED
    BY <2>3, <2>4, <2>5 DEF TInv
<1> QED
  BY <1>1, <1>2, <1>3, <1>4, <1>5, <1>6, <1>7

\* The steps outside applyDiff.
LEMMA CloseTInv ==
    TInv /\ ((\E t \in Texts, b \in 1..deltas : NewDeltaWriter(t, b))
             \/ GetPrior \/ Rename) => TInv'
<1> SUFFICES ASSUME TInv, (\E t \in Texts, b \in 1..deltas : NewDeltaWriter(t, b))
                          \/ GetPrior \/ Rename
             PROVE  TInv'
  OBVIOUS
<1>1. ASSUME NEW t \in Texts, NEW b \in 1..deltas, NewDeltaWriter(t, b) PROVE TInv'
  <2>1. /\ pc = "idle" /\ pc' = "prior" /\ text' = t /\ base' = b
        /\ UNCHANGED <<file, prior, copy, diff, isDone, isAdding>>
    BY <1>1 DEF NewDeltaWriter
  <2>2. b \in Nat
    BY DEF TInv, TypeOK
  <2>3. TypeOK'
    BY <2>1, <2>2 DEF TInv, TypeOK, PC, file, copy, diff
  <2>4. Shape'
    BY <2>1 DEF TInv, Shape, HunkApplies, file, copy, diff
  <2>5. Marks'
    BY <2>1 DEF TInv, Marks, NewDelta, file, copy
  <2> QED
    BY <2>3, <2>4, <2>5 DEF TInv
<1>2. ASSUME GetPrior PROVE TInv'
  <2>1. /\ pc = "prior" /\ pc' \in {"open", "panic"}
        /\ prior' = Extract(body, base) \/ prior' = prior
        /\ UNCHANGED <<file, base, text, copy, diff, isDone, isAdding>>
    BY <1>2 DEF GetPrior
  <2>2. Extract(body, base) \in Seq(Lines)
    <3>1. base \in Nat /\ Len(body) \in 0..Len(body)
      BY DEF TInv, TypeOK
    <3>2. Good(Final(body, base), NewDelta)
      BY <3>1, BodyReader DEF Final
    <3> QED
      BY <3>2 DEF Good, ReaderState, Extract
  <2>3. TypeOK'
    BY <2>1, <2>2 DEF TInv, TypeOK, PC, file, copy, diff
  <2>4. Shape'
    BY <2>1 DEF TInv, Shape, HunkApplies, file, copy, diff
  <2>5. Marks'
    BY <2>1 DEF TInv, Marks, NewDelta, file, copy
  <2> QED
    BY <2>3, <2>4, <2>5 DEF TInv
<1>3. ASSUME Rename PROVE TInv'
  <2>1. /\ deltas' = NewDelta /\ body' = out /\ pc' = "idle"
        /\ base' = 0 /\ text' = None /\ prior' = << >>
        /\ out' = << >> /\ parser' = NewParser
        /\ hunk' = NoHunk /\ oldAt' = 0 /\ newAt' = 0
        /\ isDone' = FALSE /\ isAdding' = FALSE
    BY <1>3 DEF Rename
  <2>2. << >> \in Seq(Record) /\ << >> \in Seq(Lines) /\ << >> \in DeltaState
    BY DEF DeltaState
  <2>3. /\ NewParser \in ParserState /\ NewParser.at = 0
        /\ NewParser.isPending = FALSE /\ NoHunk \in Hunk
    BY <2>2 DEF NewParser, ParserState, NoHunk, Hunk
  <2>4. TypeOK'
    BY <2>1, <2>2, <2>3, OwnMarks DEF TInv, TypeOK, PC
  <2>5. Len(body') \in Nat
    BY <2>4 DEF TypeOK
  <2>6. Shape'
    BY <2>1, <2>3, <2>5 DEF Shape, HunkApplies
  <2>7. NewDelta' = NewDelta + 1
    BY <2>1 DEF NewDelta
  <2>8. Marks'
    BY <2>1, <2>7 DEF TInv, Marks
  <2> QED
    BY <2>4, <2>6, <2>8 DEF TInv
<1> QED
  BY <1>1, <1>2, <1>3

LEMMA StutterTInv == TInv /\ UNCHANGED vars => TInv'
<1> SUFFICES ASSUME TInv, UNCHANGED vars PROVE TInv'
  OBVIOUS
<1>1. TypeOK'
  BY DEF TInv, TypeOK, vars
<1>2. Shape'
  BY DEF TInv, Shape, HunkApplies, vars
<1>3. Marks'
  BY DEF TInv, Marks, NewDelta, vars
<1> QED
  BY <1>1, <1>2, <1>3 DEF TInv

LEMMA NextTInv == TInv /\ [Next]_vars => TInv'
<1> SUFFICES ASSUME TInv, [Next]_vars PROVE TInv'
  OBVIOUS
<1>1. CASE First
  BY <1>1, FirstTInv
<1>2. CASE Later
  BY <1>2, ParseTInv, DiffTInv, CloseTInv DEF Later, ApplyDiff
<1>3. CASE Rename
  BY <1>3, CloseTInv
<1>4. CASE UNCHANGED vars
  BY <1>4, StutterTInv
<1> QED
  BY <1>1, <1>2, <1>3, <1>4 DEF Next

LEMMA AlwaysTInv == Spec => []TInv
  BY InitTInv, NextTInv, PTL DEF Spec

\* Every variable keeps its type.
THEOREM Typed == Spec => []TypeOK
<1>1. TInv => TypeOK
  BY DEF TInv
<1> QED
  BY <1>1, AlwaysTInv, PTL

-----------------------------------------------------------------------------
(***************************************************************************)
(* LockStep is preserved, one record of the new body at a time.            *)
(***************************************************************************)

\* The reader of the new body and the reader of the old body, for delta d.
New(d) == Final(out, d)
Old(d) == Reading(body, d)[parser.at]

\* The entries of the new delta, for an old delta d.
DeleteMark(d) == [delta |-> NewDelta, mode |-> DeleteMode(NewDelta, d)]
InsertMark(d) == [delta |-> NewDelta, mode |-> InsertMode(NewDelta, d)]

LEMMA OwnEntries ==
    ASSUME TInv, NEW d \in 1..deltas
    PROVE  /\ d \in Nat /\ NewDelta \in Nat
           /\ DeleteMark(d) \in Entry /\ DeleteMark(d).delta = NewDelta
           /\ DeleteMark(d).mode = "stNext"
           /\ InsertMark(d) \in Entry /\ InsertMark(d).delta = NewDelta
           /\ InsertMark(d).mode = "stSkip"
<1>1. deltas \in Nat
  BY DEF TInv, TypeOK
<1> QED
  BY <1>1 DEF NewDelta, DeleteMark, InsertMark, DeleteMode, InsertMode, Entry, Mode

\* Both readers are good, the new one with one more delta.
LEMMA GoodReaders ==
    ASSUME TInv, NEW d \in 1..deltas
    PROVE  Good(Old(d), NewDelta) /\ Good(New(d), NewDelta + 1)
<1>1. d \in Nat
  BY OwnEntries
<1>2. parser.at \in 0..Len(body)
  BY ParserTyped DEF TInv, TypeOK, Shape
<1> QED
  BY <1>1, <1>2, BodyReader, OutReader DEF Old, New

\* A record is put into the new body.
LEMMA NewAppended ==
    ASSUME TInv, NEW d, NEW r \in Record, out' = Append(out, r)
    PROVE  Final(out', d) = Read(New(d), r, d)
<1>1. out \in Seq(Record)
  BY DEF TInv, TypeOK
<1>2. Final(Append(out, r), d) = Read(Final(out, d), r, d)
  BY <1>1, FinalAppend
<1> QED
  BY <1>2 DEF New

\* A record is copied, outside of marks of the new delta or in its Delete mark.
LEMMA RecordCopied ==
    ASSUME TInv, NEW d \in 1..deltas, parser.isPending \/ ~ AtEnd,
           NEW m \in {<< >>, <<DeleteMark(d)>>}, InStep(New(d), Old(d), m),
           Emit(Current), body' = body, parser'.at = parser.at + 1
    PROVE  InStep(Final(out', d), Reading(body', d)[parser'.at], m)
<1> DEFINE r == Current
<1>1. /\ r \in Record /\ (r.op # "P" => r.delta < NewDelta)
      /\ r = body[parser.at + 1] /\ parser.at + 1 \in 1..Len(body)
  BY CurrentRecord
<1>2. out' = Append(out, r)
  BY DEF Emit
<1> HIDE DEF r
<1>3. Final(out', d) = Read(New(d), r, d)
  BY <1>1, <1>2, NewAppended
<1>4. Reading(body', d)[parser'.at] = Read(Old(d), r, d)
  <2> DEFINE i == parser.at + 1
  <2>1. Len(body) \in Nat /\ i - 1 = parser.at /\ i \in 1..Len(body)
    BY <1>1, ParserTyped DEF TInv, TypeOK
  <2>2. parser'.at = i /\ body[i] = r
    BY <1>1
  <2> HIDE DEF i
  <2>3. Reading(body, d)[i] = Read(Reading(body, d)[i - 1], body[i], d)
    BY <2>1, ReadingNext
  <2> QED
    BY <2>1, <2>2, <2>3 DEF Old
<1>5. Good(Old(d), NewDelta) /\ Good(New(d), NewDelta + 1) /\ NewDelta \in Nat /\ d \in Nat
  BY GoodReaders, OwnEntries
<1>6. CASE m = << >>
  <2>1. InStep(Read(New(d), r, d), Read(Old(d), r, d), << >>)
    BY <1>1, <1>5, <1>6, InStepSame
  <2> QED
    BY <1>3, <1>4, <1>6, <2>1
<1>7. CASE m = <<DeleteMark(d)>>
  <2> DEFINE e == DeleteMark(d)
  <2>1. e \in Entry /\ e.delta = NewDelta /\ e.mode = "stNext"
    BY OwnEntries
  <2> HIDE DEF e
  <2>2. InStep(New(d), Old(d), <<e>>)
    BY <1>7 DEF e
  <2>3. InStep(Read(New(d), r, d), Read(Old(d), r, d), <<e>>)
    BY <1>1, <1>5, <2>1, <2>2, InStepUnderNext
  <2> QED
    BY <1>3, <1>4, <1>7, <2>3 DEF e
<1> QED
  BY <1>6, <1>7

\* LockStep in terms of InStep.
LEMMA LockStepHolds ==
    ASSUME LockStep, Copying, NEW d \in 1..deltas
    PROVE  InStep(New(d), Old(d), Mark(d))
  BY DEF LockStep, InStep, New, Old

\* While the parser copies, nothing is open but the Delete mark of a hunk.
LEMMA ParsingMark ==
    ASSUME TInv, Parsing, NEW d
    PROVE  /\ Copying
           /\ Mark(d) = IF pc = "right" /\ hunk.cmd # "a"
                        THEN <<DeleteMark(d)>> ELSE << >>
<1>1. isAdding = FALSE
  BY DEF TInv, TypeOK, Shape, Parsing
<1> QED
  BY <1>1 DEF Parsing, Copying, Mark, Deleting, DeleteMark

LEMMA ParseLockStep == TInv /\ LockStep /\ ParseTo => LockStep'
<1> SUFFICES ASSUME TInv, LockStep, ParseTo, Copying', NEW d \in 1..deltas'
             PROVE  InStep(Final(out', d), Reading(body', d)[parser'.at], Mark(d)')
  BY DEF LockStep, InStep
<1>0. Parsing /\ deltas' = deltas /\ body' = body /\ hunk' = hunk
  BY DEF ParseTo, FlushPending, CopyLine, CopyControl, StopAtLine, StopAtEnd, file, diff
<1>1. Copying /\ d \in 1..deltas
  BY <1>0, ParsingMark
<1>2. InStep(New(d), Old(d), Mark(d))
  BY <1>1, LockStepHolds
<1>3. isAdding' = FALSE
  BY DEF ParseTo, FlushPending, CopyLine, CopyControl, StopAtLine, StopAtEnd, TInv,
         TypeOK, Shape, Parsing
<1>4. ASSUME FlushPending \/ CopyLine \/ CopyControl
      PROVE  InStep(Final(out', d), Reading(body', d)[parser'.at], Mark(d)')
  <2>1. pc' = pc
    BY <1>4 DEF FlushPending, CopyLine, CopyControl, Copying
  <2>2. Emit(Current) /\ (parser.isPending \/ ~ AtEnd) /\ parser'.at = parser.at + 1
    <3>1. parser \in ParserState
      BY ParserTyped
    <3> QED
      BY <1>4, <3>1 DEF FlushPending, CopyLine, CopyControl, ParserState
  <2>3. Mark(d)' = Mark(d)
    BY <1>0, <1>3, <2>1, ParsingMark DEF Mark, Deleting, DeleteMark, NewDelta, Parsing
  <2>4. Mark(d) \in {<< >>, <<DeleteMark(d)>>}
    BY <1>0, ParsingMark
  <2> HIDE DEF Mark, Emit
  <2> QED
    BY <1>0, <1>1, <1>2, <2>2, <2>3, <2>4, RecordCopied
<1>5. ASSUME StopAtLine \/ StopAtEnd
      PROVE  InStep(Final(out', d), Reading(body', d)[parser'.at], Mark(d)')
  <2>1. out' = out /\ parser'.at = parser.at
    <3>1. parser \in ParserState
      BY ParserTyped
    <3> QED
      BY <1>5, <3>1 DEF StopAtLine, StopAtEnd, ParserState, copy
  <2>2. /\ pc = "left" => pc' \in {"delete", "failed"}
        /\ pc = "right" => pc' = IF hunk.cmd = "a" THEN "insert" ELSE "endDelete"
        /\ pc = "rest" => pc' \in {"rename", "panic"}
    BY <1>5 DEF StopAtLine, StopAtEnd
  <2>3. Mark(d)' = Mark(d)
    BY <1>0, <1>3, <2>2, ParsingMark DEF Mark, Deleting, DeleteMark, NewDelta, Parsing
  <2> QED
    BY <1>0, <1>2, <2>1, <2>3 DEF New, Old
<1> QED
  BY <1>4, <1>5 DEF ParseTo

\* No action outside the parser copies a record.
LEMMA DiffLockStep ==
    TInv /\ LockStep /\ (StartApply \/ NextHunk \/ StartDelete \/ EndDelete
                         \/ StartInsert \/ AddLine \/ EndOfDiff) => LockStep'
<1> SUFFICES ASSUME TInv, LockStep,
                    StartApply \/ NextHunk \/ StartDelete \/ EndDelete
                    \/ StartInsert \/ AddLine \/ EndOfDiff,
                    NEW d \in 1..deltas'
             PROVE  InStep(Final(out', d), Reading(body', d)[parser'.at], Mark(d)')
  BY DEF LockStep, InStep
<1>0. deltas' = deltas /\ body' = body /\ d \in 1..deltas /\ NewDelta' = NewDelta
  BY DEF StartApply, NextHunk, StartDelete, EndDelete, StartInsert, AddLine,
         EndOfDiff, file, NewDelta
<1>1. /\ d \in Nat /\ NewDelta \in Nat /\ Good(Old(d), NewDelta)
      /\ Good(New(d), NewDelta + 1)
      /\ DeleteMark(d) \in Entry /\ DeleteMark(d).delta = NewDelta
      /\ InsertMark(d) \in Entry /\ InsertMark(d).delta = NewDelta
      /\ InsertMark(d).mode = "stSkip"
  BY <1>0, OwnEntries, GoodReaders
<1>2. /\ Insert(NewDelta) \in Record /\ Delete(NewDelta) \in Record
      /\ End(NewDelta) \in Record
  BY OwnMarks
<1>3. isAdding => pc \in {"diff", "adding"}
  BY DEF TInv, Shape
\* The marks of hunks, opened and closed.
<1>4. ASSUME InStep(New(d), Old(d), << >>), out' = Append(out, Delete(NewDelta)),
             UNCHANGED parser
      PROVE  InStep(Final(out', d), Reading(body', d)[parser'.at], <<DeleteMark(d)>>)
  <2>1. InStep(Read(New(d), Delete(NewDelta), d), Old(d), <<DeleteMark(d)>>)
    BY <1>1, <1>4, InStepOpen DEF DeleteMark
  <2> QED
    BY <1>0, <1>2, <1>4, <2>1, NewAppended DEF Old
<1>5. ASSUME InStep(New(d), Old(d), << >>), out' = Append(out, Insert(NewDelta)),
             UNCHANGED parser
      PROVE  InStep(Final(out', d), Reading(body', d)[parser'.at], <<InsertMark(d)>>)
  <2>1. InStep(Read(New(d), Insert(NewDelta), d), Old(d), <<InsertMark(d)>>)
    BY <1>1, <1>5, InStepOpen DEF InsertMark
  <2> QED
    BY <1>0, <1>2, <1>5, <2>1, NewAppended DEF Old
<1>6. ASSUME NEW e \in {DeleteMark(d), InsertMark(d)}, InStep(New(d), Old(d), <<e>>),
             out' = Append(out, End(NewDelta)), UNCHANGED parser
      PROVE  InStep(Final(out', d), Reading(body', d)[parser'.at], << >>)
  <2>1. e \in Entry /\ e.delta = NewDelta
    BY <1>1
  <2>2. InStep(Read(New(d), End(NewDelta), d), Old(d), << >>)
    BY <1>1, <1>6, <2>1, InStepClose
  <2> QED
    BY <1>0, <1>2, <1>6, <2>2, NewAppended DEF Old
<1>7. ASSUME UNCHANGED <<out, parser>>
      PROVE  Final(out', d) = New(d) /\ Reading(body', d)[parser'.at] = Old(d)
  BY <1>0, <1>7 DEF New, Old
\* The actions.
<1>8. CASE StartApply
  <2>1. out' = << >> /\ parser' = NewParser /\ isAdding' = FALSE /\ pc' = "diff"
    BY <1>8 DEF StartApply
  <2>2. Final(out', d) = NewReader
    BY <2>1, FinalEmpty
  <2>3. Reading(body', d)[parser'.at] = NewReader
    BY <1>0, <2>1, ReadingStart DEF NewParser, TInv, TypeOK
  <2>4. Mark(d)' = << >>
    BY <2>1 DEF Mark, Deleting
  <2>5. << >> \o << >> = << >>
    OBVIOUS
  <2> QED
    BY <2>2, <2>3, <2>4, <2>5 DEF InStep, NewReader
<1>9. CASE NextHunk \/ EndOfDiff
  <2>1. /\ pc = "diff" /\ UNCHANGED parser
        /\ out' = IF isAdding THEN Append(out, End(NewDelta)) ELSE out
        /\ isAdding' = FALSE
    BY <1>9 DEF NextHunk, EndOfDiff
  <2>2. Mark(d) = IF isAdding THEN <<InsertMark(d)>> ELSE << >>
    BY <2>1 DEF Mark, Deleting, InsertMark
  <2>3. InStep(New(d), Old(d), Mark(d))
    BY <1>0, <2>1, LockStepHolds DEF Copying
  <2>4. Mark(d)' = << >>
    <3>1. CASE EndOfDiff
      BY <2>1, <3>1 DEF Mark, Deleting, EndOfDiff
    <3>2. CASE NextHunk
      <4>1. PICK gap, dl \in 0..Len(prior), al \in 0..Len(text) :
               /\ IsHunk(gap, dl, al)
               /\ hunk' = HunkLine(gap, dl, al)
               /\ pc' = IF dl > 0 THEN "left" ELSE "right"
        BY <3>2 DEF NextHunk
      <4>2. pc' = "right" => hunk'.cmd = "a"
        <5>1. prior \in Seq(Lines) /\ text \in Seq(Lines)
          BY <2>1, TextLines DEF TInv, TypeOK
        <5>2. dl \in Nat /\ al \in Nat /\ dl + al > 0
          BY <4>1, <5>1 DEF IsHunk
        <5> QED
          BY <4>1, <5>2 DEF HunkLine
      <4> QED
        BY <2>1, <4>1, <4>2 DEF Mark, Deleting
    <3> QED
      BY <1>9, <3>1, <3>2
  <2> HIDE DEF Mark
  <2>5. CASE isAdding
    BY <1>6, <2>1, <2>2, <2>3, <2>4, <2>5
  <2>6. CASE ~ isAdding
    BY <1>7, <2>1, <2>2, <2>3, <2>4, <2>6
  <2> QED
    BY <2>5, <2>6
<1>10. CASE StartDelete
  <2>1. /\ pc = "delete" /\ pc' = "right" /\ UNCHANGED <<parser, hunk, isAdding>>
        /\ out' = Append(out, Delete(NewDelta))
    BY <1>10 DEF StartDelete, Emit, diff
  <2>2. Mark(d) = << >>
    BY <1>3, <2>1 DEF Mark, Deleting
  <2>3. InStep(New(d), Old(d), << >>)
    BY <1>0, <2>1, <2>2, LockStepHolds DEF Copying
  <2>4. hunk.cmd # "a"
    BY <2>1 DEF TInv, Shape
  <2>5. Mark(d)' = <<DeleteMark(d)>>
    BY <1>0, <2>1, <2>4 DEF Mark, Deleting, DeleteMark
  <2> QED
    BY <1>4, <2>1, <2>3, <2>5
<1>11. CASE EndDelete
  <2>1. /\ pc = "endDelete" /\ pc' \in {"insert", "diff"} /\ UNCHANGED <<parser, isAdding>>
        /\ out' = Append(out, End(NewDelta))
    BY <1>11 DEF EndDelete, Emit
  <2>2. Mark(d) = <<DeleteMark(d)>>
    BY <2>1 DEF Mark, Deleting, DeleteMark
  <2>3. InStep(New(d), Old(d), <<DeleteMark(d)>>)
    BY <1>0, <2>1, <2>2, LockStepHolds DEF Copying
  <2>4. Mark(d)' = << >>
    BY <1>3, <2>1 DEF Mark, Deleting
  <2> QED
    BY <1>6, <2>1, <2>3, <2>4
<1>12. CASE StartInsert
  <2>1. /\ pc = "insert" /\ pc' = "adding" /\ isAdding' = TRUE /\ UNCHANGED parser
        /\ out' = Append(out, Insert(NewDelta))
    BY <1>12 DEF StartInsert, Emit
  <2>2. Mark(d) = << >>
    BY <1>3, <2>1 DEF Mark, Deleting
  <2>3. InStep(New(d), Old(d), << >>)
    BY <1>0, <2>1, <2>2, LockStepHolds DEF Copying
  <2>4. Mark(d)' = <<InsertMark(d)>>
    BY <1>0, <2>1 DEF Mark, Deleting, InsertMark
  <2> QED
    BY <1>5, <2>1, <2>3, <2>4
<1>13. CASE AddLine
  <2> DEFINE r == Plain(text[newAt + 1])
             e == InsertMark(d)
  <2>1. /\ pc = "adding" /\ pc' \in {"adding", "diff"} /\ UNCHANGED <<parser, isAdding>>
        /\ out' = Append(out, r) /\ isAdding
    BY <1>13 DEF AddLine, Emit, TInv, Shape
  <2>2. text[newAt + 1] \in Lines
    <3>1. newAt \in Nat /\ hunk.to \in Nat /\ newAt < hunk.to /\ hunk.to <= Len(text)
      BY <2>1 DEF TInv, TypeOK, Hunk, Shape
    <3>2. text \in Seq(Lines) /\ newAt + 1 \in 1..Len(text)
      BY <2>1, <3>1, TextLines
    <3> QED
      BY <3>2
  <2>3. r \in Record
    BY <2>2 DEF Plain, Record
  <2>4. Mark(d) = <<e>>
    BY <2>1 DEF Mark, Deleting, InsertMark
  <2>5. InStep(New(d), Old(d), <<e>>)
    BY <1>0, <2>1, <2>4, LockStepHolds DEF Copying
  <2>6. Mark(d)' = <<e>>
    BY <1>0, <2>1 DEF Mark, Deleting, InsertMark
  <2>7. e \in Entry /\ e.mode = "stSkip"
    BY <1>1
  <2> HIDE DEF e
  <2>8. InStep(Read(New(d), r, d), Old(d), <<e>>)
    BY <1>1, <2>2, <2>5, <2>7, InStepSkip
  <2> HIDE DEF r
  <2>9. InStep(Final(out', d), Reading(body', d)[parser'.at], <<e>>)
    BY <1>0, <2>1, <2>3, <2>8, NewAppended DEF Old
  <2> QED
    BY <2>6, <2>9
<1> QED
  BY <1>8, <1>9, <1>10, <1>11, <1>12, <1>13

LEMMA NextLockStep == TInv /\ LockStep /\ [Next]_vars => LockStep'
<1> SUFFICES ASSUME TInv, LockStep, [Next]_vars PROVE LockStep'
  OBVIOUS
<1>1. CASE First
  <2>1. deltas' = 0
    BY <1>1 DEF First, NewNewWeave, WriteFirst, CloseNewWeave, file, TInv, Shape
  <2> QED
    BY <2>1 DEF LockStep
<1>2. CASE ApplyDiff
  BY <1>2, ParseLockStep, DiffLockStep DEF ApplyDiff
<1>3. CASE (\E t \in Texts, b \in 1..deltas : NewDeltaWriter(t, b)) \/ GetPrior \/ Rename
  <2>1. pc' \in {"prior", "open", "panic", "idle"}
    BY <1>3 DEF NewDeltaWriter, GetPrior, Rename
  <2> QED
    BY <2>1 DEF LockStep, Copying
<1>4. CASE UNCHANGED vars
  BY <1>4 DEF LockStep, Copying, Mark, Deleting, NewDelta, vars
<1> QED
  BY <1>1, <1>2, <1>3, <1>4 DEF Next, Later

\* A reader of the new body stays in step with a reader of the old body.
THEOREM InLockStep == Spec => []LockStep
<1>1. Init => LockStep
  BY DEF Init, LockStep, Copying
<1> QED
  BY <1>1, NextLockStep, AlwaysTInv, PTL DEF Spec

\* When the new file takes the place of the old one, the readers have come to
\* the end of both, and no mark of the new delta is open.
LEMMA RenameKeeps ==
    ASSUME TInv, LockStep, Rename, NEW d \in 1..deltas
    PROVE  Extract(body', d) = Extract(body, d)
<1>1. /\ pc = "rename" /\ deltas \in Nat /\ body' = out
  BY DEF Rename, TInv, TypeOK
<1>2. deltas > 0
  BY <1>1
<1>3. parser.at = Len(body) /\ isAdding = FALSE
  BY <1>1, <1>2 DEF TInv, TypeOK, Shape
<1>4. InStep(New(d), Old(d), Mark(d))
  BY <1>1, <1>2, LockStepHolds DEF Copying
<1>5. New(d).got = Old(d).got
  BY <1>4 DEF InStep
<1> QED
  BY <1>1, <1>3, <1>5 DEF New, Old, Extract, Final

LEMMA OthersKeep ==
    ASSUME [Next]_vars, ~ Rename
    PROVE  body' = body
  BY DEF Next, First, Later, ApplyDiff, ParseTo, NewNewWeave, WriteFirst,
         CloseNewWeave, NewDeltaWriter, GetPrior, StartApply, NextHunk, StartDelete,
         EndDelete, StartInsert, AddLine, EndOfDiff, FlushPending, CopyLine,
         CopyControl, StopAtLine, StopAtEnd, file, vars

\* No step changes what an older delta reads, whatever revision the new one
\* is based on and whatever edit script diff prints.
THEOREM Kept == Spec => RevisionsKept
<1>1. ASSUME TInv, LockStep, [Next]_vars
      PROVE  [\A d \in 1..deltas : Extract(body', d) = Extract(body, d)]_vars
  BY <1>1, RenameKeeps, OthersKeep
<1> QED
  BY <1>1, InLockStep, AlwaysTInv, PTL DEF Spec, RevisionsKept


-----------------------------------------------------------------------------
(***************************************************************************)
(* The new body is tidy while it is written.  The reader of it has the     *)
(* marks that the reader of the old body has, under the mark of the new    *)
(* delta that is open, if any.  (InStep says the same and more of the      *)
(* deltas that are there already; this is about all of them.)              *)
(***************************************************************************)

\* No mark is open at the end of the body.
Closed(b) == \A d \in Nat : Final(b, d).dstate = << >>

BodyTidy == Tidy(body) /\ Closed(body)

FirstTidy ==
    /\ pc = "first" => Tidy(out) /\ \A d \in Nat : New(d).dstate = <<InsertMark(d)>>
    /\ pc = "rename" /\ deltas = 0 => Tidy(out) /\ Closed(out)

OutTidy ==
    Copying => Tidy(out) /\ \A d \in Nat : Over(New(d), Old(d), Mark(d))

\* The base of a delta is one of the deltas, the latest if the store chose it.
Based == (pc \in {"prior", "open"} \/ Copying) =>
             base \in 1..deltas /\ (~ AnyBase => base = deltas)

AllTidy == Based /\ BodyTidy /\ FirstTidy /\ OutTidy

\* The two readers have their types, for any delta.
LEMMA TwoReaders ==
    ASSUME TInv, NEW d \in Nat
    PROVE  /\ NewDelta \in Nat
           /\ Old(d) \in ReaderState /\ Old(d).dstate \in DeltaState
           /\ Below(Old(d).dstate, NewDelta)
           /\ Old(d).keeping = Keeps(Old(d).dstate) /\ Old(d).got \in Seq(Lines)
           /\ New(d) \in ReaderState /\ New(d).dstate \in DeltaState
           /\ New(d).keeping = Keeps(New(d).dstate) /\ New(d).got \in Seq(Lines)
           /\ DeleteMark(d) \in Entry /\ DeleteMark(d).delta = NewDelta
           /\ InsertMark(d) \in Entry /\ InsertMark(d).delta = NewDelta
<1>1. parser.at \in 0..Len(body) /\ body \in Seq(Record) /\ out \in Seq(Record)
  BY ParserTyped DEF TInv, TypeOK, Shape
<1>2. Len(out) \in 0..Len(out)
  BY <1>1
<1>3. /\ Old(d) \in ReaderState /\ Old(d).dstate \in DeltaState
      /\ Old(d).keeping = Keeps(Old(d).dstate) /\ Old(d).got \in Seq(Lines)
  BY <1>1, ReaderTyped DEF Old
<1>4. /\ New(d) \in ReaderState /\ New(d).dstate \in DeltaState
      /\ New(d).keeping = Keeps(New(d).dstate) /\ New(d).got \in Seq(Lines)
  BY <1>1, <1>2, ReaderTyped DEF New, Final
<1>5. Below(Old(d).dstate, NewDelta)
  BY <1>1, BodyReader DEF Old, Good
<1>6. /\ DeleteMark(d) \in Entry /\ DeleteMark(d).delta = NewDelta
      /\ InsertMark(d) \in Entry /\ InsertMark(d).delta = NewDelta
  BY OwnMarks, Modes DEF DeleteMark, InsertMark, Entry
<1> QED
  BY <1>3, <1>4, <1>5, <1>6, OwnMarks

\* A record that fits is put into the new body.
LEMMA AppendTidy ==
    ASSUME TInv, Tidy(out), NEW r \in Record, out' = Append(out, r),
           \A d \in Nat : Fits(New(d).dstate, r)
    PROVE  Tidy(out') /\ \A d \in Nat : Final(out', d) = Read(New(d), r, d)
<1>1. out \in Seq(Record)
  BY DEF TInv, TypeOK
<1> QED
  BY <1>1, TidyAppend, NewAppended DEF New

\* The mark that is open in the new body.
LEMMA MarkCases ==
    ASSUME TInv, NEW d \in Nat
    PROVE  /\ Mark(d) \in {<< >>, <<DeleteMark(d)>>, <<InsertMark(d)>>}
           /\ IsMark(Mark(d), NewDelta)
<1>1. Mark(d) \in {<< >>, <<DeleteMark(d)>>, <<InsertMark(d)>>}
  BY DEF Mark, DeleteMark, InsertMark
<1> QED
  BY <1>1, TwoReaders DEF IsMark

\* The parser copies a record: it fits the reader of the new body as it does
\* that of the old one.
LEMMA CopiedTidy ==
    ASSUME TInv, AllTidy, Copying, parser.isPending \/ ~ AtEnd,
           Emit(Current), body' = body, parser'.at = parser.at + 1
    PROVE  /\ Tidy(out')
           /\ \A d \in Nat : Over(Final(out', d), Reading(body', d)[parser'.at],
                                 Mark(d))
<1> DEFINE r == Current
           i == parser.at + 1
<1>1. /\ r \in Record /\ (r.op # "P" => r.delta < NewDelta)
      /\ r = body[i] /\ i \in 1..Len(body) /\ i - 1 = parser.at
  BY CurrentRecord, ParserTyped
<1>2. out' = Append(out, r) /\ parser'.at = i
  BY DEF Emit
<1>3. Tidy(out) /\ \A d \in Nat : Over(New(d), Old(d), Mark(d))
  BY DEF AllTidy, OutTidy
<1>4. Len(body) \in Nat
  BY DEF TInv, TypeOK
<1> HIDE DEF r, i
<1>5. ASSUME NEW d \in Nat
      PROVE  /\ Fits(New(d).dstate, r)
             /\ Over(Read(New(d), r, d), Read(Old(d), r, d), Mark(d))
             /\ Reading(body, d)[i] = Read(Old(d), r, d)
  <2>1. Reading(body, d)[i] = Read(Old(d), r, d)
    BY <1>1, <1>4, ReadingNext DEF Old
  <2>2. Fits(Old(d).dstate, r)
    BY <1>1 DEF AllTidy, BodyTidy, Tidy, Old
  <2>3. IsMark(Mark(d), NewDelta)
    BY MarkCases
  <2> DEFINE m == Mark(d)
             s == Old(d)
             o == New(d)
             n == NewDelta
  <2>4. /\ n \in Nat /\ s \in ReaderState /\ o \in ReaderState /\ IsMark(m, n)
        /\ Over(o, s, m) /\ Older(r, n) /\ Fits(s.dstate, r)
    BY <1>1, <1>3, <2>2, <2>3, TwoReaders DEF Older
  <2> HIDE DEF m, s, o, n
  <2>5. Fits(o.dstate, r) /\ Over(Read(o, r, d), Read(s, r, d), m)
    BY Zenon, <2>4, ReadUnder
  <2> QED
    BY <2>1, <2>5 DEF m, s, o
<1>6. Tidy(out') /\ \A d \in Nat : Final(out', d) = Read(New(d), r, d)
  BY <1>1, <1>2, <1>3, <1>5, AppendTidy
<1> QED
  BY <1>2, <1>5, <1>6

LEMMA NextBased == TInv /\ Based /\ [Next]_vars => Based'
<1> SUFFICES ASSUME TInv, Based, [Next]_vars PROVE Based'
  OBVIOUS
<1>1. deltas \in Nat
  BY DEF TInv, TypeOK
<1>2. CASE First
  BY <1>2 DEF First, NewNewWeave, WriteFirst, CloseNewWeave, TInv, Shape, Based, Copying, file
<1>3. ASSUME NEW t \in Texts, NEW b \in 1..deltas, NewDeltaWriter(t, b) PROVE Based'
  BY <1>3 DEF NewDeltaWriter, Based, file
<1>4. CASE GetPrior
  BY <1>4 DEF GetPrior, Based, Copying, file
<1>5. ASSUME StartApply \/ NextHunk \/ StartDelete \/ EndDelete \/ StartInsert
             \/ AddLine \/ EndOfDiff \/ ParseTo
      PROVE  Based'
  <2>1. base' = base /\ deltas' = deltas
    BY <1>5 DEF StartApply, NextHunk, StartDelete, EndDelete, StartInsert, AddLine,
                EndOfDiff, ParseTo, FlushPending, CopyLine, CopyControl, StopAtLine,
                StopAtEnd, file
  <2>2. pc \in {"open"} \/ Copying
    BY <1>5 DEF StartApply, NextHunk, StartDelete, EndDelete, StartInsert, AddLine,
                EndOfDiff, ParseTo, FlushPending, CopyLine, CopyControl, StopAtLine,
                StopAtEnd, Parsing, Copying
  <2> QED
    BY <2>1, <2>2 DEF Based
<1>6. CASE Rename
  BY <1>6 DEF Rename, Based, Copying
<1>7. CASE UNCHANGED vars
  BY <1>7 DEF vars, Based, Copying
<1> QED
  BY <1>2, <1>3, <1>4, <1>5, <1>6, <1>7 DEF Next, Later, ApplyDiff

LEMMA ParseTidy == TInv /\ AllTidy /\ ParseTo => AllTidy'
<1> SUFFICES ASSUME TInv, AllTidy, ParseTo PROVE AllTidy'
  OBVIOUS
<1>1. Parsing /\ deltas' = deltas /\ body' = body /\ hunk' = hunk /\ isAdding' = isAdding
  BY DEF ParseTo, FlushPending, CopyLine, CopyControl, StopAtLine, StopAtEnd, file, diff
<1>2. Copying /\ isAdding = FALSE
  BY <1>1 DEF TInv, TypeOK, Shape, Parsing, Copying
<1>3. deltas # 0
  BY <1>2 DEF AllTidy, Based, TInv, TypeOK
<1>4. BodyTidy'
  BY <1>1 DEF AllTidy, BodyTidy, Tidy, Closed
<1>5. FirstTidy'
  <2>1. pc' # "first"
    BY DEF ParseTo, FlushPending, CopyLine, CopyControl, StopAtLine, StopAtEnd, Parsing
  <2> QED
    BY <1>1, <1>3, <2>1 DEF FirstTidy
<1>6. ASSUME FlushPending \/ CopyLine \/ CopyControl, Copying' PROVE OutTidy'
  <2>1. pc' = pc
    BY <1>6 DEF FlushPending, CopyLine, CopyControl, Copying
  <2>2. Emit(Current) /\ (parser.isPending \/ ~ AtEnd) /\ parser'.at = parser.at + 1
    <3>1. parser \in ParserState
      BY ParserTyped
    <3> QED
      BY <1>6, <3>1 DEF FlushPending, CopyLine, CopyControl, ParserState
  <2>3. \A d : Mark(d)' = Mark(d)
    BY <1>1, <2>1 DEF Mark, Deleting, NewDelta
  <2>4. /\ Tidy(out')
        /\ \A d \in Nat : Over(Final(out', d), Reading(body', d)[parser'.at],
                              Mark(d))
    BY <1>1, <1>2, <2>2, CopiedTidy
  <2> QED
    BY <2>3, <2>4 DEF OutTidy, New, Old
<1>7. ASSUME StopAtLine \/ StopAtEnd PROVE OutTidy'
  <2>1. out' = out /\ parser'.at = parser.at
    <3>1. parser \in ParserState
      BY ParserTyped
    <3> QED
      BY <1>7, <3>1 DEF StopAtLine, StopAtEnd, ParserState, copy
  <2>2. /\ pc = "left" => pc' \in {"delete", "failed"}
        /\ pc = "right" => pc' = IF hunk.cmd = "a" THEN "insert" ELSE "endDelete"
        /\ pc = "rest" => pc' \in {"rename", "panic"}
    BY <1>7 DEF StopAtLine, StopAtEnd
  <2>3. \A d : Mark(d)' = Mark(d)
    BY <1>1, <1>2, <2>2 DEF Mark, Deleting, NewDelta, Parsing
  <2> QED
    BY <1>1, <1>2, <2>1, <2>3 DEF AllTidy, OutTidy, New, Old, Tidy
<1>8. Based'
  BY NextBased DEF AllTidy, Next, Later, ApplyDiff
<1> QED
  BY <1>4, <1>5, <1>6, <1>7, <1>8 DEF AllTidy, ParseTo, OutTidy

\* A mark of the new delta is opened in the new body, while none is open.
LEMMA OpenedTidy ==
    ASSUME TInv, AllTidy, Copying, \A d \in Nat : Mark(d) = << >>
    PROVE  /\ \A d \in Nat : /\ Fits(New(d).dstate, Insert(NewDelta))
                             /\ Fits(New(d).dstate, Delete(NewDelta))
           /\ \A d \in Nat : /\ Over(Read(New(d), Insert(NewDelta), d), Old(d),
                                      <<InsertMark(d)>>)
                             /\ Over(Read(New(d), Delete(NewDelta), d), Old(d),
                                      <<DeleteMark(d)>>)
<1> SUFFICES ASSUME NEW d \in Nat
             PROVE  /\ Fits(New(d).dstate, Insert(NewDelta))
                    /\ Fits(New(d).dstate, Delete(NewDelta))
                    /\ Over(Read(New(d), Insert(NewDelta), d), Old(d), <<InsertMark(d)>>)
                    /\ Over(Read(New(d), Delete(NewDelta), d), Old(d), <<DeleteMark(d)>>)
  OBVIOUS
<1>1. New(d).dstate = Old(d).dstate
  <2>1. New(d).dstate = << >> \o Old(d).dstate
    BY DEF AllTidy, OutTidy, Over
  <2>2. Old(d).dstate \in Seq(Entry)
    BY TwoReaders DEF DeltaState, Entry
  <2> QED
    BY <2>1, <2>2, ConcatEmptySeq
<1>2. NewDelta \in Nat /\ New(d) \in ReaderState /\ Below(New(d).dstate, NewDelta)
  BY <1>1, TwoReaders
<1> DEFINE r == New(d)
           n == NewDelta
<1>3. n \in Nat /\ r \in ReaderState /\ Below(r.dstate, n)
  BY <1>2
<1> HIDE DEF r, n
<1>4. /\ Fits(r.dstate, Insert(n)) /\ Fits(r.dstate, Delete(n))
      /\ Read(r, Insert(n), d).dstate = <<[delta |-> n, mode |-> InsertMode(n, d)]>> \o r.dstate
      /\ Read(r, Delete(n), d).dstate = <<[delta |-> n, mode |-> DeleteMode(n, d)]>> \o r.dstate
  BY <1>3, ReadOpen
<1> QED
  BY Zenon, <1>1, <1>4 DEF Over, InsertMark, DeleteMark, r, n

\* The mark that is open is closed.
LEMMA ClosedTidy ==
    ASSUME TInv, AllTidy, Copying, NEW d \in Nat,
           Mark(d) = <<InsertMark(d)>> \/ Mark(d) = <<DeleteMark(d)>>
    PROVE  /\ Fits(New(d).dstate, End(NewDelta))
           /\ Over(Read(New(d), End(NewDelta), d), Old(d), << >>)
<1> DEFINE ds == Old(d).dstate
<1>1. PICK e \in Entry : e.delta = NewDelta /\ Mark(d) = <<e>>
  BY TwoReaders
<1>2. ds \in DeltaState /\ NewDelta \in Nat /\ New(d) \in ReaderState
  BY TwoReaders
<1>3. New(d).dstate = Headed(e, ds)
  BY <1>1 DEF AllTidy, OutTidy, Over, Headed
<1> HIDE DEF ds
<1>4. Fits(New(d).dstate, End(NewDelta)) /\ Read(New(d), End(NewDelta), d).dstate = ds
  BY <1>1, <1>2, <1>3, ReadClose
<1>5. ds = << >> \o ds
  BY <1>2, ConcatEmptySeq DEF DeltaState
<1> QED
  BY <1>4, <1>5 DEF Over, ds

LEMMA DiffTidy ==
    TInv /\ AllTidy /\ (StartApply \/ NextHunk \/ StartDelete \/ EndDelete
                        \/ StartInsert \/ AddLine \/ EndOfDiff) => AllTidy'
<1> SUFFICES ASSUME TInv, AllTidy,
                    StartApply \/ NextHunk \/ StartDelete \/ EndDelete
                    \/ StartInsert \/ AddLine \/ EndOfDiff
             PROVE  AllTidy'
  OBVIOUS
<1>1. /\ deltas' = deltas /\ body' = body /\ NewDelta' = NewDelta
      /\ pc = "open" \/ Copying
      /\ pc' \in {"diff", "left", "right", "insert", "adding", "rest", "rename"}
  BY DEF StartApply, NextHunk, StartDelete, EndDelete, StartInsert, AddLine,
         EndOfDiff, file, NewDelta, Copying
<1>2. deltas # 0 /\ deltas \in Nat
  BY <1>1 DEF AllTidy, Based, TInv, TypeOK
<1>3. BodyTidy' /\ FirstTidy'
  BY <1>1, <1>2 DEF AllTidy, BodyTidy, FirstTidy, Tidy, Closed
<1>4. Based'
  BY NextBased DEF AllTidy, Next, Later, ApplyDiff
<1>5. /\ Insert(NewDelta) \in Record /\ Delete(NewDelta) \in Record
      /\ End(NewDelta) \in Record
  BY OwnMarks
<1>6. isAdding => pc \in {"diff", "adding"}
  BY DEF TInv, Shape
<1>7. UNCHANGED parser => \A d : Old(d)' = Old(d)
  BY <1>1 DEF Old
\* What remains to be shown of each action.
<1>8. SUFFICES Tidy(out') /\ \A d \in Nat : Over(New(d)', Old(d)', Mark(d)')
  BY <1>3, <1>4 DEF AllTidy, OutTidy
<1>9. CASE StartApply
  <2>1. out' = << >> /\ parser' = NewParser /\ isAdding' = FALSE /\ pc' = "diff"
    BY <1>9 DEF StartApply
  <2>2. ASSUME NEW d \in Nat PROVE Over(New(d)', Old(d)', Mark(d)')
    <3>1. New(d)' = NewReader
      BY <2>1, FinalEmpty DEF New
    <3>2. Old(d)' = NewReader
      BY <1>1, <2>1, ReadingStart DEF Old, NewParser, TInv, TypeOK
    <3>3. Mark(d)' = << >>
      BY <2>1 DEF Mark, Deleting
    <3>4. << >> \o << >> = << >>
      OBVIOUS
    <3> QED
      BY <3>1, <3>2, <3>3, <3>4 DEF Over, NewReader
  <2> QED
    BY <2>1, <2>2, TidyEmpty
<1>10. CASE NextHunk \/ EndOfDiff
  <2>1. /\ pc = "diff" /\ UNCHANGED parser
        /\ out' = IF isAdding THEN Append(out, End(NewDelta)) ELSE out
        /\ isAdding' = FALSE
    BY <1>10 DEF NextHunk, EndOfDiff
  <2>2. Copying /\ \A d : Mark(d) = IF isAdding THEN <<InsertMark(d)>> ELSE << >>
    BY <2>1 DEF Mark, Deleting, InsertMark, Copying
  <2>3. \A d : Mark(d)' = << >>
    <3>1. CASE EndOfDiff
      BY <2>1, <3>1 DEF Mark, Deleting, EndOfDiff
    <3>2. CASE NextHunk
      <4>1. PICK gap, dl \in 0..Len(prior), al \in 0..Len(text) :
               /\ IsHunk(gap, dl, al)
               /\ hunk' = HunkLine(gap, dl, al)
               /\ pc' = IF dl > 0 THEN "left" ELSE "right"
        BY <3>2 DEF NextHunk
      <4>2. pc' = "right" => hunk'.cmd = "a"
        <5>1. prior \in Seq(Lines) /\ text \in Seq(Lines)
          BY <2>1, TextLines DEF TInv, TypeOK
        <5>2. dl \in Nat /\ al \in Nat /\ dl + al > 0
          BY <4>1, <5>1 DEF IsHunk
        <5> QED
          BY <4>1, <5>2 DEF HunkLine
      <4> QED
        BY <2>1, <4>1, <4>2 DEF Mark, Deleting
    <3> QED
      BY <1>10, <3>1, <3>2
  <2>4. Tidy(out) /\ \A d \in Nat : Over(New(d), Old(d), Mark(d))
    BY <2>2 DEF AllTidy, OutTidy
  <2> HIDE DEF Mark
  <2>5. CASE isAdding
    <3>1. \A d \in Nat : /\ Fits(New(d).dstate, End(NewDelta))
                         /\ Over(Read(New(d), End(NewDelta), d), Old(d), << >>)
      BY <2>2, <2>5, ClosedTidy
    <3>2. Tidy(out') /\ \A d \in Nat : Final(out', d) = Read(New(d), End(NewDelta), d)
      BY <1>5, <2>1, <2>4, <2>5, <3>1, AppendTidy
    <3> QED
      BY <1>7, <2>1, <2>3, <3>1, <3>2 DEF New
  <2>6. CASE ~ isAdding
    BY <1>7, <2>1, <2>2, <2>3, <2>4, <2>6 DEF New
  <2> QED
    BY <2>5, <2>6
<1>11. CASE StartDelete \/ StartInsert
  <2> DEFINE r == IF pc = "delete" THEN Delete(NewDelta) ELSE Insert(NewDelta)
  <2>1. /\ pc \in {"delete", "insert"} /\ UNCHANGED parser /\ out' = Append(out, r)
        /\ pc = "delete" => pc' = "right" /\ UNCHANGED <<hunk, isAdding>>
        /\ pc = "insert" => pc' = "adding" /\ isAdding' = TRUE
    BY <1>11 DEF StartDelete, StartInsert, Emit, diff
  <2>2. Copying /\ \A d : Mark(d) = << >>
    BY <1>6, <2>1 DEF Mark, Deleting, Copying
  <2>3. pc = "delete" => hunk.cmd # "a"
    BY DEF TInv, Shape
  <2>4. \A d : Mark(d)' = IF pc = "delete" THEN <<DeleteMark(d)>> ELSE <<InsertMark(d)>>
    BY <1>1, <2>1, <2>3 DEF Mark, Deleting, DeleteMark, InsertMark
  <2>5. \A d \in Nat : Fits(New(d).dstate, r) /\ Over(Read(New(d), r, d), Old(d), Mark(d)')
    <3> HIDE DEF Mark
    <3> QED
      BY <2>1, <2>2, <2>4, OpenedTidy
  <2>6. r \in Record
    BY <1>5
  <2> HIDE DEF r
  <2>7. Tidy(out') /\ \A d \in Nat : Final(out', d) = Read(New(d), r, d)
    BY <2>1, <2>2, <2>5, <2>6, AppendTidy DEF AllTidy, OutTidy
  <2> QED
    BY <1>7, <2>1, <2>5, <2>7 DEF New
<1>12. CASE EndDelete
  <2>1. /\ pc = "endDelete" /\ pc' \in {"insert", "diff"} /\ UNCHANGED <<parser, isAdding>>
        /\ out' = Append(out, End(NewDelta))
    BY <1>12 DEF EndDelete, Emit
  <2>2. Copying /\ \A d : Mark(d) = <<DeleteMark(d)>>
    BY <2>1 DEF Mark, Deleting, DeleteMark, Copying
  <2>3. \A d : Mark(d)' = << >>
    BY <1>6, <2>1 DEF Mark, Deleting
  <2> HIDE DEF Mark
  <2>4. \A d \in Nat : /\ Fits(New(d).dstate, End(NewDelta))
                       /\ Over(Read(New(d), End(NewDelta), d), Old(d), << >>)
    BY <2>2, ClosedTidy
  <2>5. Tidy(out') /\ \A d \in Nat : Final(out', d) = Read(New(d), End(NewDelta), d)
    BY <1>5, <2>1, <2>2, <2>4, AppendTidy DEF AllTidy, OutTidy
  <2> QED
    BY <1>7, <2>1, <2>3, <2>4, <2>5 DEF New
<1>13. CASE AddLine
  <2> DEFINE x == text[newAt + 1]
  <2>1. /\ pc = "adding" /\ pc' \in {"adding", "diff"} /\ UNCHANGED <<parser, isAdding>>
        /\ out' = Append(out, Plain(x)) /\ isAdding
    BY <1>13 DEF AddLine, Emit, TInv, Shape
  <2>2. x \in Lines
    <3>1. newAt \in Nat /\ hunk.to \in Nat /\ newAt < hunk.to /\ hunk.to <= Len(text)
      BY <2>1 DEF TInv, TypeOK, Hunk, Shape
    <3>2. text \in Seq(Lines) /\ newAt + 1 \in 1..Len(text)
      BY <2>1, <3>1, TextLines
    <3> QED
      BY <3>2
  <2>3. Copying /\ \A d : Mark(d)' = Mark(d)
    BY <1>1, <2>1 DEF Mark, Deleting, Copying
  <2>4. Plain(x) \in Record
    BY <2>2 DEF Plain, Record
  <2> HIDE DEF x
  <2>5. \A d \in Nat : /\ Fits(New(d).dstate, Plain(x))
                       /\ Read(New(d), Plain(x), d).dstate = New(d).dstate
    BY <2>2, TwoReaders, ReadPlain
  <2>6. Tidy(out') /\ \A d \in Nat : Final(out', d) = Read(New(d), Plain(x), d)
    BY <2>1, <2>3, <2>4, <2>5, AppendTidy DEF AllTidy, OutTidy
  <2> HIDE DEF Mark
  <2> QED
    BY <1>7, <2>1, <2>3, <2>5, <2>6 DEF New, AllTidy, OutTidy, Over
<1> QED
  BY <1>9, <1>10, <1>11, <1>12, <1>13

\* The first revision: one mark, and lines under it.
LEMMA FirstStepsTidy == TInv /\ AllTidy /\ First => AllTidy'
<1> SUFFICES ASSUME TInv, AllTidy, First PROVE AllTidy'
  OBVIOUS
<1>1. /\ deltas = 0 /\ NewDelta = 1 /\ NewDelta' = 1
      /\ UNCHANGED <<deltas, body, parser>> /\ pc' \in {"first", "rename"}
  BY DEF First, NewNewWeave, WriteFirst, CloseNewWeave, file, TInv, Shape, NewDelta
<1>2. BodyTidy' /\ OutTidy'
  BY <1>1 DEF AllTidy, BodyTidy, OutTidy, Tidy, Closed, Copying
<1>3. Based'
  BY NextBased DEF AllTidy, Next
<1>4. /\ Insert(1) \in Record /\ End(1) \in Record
      /\ \A d : InsertMark(d)' = InsertMark(d)
      /\ << >> \in Seq(Record) /\ << >> \in DeltaState
  BY <1>1, OwnMarks DEF InsertMark, DeltaState
<1>5. CASE \E t \in Texts : NewNewWeave(t)
  <2>1. out' = Append(<< >>, Insert(1)) /\ pc' = "first"
    BY <1>5 DEF NewNewWeave
  <2>2. ASSUME NEW d \in Nat
        PROVE  /\ Fits(Final(<< >>, d).dstate, Insert(1))
               /\ Read(Final(<< >>, d), Insert(1), d).dstate = <<InsertMark(d)>>
    <3>1. /\ Final(<< >>, d) = NewReader /\ NewReader.dstate = << >>
          /\ NewReader \in ReaderState /\ Below(NewReader.dstate, 1)
      BY FinalEmpty, NewReaderGood DEF NewReader, Good
    <3>2. /\ Fits(NewReader.dstate, Insert(1))
          /\ Read(NewReader, Insert(1), d).dstate
                = <<[delta |-> 1, mode |-> InsertMode(1, d)]>> \o NewReader.dstate
      BY <3>1, ReadOpen
    <3>3. \A e : <<e>> \o << >> = <<e>>
      OBVIOUS
    <3> QED
      BY <1>1, <3>1, <3>2, <3>3 DEF InsertMark
  <2>3. Tidy(out')
    BY <1>4, <2>1, <2>2, TidyEmpty, TidyAppend
  <2>4. ASSUME NEW d \in Nat PROVE New(d)' = Read(Final(<< >>, d), Insert(1), d)
    BY <1>4, <2>1, FinalAppend DEF New
  <2>5. FirstTidy'
    BY <1>4, <2>1, <2>2, <2>3, <2>4 DEF FirstTidy
  <2> QED
    BY <1>2, <1>3, <2>5 DEF AllTidy
<1>6. CASE WriteFirst
  <2> DEFINE x == text[Len(out)]
  <2>1. pc = "first" /\ pc' = "first" /\ Len(out) <= Len(text) /\ out' = Append(out, Plain(x))
    BY <1>6 DEF WriteFirst, Emit
  <2>2. x \in Lines /\ Plain(x) \in Record
    <3>1. text \in Seq(Lines) /\ Len(out) \in 1..Len(text)
      BY <2>1, TextLines DEF TInv, TypeOK, Shape
    <3>2. text[Len(out)] \in Lines
      BY <3>1
    <3> QED
      BY <3>2 DEF Plain, Record
  <2> HIDE DEF x
  <2>3. Tidy(out) /\ \A d \in Nat : New(d).dstate = <<InsertMark(d)>>
    BY <2>1 DEF AllTidy, FirstTidy
  <2>4. \A d \in Nat : /\ Fits(New(d).dstate, Plain(x))
                       /\ Read(New(d), Plain(x), d).dstate = New(d).dstate
    BY <2>2, TwoReaders, ReadPlain
  <2>5. Tidy(out') /\ \A d \in Nat : Final(out', d) = Read(New(d), Plain(x), d)
    BY <2>1, <2>2, <2>3, <2>4, AppendTidy
  <2>6. FirstTidy'
    BY <1>4, <2>1, <2>3, <2>4, <2>5 DEF FirstTidy, New
  <2> QED
    BY <1>2, <1>3, <2>6 DEF AllTidy
<1>7. CASE CloseNewWeave
  <2>1. pc = "first" /\ pc' = "rename" /\ out' = Append(out, End(1))
    BY <1>7 DEF CloseNewWeave, Emit
  <2>2. Tidy(out) /\ \A d \in Nat : New(d).dstate = <<InsertMark(d)>>
    BY <2>1 DEF AllTidy, FirstTidy
  <2>3. ASSUME NEW d \in Nat
        PROVE  Fits(New(d).dstate, End(1)) /\ Read(New(d), End(1), d).dstate = << >>
    <3> DEFINE e == InsertMark(d)
    <3>1. e \in Entry /\ e.delta = 1 /\ New(d) \in ReaderState
      BY <1>1, TwoReaders
    <3> HIDE DEF e
    <3>2. New(d).dstate = Headed(e, << >>)
      <4>1. <<e>> \o << >> = <<e>>
        OBVIOUS
      <4> QED
        BY <2>2, <4>1 DEF e, Headed
    <3> QED
      BY <1>4, <3>1, <3>2, ReadClose
  <2>4. Tidy(out') /\ \A d \in Nat : Final(out', d) = Read(New(d), End(1), d)
    BY <1>4, <2>1, <2>2, <2>3, AppendTidy
  <2>5. FirstTidy'
    BY <2>1, <2>3, <2>4 DEF FirstTidy, Closed
  <2> QED
    BY <1>2, <1>3, <2>5 DEF AllTidy
<1> QED
  BY <1>5, <1>6, <1>7 DEF First

\* The new body takes the place of the old one.
LEMMA RenameTidy == TInv /\ AllTidy /\ Rename => AllTidy'
<1> SUFFICES ASSUME TInv, AllTidy, Rename PROVE AllTidy'
  OBVIOUS
<1>1. pc = "rename" /\ body' = out /\ pc' = "idle" /\ deltas \in Nat
  BY DEF Rename, TInv, TypeOK
<1>2. Tidy(out) /\ Closed(out)
  <2>1. CASE deltas = 0
    BY <1>1, <2>1 DEF AllTidy, FirstTidy
  <2>2. CASE deltas > 0
    <3>1. Copying /\ parser.at = Len(body) /\ isAdding = FALSE
      BY <1>1, <2>2 DEF Copying, TInv, TypeOK, Shape
    <3>2. \A d : Mark(d) = << >>
      BY <1>1, <3>1 DEF Mark, Deleting
    <3>3. ASSUME NEW d \in Nat PROVE Final(out, d).dstate = << >>
      <4>1. Old(d).dstate = << >>
        BY <3>1 DEF AllTidy, BodyTidy, Closed, Old, Final
      <4>2. << >> \o << >> = << >>
        OBVIOUS
      <4> QED
        BY <3>1, <3>2, <4>1, <4>2 DEF AllTidy, OutTidy, Over, New
    <3> QED
      BY <3>1, <3>3 DEF AllTidy, OutTidy, Closed
  <2> QED
    BY <1>1, <2>1, <2>2
<1>3. Based'
  BY NextBased DEF AllTidy, Next
<1> QED
  BY <1>1, <1>2, <1>3 DEF AllTidy, BodyTidy, FirstTidy, OutTidy, Copying, Tidy, Closed

LEMMA NextTidy == TInv /\ AllTidy /\ [Next]_vars => AllTidy'
<1> SUFFICES ASSUME TInv, AllTidy, [Next]_vars PROVE AllTidy'
  OBVIOUS
<1>1. CASE ApplyDiff
  BY <1>1, ParseTidy, DiffTidy DEF ApplyDiff
<1>2. CASE (\E t \in Texts, b \in 1..deltas : NewDeltaWriter(t, b)) \/ GetPrior
  <2>1. pc' \in {"prior", "open", "panic"} /\ body' = body
    BY <1>2 DEF NewDeltaWriter, GetPrior, file
  <2>2. Based'
    BY <1>2, NextBased DEF AllTidy, Next, Later
  <2> QED
    BY <2>1, <2>2 DEF AllTidy, BodyTidy, FirstTidy, OutTidy, Copying, Tidy, Closed
<1>3. CASE UNCHANGED vars
  <2>1. Based'
    BY NextBased DEF AllTidy
  <2> QED
    BY <1>3, <2>1 DEF AllTidy, BodyTidy, FirstTidy, OutTidy, Copying, Tidy, Closed, New,
                      Old, Mark, Deleting, NewDelta, InsertMark, vars
<1> QED
  BY <1>1, <1>2, <1>3, FirstStepsTidy, RenameTidy DEF Next, Later

LEMMA InitTidy == Init => AllTidy
<1> SUFFICES ASSUME Init PROVE AllTidy
  OBVIOUS
<1>1. body = << >> /\ pc = "idle"
  BY DEF Init
<1>2. Closed(<< >>)
  BY FinalEmpty DEF Closed, NewReader
<1> QED
  BY <1>1, <1>2, TidyEmpty DEF AllTidy, Based, BodyTidy, FirstTidy, OutTidy, Copying

LEMMA AlwaysTidy == Spec => []AllTidy
  BY InitTidy, NextTidy, AlwaysTInv, PTL DEF Spec

\* Deltas are numbered from 1.
Numbered(b) == \A i \in 1..Len(b) : b[i].op # "P" => b[i].delta > 0

NumInv == Numbered(body) /\ Numbered(out)

\* All that a step puts into the new body is a line, a mark of the new delta
\* or a record of the old body.
LEMMA Emitted ==
    ASSUME TInv, [Next]_vars
    PROVE  \/ out' = out
           \/ out' = << >>
           \/ out' = <<Insert(1)>>
           \/ \E r : /\ out' = Append(out, r)
                     /\ \/ r.op = "P" \/ r.delta = NewDelta
                        \/ \E i \in 1..Len(body) : r = body[i]
<1> DEFINE Own(r) == r.op = "P" \/ r.delta = NewDelta
           G == \/ out' = out \/ out' = << >> \/ out' = <<Insert(1)>>
                \/ \E r : /\ out' = Append(out, r)
                          /\ Own(r) \/ \E i \in 1..Len(body) : r = body[i]
<1>1. /\ \A x : Own(Plain(x))
      /\ Own(Insert(NewDelta)) /\ Own(Delete(NewDelta)) /\ Own(End(NewDelta))
  BY DEF Plain, Insert, Delete, End
<1>2. /\ \A r : Own(r) /\ out' = Append(out, r) => G
      /\ out' \in {out, << >>, <<Insert(1)>>} => G
  BY Zenon
<1> SUFFICES G
  BY Zenon
<1> HIDE DEF Own, G
<1>3. CASE First
  <2>1. CASE \E t \in Texts : NewNewWeave(t)
    BY <1>2, <2>1 DEF NewNewWeave
  <2>2. CASE WriteFirst
    BY <1>1, <1>2, <2>2 DEF WriteFirst, Emit
  <2>3. CASE CloseNewWeave
    <3>1. NewDelta = 1
      BY <2>3 DEF CloseNewWeave, TInv, Shape, NewDelta
    <3> QED
      BY <1>1, <1>2, <2>3, <3>1 DEF CloseNewWeave, Emit
  <2> QED
    BY <1>3, <2>1, <2>2, <2>3 DEF First
<1>4. CASE NextHunk \/ EndOfDiff \/ EndDelete
  <2>1. out' = out \/ out' = Append(out, End(NewDelta))
    BY <1>4 DEF NextHunk, EndOfDiff, EndDelete, Emit
  <2> QED
    BY <1>1, <1>2, <2>1
<1>5. CASE StartDelete \/ StartInsert \/ AddLine \/ StartApply
  BY <1>1, <1>2, <1>5 DEF StartDelete, StartInsert, AddLine, StartApply, Emit
<1>6. CASE FlushPending \/ CopyLine \/ CopyControl
  <2>1. out' = Append(out, Current) /\ (parser.isPending \/ ~ AtEnd)
    BY <1>6 DEF FlushPending, CopyLine, CopyControl, Emit
  <2>2. \E i \in 1..Len(body) : Current = body[i]
    BY <2>1, CurrentRecord
  <2> QED
    BY <2>1, <2>2 DEF G
<1>7. CASE \/ StopAtLine \/ StopAtEnd \/ GetPrior \/ Rename \/ UNCHANGED vars
           \/ \E t \in Texts, b \in 1..deltas : NewDeltaWriter(t, b)
  <2>1. out' = out \/ out' = << >>
    BY <1>7 DEF StopAtLine, StopAtEnd, NewDeltaWriter, GetPrior, Rename, copy, vars
  <2> QED
    BY <1>2, <2>1
<1> QED
  BY <1>3, <1>4, <1>5, <1>6, <1>7 DEF Next, Later, ApplyDiff, ParseTo

LEMMA NextNumbered == TInv /\ NumInv /\ [Next]_vars => NumInv'
<1> SUFFICES ASSUME TInv, NumInv, [Next]_vars PROVE NumInv'
  OBVIOUS
<1>1. body' = body \/ body' = out
  BY OthersKeep DEF Rename
<1>2. out \in Seq(Record) /\ NewDelta > 0
  BY DEF TInv, TypeOK, NewDelta
<1>3. CASE out' \in {out, << >>, <<Insert(1)>>}
  <2>1. <<Insert(1)>>[1] = Insert(1) /\ Len(<<Insert(1)>>) = 1 /\ Insert(1).delta = 1
    BY DEF Insert
  <2> QED
    BY <1>1, <1>3, <2>1 DEF NumInv, Numbered
<1>4. ASSUME NEW r, out' = Append(out, r),
             r.op = "P" \/ r.delta = NewDelta \/ \E i \in 1..Len(body) : r = body[i]
      PROVE  NumInv'
  <2>1. r.op # "P" => r.delta > 0
    BY <1>2, <1>4 DEF NumInv, Numbered
  <2>2. /\ Len(out) \in Nat /\ Len(out') = Len(out) + 1 /\ out'[Len(out) + 1] = r
        /\ \A i \in 1..Len(out) : out'[i] = out[i]
    BY <1>2, <1>4
  <2>3. Numbered(out')
    BY <2>1, <2>2 DEF NumInv, Numbered
  <2> QED
    BY <1>1, <2>3 DEF NumInv, Numbered
<1> QED
  BY <1>3, <1>4, Emitted

LEMMA AlwaysNumbered == Spec => []NumInv
<1>1. Init => NumInv
  BY DEF Init, NumInv, Numbered
<1> QED
  BY <1>1, NextNumbered, AlwaysTInv, PTL DEF Spec

\* The body that is on disk between writes can be read for every delta without
\* a panic of pop, has marks of its own deltas only and closes all of them.
THEOREM AlwaysWellFormed == Spec => []WellFormed
<1>1. ASSUME TInv, AllTidy, NumInv PROVE WellFormed
  <2>1. body \in Seq(Record) /\ Len(body) \in 0..Len(body) /\ deltas \in Nat
    BY <1>1 DEF TInv, TypeOK
  <2>2. ASSUME NEW i \in 1..Len(body), body[i].op # "P" PROVE body[i].delta \in 1..deltas
    <3>1. body[i].delta \in Nat
      BY <2>1, <2>2, MarkRecord
    <3> QED
      BY <1>1, <2>1, <2>2, <3>1 DEF TInv, Marks, NewDelta, NumInv, Numbered
  <2>3. ASSUME NEW d \in 1..deltas + 1 PROVE Balanced(body, d)
    <3>1. d \in Nat
      BY <2>1
    <3>2. Final(body, d).ok
      BY <1>1, <2>1, <3>1, TidyReader DEF AllTidy, BodyTidy, Final
    <3> QED
      BY <1>1, <3>1, <3>2 DEF AllTidy, BodyTidy, Closed, Balanced
  <2> QED
    BY <2>2, <2>3 DEF WellFormed
<1> QED
  BY <1>1, AlwaysTInv, AlwaysTidy, AlwaysNumbered, PTL

-----------------------------------------------------------------------------
(***************************************************************************)
(* The parser that copies the old body is where a reader of it for the     *)
(* base revision is, and counts the lines that this reader has read.  So   *)
(* it comes to the line of every hunk.                                     *)
(***************************************************************************)

Matches(p, o) ==
    /\ p.dstate = o.dstate
    /\ p.keeping = o.keeping
    /\ p.lineNo = Len(o.got) + (IF p.isPending THEN 1 ELSE 0)

Follows ==
    /\ pc = "open" \/ Copying => prior = Extract(body, base)
    /\ ~ Copying => parser.dstate = << >>
    /\ Copying => /\ Matches(parser, Old(base))
                  /\ parser.isPending => Current.op = "P" /\ parser.keeping

\* Lines of prior that have been copied.
Taken == Len(Old(base).got)

InHunk ==
    /\ pc \in {"diff", "endDelete", "insert", "adding"} => Taken = oldAt
    /\ HunkApplies => /\ hunk.right = oldAt /\ oldAt <= Len(prior)
                      /\ hunk.cmd = "a" => hunk.left = hunk.right
                      /\ hunk.cmd # "a" => 1 <= hunk.left /\ hunk.left <= hunk.right
    /\ pc = "left" => parser.lineNo < hunk.left
    /\ pc = "right" => parser.lineNo < hunk.right + 1
    /\ pc = "delete" => parser.lineNo = hunk.left
    /\ pc = "diff" /\ oldAt = 0 /\ newAt = 0 => ~ parser.isPending

ParserInv == NeverFails /\ Follows /\ InHunk

\* The invariants so far.
WInv == TInv /\ AllTidy

\* Numbers, for the arithmetic.
LEMMA Counts ==
    ASSUME WInv, ParserInv, Copying
    PROVE  /\ base \in Nat /\ oldAt \in Nat /\ newAt \in Nat
           /\ hunk.left \in Nat /\ hunk.right \in Nat /\ hunk.from \in Nat /\ hunk.to \in Nat
           /\ parser.lineNo \in Nat /\ Taken \in Nat
           /\ prior \in Seq(Lines) /\ Len(prior) \in Nat
           /\ text \in Seq(Lines) /\ Len(text) \in Nat
<1>1. base \in Nat /\ prior \in Seq(Lines) /\ oldAt \in Nat /\ newAt \in Nat /\ hunk \in Hunk
  BY DEF WInv, TInv, TypeOK
<1>2. Old(base).got \in Seq(Lines)
  BY <1>1, TwoReaders DEF WInv
<1>3. text \in Seq(Lines)
  BY TextLines DEF WInv, Copying
<1> QED
  BY <1>1, <1>2, <1>3, ParserTyped DEF Hunk, Taken, WInv

\* A record further, in the old body.
LEMMA OldNext ==
    ASSUME TInv, NEW d \in Nat, parser.isPending \/ ~ AtEnd,
           body' = body, parser'.at = parser.at + 1
    PROVE  Reading(body', d)[parser'.at] = Read(Old(d), Current, d)
<1> DEFINE i == parser.at + 1
<1>1. i \in 1..Len(body) /\ i - 1 = parser.at /\ Current = body[i] /\ Len(body) \in Nat
  BY CurrentRecord, ParserTyped DEF TInv, TypeOK
<1> HIDE DEF i
<1>2. Reading(body, d)[i] = Read(Reading(body, d)[i - 1], body[i], d)
  BY <1>1, ReadingNext
<1> QED
  BY <1>1, <1>2 DEF Old, i

\* At the end of the old body all lines of the base have been copied.
LEMMA AllTaken ==
    ASSUME WInv, ParserInv, Copying, AtEnd
    PROVE  Taken = Len(prior)
  BY DEF ParserInv, Follows, Taken, Old, AtEnd, Extract, Final

\* A record of the old body fits the reader for the base.
LEMMA CurrentFits ==
    ASSUME WInv, Copying, parser.isPending \/ ~ AtEnd
    PROVE  Current \in Record /\ Fits(Old(base).dstate, Current)
<1>1. /\ Current \in Record /\ Current = body[parser.at + 1]
      /\ parser.at + 1 \in 1..Len(body) /\ (parser.at + 1) - 1 = parser.at
  BY CurrentRecord, ParserTyped DEF WInv
<1>2. base \in Nat
  BY DEF WInv, TInv, TypeOK
<1>3. Fits(Reading(body, base)[(parser.at + 1) - 1].dstate, body[parser.at + 1])
  BY <1>1, <1>2 DEF WInv, AllTidy, BodyTidy, Tidy
<1> QED
  BY <1>1, <1>3 DEF Old

\* Without a pending line the counts agree.
LEMMA MatchesAt ==
    ASSUME NEW p, NEW o, p.dstate = o.dstate, p.keeping = o.keeping,
           p.isPending = FALSE, p.lineNo = Len(o.got), Len(o.got) \in Nat
    PROVE  Matches(p, o)
<1>1. (IF p.isPending THEN 1 ELSE 0) = 0
  BY Zenon
<1>2. Len(o.got) = Len(o.got) + 0
  OBVIOUS
<1> QED
  BY Zenon, <1>1, <1>2 DEF Matches

LEMMA MatchesCount ==
    ASSUME NEW p, NEW o, Matches(p, o), ~ p.isPending, Len(o.got) \in Nat
    PROVE  p.lineNo = Len(o.got)
<1>1. (IF p.isPending THEN 1 ELSE 0) = 0
  BY Zenon
<1>2. Len(o.got) = Len(o.got) + 0
  OBVIOUS
<1> QED
  BY Zenon, <1>1, <1>2 DEF Matches

\* The line that the previous call of ParseTo stopped at is passed on.
LEMMA FlushFollows == WInv /\ ParserInv /\ FlushPending => ParserInv'
<1> SUFFICES ASSUME WInv, ParserInv, FlushPending PROVE ParserInv'
  OBVIOUS
<1> TInv /\ AllTidy
  BY DEF WInv
<1>1. /\ Parsing /\ parser.isPending
      /\ parser' = [parser EXCEPT !.at = parser.at + 1, !.isPending = FALSE]
      /\ UNCHANGED <<deltas, body, pc, base, text, prior, hunk, oldAt, newAt, isAdding>>
  BY DEF FlushPending, file, diff
<1>2. Copying /\ Copying'
  BY <1>1, ParsingMark DEF Copying
<1>3. /\ parser'.at = parser.at + 1 /\ parser'.isPending = FALSE
      /\ parser'.lineNo = parser.lineNo /\ parser'.dstate = parser.dstate
      /\ parser'.keeping = parser.keeping
  BY <1>1, ParserTyped DEF ParserState
<1>4. base \in Nat /\ Old(base) \in ReaderState /\ Current \in Record
  BY <1>1, <1>2, Counts, TwoReaders, CurrentFits
<1>5. Old(base)' = Read(Old(base), Current, base)
  BY <1>1, <1>3, <1>4, OldNext DEF Old
<1>6. /\ Current.op = "P" /\ Old(base).keeping /\ parser.lineNo = Taken + 1
      /\ parser.dstate = Old(base).dstate /\ parser.keeping = Old(base).keeping
  BY <1>1, <1>2 DEF ParserInv, Follows, Matches, Taken
<1>7. Matches(parser', Old(base)')
  <2> DEFINE s == Old(base)
             o == Read(s, Current, base)
  <2>1. o.dstate = s.dstate /\ o.keeping = s.keeping
    BY <1>4, <1>6, ReadLine
  <2>2. o.got = IF s.keeping THEN Append(s.got, Current.line) ELSE s.got
    BY <1>4, <1>6, ReadLine
  <2>3. s.got \in Seq(Lines) /\ s.keeping
    BY <1>4, <1>6 DEF ReaderState
  <2>4. Len(o.got) = Len(s.got) + 1
    <3> HIDE DEF s, o
    <3> QED
      BY <2>2, <2>3
  <2>5. parser'.lineNo = Len(s.got) + 1 /\ Len(s.got) \in Nat
    BY <1>3, <1>6, <2>3 DEF Taken
  <2>7. Len(s.got) + 1 \in Nat
    BY <2>5
  <2>6. /\ parser'.dstate = o.dstate /\ parser'.keeping = o.keeping
        /\ parser'.isPending = FALSE
        /\ parser'.lineNo = Len(o.got) /\ Len(o.got) \in Nat
    <3> HIDE DEF o
    <3> QED
      BY Zenon, <1>3, <1>6, <2>1, <2>4, <2>5, <2>7
  <2> QED
    <3> HIDE DEF o
    <3> QED
      BY <1>5, <2>6, MatchesAt DEF o
<1>9. Follows'
  BY <1>1, <1>2, <1>3, <1>7 DEF ParserInv, Follows
<1>10. InHunk'
  BY <1>1, <1>3 DEF ParserInv, InHunk, HunkApplies, Parsing
<1> QED
  BY <1>1, <1>9, <1>10 DEF ParserInv, NeverFails

\* A line on the way.
LEMMA CopyFollows == WInv /\ ParserInv /\ CopyLine => ParserInv'
<1> SUFFICES ASSUME WInv, ParserInv, CopyLine PROVE ParserInv'
  OBVIOUS
<1> TInv /\ AllTidy
  BY DEF WInv
<1> DEFINE l == IF parser.keeping THEN parser.lineNo + 1 ELSE parser.lineNo
<1>1. /\ Parsing /\ ~ parser.isPending /\ ~ AtEnd /\ Current.op = "P" /\ ~ Found
      /\ parser' = [parser EXCEPT !.at = parser.at + 1, !.lineNo = l]
      /\ UNCHANGED <<deltas, body, pc, base, text, prior, hunk, oldAt, newAt, isAdding>>
  BY DEF CopyLine, file, diff
<1>2. Copying /\ Copying'
  BY <1>1, ParsingMark DEF Copying
<1>3. /\ parser'.at = parser.at + 1 /\ parser'.isPending = FALSE
      /\ parser'.lineNo = l /\ parser'.dstate = parser.dstate
      /\ parser'.keeping = parser.keeping
  BY <1>1, ParserTyped DEF ParserState
<1>4. base \in Nat /\ Old(base) \in ReaderState /\ Current \in Record
  BY <1>1, <1>2, Counts, TwoReaders, CurrentFits
<1>5. Old(base)' = Read(Old(base), Current, base)
  BY <1>1, <1>3, <1>4, OldNext DEF Old
<1>6. /\ parser.dstate = Old(base).dstate /\ parser.keeping = Old(base).keeping
      /\ parser.lineNo = Taken
  BY <1>1, <1>2, Counts DEF ParserInv, Follows, Matches, Taken
<1>7. Matches(parser', Old(base)')
  <2> DEFINE s == Old(base)
             o == Read(s, Current, base)
  <2>1. o.dstate = s.dstate /\ o.keeping = s.keeping
    BY <1>1, <1>4, ReadLine
  <2>2. o.got = IF s.keeping THEN Append(s.got, Current.line) ELSE s.got
    BY <1>1, <1>4, ReadLine
  <2>3. s.got \in Seq(Lines) /\ s.keeping = parser.keeping /\ parser.lineNo = Len(s.got)
    BY <1>4, <1>6 DEF ReaderState, Taken
  <2>4. Len(o.got) = IF s.keeping THEN Len(s.got) + 1 ELSE Len(s.got)
    <3> HIDE DEF s, o
    <3> QED
      BY <2>2, <2>3
  <2>5. Len(s.got) \in Nat
    BY <2>3
  <2>6. Len(o.got) = l
    BY <2>3, <2>4
  <2>7. l \in Nat
    BY ParserTyped
  <2> HIDE DEF l
  <2> QED
    BY <1>3, <1>5, <1>6, <2>1, <2>6, <2>7, MatchesAt
<1>9. Follows'
  BY <1>1, <1>2, <1>3, <1>7 DEF ParserInv, Follows
<1>10. InHunk'
  <2>1. /\ pc = "left" => ~ (parser.keeping /\ parser.lineNo + 1 = hunk.left)
        /\ pc = "right" => ~ (parser.keeping /\ parser.lineNo + 1 = hunk.right + 1)
    BY <1>1 DEF Found, Target
  <2>2. /\ pc = "left" => l < hunk.left
        /\ pc = "right" => l < hunk.right + 1
    <3>1. CASE pc = "left"
      <4>1. parser.lineNo < hunk.left /\ parser.lineNo \in Nat /\ hunk.left \in Nat
        BY <1>2, <3>1, Counts DEF ParserInv, InHunk
      <4> QED
        BY <2>1, <3>1, <4>1
    <3>2. CASE pc = "right"
      <4>1. parser.lineNo < hunk.right + 1 /\ parser.lineNo \in Nat /\ hunk.right \in Nat
        BY <1>2, <3>2, Counts DEF ParserInv, InHunk
      <4> QED
        BY <2>1, <3>2, <4>1
    <3> QED
      BY <3>1, <3>2
  <2> HIDE DEF l
  <2> QED
    BY <1>1, <1>3, <2>2 DEF ParserInv, InHunk, HunkApplies, Parsing
<1> QED
  BY <1>1, <1>9, <1>10 DEF ParserInv, NeverFails

\* A mark on the way: pop finds what it looks for.
LEMMA ControlFollows == WInv /\ ParserInv /\ CopyControl => ParserInv'
<1> SUFFICES ASSUME WInv, ParserInv, CopyControl PROVE ParserInv'
  OBVIOUS
<1> TInv /\ AllTidy
  BY DEF WInv
<1> DEFINE ds == Control(parser.dstate, Current, base)
<1>1. /\ Parsing /\ ~ parser.isPending /\ ~ AtEnd /\ Current.op # "P"
      /\ parser' = [parser EXCEPT !.at = parser.at + 1, !.dstate = ds,
                                  !.keeping = Keeps(ds)]
      /\ pc' = IF Bad(parser.dstate, Current) THEN "panic" ELSE pc
      /\ UNCHANGED <<deltas, body, base, text, prior, hunk, oldAt, newAt, isAdding>>
  BY DEF CopyControl, file, diff
<1>2. Copying
  BY <1>1, ParsingMark
<1>3. /\ parser'.at = parser.at + 1 /\ parser'.isPending = FALSE
      /\ parser'.lineNo = parser.lineNo /\ parser'.dstate = ds
      /\ parser'.keeping = Keeps(ds)
  BY <1>1, ParserTyped DEF ParserState
<1>4. /\ base \in Nat /\ Old(base) \in ReaderState /\ Current \in Record
      /\ Fits(Old(base).dstate, Current) /\ parser.dstate = Old(base).dstate
  BY <1>1, <1>2, Counts, TwoReaders, CurrentFits DEF ParserInv, Follows, Matches
<1>5. pc' = pc
  BY <1>1, <1>4 DEF Fits, Bad
<1>6. Old(base)' = Read(Old(base), Current, base)
  BY <1>1, <1>3, <1>4, OldNext DEF Old
<1>7. /\ Old(base)'.dstate = ds /\ Old(base)'.keeping = Keeps(ds)
      /\ Old(base)'.got = Old(base).got
  BY <1>1, <1>4, <1>6, ReadMark
<1>8. Follows'
  <2>1. parser.lineNo = Len(Old(base).got) /\ parser.lineNo \in Nat
    BY <1>1, <1>2, ParserTyped, Counts DEF ParserInv, Follows, Matches, Taken
  <2>2. Matches(parser', Old(base)')
    <3>1. parser'.keeping = Old(base)'.keeping /\ Len(Old(base)'.got) \in Nat
      BY <1>3, <1>7, <2>1
    <3> HIDE DEF ds
    <3> QED
      BY <1>3, <1>7, <2>1, <3>1, MatchesAt
  <2> QED
    BY <1>1, <1>2, <1>3, <1>5, <2>2 DEF ParserInv, Follows, Copying
<1> HIDE DEF ds
<1>9. InHunk'
  BY <1>1, <1>3, <1>5 DEF ParserInv, InHunk, HunkApplies, Parsing
<1> QED
  BY <1>5, <1>8, <1>9 DEF ParserInv, NeverFails

\* A step that leaves the parser and the old body alone.
LEMMA StillFollows ==
    ASSUME Follows, Copying, Copying', UNCHANGED <<body, base, prior, parser>>
    PROVE  Follows'
<1>1. Old(base)' = Old(base) /\ Current' = Current
  BY DEF Old, Current
<1> QED
  BY <1>1 DEF Follows

\* ParseTo comes to the line it was sent to: the first line to delete, or the
\* line after the hunk.
LEMMA StopFollows == WInv /\ ParserInv /\ StopAtLine => ParserInv'
<1> SUFFICES ASSUME WInv, ParserInv, StopAtLine PROVE ParserInv'
  OBVIOUS
<1> TInv /\ AllTidy
  BY DEF WInv
<1>1. /\ Parsing /\ ~ parser.isPending /\ Current.op = "P"
      /\ parser.keeping /\ parser.lineNo + 1 = Target
      /\ parser' = [parser EXCEPT !.lineNo = parser.lineNo + 1, !.isPending = TRUE]
      /\ pc' = CASE pc = "left"                    -> "delete"
                 [] pc = "right" /\ hunk.cmd = "a" -> "insert"
                 [] pc = "right" /\ hunk.cmd # "a" -> "endDelete"
                 [] OTHER                          -> "panic"
      /\ UNCHANGED <<deltas, body, base, text, prior, hunk, oldAt, newAt, isAdding>>
  BY DEF StopAtLine, Found, file, diff
<1>2. Copying
  BY <1>1, ParsingMark
<1>3. /\ parser'.at = parser.at /\ parser'.isPending = TRUE
      /\ parser'.lineNo = parser.lineNo + 1 /\ parser'.dstate = parser.dstate
      /\ parser'.keeping = parser.keeping
  BY <1>1, ParserTyped DEF ParserState
<1>4. pc # "rest"
  <2>1. parser.lineNo \in Nat
    BY ParserTyped
  <2> QED
    BY <1>1, <2>1 DEF Target
<1>5. /\ pc = "left" => pc' = "delete"
      /\ pc = "right" => pc' \in {"insert", "endDelete"}
      /\ pc \in {"left", "right"}
  BY <1>1, <1>4 DEF Parsing
<1>6. Old(base)' = Old(base) /\ Current' = Current
  BY <1>1, <1>3 DEF Old, Current
<1>7. Matches(parser, Old(base)) /\ parser.lineNo = Taken /\ Taken \in Nat
  <2>1. Matches(parser, Old(base)) /\ Taken \in Nat
    BY <1>2, Counts DEF ParserInv, Follows
  <2> QED
    BY <1>1, <2>1, MatchesCount DEF Taken
<1>8. Follows'
  <2>1. Matches(parser', Old(base)')
    BY <1>3, <1>6, <1>7 DEF Matches, Taken
  <2> QED
    BY <1>1, <1>2, <1>3, <1>5, <1>6, <2>1 DEF ParserInv, Follows, Copying
<1>9. InHunk'
  <2>1. /\ pc = "left" => parser.lineNo + 1 = hunk.left
        /\ pc = "right" => Taken = oldAt
    BY <1>1, <1>2, <1>7, Counts DEF Target, ParserInv, InHunk, HunkApplies
  <2>2. Taken' = Taken /\ (HunkApplies /\ HunkApplies')
    BY <1>5, <1>6 DEF Taken, HunkApplies
  <2> QED
    BY <1>1, <1>3, <1>5, <2>1, <2>2 DEF ParserInv, InHunk
<1> QED
  BY <1>5, <1>8, <1>9 DEF ParserInv, NeverFails

\* ParseTo does not come to the end of the old body before the first line that
\* is to be deleted.
LEMMA EndFollows == WInv /\ ParserInv /\ StopAtEnd => ParserInv'
<1> SUFFICES ASSUME WInv, ParserInv, StopAtEnd PROVE ParserInv'
  OBVIOUS
<1> TInv /\ AllTidy
  BY DEF WInv
<1>1. /\ Parsing /\ ~ parser.isPending /\ AtEnd
      /\ pc' = CASE pc = "left"                    -> "failed"
                 [] pc = "right" /\ hunk.cmd = "a" -> "insert"
                 [] pc = "right" /\ hunk.cmd # "a" -> "endDelete"
                 [] OTHER                          -> "rename"
      /\ UNCHANGED <<deltas, body, base, text, prior, parser, hunk, oldAt, newAt, isAdding>>
  BY DEF StopAtEnd, file, diff, copy
<1>2. Copying
  BY <1>1, ParsingMark
<1>3. Taken = Len(prior) /\ parser.lineNo = Taken
  BY <1>1, <1>2, AllTaken, Counts DEF ParserInv, Follows, Matches, Taken
<1>4. pc # "left"
  BY <1>2, <1>3, Counts DEF ParserInv, InHunk, HunkApplies
<1>5. /\ pc = "right" => pc' \in {"insert", "endDelete"}
      /\ pc = "rest" => pc' = "rename"
      /\ pc \in {"right", "rest"}
  BY <1>1, <1>4 DEF Parsing
<1>6. deltas > 0
  BY <1>2 DEF AllTidy, Based, TInv, TypeOK
<1>7. Copying'
  BY <1>1, <1>5, <1>6 DEF Copying
<1>8. Follows'
  BY <1>1, <1>2, <1>7, StillFollows DEF ParserInv
<1>9. InHunk'
  <2>1. pc = "right" => Taken = oldAt
    BY <1>2, <1>3, Counts DEF ParserInv, InHunk, HunkApplies
  <2>2. Taken' = Taken
    BY <1>1 DEF Taken, Old
  <2> QED
    BY <1>1, <1>5, <2>1, <2>2 DEF ParserInv, InHunk, HunkApplies
<1> QED
  BY <1>5, <1>8, <1>9 DEF ParserInv, NeverFails

-----------------------------------------------------------------------------
\* The steps that follow the diff.

\* The next hunk starts after the lines that have been copied.
LEMMA HunkFollows == WInv /\ ParserInv /\ NextHunk => ParserInv'
<1> SUFFICES ASSUME WInv, ParserInv, NextHunk PROVE ParserInv'
  OBVIOUS
<1> TInv /\ AllTidy
  BY DEF WInv
<1>1. /\ pc = "diff" /\ pc' \in {"left", "right"}
      /\ UNCHANGED <<deltas, body, base, text, prior, parser>>
  BY DEF NextHunk, file
<1>2. Copying /\ Copying'
  BY <1>1 DEF Copying
<1>3. Follows'
  BY <1>1, <1>2, StillFollows DEF ParserInv
<1>4. PICK gap \in 0..Len(prior) : \E dl \in 0..Len(prior), al \in 0..Len(text) :
          /\ IsHunk(gap, dl, al)
          /\ hunk' = HunkLine(gap, dl, al)
          /\ oldAt' = oldAt + gap + dl
          /\ newAt' = newAt + gap
          /\ pc' = IF dl > 0 THEN "left" ELSE "right"
  BY DEF NextHunk
<1>5. PICK dl \in 0..Len(prior), al \in 0..Len(text) :
          /\ IsHunk(gap, dl, al)
          /\ hunk' = HunkLine(gap, dl, al)
          /\ oldAt' = oldAt + gap + dl
          /\ newAt' = newAt + gap
          /\ pc' = IF dl > 0 THEN "left" ELSE "right"
  BY <1>4
<1>6. /\ gap \in Nat /\ dl \in Nat /\ al \in Nat /\ oldAt \in Nat /\ newAt \in Nat
      /\ parser.lineNo \in Nat /\ Taken \in Nat /\ Len(prior) \in Nat
  BY <1>2, <1>4, <1>5, Counts
<1>7. /\ hunk'.right = oldAt + gap + dl
      /\ hunk'.left = oldAt + gap + (IF dl = 0 THEN 0 ELSE 1)
      /\ hunk'.cmd = "a" => dl = 0
      /\ hunk'.cmd # "a" => dl > 0
  BY <1>5, <1>6 DEF HunkLine, IsHunk
<1>8. /\ oldAt' <= Len(prior)
      /\ gap > 0 \/ (oldAt = 0 /\ newAt = 0)
  BY <1>5, <1>6 DEF IsHunk
<1>9. /\ parser.lineNo = oldAt + (IF parser.isPending THEN 1 ELSE 0)
      /\ oldAt = 0 /\ newAt = 0 => ~ parser.isPending
  BY <1>1, <1>2 DEF ParserInv, Follows, Matches, InHunk, Taken
<1>10. parser.lineNo < oldAt + gap + 1
  <2>1. CASE parser.isPending
    <3>1. gap > 0 /\ parser.lineNo = oldAt + 1
      BY <1>8, <1>9, <2>1
    <3> QED
      BY <1>6, <3>1
  <2>2. CASE ~ parser.isPending
    <3>1. parser.lineNo = oldAt + 0
      BY Zenon, <1>9, <2>2
    <3> QED
      BY <1>6, <3>1
  <2> QED
    BY <2>1, <2>2
<1>11. InHunk'
  <2>1. HunkApplies' /\ hunk'.right = oldAt' /\ oldAt' <= Len(prior')
    BY <1>1, <1>5, <1>7, <1>8 DEF HunkApplies
  <2>2. CASE dl = 0
    <3>1. hunk'.cmd = "a" /\ hunk'.left = hunk'.right /\ pc' = "right"
      BY <1>5, <1>6, <1>7, <2>2
    <3> QED
      BY <1>1, <1>6, <1>7, <1>10, <2>1, <2>2, <3>1 DEF InHunk
  <2>3. CASE dl > 0
    <3>1. hunk'.cmd # "a" /\ hunk'.left = oldAt + gap + 1 /\ pc' = "left"
      BY <1>5, <1>6, <1>7, <2>3
    <3>2. 1 <= hunk'.left /\ hunk'.left <= hunk'.right
      BY <1>6, <1>7, <2>3, <3>1
    <3> QED
      BY <1>1, <1>6, <1>10, <2>1, <3>1, <3>2 DEF InHunk
  <2> QED
    BY <1>6, <2>2, <2>3
<1> QED
  BY <1>1, <1>3, <1>11 DEF ParserInv, NeverFails

\* The marks of the new delta and its lines go out between two records of the
\* old body.
LEMMA MarksFollow ==
    WInv /\ ParserInv /\ (StartDelete \/ EndDelete \/ StartInsert \/ AddLine \/ EndOfDiff)
        => ParserInv'
<1> SUFFICES ASSUME WInv, ParserInv,
                    StartDelete \/ EndDelete \/ StartInsert \/ AddLine \/ EndOfDiff
             PROVE  ParserInv'
  OBVIOUS
<1> TInv /\ AllTidy
  BY DEF WInv
<1>1. /\ UNCHANGED <<deltas, body, base, text, prior, parser, hunk, oldAt>>
      /\ pc \in {"delete", "endDelete", "insert", "adding", "diff"}
  BY DEF StartDelete, EndDelete, StartInsert, AddLine, EndOfDiff, file, diff
<1>2. Copying /\ deltas > 0
  BY <1>1 DEF Copying, AllTidy, Based, TInv, TypeOK
<1>3. /\ StartDelete => pc = "delete" /\ pc' = "right" /\ newAt' = newAt
      /\ EndDelete => pc = "endDelete" /\ pc' \in {"insert", "diff"} /\ newAt' = newAt
      /\ StartInsert => pc = "insert" /\ pc' = "adding" /\ newAt' = newAt
      /\ AddLine => pc = "adding" /\ pc' \in {"diff", "adding"} /\ newAt' = newAt + 1
      /\ EndOfDiff => pc = "diff" /\ pc' \in {"rest", "rename"} /\ newAt' = newAt
  BY DEF StartDelete, EndDelete, StartInsert, AddLine, EndOfDiff, diff
<1>4. Copying'
  BY <1>1, <1>2, <1>3 DEF Copying
<1>5. Follows'
  BY <1>1, <1>2, <1>4, StillFollows DEF ParserInv
<1>6. Taken' = Taken
  BY <1>1 DEF Taken, Old
<1>7. /\ oldAt \in Nat /\ newAt \in Nat /\ hunk.left \in Nat /\ hunk.right \in Nat
      /\ parser.lineNo \in Nat
  BY <1>2, Counts
<1>8. InHunk'
  <2>1. CASE StartDelete
    <3>1. parser.lineNo < hunk.right + 1
      BY <1>3, <1>7, <2>1 DEF ParserInv, InHunk, HunkApplies, TInv, Shape
    <3> QED
      BY <1>1, <1>3, <2>1, <3>1 DEF ParserInv, InHunk, HunkApplies
  <2>2. CASE EndDelete
    <3>1. oldAt > 0
      BY <1>3, <1>7, <2>2 DEF ParserInv, InHunk, HunkApplies, TInv, Shape
    <3> QED
      BY <1>1, <1>3, <1>6, <2>2, <3>1 DEF ParserInv, InHunk, HunkApplies
  <2>3. CASE StartInsert
    BY <1>1, <1>3, <1>6, <2>3 DEF ParserInv, InHunk, HunkApplies
  <2>4. CASE AddLine
    BY <1>1, <1>3, <1>6, <1>7, <2>4 DEF ParserInv, InHunk, HunkApplies
  <2>5. CASE EndOfDiff
    BY <1>1, <1>3, <2>5 DEF ParserInv, InHunk, HunkApplies
  <2> QED
    BY <2>1, <2>2, <2>3, <2>4, <2>5
<1> QED
  BY <1>3, <1>5, <1>8 DEF ParserInv, NeverFails

\* applyDiff starts with a new parser and no hunk.
LEMMA StartFollows == WInv /\ ParserInv /\ StartApply => ParserInv'
<1> SUFFICES ASSUME WInv, ParserInv, StartApply PROVE ParserInv'
  OBVIOUS
<1>1. /\ pc = "open" /\ pc' = "diff" /\ parser' = NewParser
      /\ oldAt' = 0 /\ newAt' = 0
      /\ UNCHANGED <<body, base, prior>>
  BY DEF StartApply, file
<1>2. body \in Seq(Record) /\ base \in Nat
  BY DEF WInv, TInv, TypeOK
<1>3. Old(base)' = NewReader
  BY <1>1, <1>2, ReadingStart DEF Old, NewParser
<1>4. Len(<< >>) = 0 /\ 0 \in Nat
  OBVIOUS
<1>5. Matches(parser', Old(base)')
  <2>1. Matches(NewParser, NewReader)
    <3>1. /\ NewParser.dstate = NewReader.dstate /\ NewParser.isPending = FALSE
          /\ NewParser.lineNo = 0 /\ NewReader.got = << >>
      BY DEF NewParser, NewReader
    <3>2. NewParser.keeping = FALSE /\ NewReader.keeping = FALSE
      BY DEF NewParser, NewReader
    <3> QED
      BY Zenon, <1>4, <3>1, <3>2, MatchesAt
  <2> QED
    BY <1>1, <1>3, <2>1
<1>6. Follows'
  BY <1>1, <1>5 DEF ParserInv, Follows, Copying, NewParser
<1>7. Taken' = 0
  BY <1>3, <1>4 DEF Taken, NewReader
<1>8. InHunk'
  BY <1>1, <1>7 DEF InHunk, HunkApplies, NewParser
<1> QED
  BY <1>1, <1>6, <1>8 DEF ParserInv, NeverFails

\* getPrior reads the base without a panic.
LEMMA PriorFollows == WInv /\ ParserInv /\ GetPrior => ParserInv'
<1> SUFFICES ASSUME WInv, ParserInv, GetPrior PROVE ParserInv'
  OBVIOUS
<1>1. pc = "prior" /\ UNCHANGED <<deltas, body, base, parser>>
  BY DEF GetPrior, file, copy
<1>2. body \in Seq(Record) /\ base \in Nat /\ Len(body) \in 0..Len(body)
  BY DEF WInv, TInv, TypeOK
<1>3. Final(body, base).ok
  BY <1>2, TidyReader DEF WInv, AllTidy, BodyTidy, Final
<1>4. prior' = Extract(body, base) /\ pc' = "open"
  BY <1>3 DEF GetPrior
<1> QED
  BY <1>1, <1>4 DEF ParserInv, NeverFails, Follows, InHunk, HunkApplies, Copying

\* The other steps are taken when nothing is copied, or end the copy.
LEMMA IdleFollows ==
    /\ WInv /\ ParserInv
    /\ \/ First \/ Rename \/ UNCHANGED vars
       \/ \E t \in Texts, b \in 1..deltas : NewDeltaWriter(t, b)
    => ParserInv'
<1> SUFFICES ASSUME WInv, ParserInv,
                    \/ First \/ Rename \/ UNCHANGED vars
                    \/ \E t \in Texts, b \in 1..deltas : NewDeltaWriter(t, b)
             PROVE  ParserInv'
  OBVIOUS
<1> DEFINE Quiet == pc \in {"idle", "first", "prior"} \/ (pc = "rename" /\ deltas = 0)
<1>1. ASSUME Quiet', parser'.dstate = << >> PROVE ParserInv'
  BY <1>1 DEF ParserInv, NeverFails, Follows, InHunk, HunkApplies, Copying
<1>2. CASE First
  <2>1. pc = "idle" \/ pc = "first"
    BY <1>2 DEF First, NewNewWeave, WriteFirst, CloseNewWeave
  <2>2. parser.dstate = << >>
    BY <2>1 DEF ParserInv, Follows, Copying
  <2>3. parser' = parser /\ Quiet'
    BY <1>2 DEF First, NewNewWeave, WriteFirst, CloseNewWeave, file, WInv, TInv, Shape
  <2> QED
    BY <1>1, <2>2, <2>3
<1>3. CASE Rename
  BY <1>1, <1>3 DEF Rename, NewParser
<1>4. CASE \E t \in Texts, b \in 1..deltas : NewDeltaWriter(t, b)
  <2>1. pc = "idle" /\ pc' = "prior" /\ parser' = parser
    BY <1>4 DEF NewDeltaWriter, copy
  <2>2. parser.dstate = << >>
    BY <2>1 DEF ParserInv, Follows, Copying
  <2> QED
    BY <1>1, <2>1, <2>2
<1>5. CASE UNCHANGED vars
  <2>1. Follows'
    <3>1. /\ Copying' = Copying /\ Old(base)' = Old(base) /\ Current' = Current
          /\ UNCHANGED <<pc, prior, body, base, parser>>
      BY <1>5 DEF Copying, Old, Current, vars
    <3> QED
      BY <3>1 DEF ParserInv, Follows
  <2>2. InHunk'
    BY <1>5 DEF ParserInv, InHunk, HunkApplies, Taken, Old, vars
  <2> QED
    BY <1>5, <2>1, <2>2 DEF ParserInv, NeverFails, vars
<1> QED
  BY <1>2, <1>3, <1>4, <1>5

LEMMA NextParser == WInv /\ ParserInv /\ [Next]_vars => ParserInv'
  BY FlushFollows, CopyFollows, ControlFollows, StopFollows, EndFollows, HunkFollows,
     MarksFollow, StartFollows, PriorFollows, IdleFollows
     DEF Next, Later, ApplyDiff, ParseTo

LEMMA AlwaysParser == Spec => [](WInv /\ ParserInv)
<1>1. Init => ParserInv
  BY DEF Init, ParserInv, NeverFails, Follows, InHunk, HunkApplies, Copying, NewParser
<1>2. TInv /\ AllTidy => WInv
  BY DEF WInv
<1>3. WInv => TInv /\ AllTidy
  BY DEF WInv
<1> QED
  BY <1>1, <1>2, <1>3, NextParser, AlwaysTInv, AlwaysTidy, PTL DEF Spec

\* No write of a revision fails over what is in the file: the parser comes to
\* the line of every hunk that diff prints, and pop finds the mark of every
\* End record (ParseTo and applyDiff).
THEOREM AlwaysWorks == Spec => []NeverFails
  BY AlwaysParser, PTL DEF ParserInv

\* The open marks of the parser are sorted, newest delta first, and no delta
\* has two of them (deltaState, push and pop).
THEOREM AlwaysNewestFirst == Spec => []NewestFirst
<1>1. ASSUME WInv, ParserInv PROVE NewestFirst
  <2>1. Strict(parser.dstate)
    <3>1. CASE Copying
      <4>1. body \in Seq(Record) /\ base \in Nat /\ parser.at \in 0..Len(body)
        BY <1>1, ParserTyped DEF WInv, TInv, TypeOK, Shape
      <4> QED
        BY <1>1, <3>1, <4>1, TidyReader
           DEF WInv, AllTidy, BodyTidy, ParserInv, Follows, Matches, Old
    <3>2. CASE ~ Copying
      BY <1>1, <3>2 DEF ParserInv, Follows, Strict
    <3> QED
      BY <3>1, <3>2
  <2> QED
    BY <2>1 DEF Strict, NewestFirst
<1> QED
  BY <1>1, AlwaysParser, PTL

-----------------------------------------------------------------------------
(***************************************************************************)
(* The new body reads back as the new text, if the base is the latest      *)
(* revision.  While the old body is copied, a reader of the new body for   *)
(* the new delta has the beginning of the text, and the lines of the base  *)
(* that are to be copied before the next mark are the next ones of it.     *)
(***************************************************************************)

\* g is the beginning of t that ends before its line u + 1 - a, and the next a
\* lines of t are those of p after k.
Fill(g, t, p, k, a, u) ==
    /\ a \in Nat /\ Len(g) + a = u /\ u <= Len(t)
    /\ \A i \in 1..Len(g) : g[i] = t[i]
    /\ \A i \in 1..a : p[k + i] = t[Len(g) + i]

\* One of these lines is copied.
LEMMA FillCopy ==
    ASSUME NEW g \in Seq(Lines), NEW t \in Seq(Lines), NEW p, NEW k \in Nat,
           NEW a, NEW u, Fill(g, t, p, k, a, u), a > 0
    PROVE  Fill(Append(g, p[k + 1]), t, p, k + 1, a - 1, u)
<1> DEFINE x == p[k + 1]
           h == Append(g, x)
<1>1. a \in Nat /\ Len(g) \in Nat /\ Len(g) + a = u /\ u <= Len(t) /\ Len(t) \in Nat
  BY DEF Fill
<1>2. x = t[Len(g) + 1]
  BY <1>1 DEF Fill
<1>3. Len(h) = Len(g) + 1 /\ h[Len(g) + 1] = x /\ \A i \in 1..Len(g) : h[i] = g[i]
  OBVIOUS
<1> HIDE DEF h, x
<1>4. \A i \in 1..Len(h) : h[i] = t[i]
  BY <1>1, <1>2, <1>3 DEF Fill
<1>5. ASSUME NEW i \in 1..a - 1 PROVE p[k + 1 + i] = t[Len(h) + i]
  <2>1. i + 1 \in 1..a /\ k + 1 + i = k + (i + 1) /\ Len(h) + i = Len(g) + (i + 1)
    BY <1>1, <1>3
  <2>2. p[k + (i + 1)] = t[Len(g) + (i + 1)]
    BY <2>1 DEF Fill
  <2> QED
    BY <2>1, <2>2
<1>6. a - 1 \in Nat /\ Len(h) + (a - 1) = u
  BY <1>1, <1>3
<1>7. Fill(h, t, p, k + 1, a - 1, u)
  BY <1>1, <1>4, <1>5, <1>6 DEF Fill
<1> QED
  BY <1>7 DEF h, x

\* A line of the text is added.
LEMMA FillAdd ==
    ASSUME NEW g \in Seq(Lines), NEW t \in Seq(Lines), NEW p, NEW k, NEW u,
           Fill(g, t, p, k, 0, u), u + 1 <= Len(t)
    PROVE  Fill(Append(g, t[u + 1]), t, p, k, 0, u + 1)
<1> DEFINE h == Append(g, t[u + 1])
<1>1. Len(g) \in Nat /\ Len(g) = u /\ Len(t) \in Nat
  BY DEF Fill
<1>2. Len(h) = Len(g) + 1 /\ h[Len(g) + 1] = t[u + 1] /\ \A i \in 1..Len(g) : h[i] = g[i]
  OBVIOUS
<1> HIDE DEF h
<1>3. \A i \in 1..Len(h) : h[i] = t[i]
  BY <1>1, <1>2 DEF Fill
<1>4. Fill(h, t, p, k, 0, u + 1)
  BY <1>1, <1>2, <1>3 DEF Fill
<1> QED
  BY <1>4 DEF h

\* The next lines are found to be common to both.
LEMMA FillAhead ==
    ASSUME NEW g \in Seq(Lines), NEW t \in Seq(Lines), NEW p, NEW k, NEW u,
           Fill(g, t, p, k, 0, u),
           NEW a \in Nat, u + a <= Len(t), \A i \in 1..a : p[k + i] = t[u + i]
    PROVE  Fill(g, t, p, k, a, u + a)
<1>1. Len(g) \in Nat /\ Len(g) = u /\ Len(t) \in Nat
  BY DEF Fill
<1> QED
  BY <1>1 DEF Fill

\* Lines of the base that are deleted are passed over.
LEMMA FillPast ==
    ASSUME NEW g, NEW t, NEW p, NEW k, NEW l, NEW u, Fill(g, t, p, k, 0, u)
    PROVE  Fill(g, t, p, l, 0, u)
  BY DEF Fill

\* All of the text is there.
LEMMA FillAll ==
    ASSUME NEW g \in Seq(Lines), NEW t \in Seq(Lines), NEW p, NEW k,
           Fill(g, t, p, k, 0, Len(t))
    PROVE  g = t
<1>1. Len(g) \in Nat /\ Len(g) = Len(t) /\ \A i \in 1..Len(g) : g[i] = t[i]
  BY DEF Fill
<1> QED
  BY <1>1, SeqEqual

-----------------------------------------------------------------------------
\* The marks of the old body mean the same to the new delta and to the latest.
LEMMA LastAlike ==
    ASSUME TInv, deltas > 0
    PROVE  Old(NewDelta) = Old(deltas)
<1> DEFINE S == {i \in Nat : i <= Len(body)
                                => Reading(body, NewDelta)[i] = Reading(body, deltas)[i]}
<1>1. /\ body \in Seq(Record) /\ Len(body) \in Nat /\ deltas \in Nat
      /\ NewDelta = deltas + 1 /\ NewDelta \in Nat
      /\ parser.at \in Nat /\ parser.at <= Len(body)
  BY ParserTyped DEF TInv, TypeOK, Shape, NewDelta
<1>2. 0 \in S
  BY <1>1, ReadingStart
<1>3. ASSUME NEW i \in Nat, i \in S PROVE i + 1 \in S
  <2>1. SUFFICES ASSUME i + 1 <= Len(body)
                 PROVE  Reading(body, NewDelta)[i + 1] = Reading(body, deltas)[i + 1]
    OBVIOUS
  <2> DEFINE s == Reading(body, deltas)[i]
             r == body[i + 1]
  <2>2. i + 1 \in 1..Len(body) /\ (i + 1) - 1 = i /\ Reading(body, NewDelta)[i] = s
    BY <1>1, <1>3, <2>1
  <2>3. r \in Record /\ (r.op # "P" => r.delta \in Nat /\ r.delta < NewDelta)
    BY <1>1, <2>2, MarkRecord DEF TInv, Marks
  <2>4. /\ Reading(body, deltas)[i + 1] = Read(s, r, deltas)
        /\ Reading(body, NewDelta)[i + 1] = Read(s, r, NewDelta)
    BY <1>1, <2>2, ReadingNext
  <2> HIDE DEF s, r
  <2>5. CASE r.op = "P"
    BY <2>4, <2>5 DEF Read
  <2>6. CASE r.op # "P"
    <3>1. /\ InsertMode(r.delta, NewDelta) = InsertMode(r.delta, deltas)
          /\ DeleteMode(r.delta, NewDelta) = DeleteMode(r.delta, deltas)
      BY <1>1, <2>3, <2>6 DEF InsertMode, DeleteMode
    <3>2. Control(s.dstate, r, NewDelta) = Control(s.dstate, r, deltas)
      BY <3>1 DEF Control
    <3> QED
      BY <2>4, <2>6, <3>2 DEF Read
  <2> QED
    BY <2>5, <2>6
<1> HIDE DEF S
<1>4. Nat \subseteq S
  BY <1>2, <1>3, SetInduction
<1> QED
  BY <1>1, <1>4 DEF S, Old

\* What a reader for the new delta keeps: nothing in a Delete mark of the new
\* delta, all in its Insert mark, and else what the base has.
LEMMA NewKeeps ==
    ASSUME TInv, AllTidy, Copying, AnyBase = FALSE
    PROVE  /\ Deleting => New(NewDelta).keeping = FALSE
           /\ ~ Deleting /\ isAdding => New(NewDelta).keeping = TRUE
           /\ ~ Deleting /\ ~ isAdding => New(NewDelta).keeping = Old(base).keeping
           /\ Old(NewDelta) = Old(base)
<1> DEFINE n == New(NewDelta)
           o == Old(NewDelta)
<1>1. /\ NewDelta \in Nat /\ o.dstate \in DeltaState /\ o.keeping = Keeps(o.dstate)
      /\ n.keeping = Keeps(n.dstate)
      /\ DeleteMark(NewDelta) \in Entry /\ InsertMark(NewDelta) \in Entry
  BY TwoReaders, OwnMarks
<1>2. /\ DeleteMark(NewDelta).mode = "stSkip" /\ InsertMark(NewDelta).mode = "stKeep"
  BY <1>1 DEF DeleteMark, InsertMark, DeleteMode, InsertMode
<1>3. n.dstate = Mark(NewDelta) \o o.dstate
  BY <1>1 DEF AllTidy, OutTidy, Over
<1>4. base = deltas /\ deltas > 0
  BY DEF AllTidy, Based, TInv, TypeOK
<1>5. o = Old(base)
  BY <1>4, LastAlike
<1> HIDE DEF n, o
<1>6. ASSUME Deleting PROVE n.keeping = FALSE
  <2>1. n.dstate = <<DeleteMark(NewDelta)>> \o o.dstate
    BY <1>3, <1>6 DEF Mark, DeleteMark
  <2>2. ~ Keeps(n.dstate)
    BY <1>1, <1>2, <2>1, KeepsUnderHead
  <2>3. Keeps(n.dstate) \in BOOLEAN
    BY DEF Keeps
  <2> QED
    BY <1>1, <2>2, <2>3
<1>7. ASSUME ~ Deleting, isAdding PROVE n.keeping = TRUE
  <2>1. n.dstate = <<InsertMark(NewDelta)>> \o o.dstate
    BY <1>3, <1>7 DEF Mark, InsertMark
  <2>2. Keeps(n.dstate)
    BY <1>1, <1>2, <2>1, KeepsUnderHead
  <2>3. Keeps(n.dstate) \in BOOLEAN
    BY DEF Keeps
  <2> QED
    BY <1>1, <2>2, <2>3
<1>8. ASSUME ~ Deleting, ~ isAdding PROVE n.keeping = o.keeping
  <2>1. Mark(NewDelta) = << >>
    BY <1>8 DEF Mark
  <2>2. << >> \o o.dstate = o.dstate
    BY <1>1, ConcatEmptySeq DEF DeltaState
  <2>3. n.dstate = o.dstate
    BY <1>3, <2>1, <2>2
  <2> QED
    BY <1>1, <2>3
<1> QED
  BY Zenon, <1>5, <1>6, <1>7, <1>8 DEF n, o

\* What the new file has of the new text.
Seen == New(NewDelta).got

\* Lines of the base before the next mark of the new delta.
Before == IF hunk.cmd = "a" THEN hunk.left ELSE hunk.left - 1

\* Lines of the base that are to be copied before the next mark.
Ahead == IF pc = "left" \/ (pc = "right" /\ hunk.cmd = "a") THEN Before - Taken
         ELSE IF pc = "rest" THEN Len(prior) - Taken
         ELSE 0

\* Lines of the text that the new file has then.
Upto == IF pc \in {"rest", "rename"} THEN Len(text) ELSE newAt

LaterText == Copying => Fill(Seen, text, prior, Taken, Ahead, Upto)

\* A line of the old body is copied.
LEMMA LinePassed ==
    ASSUME WInv, ParserInv, AnyBase = FALSE, Parsing, parser.isPending \/ ~ AtEnd,
           Current.op = "P", Emit(Current), parser'.at = parser.at + 1,
           UNCHANGED <<deltas, body, base, prior>>
    PROVE  /\ ~ parser.keeping => Taken' = Taken /\ Seen' = Seen
           /\ parser.keeping => /\ Taken' = Taken + 1 /\ Taken + 1 <= Len(prior)
                                /\ Seen' = IF Deleting THEN Seen
                                           ELSE Append(Seen, prior[Taken + 1])
<1> DEFINE s == Old(base)
           n == New(NewDelta)
           r == Current
           c == parser.at + 1
<1> TInv /\ AllTidy
  BY DEF WInv
<1>1. Copying /\ isAdding = FALSE
  BY ParsingMark DEF TInv, TypeOK, Shape, Parsing
<1>2. /\ base \in Nat /\ s \in ReaderState /\ s.got \in Seq(Lines)
      /\ NewDelta \in Nat /\ n \in ReaderState /\ n.got \in Seq(Lines)
      /\ r \in Record /\ r.op = "P" /\ Len(s.got) \in Nat
  <2>1. base \in Nat /\ NewDelta \in Nat
    BY <1>1, Counts, TwoReaders
  <2>2. s \in ReaderState /\ s.got \in Seq(Lines)
    BY <2>1, TwoReaders
  <2>3. n \in ReaderState /\ n.got \in Seq(Lines)
    BY <2>1, TwoReaders
  <2>4. r \in Record
    BY <1>1, CurrentFits
  <2> HIDE DEF s, n
  <2>5. Len(s.got) \in Nat
    BY <2>2, LenProperties
  <2> QED
    BY <2>1, <2>2, <2>3, <2>4, <2>5
<1>3. /\ parser.keeping = s.keeping /\ prior = Extract(body, base)
  BY <1>1 DEF ParserInv, Follows, Matches
<1>4. Reading(body', base)[parser'.at] = Read(s, r, base)
  BY <1>2, OldNext
<1>5. Taken' = Len(Read(s, r, base).got)
  BY <1>4 DEF Taken, Old
<1>6. /\ Deleting => n.keeping = FALSE
      /\ ~ Deleting => n.keeping = s.keeping
  BY Zenon, <1>1, NewKeeps
<1>7. Seen' = Read(n, r, NewDelta).got
  <2>1. Final(out', NewDelta) = Read(n, r, NewDelta)
    BY <1>2, NewAppended DEF Emit
  <2> QED
    BY <2>1 DEF Seen, New, NewDelta
<1>8. /\ Read(s, r, base).got = IF s.keeping THEN Append(s.got, r.line) ELSE s.got
      /\ Read(n, r, NewDelta).got = IF n.keeping THEN Append(n.got, r.line) ELSE n.got
  BY <1>2, ReadLine
<1>9. Taken = Len(s.got) /\ Seen = n.got
  BY DEF Taken, Seen
<1>10. ASSUME ~ parser.keeping PROVE Taken' = Taken /\ Seen' = Seen
  <2> HIDE DEF s, n, r
  <2>1. ~ s.keeping /\ ~ n.keeping
    BY Zenon, <1>3, <1>6, <1>10
  <2>2. Read(s, r, base).got = s.got /\ Read(n, r, NewDelta).got = n.got
    BY Zenon, <1>8, <2>1
  <2> QED
    BY <1>5, <1>7, <1>9, <2>2
<1>11. ASSUME parser.keeping
       PROVE  /\ Taken' = Taken + 1 /\ Taken + 1 <= Len(prior)
              /\ Seen' = IF Deleting THEN Seen ELSE Append(Seen, prior[Taken + 1])
  <2>1. c \in 0..Len(body) /\ body \in Seq(Record)
    BY CurrentRecord, ParserTyped DEF TInv, TypeOK
  <2>2. Reading(body, base)[c] = Read(s, r, base)
    BY <1>4
  <2> DEFINE g == Reading(body, base)[c].got
  <2>3. /\ Len(g) <= Len(Extract(body, base))
        /\ \A i \in 1..Len(g) : Extract(body, base)[i] = g[i]
    BY <1>2, <2>1, GotGrows
  <2> HIDE DEF s, n, r, c
  <2>4. g = Append(s.got, r.line)
    BY Zenon, <1>3, <1>8, <1>11, <2>2
  <2> HIDE DEF g
  <2>5. Len(g) = Len(s.got) + 1 /\ g[Len(s.got) + 1] = r.line
    BY <1>2, <2>4
  <2>6. Taken' = Taken + 1 /\ Taken + 1 <= Len(prior) /\ prior[Taken + 1] = r.line
    BY <1>2, <1>3, <1>5, <1>9, <2>2, <2>3, <2>5 DEF g
  <2>7. ASSUME Deleting PROVE Seen' = Seen
    BY Zenon, <1>6, <1>7, <1>8, <1>9, <2>7
  <2>8. ASSUME ~ Deleting PROVE Seen' = Append(Seen, r.line)
    BY Zenon, <1>3, <1>6, <1>7, <1>8, <1>9, <1>11, <2>8
  <2> QED
    BY <2>6, <2>7, <2>8
<1> QED
  BY <1>10, <1>11

LEMMA LineText ==
    ASSUME WInv, ParserInv, ParserInv', LaterText, AnyBase = FALSE,
           FlushPending \/ CopyLine
    PROVE  LaterText'
<1> TInv /\ AllTidy
  BY DEF WInv
<1>1. /\ Parsing /\ (parser.isPending \/ ~ AtEnd)
      /\ Emit(Current)
      /\ UNCHANGED <<deltas, body, pc, base, text, prior, hunk, oldAt, newAt, isAdding>>
  BY DEF FlushPending, CopyLine, file, diff
<1>2. Copying /\ Copying'
  BY <1>1, ParsingMark DEF Copying
<1>3. Current.op = "P"
  BY <1>2 DEF FlushPending, CopyLine, ParserInv, Follows
<1>4. parser'.at = parser.at + 1 /\ parser'.isPending = FALSE
  <2>1. CASE FlushPending
    BY <2>1, ParserTyped DEF FlushPending, ParserState
  <2>2. CASE CopyLine
    <3> DEFINE l == IF parser.keeping THEN parser.lineNo + 1 ELSE parser.lineNo
    <3>1. /\ parser' = [parser EXCEPT !.at = parser.at + 1, !.lineNo = l]
          /\ parser.isPending = FALSE
      BY <2>2, ParserTyped DEF CopyLine
    <3> HIDE DEF l
    <3> QED
      BY <3>1, ParserTyped DEF ParserState
  <2> QED
    BY <2>1, <2>2
<1>5. /\ ~ parser.keeping => Taken' = Taken /\ Seen' = Seen
      /\ parser.keeping => /\ Taken' = Taken + 1 /\ Taken + 1 <= Len(prior)
                           /\ Seen' = IF Deleting THEN Seen
                                      ELSE Append(Seen, prior[Taken + 1])
  BY <1>1, <1>3, <1>4, LinePassed
<1>6. /\ Fill(Seen, text, prior, Taken, Ahead, Upto)
      /\ Upto' = Upto /\ Before' = Before
  BY <1>1, <1>2 DEF LaterText, Upto, Before
<1>7. /\ Taken \in Nat /\ text \in Seq(Lines) /\ Len(prior) \in Nat
      /\ hunk.left \in Nat /\ hunk.right \in Nat
      /\ Seen \in Seq(Lines)
  BY <1>2, Counts, TwoReaders, OwnMarks DEF Seen
<1>8. Fill(Seen', text, prior, Taken', Ahead', Upto)
  <2>1. CASE ~ parser.keeping
    <3>1. Ahead' = Ahead
      BY <1>1, <1>5, <1>6, <2>1 DEF Ahead
    <3> QED
      BY <1>5, <1>6, <2>1, <3>1
  <2>2. CASE parser.keeping /\ Deleting
    <3>1. Ahead' = 0 /\ Ahead = 0
      BY <1>1, <2>2 DEF Ahead, Parsing, Deleting
    <3> QED
      BY <1>5, <1>6, <2>2, <3>1, FillPast
  <2>3. CASE parser.keeping /\ ~ Deleting
    <3>1. \/ pc = "left" \/ (pc = "right" /\ hunk.cmd = "a")
          \/ pc = "rest"
      BY <1>1, <2>3 DEF Parsing, Deleting
    <3>2. Ahead' = Ahead - 1
      <4>1. Before \in Int /\ Taken' = Taken + 1
        BY <1>5, <1>7, <2>3 DEF Before
      <4>2. /\ pc' = pc /\ hunk'.cmd = hunk.cmd /\ Len(prior') = Len(prior)
            /\ Before' = Before
        BY <1>1, <1>6
      <4> QED
        BY <1>7, <3>1, <4>1, <4>2 DEF Ahead
    <3>3. parser'.lineNo = Taken'
      <4>1. Matches(parser', Old(base)') /\ Len(Old(base)'.got) \in Nat
        BY <1>2, <1>5, <1>7, <2>3 DEF ParserInv, Follows, Taken
      <4> QED
        BY <1>4, <4>1, MatchesCount DEF Taken
    <3>4. Ahead > 0
      <4>1. CASE pc = "left"
        <5>1. hunk.cmd # "a" /\ parser'.lineNo < hunk.left
          BY <1>1, <4>1 DEF ParserInv, InHunk, TInv, Shape
        <5> QED
          BY <1>5, <1>7, <2>3, <3>3, <4>1, <5>1 DEF Ahead, Before
      <4>2. CASE pc = "right" /\ hunk.cmd = "a"
        <5>1. hunk.left = hunk.right /\ parser'.lineNo < hunk.right + 1
          BY <1>1, <4>2 DEF ParserInv, InHunk, HunkApplies
        <5> QED
          BY <1>5, <1>7, <2>3, <3>3, <4>2, <5>1 DEF Ahead, Before
      <4>3. CASE pc = "rest"
        BY <1>5, <1>7, <2>3, <4>3 DEF Ahead
      <4> QED
        BY <3>1, <4>1, <4>2, <4>3
    <3> QED
      BY <1>5, <1>6, <1>7, <2>3, <3>2, <3>4, FillCopy
  <2> QED
    BY <2>1, <2>2, <2>3
<1> QED
  BY <1>1, <1>6, <1>8 DEF LaterText

\* A mark of the old body is copied.
LEMMA ControlText ==
    ASSUME WInv, ParserInv, ParserInv', LaterText, AnyBase = FALSE, CopyControl
    PROVE  LaterText'
<1> TInv /\ AllTidy
  BY DEF WInv
<1> DEFINE ds == Control(parser.dstate, Current, base)
           r == Current
<1>1. /\ Parsing /\ ~ parser.isPending /\ ~ AtEnd /\ r.op # "P" /\ out' = Append(out, r)
      /\ parser' = [parser EXCEPT !.at = parser.at + 1, !.dstate = ds,
                                  !.keeping = Keeps(ds)]
      /\ pc' = IF Bad(parser.dstate, r) THEN "panic" ELSE pc
      /\ UNCHANGED <<deltas, body, base, text, prior, hunk, oldAt, newAt, isAdding>>
  BY DEF CopyControl, Emit, file, diff
<1>2. pc' = pc
  BY <1>1 DEF ParserInv, NeverFails
<1>3. Copying
  BY <1>1, ParsingMark
<1>4. parser'.at = parser.at + 1
  BY <1>1, ParserTyped DEF ParserState
<1>5. /\ base \in Nat /\ Old(base) \in ReaderState /\ r \in Record
      /\ NewDelta \in Nat /\ New(NewDelta) \in ReaderState
  BY <1>1, <1>3, Counts, TwoReaders, CurrentFits
<1>6. Old(base)' = Read(Old(base), r, base)
  BY <1>1, <1>4, <1>5, OldNext DEF Old
<1>7. New(NewDelta)' = Read(New(NewDelta), r, NewDelta)
  BY <1>1, <1>5, NewAppended DEF New, NewDelta
<1>8. Taken' = Taken /\ Seen' = Seen
  BY <1>1, <1>5, <1>6, <1>7, ReadMark DEF Taken, Seen
<1>9. Ahead' = Ahead /\ Upto' = Upto
  BY <1>1, <1>2, <1>8 DEF Ahead, Before, Upto
<1> QED
  BY <1>1, <1>3, <1>8, <1>9 DEF LaterText

\* ParseTo stops, at a line or at the end: no line is left to be copied.
LEMMA StopText ==
    ASSUME WInv, ParserInv, ParserInv', LaterText, StopAtLine \/ StopAtEnd
    PROVE  LaterText'
<1> TInv /\ AllTidy
  BY DEF WInv
<1>1. /\ Parsing /\ ~ parser.isPending
      /\ parser'.at = parser.at
      /\ UNCHANGED <<deltas, body, base, text, prior, out, hunk, oldAt, newAt>>
  <2>1. CASE StopAtLine
    BY <2>1, ParserTyped DEF StopAtLine, file, diff, ParserState
  <2>2. CASE StopAtEnd
    BY <2>2 DEF StopAtEnd, file, diff, copy
  <2> QED
    BY <2>1, <2>2
<1>2. Copying
  BY <1>1, ParsingMark
<1>3. Taken' = Taken /\ Seen' = Seen
  BY <1>1 DEF Taken, Seen, Old, New, NewDelta
<1>4. /\ Fill(Seen, text, prior, Taken, Ahead, Upto) /\ Ahead \in Nat
      /\ Taken \in Nat /\ hunk.left \in Nat /\ hunk.right \in Nat /\ Len(prior) \in Nat
      /\ oldAt \in Nat
  BY <1>2, Counts DEF LaterText, Fill
<1>5. parser.lineNo = Taken
  BY <1>1, <1>2, <1>4, MatchesCount DEF ParserInv, Follows, Taken
<1>6. CASE StopAtLine
  <2>1. /\ parser.lineNo + 1 = Target
        /\ pc' = CASE pc = "left"                    -> "delete"
                   [] pc = "right" /\ hunk.cmd = "a" -> "insert"
                   [] pc = "right" /\ hunk.cmd # "a" -> "endDelete"
                   [] OTHER                          -> "panic"
    BY <1>6 DEF StopAtLine, Found
  <2>2. pc \in {"left", "right"}
    BY <1>1, <2>1 DEF Parsing, ParserInv, NeverFails
  <2>3. pc' \in {"delete", "insert", "endDelete"}
    BY <2>1, <2>2
  <2>4. Ahead' = 0 /\ Upto' = Upto
    BY <1>1, <2>2, <2>3 DEF Ahead, Upto
  <2>5. Ahead = 0
    <3>1. CASE pc = "left"
      <4>1. hunk.cmd # "a" /\ Taken + 1 = hunk.left
        BY <1>5, <2>1, <3>1 DEF Target, TInv, Shape
      <4> QED
        BY <1>4, <3>1, <4>1 DEF Ahead, Before
    <3>2. CASE pc = "right" /\ hunk.cmd = "a"
      <4>1. Taken + 1 = hunk.right + 1 /\ hunk.left = hunk.right
        BY <1>5, <2>1, <3>2 DEF Target, ParserInv, InHunk, HunkApplies
      <4> QED
        BY <1>4, <3>2, <4>1 DEF Ahead, Before
    <3>3. CASE pc = "right" /\ hunk.cmd # "a"
      BY <3>3 DEF Ahead
    <3> QED
      BY <2>2, <3>1, <3>2, <3>3
  <2> QED
    BY <1>1, <1>3, <1>4, <2>4, <2>5 DEF LaterText
<1>7. CASE StopAtEnd
  <2>1. /\ AtEnd
        /\ pc' = CASE pc = "left"                    -> "failed"
                   [] pc = "right" /\ hunk.cmd = "a" -> "insert"
                   [] pc = "right" /\ hunk.cmd # "a" -> "endDelete"
                   [] OTHER                          -> "rename"
    BY <1>7 DEF StopAtEnd
  <2>2. pc \in {"right", "rest"}
    BY <1>1, <2>1 DEF Parsing, ParserInv, NeverFails
  <2>3. /\ pc = "right" => pc' \in {"insert", "endDelete"}
        /\ pc = "rest" => pc' = "rename"
    BY <2>1
  <2>4. Ahead' = 0 /\ Upto' = Upto
    BY <1>1, <2>2, <2>3 DEF Ahead, Upto
  <2>5. Taken = Len(prior)
    BY <1>2, <2>1, AllTaken
  <2>6. Ahead = 0
    <3>1. CASE pc = "rest"
      BY <1>4, <2>5, <3>1 DEF Ahead
    <3>2. CASE pc = "right" /\ hunk.cmd = "a"
      <4>1. hunk.left = oldAt /\ oldAt <= Len(prior)
        BY <3>2 DEF ParserInv, InHunk, HunkApplies
      <4> QED
        BY <1>4, <2>5, <3>2, <4>1 DEF Ahead, Before
    <3>3. CASE pc = "right" /\ hunk.cmd # "a"
      BY <3>3 DEF Ahead
    <3> QED
      BY <2>2, <3>1, <3>2, <3>3
  <2> QED
    BY <1>1, <1>3, <1>4, <2>4, <2>6 DEF LaterText
<1> QED
  BY <1>6, <1>7

\* A mark adds no line.
LEMMA MarkSeen ==
    ASSUME TInv, NEW r \in Record, r.op # "P", out' = Append(out, r), deltas' = deltas
    PROVE  Seen' = Seen
<1>1. NewDelta \in Nat /\ New(NewDelta) \in ReaderState
  BY TwoReaders, OwnMarks
<1>2. New(NewDelta)' = Read(New(NewDelta), r, NewDelta)
  BY NewAppended DEF New, NewDelta
<1> QED
  BY <1>1, <1>2, ReadMark DEF Seen

\* A hunk begins, or the diff ends: the Insert mark of the previous hunk is
\* closed.
LEMMA CloseSeen ==
    ASSUME TInv, deltas' = deltas,
           out' = IF isAdding THEN Append(out, End(NewDelta)) ELSE out
    PROVE  Seen' = Seen
<1>1. End(NewDelta) \in Record /\ End(NewDelta).op # "P"
  BY OwnMarks DEF End
<1>2. CASE isAdding
  <2>1. out' = Append(out, End(NewDelta))
    BY Zenon, <1>2
  <2> QED
    BY <1>1, <2>1, MarkSeen
<1>3. CASE ~ isAdding
  <2>1. out' = out
    BY Zenon, <1>3
  <2> QED
    BY <2>1 DEF Seen, New, NewDelta
<1> QED
  BY <1>2, <1>3

LEMMA HunkText ==
    ASSUME WInv, ParserInv, LaterText, NextHunk
    PROVE  LaterText'
<1> TInv /\ AllTidy
  BY DEF WInv
<1>1. /\ pc = "diff" /\ pc' \in {"left", "right"}
      /\ UNCHANGED <<deltas, body, base, text, prior, parser>>
      /\ out' = IF isAdding THEN Append(out, End(NewDelta)) ELSE out
  BY DEF NextHunk, file
<1>2. Copying
  BY <1>1 DEF Copying
<1>3. Taken' = Taken /\ Seen' = Seen /\ Taken = oldAt
  BY <1>1, CloseSeen DEF Taken, Old, ParserInv, InHunk
<1>4. Fill(Seen, text, prior, oldAt, 0, newAt)
  BY <1>1, <1>2, <1>3 DEF LaterText, Ahead, Upto
<1>5. PICK gap \in 0..Len(prior) : \E dl \in 0..Len(prior), al \in 0..Len(text) :
          /\ IsHunk(gap, dl, al)
          /\ hunk' = HunkLine(gap, dl, al)
          /\ oldAt' = oldAt + gap + dl
          /\ newAt' = newAt + gap
          /\ pc' = IF dl > 0 THEN "left" ELSE "right"
  BY DEF NextHunk
<1>6. PICK dl \in 0..Len(prior), al \in 0..Len(text) :
          /\ IsHunk(gap, dl, al)
          /\ hunk' = HunkLine(gap, dl, al)
          /\ newAt' = newAt + gap
          /\ pc' = IF dl > 0 THEN "left" ELSE "right"
  BY <1>5
<1>7. /\ gap \in Nat /\ dl \in Nat /\ al \in Nat /\ oldAt \in Nat /\ newAt \in Nat
      /\ Len(prior) \in Nat /\ Len(text) \in Nat
      /\ text \in Seq(Lines) /\ Seen \in Seq(Lines)
  <2>1. /\ oldAt \in Nat /\ newAt \in Nat /\ Len(prior) \in Nat /\ Len(text) \in Nat
        /\ text \in Seq(Lines)
    BY <1>2, Counts
  <2>2. Seen \in Seq(Lines)
    BY TwoReaders, OwnMarks DEF Seen
  <2> QED
    BY <1>5, <1>6, <2>1, <2>2
<1>8. newAt + gap <= Len(text) /\ \A i \in 1..gap : prior[oldAt + i] = text[newAt + i]
  BY <1>6, <1>7 DEF IsHunk
<1>9. Ahead' = gap /\ Upto' = newAt + gap
  <2>1. Upto' = newAt + gap
    BY <1>1, <1>6 DEF Upto
  <2>2. CASE dl = 0
    <3>1. hunk'.cmd = "a" /\ hunk'.left = oldAt + gap /\ pc' = "right"
      BY <1>6, <1>7, <2>2 DEF HunkLine, IsHunk
    <3>2. Before' = oldAt + gap
      BY <3>1 DEF Before
    <3> QED
      BY <1>3, <1>7, <2>1, <3>1, <3>2 DEF Ahead
  <2>3. CASE dl > 0
    <3>1. hunk'.cmd # "a" /\ hunk'.left = oldAt + gap + 1 /\ pc' = "left"
      BY <1>6, <1>7, <2>3 DEF HunkLine, IsHunk
    <3>2. Before' = oldAt + gap
      BY <1>7, <3>1 DEF Before
    <3> QED
      BY <1>3, <1>7, <2>1, <3>1, <3>2 DEF Ahead
  <2> QED
    BY <1>7, <2>2, <2>3
<1>10. Fill(Seen, text, prior, oldAt, gap, newAt + gap)
  BY <1>4, <1>7, <1>8, FillAhead
<1> QED
  BY <1>1, <1>3, <1>9, <1>10 DEF LaterText

\* The marks of the new delta.
LEMMA OwnMarkText ==
    ASSUME WInv, ParserInv, LaterText, StartDelete \/ EndDelete \/ StartInsert
    PROVE  LaterText'
<1> TInv /\ AllTidy
  BY DEF WInv
<1>1. /\ pc \in {"delete", "endDelete", "insert"}
      /\ pc = "delete" => pc' = "right" /\ hunk.cmd # "a"
      /\ pc # "delete" => pc' \in {"insert", "adding", "diff"}
      /\ UNCHANGED <<deltas, body, base, text, prior, parser, hunk, newAt>>
  BY DEF StartDelete, EndDelete, StartInsert, file, diff, TInv, Shape
<1>2. PICK r \in Record : r.op # "P" /\ out' = Append(out, r)
  BY OwnMarks DEF StartDelete, EndDelete, StartInsert, Emit, Insert, Delete, End
<1>3. Taken' = Taken /\ Seen' = Seen
  BY <1>1, <1>2, MarkSeen DEF Taken, Old
<1>4. Ahead = 0 /\ Ahead' = 0 /\ Upto = newAt /\ Upto' = newAt
  BY <1>1 DEF Ahead, Upto
<1>5. Copying
  BY <1>1 DEF Copying
<1> QED
  BY <1>1, <1>3, <1>4, <1>5 DEF LaterText

\* A line of the diff goes to the new file.
LEMMA AddText ==
    ASSUME WInv, LaterText, AnyBase = FALSE, AddLine
    PROVE  LaterText'
<1> TInv /\ AllTidy
  BY DEF WInv
<1> DEFINE x == text[newAt + 1]
           n == New(NewDelta)
<1>1. /\ pc = "adding" /\ pc' \in {"adding", "diff"} /\ out' = Append(out, Plain(x))
      /\ newAt' = newAt + 1
      /\ UNCHANGED <<deltas, body, base, text, prior, parser>>
  BY DEF AddLine, Emit, file
<1>2. Copying /\ isAdding /\ ~ Deleting
  BY <1>1 DEF Copying, Deleting, TInv, Shape
<1>3. newAt \in Nat /\ text \in Seq(Lines) /\ newAt + 1 <= Len(text) /\ Len(text) \in Nat
  BY <1>1, TextLines DEF TInv, TypeOK, Shape, Hunk
<1>4. x \in Lines /\ Plain(x) \in Record
  <2>1. newAt + 1 \in 1..Len(text)
    BY <1>3
  <2>2. x \in Lines
    BY <1>3, <2>1
  <2> QED
    BY <2>2 DEF Plain, Record
<1>5. n \in ReaderState /\ n.got \in Seq(Lines) /\ NewDelta \in Nat
  BY TwoReaders, OwnMarks
<1>6. n.keeping
  BY <1>2, NewKeeps
<1>7. New(NewDelta)' = Read(n, Plain(x), NewDelta)
  BY <1>1, <1>4, NewAppended DEF New, NewDelta
<1> HIDE DEF x, n
<1>8. Read(n, Plain(x), NewDelta).got = Append(n.got, x)
  BY <1>4, <1>5, <1>6, ReadPlain
<1>9. Seen' = Append(Seen, x) /\ Seen \in Seq(Lines) /\ Taken' = Taken
  BY <1>1, <1>5, <1>7, <1>8 DEF Seen, Taken, Old, n
<1>10. Fill(Seen, text, prior, Taken, 0, newAt)
  BY <1>1, <1>2 DEF LaterText, Ahead, Upto
<1>11. Fill(Append(Seen, text[newAt + 1]), text, prior, Taken, 0, newAt + 1)
  BY <1>3, <1>9, <1>10, FillAdd
<1> QED
  BY <1>1, <1>9, <1>11 DEF LaterText, Ahead, Upto, x

\* The diff is used up: what is left of the base is what is left of the text.
LEMMA RestText ==
    ASSUME WInv, ParserInv, LaterText, EndOfDiff
    PROVE  LaterText'
<1> TInv /\ AllTidy
  BY DEF WInv
<1>1. /\ pc = "diff" /\ RestIsSame
      /\ pc' = IF isDone THEN "rename" ELSE "rest"
      /\ UNCHANGED <<deltas, body, base, text, prior, parser>>
      /\ out' = IF isAdding THEN Append(out, End(NewDelta)) ELSE out
  BY DEF EndOfDiff, file, diff
<1>2. Copying
  BY <1>1 DEF Copying
<1>3. Taken' = Taken /\ Seen' = Seen /\ Taken = oldAt
  BY <1>1, CloseSeen DEF Taken, Old, ParserInv, InHunk
<1>4. Fill(Seen, text, prior, oldAt, 0, newAt)
  BY <1>1, <1>2, <1>3 DEF LaterText, Ahead, Upto
<1>5. /\ oldAt \in Nat /\ newAt \in Nat /\ Len(prior) \in Nat /\ Len(text) \in Nat
      /\ text \in Seq(Lines) /\ Seen \in Seq(Lines) /\ base \in Nat
  BY <1>2, Counts, TwoReaders, OwnMarks DEF Seen
<1>6. oldAt <= Len(prior)
  <2>1. parser.at \in 0..Len(body) /\ body \in Seq(Record)
    BY ParserTyped DEF TInv, TypeOK, Shape
  <2>2. Len(Reading(body, base)[parser.at].got) <= Len(Extract(body, base))
    BY <1>5, <2>1, GotGrows
  <2> QED
    BY <1>2, <1>3, <2>2 DEF Taken, Old, ParserInv, Follows
<1>7. /\ Len(prior) - oldAt = Len(text) - newAt
      /\ \A i \in 1..Len(prior) - oldAt : prior[oldAt + i] = text[newAt + i]
  BY <1>1 DEF RestIsSame
<1> DEFINE a == Len(prior) - oldAt
<1>8. a \in Nat /\ newAt + a = Len(text)
  BY <1>5, <1>6, <1>7
<1>9. Fill(Seen, text, prior, oldAt, a, Len(text))
  <2>1. \A i \in 1..a : prior[oldAt + i] = text[newAt + i]
    BY <1>7
  <2>2. newAt + a <= Len(text)
    BY <1>5, <1>8
  <2> HIDE DEF a
  <2>3. Fill(Seen, text, prior, oldAt, a, newAt + a)
    BY <1>4, <1>5, <1>8, <2>1, <2>2, FillAhead
  <2> QED
    BY <1>8, <2>3
<1>10. CASE isDone
  <2>1. pc' = "rename" /\ AtEnd
    BY <1>1, <1>10 DEF TInv, Shape, AtEnd
  <2>2. a = 0
    BY <1>2, <1>3, <1>5, <2>1, AllTaken
  <2> QED
    BY <1>1, <1>3, <1>9, <2>1, <2>2 DEF LaterText, Ahead, Upto
<1>11. CASE ~ isDone
  <2>1. pc' = "rest"
    BY <1>1, <1>11
  <2> QED
    BY <1>1, <1>3, <1>9, <2>1 DEF LaterText, Ahead, Upto
<1> QED
  BY <1>10, <1>11

\* Nothing has been copied yet.
LEMMA StartText ==
    ASSUME WInv, ParserInv', StartApply
    PROVE  LaterText'
<1>1. /\ pc' = "diff" /\ out' = << >> /\ oldAt' = 0 /\ newAt' = 0 /\ text' = text
      /\ pc = "open"
  BY DEF StartApply
<1>2. text \in Seq(Lines) /\ Len(text) \in Nat
  BY <1>1, TextLines DEF WInv
<1>3. Seen' = << >>
  BY <1>1, FinalEmpty DEF Seen, New, NewReader
<1>4. Fill(<< >>, text, prior', Taken', 0, 0)
  BY <1>2 DEF Fill
<1>5. Ahead' = 0 /\ Upto' = 0
  BY <1>1 DEF Ahead, Upto
<1> QED
  BY <1>1, <1>3, <1>4, <1>5 DEF LaterText

LEMMA NextLaterText ==
    ASSUME WInv, ParserInv, LaterText, AnyBase = FALSE, [Next]_vars
    PROVE  LaterText'
<1>1. ParserInv'
  BY NextParser
<1>2. CASE \/ First \/ Rename \/ GetPrior
           \/ \E t \in Texts, b \in 1..deltas : NewDeltaWriter(t, b)
  <2>1. ~ Copying'
    <3>1. CASE First
      BY <3>1 DEF First, NewNewWeave, WriteFirst, CloseNewWeave, file, Copying,
                  WInv, TInv, Shape
    <3>2. CASE \/ Rename \/ GetPrior
               \/ \E t \in Texts, b \in 1..deltas : NewDeltaWriter(t, b)
      BY <3>2 DEF Rename, GetPrior, NewDeltaWriter, Copying
    <3> QED
      BY <1>2, <3>1, <3>2
  <2> QED
    BY <2>1 DEF LaterText
<1>3. CASE UNCHANGED vars
  BY <1>3 DEF vars, LaterText, Copying, Seen, Taken, Ahead, Before, Upto, New, Old, NewDelta
<1> QED
  BY <1>1, <1>2, <1>3, StartText, HunkText, OwnMarkText, AddText, RestText, LineText,
     ControlText, StopText
     DEF Next, Later, ApplyDiff, ParseTo

-----------------------------------------------------------------------------
\* The first revision: the lines of the text after one Insert mark.
FirstText ==
    /\ pc = "first" => /\ Len(out) = Len(Seen) + 1 /\ Len(Seen) <= Len(text)
                       /\ \A i \in 1..Len(Seen) : Seen[i] = text[i]
    /\ pc = "rename" /\ deltas = 0 => Seen = text

LEMMA FirstTextGrows == WInv /\ FirstText /\ First => FirstText'
<1> SUFFICES ASSUME WInv, FirstText, First PROVE FirstText'
  OBVIOUS
<1> TInv /\ AllTidy
  BY DEF WInv
<1> DEFINE n == New(NewDelta)
<1>1. deltas = 0 /\ NewDelta = 1 /\ deltas' = deltas
  BY DEF First, NewNewWeave, WriteFirst, CloseNewWeave, file, TInv, Shape, NewDelta
<1>2. n \in ReaderState /\ n.got \in Seq(Lines) /\ Len(n.got) \in Nat /\ Seen = n.got
  BY <1>1, TwoReaders DEF Seen
<1>3. Insert(1) \in Record /\ Insert(1).op # "P" /\ End(1) \in Record /\ End(1).op # "P"
  BY <1>1, OwnMarks DEF Insert, End
<1>4. CASE \E t \in Texts : NewNewWeave(t)
  <2>1. out' = <<Insert(1)>> /\ pc' = "first" /\ text' \in Texts
    BY <1>4 DEF NewNewWeave
  <2>2. text' \in Seq(Lines) /\ Len(text') \in Nat
    BY <2>1, TextsAssumption
  <2>3. out' = Append(<< >>, Insert(1)) /\ << >> \in Seq(Record)
    BY <2>1
  <2>4. New(NewDelta)' = Read(NewReader, Insert(1), 1)
    BY <1>1, <1>3, <2>3, FinalAppend, FinalEmpty DEF New, NewDelta
  <2>5. NewReader \in ReaderState /\ NewReader.got = << >>
    BY NewReaderGood DEF Good, NewReader
  <2>6. Seen' = << >>
    BY <1>3, <2>4, <2>5, ReadMark DEF Seen
  <2>7. Len(out') = 1
    BY <2>1
  <2> QED
    BY <2>1, <2>2, <2>6, <2>7 DEF FirstText
<1>5. CASE WriteFirst
  <2> DEFINE x == text[Len(out)]
  <2>1. /\ pc = "first" /\ pc' = "first" /\ Len(out) <= Len(text)
        /\ out' = Append(out, Plain(x)) /\ text' = text
    BY <1>5 DEF WriteFirst, Emit
  <2>2. /\ text \in Seq(Lines) /\ Len(text) \in Nat /\ out \in Seq(Record)
        /\ Len(out) \in 1..Len(text)
    BY <2>1, TextLines DEF TInv, TypeOK, Shape
  <2>3. x \in Lines
    BY <2>2
  <2>4. Plain(x) \in Record
    BY <2>3 DEF Plain, Record
  <2>5. n.keeping
    <3>1. n.dstate = <<InsertMark(1)>> \o << >> /\ InsertMark(1) \in Entry
      <4>1. n.dstate = <<InsertMark(1)>>
        BY <1>1, <2>1 DEF AllTidy, FirstTidy
      <4>2. <<InsertMark(1)>> \o << >> = <<InsertMark(1)>>
        OBVIOUS
      <4> QED
        BY <1>1, <4>1, <4>2, TwoReaders
    <3>2. InsertMark(1).mode = "stKeep" /\ << >> \in DeltaState
      BY <1>1 DEF InsertMark, InsertMode, DeltaState
    <3>3. Keeps(n.dstate)
      BY <3>1, <3>2, KeepsUnderHead
    <3>4. n.keeping = Keeps(n.dstate)
      BY <1>1, TwoReaders
    <3> QED
      BY <3>3, <3>4
  <2>6. New(NewDelta)' = Read(n, Plain(x), 1)
    BY <1>1, <2>1, <2>4, NewAppended DEF New, NewDelta
  <2>7. Len(out') = Len(out) + 1
    BY <2>1, <2>2
  <2>8. Len(out) = Len(Seen) + 1 /\ \A i \in 1..Len(Seen) : Seen[i] = text[i]
    BY <2>1 DEF FirstText
  <2> HIDE DEF n
  <2>9. Seen' = Append(Seen, x) /\ x = text[Len(Seen) + 1]
    <3>1. x = text[Len(Seen) + 1]
      BY <2>8
    <3> HIDE DEF x
    <3>2. Seen' = Append(n.got, x)
      <4>1. Read(n, Plain(x), 1).got = IF n.keeping THEN Append(n.got, x) ELSE n.got
        BY <1>2, <2>3, ReadPlain
      <4> QED
        BY Zenon, <2>5, <2>6, <4>1 DEF Seen
    <3> QED
      BY <1>2, <3>1, <3>2
  <2> HIDE DEF x
  <2>10. /\ Len(Seen') = Len(Seen) + 1
         /\ \A i \in 1..Len(Seen') : Seen'[i] = text[i]
    BY <1>2, <2>8, <2>9
  <2> QED
    BY <1>2, <2>1, <2>2, <2>7, <2>8, <2>10 DEF FirstText
<1>6. CASE CloseNewWeave
  <2>1. /\ pc = "first" /\ pc' = "rename" /\ Len(out) = Len(text) + 1
        /\ out' = Append(out, End(1)) /\ text' = text
    BY <1>6 DEF CloseNewWeave, Emit
  <2>2. Seen' = Seen
    BY <1>1, <1>3, <2>1, MarkSeen
  <2>3. text \in Seq(Lines) /\ Len(text) \in Nat /\ Seen \in Seq(Lines)
    BY <1>2, <2>1, TextLines
  <2>4. Len(Seen) = Len(text) /\ \A i \in 1..Len(Seen) : Seen[i] = text[i]
    BY <1>2, <2>1, <2>3 DEF FirstText
  <2>5. Seen = text
    BY <2>3, <2>4, SeqEqual
  <2> QED
    BY <2>1, <2>2, <2>5 DEF FirstText
<1> QED
  BY <1>4, <1>5, <1>6 DEF First

LEMMA NextFirstText == WInv /\ FirstText /\ [Next]_vars => FirstText'
<1> SUFFICES ASSUME WInv, FirstText, [Next]_vars PROVE FirstText'
  OBVIOUS
<1>1. CASE First
  BY <1>1, FirstTextGrows
<1>2. CASE UNCHANGED vars
  BY <1>2 DEF vars, FirstText, Seen, New, NewDelta
<1>3. CASE Rename \/ GetPrior \/ \E t \in Texts, b \in 1..deltas : NewDeltaWriter(t, b)
  BY <1>3 DEF Rename, GetPrior, NewDeltaWriter, FirstText
<1>4. CASE ApplyDiff
  <2>1. pc = "open" \/ Copying
    BY <1>4 DEF ApplyDiff, ParseTo, StartApply, NextHunk, StartDelete, EndDelete,
                StartInsert, AddLine, EndOfDiff, FlushPending, CopyLine,
                CopyControl, StopAtLine, StopAtEnd, Parsing, Copying
  <2>2. deltas > 0
    BY <2>1 DEF WInv, AllTidy, Based, TInv, TypeOK
  <2>3. deltas' = deltas /\ pc' # "first"
    BY <1>4, <2>1
       DEF ApplyDiff, ParseTo, StartApply, NextHunk, StartDelete, EndDelete,
           StartInsert, AddLine, EndOfDiff, FlushPending, CopyLine, CopyControl,
           StopAtLine, StopAtEnd, Parsing, file
  <2> QED
    BY <2>2, <2>3 DEF FirstText, WInv, TInv, TypeOK
<1> QED
  BY <1>1, <1>2, <1>3, <1>4 DEF Next, Later

LEMMA AlwaysFirstText == Spec => []FirstText
<1>1. Init => FirstText
  BY DEF Init, FirstText
<1>2. WInv /\ ParserInv => WInv
  OBVIOUS
<1> QED
  BY <1>1, <1>2, NextFirstText, AlwaysParser, PTL DEF Spec

LEMMA AlwaysLaterText == ASSUME AnyBase = FALSE PROVE Spec => []LaterText
<1>1. Init => LaterText
  BY DEF Init, LaterText, Copying
<1>2. WInv /\ ParserInv /\ LaterText /\ [Next]_vars => LaterText'
  BY NextLaterText
<1> QED
  BY <1>1, <1>2, AlwaysParser, PTL DEF Spec

\* The body that is renamed has the text.
LEMMA RenameReads ==
    ASSUME WInv, FirstText, LaterText, Rename
    PROVE  Extract(body', deltas') = text /\ deltas' = deltas + 1
<1>1. /\ pc = "rename" /\ body' = out /\ deltas' = NewDelta /\ deltas \in Nat
  BY DEF Rename, WInv, TInv, TypeOK
<1>2. Seen = text
  <2>1. CASE deltas = 0
    BY <1>1, <2>1 DEF FirstText
  <2>2. CASE deltas > 0
    <3>1. Fill(Seen, text, prior, Taken, 0, Len(text))
      BY <1>1, <2>2 DEF LaterText, Copying, Ahead, Upto
    <3>2. text \in Seq(Lines) /\ Seen \in Seq(Lines)
      BY <1>1, TextLines, TwoReaders, OwnMarks DEF WInv, Seen
    <3> QED
      BY <3>1, <3>2, FillAll
  <2> QED
    BY <1>1, <2>1, <2>2
<1> QED
  BY <1>1, <1>2 DEF Extract, Seen, New, NewDelta

\* Only Rename adds a delta.
LEMMA OthersCount ==
    ASSUME [Next]_vars, ~ Rename
    PROVE  deltas' = deltas
  BY DEF Next, First, Later, ApplyDiff, ParseTo, NewNewWeave, WriteFirst,
         CloseNewWeave, NewDeltaWriter, GetPrior, StartApply, NextHunk, StartDelete,
         EndDelete, StartInsert, AddLine, EndOfDiff, FlushPending, CopyLine,
         CopyControl, StopAtLine, StopAtEnd, file, vars

\* If every delta is based on the latest revision, as store.WriteDelta has it,
\* the revision just written reads back as the text that was written, whatever
\* edit script diff prints.
THEOREM AlwaysReadsBack == ASSUME AnyBase = FALSE PROVE Spec => ReadsBack
<1>1. ASSUME WInv /\ ParserInv, FirstText, LaterText, [Next]_vars
      PROVE  [deltas' > deltas => Extract(body', deltas') = text]_vars
  <2>1. CASE Rename
    BY <1>1, <2>1, RenameReads
  <2>2. CASE ~ Rename
    BY <1>1, <2>2, OthersCount DEF WInv, TInv, TypeOK
  <2> QED
    BY <2>1, <2>2
<1> QED
  BY <1>1, AlwaysParser, AlwaysFirstText, AlwaysLaterText, PTL DEF Spec, ReadsBack

-----------------------------------------------------------------------------
\* The list of revisions that the weave stands for.
Revisions == [d \in 1..deltas |-> Extract(body, d)]

\* No writer, no text.
Free == pc = "idle" => text = None

LEMMA AlwaysFree == Spec => []Free
<1>1. Init => Free
  BY DEF Init, Free
<1>2. Free /\ [Next]_vars => Free'
  BY DEF Next, First, Later, ApplyDiff, ParseTo, NewNewWeave, WriteFirst,
         CloseNewWeave, NewDeltaWriter, GetPrior, StartApply, NextHunk, StartDelete,
         EndDelete, StartInsert, AddLine, EndOfDiff, FlushPending, CopyLine,
         CopyControl, StopAtLine, StopAtEnd, Rename, vars, Free, Parsing
<1> QED
  BY <1>1, <1>2, PTL DEF Spec

LEMMA RevisionsTyped ==
    ASSUME NEW b \in Seq(Record), NEW n \in Nat
    PROVE  LET R == [d \in 1..n |-> Extract(b, d)]
           IN  /\ R \in Seq(Seq(Lines)) /\ Len(R) = n
               /\ \A d \in 1..n : R[d] = Extract(b, d)
<1>1. Len(b) \in 0..Len(b)
  OBVIOUS
<1>2. \A d \in 1..n : Extract(b, d) \in Seq(Lines)
  BY <1>1, ReaderTyped DEF Extract, Final
<1> QED
  BY <1>2

\* The rename appends the text to the list.
LEMMA RenameCommits ==
    ASSUME WInv, TInv', LockStep, FirstText, LaterText, Rename
    PROVE  Revisions' = Append(Revisions, text)
<1> DEFINE R == Append(Revisions, text)
<1>1. /\ Revisions \in Seq(Seq(Lines)) /\ Len(Revisions) = deltas /\ deltas \in Nat
      /\ \A d \in 1..deltas : Revisions[d] = Extract(body, d)
  BY RevisionsTyped DEF WInv, TInv, TypeOK, Revisions
<1>2. /\ Revisions' \in Seq(Seq(Lines)) /\ Len(Revisions') = deltas'
      /\ \A d \in 1..deltas' : Revisions'[d] = Extract(body', d)
  <2>1. body' \in Seq(Record) /\ deltas' \in Nat
    BY DEF TInv, TypeOK
  <2> QED
    BY <2>1, RevisionsTyped DEF Revisions
<1>3. Extract(body', deltas') = text /\ deltas' = deltas + 1
  BY RenameReads
<1>4. \A d \in 1..deltas : Extract(body', d) = Extract(body, d)
  BY RenameKeeps DEF WInv
<1>5. text \in Seq(Lines)
  BY TextLines DEF WInv, Rename
<1>6. /\ R \in Seq(Seq(Lines)) /\ Len(R) = deltas + 1 /\ R[deltas + 1] = text
      /\ \A d \in 1..deltas : R[d] = Revisions[d]
  BY <1>1, <1>5
<1>7. ASSUME NEW d \in 1..deltas + 1 PROVE Revisions'[d] = R[d]
  <2>1. CASE d = deltas + 1
    BY <1>2, <1>3, <1>6, <2>1
  <2>2. CASE d # deltas + 1
    <3>1. d \in 1..deltas /\ d \in 1..deltas'
      BY <1>1, <1>3, <2>2
    <3> QED
      BY <1>1, <1>2, <1>4, <1>6, <3>1
  <2> QED
    BY <2>1, <2>2
<1> HIDE DEF R
<1>8. Revisions' = R
  BY <1>2, <1>3, <1>6, <1>7, SeqEqual
<1> QED
  BY <1>8 DEF R

\* The weave implements RevisionStore: a list of revisions that grows by the
\* text of each writer when it is closed, and never changes otherwise.
THEOREM AlwaysImplements == ASSUME AnyBase = FALSE PROVE Spec => Implements
<1>1. Init => Abstract!Init
  <2> SUFFICES ASSUME Init PROVE Revisions = << >> /\ text = None
    BY DEF Abstract!Init, Revisions
  <2>1. Revisions \in Seq({}) /\ Len(Revisions) = 0
    BY DEF Init, Revisions
  <2> QED
    BY <2>1 DEF Init
<1>2. ASSUME WInv /\ ParserInv, TInv', LockStep, FirstText, LaterText, Free, [Next]_vars
      PROVE  [Abstract!Next]_(Abstract!vars)
  <2>1. CASE \/ \E t \in Texts : NewNewWeave(t)
             \/ \E t \in Texts, b \in 1..deltas : NewDeltaWriter(t, b)
    <3>1. text = None /\ text' \in Texts /\ deltas' = deltas /\ body' = body
      BY <1>2, <2>1 DEF NewNewWeave, NewDeltaWriter, file, Free
    <3>2. Abstract!Begin(text')
      BY <3>1 DEF Abstract!Begin
    <3> QED
      BY <3>1, <3>2 DEF Abstract!Next
  <2>2. CASE Rename
    <3>1. text # None /\ text' = None
      BY <1>2, <2>2, TextLines, TextsAssumption DEF WInv, Rename
    <3>2. Revisions' = Append(Revisions, text)
      BY <1>2, <2>2, RenameCommits
    <3>3. Abstract!Commit
      BY <3>1, <3>2 DEF Abstract!Commit, Revisions
    <3> QED
      BY <3>3 DEF Abstract!Next
  <2>3. CASE UNCHANGED <<deltas, body, text>>
    BY <2>3 DEF Abstract!vars
  <2>4. \/ \E t \in Texts : NewNewWeave(t)
        \/ \E t \in Texts, b \in 1..deltas : NewDeltaWriter(t, b)
        \/ Rename \/ UNCHANGED <<deltas, body, text>>
    BY <1>2
       DEF Next, First, Later, ApplyDiff, ParseTo, WriteFirst, CloseNewWeave,
           GetPrior, StartApply, NextHunk, StartDelete, EndDelete, StartInsert,
           AddLine, EndOfDiff, FlushPending, CopyLine, CopyControl, StopAtLine,
           StopAtEnd, file, vars
  <2> QED
    BY <2>1, <2>2, <2>3, <2>4
<1> QED
  BY <1>1, <1>2, AlwaysParser, AlwaysTInv, InLockStep, AlwaysFirstText, AlwaysLaterText,
     AlwaysFree, PTL DEF Spec, Implements, Abstract!Spec

=============================================================================
