------------------------------- MODULE Weave -------------------------------
(***************************************************************************)
(* The weave format and its reader (weave/weave.go).                       *)
(*                                                                         *)
(* The body of a weave file is a sequence of records: Insert, Delete and   *)
(* End marks, each with a delta number, interspersed with lines of text.   *)
(* Reading it for a given delta walks the records once and keeps, in       *)
(* `dstate`, one entry for every mark that is open; the entries decide     *)
(* whether the text lines belong to that delta.                            *)
(*                                                                         *)
(* A line of text is an element of Lines: its characters do not matter     *)
(* here.  (Lines that start with the control character \x01 would be read  *)
(* as records; a surefile has none.)  The header line is kept outside the  *)
(* body: the reader skips it.                                              *)
(***************************************************************************)
EXTENDS Integers, Sequences, SequencesExt

CONSTANT Lines

Record == [op : {"I", "D", "E"}, delta : Nat] \cup [op : {"P"}, line : Lines]

\* The four calls of Sink, as the records that Writer leaves in the file.
Insert(k) == [op |-> "I", delta |-> k]
Delete(k) == [op |-> "D", delta |-> k]
End(k)    == [op |-> "E", delta |-> k]
Plain(x)  == [op |-> "P", line |-> x]

-----------------------------------------------------------------------------
\* deltaState: the open marks, newest delta first.

Mode == {"stKeep", "stSkip", "stNext"}

DeltaState == Seq([delta : Nat, mode : Mode])

IsOpen(ds, k) == \E i \in 1..Len(ds) : ds[i].delta = k

\* Fault: push leaves the new entry at the end.
PlaceLast(ds, k) == Len(ds) + 1

\* Where push leaves the new entry: it moves up from the end of the slice
\* past every entry of a strictly smaller delta, and no further.
Place(ds, k) == CHOOSE p \in 1..Len(ds) + 1 :
                   /\ \A j \in p..Len(ds) : ds[j].delta < k
                   /\ p > 1 => ds[p - 1].delta >= k

Push(ds, k, m) == InsertAt(ds, Place(ds, k), [delta |-> k, mode |-> m])

\* pop removes the first entry of the delta.  (Without one it panics: the
\* users of Pop test IsOpen.)
FirstOf(ds, k) == CHOOSE i \in 1..Len(ds) :
                     /\ ds[i].delta = k
                     /\ \A j \in 1..i - 1 : ds[j].delta # k

Pop(ds, k) == IF IsOpen(ds, k) THEN RemoveAt(ds, FirstOf(ds, k)) ELSE ds

\* updateKeep: the newest entry that is not stNext decides.
Keeps(ds) == \E i \in 1..Len(ds) : /\ ds[i].mode = "stKeep"
                                   /\ \A j \in 1..i - 1 : ds[j].mode = "stNext"

\* Fault: deleted lines reappear in the deltas before the deletion.
DeleteModeKeep(k, d) == IF d >= k THEN "stSkip" ELSE "stKeep"

\* The mode a mark gets when the weave is read for delta d.
InsertMode(k, d) == IF d >= k THEN "stKeep" ELSE "stSkip"
DeleteMode(k, d) == IF d >= k THEN "stSkip" ELSE "stNext"

\* What a control record does to the open marks.
Control(ds, r, d) ==
    IF r.op = "I" THEN Push(ds, r.delta, InsertMode(r.delta, d))
    ELSE IF r.op = "D" THEN Push(ds, r.delta, DeleteMode(r.delta, d))
    ELSE Pop(ds, r.delta)

\* The reader would panic on this record.
Bad(ds, r) == r.op = "E" /\ ~ IsOpen(ds, r.delta)

-----------------------------------------------------------------------------
\* A whole pass over a body for delta d (ParseTo(0) with a sink that collects
\* the kept lines).  The reader's state after each record: `ok` is FALSE once
\* pop has panicked, `got` are the lines that went to the output.

NewReader == [dstate |-> << >>, keeping |-> FALSE, ok |-> TRUE, got |-> << >>]

Read(s, r, d) ==
    IF r.op = "P"
    THEN [s EXCEPT !.got = IF s.keeping THEN Append(s.got, r.line) ELSE s.got]
    ELSE LET ds == Control(s.dstate, r, d)
         IN  [dstate |-> ds, keeping |-> Keeps(ds),
              ok |-> s.ok /\ ~ Bad(s.dstate, r), got |-> s.got]

\* (The set of one state stands for that state: TLC evaluates it only once.)
The(S) == CHOOSE s \in S : TRUE

Reading(b, d) ==
    LET state[i \in 0..Len(b)] ==
            IF i = 0 THEN NewReader
            ELSE The({Read(s, b[i], d) : s \in {state[i - 1]}})
    IN  state

Final(b, d) == Reading(b, d)[Len(b)]

Extract(b, d) == Final(b, d).got

\* A body that every reader accepts and that closes all it opens.
Balanced(b, d) == Final(b, d).ok /\ Final(b, d).dstate = << >>
=============================================================================
