----------------------------- MODULE SureStore -----------------------------
(***************************************************************************)
(* The files of a surefile store: 2sure.dat.gz, 2sure.bak.gz and the       *)
(* temporary files beside them, while `gosure scan` processes run, fail    *)
(* and die (store.Write, weave.NewNewWeave, weave.NewDeltaWriter and their *)
(* Close), and while `gosure check` reads.                                 *)
(*                                                                         *)
(* An action is one system call on the directory, or a stretch of work on  *)
(* files that no other process knows.  The text of a revision is the       *)
(* number of the write it comes from; what a weave file does with its      *)
(* revisions is the subject of WeaveDelta, and a weave file is here the    *)
(* sequence of the revisions one reads out of it.                          *)
(***************************************************************************)
EXTENDS Integers, Sequences

CONSTANTS Scanners,    \* processes that write to the store
          MaxWrites,   \* bound: calls of store.Write
          MaxCrashes,  \* bound: scanners that die half way
          Compressed,  \* the store's files are gzipped (Store.Plain is FALSE)
          TailFails    \* the last flush of the new weave file may fail

ASSUME BoundsAssumption == /\ MaxWrites \in Nat /\ MaxCrashes \in Nat
                           /\ Compressed \in BOOLEAN /\ TailFails \in BOOLEAN

VARIABLES
    dir,        \* the directory: the files that exist, by name
    pc,         \* where each scanner is in store.Write
    id,         \* the text that the scanner writes
    base,       \* the delta that it is based on
    held,       \* names of its temporary files
    try,        \* the number that TempFile tries next
    old,        \* revisions of the weave file that applyDiff has opened
    rpc,        \* where the reader is in store.ReadDelta
    header,     \* revisions of the weave file whose header the reader saw
    got,        \* the text that the reader got
    written,    \* calls of store.Write so far
    committed,  \* the writes that returned nil
    crashes,    \* scanners that died so far
    overlap,    \* two scanners have been in store.Write at the same time
    careless,   \* a weave was begun from nothing although there is a backup
    stopped     \* a scanner stopped at its second rename and left no main file

scanner == <<id, base, held, try, old>>
reader  == <<rpc, header, got>>
history == <<written, committed, crashes, overlap, careless, stopped>>
vars    == <<dir, pc, id, base, held, try, old, rpc, header, got, written,
             committed, crashes, overlap, careless, stopped>>

-----------------------------------------------------------------------------
(***************************************************************************)
(* The directory.                                                          *)
(***************************************************************************)

Main == <<"dat", 0>>
Bak  == <<"bak", 0>>
Name == {"dat", "bak", "tmp", "tmp.gz"} \X Nat
NoName == <<"none", 0>>

\* The temporary file of a number, with the .gz suffix if it is to be
\* compressed and the store is.
TempName(n, gz) == <<IF gz /\ Compressed THEN "tmp.gz" ELSE "tmp", n>>

\* A file: the revisions in it (one, for a text), and whether all of it is there.
File == [revs : Seq(Nat), whole : BOOLEAN]
Whole(revs) == [revs |-> revs, whole |-> TRUE]
Torn(revs)  == [revs |-> revs, whole |-> FALSE]

Exists(n) == n \in DOMAIN dir

With(n, f) == [x \in DOMAIN dir \cup {n} |-> IF x = n THEN f ELSE dir[x]]
Without(n) == [x \in DOMAIN dir \ {n} |-> dir[x]]

\* rename(2): b is replaced; without a, nothing happens (and the caller gets
\* an error).
Renamed(a, b) ==
    IF Exists(a) THEN [x \in (DOMAIN dir \ {a}) \cup {b} |->
                          IF x = b THEN dir[a] ELSE dir[x]]
    ELSE dir

\* Fault: the number of the delta is not looked at.
AtLatest(revs, k) == revs[Len(revs)]

\* The text a weave file gives for delta k: a number above the latest delta
\* is read as the latest.
At(revs, k) == revs[IF k <= Len(revs) THEN k ELSE Len(revs)]

\* Text that nobody wrote: a diff was applied to a base it was not made for.
Garbled == 0

-----------------------------------------------------------------------------
(***************************************************************************)
(* A scanner in store.Write.                                               *)
(***************************************************************************)

Goto(s, l) == pc' = [pc EXCEPT ![s] = l]

\* The scanner's variables as they are outside store.Write: its names and
\* positions are gone with the call.
Forget(s) == /\ id' = [id EXCEPT ![s] = 0]
             /\ base' = [base EXCEPT ![s] = 0]
             /\ held' = [held EXCEPT ![s] = [text |-> NoName, prior |-> NoName,
                                             new |-> NoName]]
             /\ try' = [try EXCEPT ![s] = 0]
             /\ old' = [old EXCEPT ![s] = << >>]

Begin(s) ==
    /\ pc[s] = "idle" /\ written < MaxWrites
    /\ written' = written + 1
    /\ id' = [id EXCEPT ![s] = written + 1]
    /\ overlap' = (overlap \/ \E t \in Scanners : pc[t] # "idle")
    /\ Goto(s, "look")
    /\ UNCHANGED <<dir, base, held, try, old, reader, committed, crashes, careless,
                   stopped>>

\* Fault: GetDelta(DeltaPrior), if there is one.
LookPrior(s) ==
    /\ pc[s] = "look"
    /\ IF Exists(Main)
       THEN /\ base' = [base EXCEPT ![s] = IF Len(dir[Main].revs) = 1 THEN 1
                                           ELSE Len(dir[Main].revs) - 1]
            /\ Goto(s, "text")
            /\ UNCHANGED careless
       ELSE /\ Goto(s, "first")
            /\ careless' = (careless \/ Exists(Bak))
            /\ UNCHANGED base
    /\ UNCHANGED <<dir, id, held, try, old, reader, written, committed, crashes,
                   overlap, stopped>>

\* GetDelta(DeltaLatest): without a main file a new weave is begun, otherwise
\* a delta to its latest revision.  (The header of a torn file may be
\* readable; when it is not, Write returns the error: Fail.)
Look(s) ==
    /\ pc[s] = "look"
    /\ IF Exists(Main)
       THEN /\ base' = [base EXCEPT ![s] = Len(dir[Main].revs)]
            /\ Goto(s, "text")
            /\ UNCHANGED careless
       ELSE /\ Goto(s, "first")
            /\ careless' = (careless \/ Exists(Bak))
            /\ UNCHANGED base
    /\ UNCHANGED <<dir, id, held, try, old, reader, written, committed, crashes,
                   overlap, stopped>>

\* Fault: no O_EXCL.
TempFileShared(s, gz, slot, next) ==
    LET name == TempName(try[s], gz)
    IN  /\ dir' = With(name, Torn(<< >>))
        /\ held' = [held EXCEPT ![s][slot] = name]
        /\ try' = [try EXCEPT ![s] = 0]
        /\ Goto(s, next)
        /\ UNCHANGED <<id, base, old, reader, history>>

\* Fault: the numbers go down.
TempFileDown(s, gz, slot, next) ==
    LET name == TempName(try[s], gz)
    IN  /\ IF Exists(name)
           THEN /\ try' = [try EXCEPT ![s] = try[s] - 1]
                /\ UNCHANGED <<dir, pc, held>>
           ELSE /\ dir' = With(name, Torn(<< >>))
                /\ held' = [held EXCEPT ![s][slot] = name]
                /\ try' = [try EXCEPT ![s] = 0]
                /\ Goto(s, next)
        /\ UNCHANGED <<id, base, old, reader, history>>

\* TempFile: one attempt to create the next file that does not exist.
TempFile(s, gz, slot, next) ==
    LET name == TempName(try[s], gz)
    IN  /\ IF Exists(name)
           THEN /\ try' = [try EXCEPT ![s] = try[s] + 1]
                /\ UNCHANGED <<dir, pc, held>>
           ELSE /\ dir' = With(name, Torn(<< >>))
                /\ held' = [held EXCEPT ![s][slot] = name]
                /\ try' = [try EXCEPT ![s] = 0]
                /\ Goto(s, next)
        /\ UNCHANGED <<id, base, old, reader, history>>

\* NewNewWeave: the file, the text, Close up to the renames.  Errors of
\* closing are returned here (Fail).
CreateFirst(s) == pc[s] = "first" /\ TempFile(s, TRUE, "new", "writeFirst")

WriteFirst(s) ==
    /\ pc[s] = "writeFirst"
    /\ dir' = With(held[s].new, Whole(<<id[s]>>))
    /\ Goto(s, "backUp")
    /\ UNCHANGED <<scanner, reader, history>>

\* NewDeltaWriter, and the text written, flushed and closed.
CreateText(s) == pc[s] = "text" /\ TempFile(s, FALSE, "text", "encode")

WriteText(s) ==
    /\ pc[s] = "encode"
    /\ dir' = With(held[s].text, Whole(<<id[s]>>))
    /\ Goto(s, "prior")
    /\ UNCHANGED <<scanner, reader, history>>

\* getPrior: the base out of the main file, which must be a whole gzip file
\* (a missing, plain or torn one is an error: Fail).
CreatePrior(s) == pc[s] = "prior" /\ TempFile(s, FALSE, "prior", "extract")

Extract(s) ==
    /\ pc[s] = "extract"
    /\ Exists(Main) /\ dir[Main].whole /\ Compressed
    /\ dir' = With(held[s].prior, Whole(<<At(dir[Main].revs, base[s])>>))
    /\ Goto(s, "open")
    /\ UNCHANGED <<scanner, reader, history>>

\* Fault: the main file is moved away before the new one is written.
OpenMoves(s) ==
    /\ pc[s] = "open"
    /\ Exists(Main)
    /\ old' = [old EXCEPT ![s] = dir[Main].revs]
    /\ dir' = Renamed(Main, Bak)
    /\ Goto(s, "new")
    /\ UNCHANGED <<id, base, held, try, reader, history>>

\* diff, and applyDiff up to its header: the main file is opened again.
Open(s) ==
    /\ pc[s] = "open"
    /\ Exists(Main)
    /\ old' = [old EXCEPT ![s] = dir[Main].revs]
    /\ Goto(s, "new")
    /\ UNCHANGED <<dir, id, base, held, try, reader, history>>

CreateNew(s) == pc[s] = "new" /\ TempFile(s, TRUE, "new", "copy")

\* What the diff of the two texts makes of the weave file that was opened: if
\* that is not the file the base was taken from, the hunks may miss (Fail) or
\* hit the wrong lines.
NewText(s) ==
    IF base[s] >= Len(old[s]) /\ dir[held[s].prior].revs = <<At(old[s], base[s])>>
    THEN {dir[held[s].text].revs[1]}
    ELSE {dir[held[s].text].revs[1], Garbled}

\* Fault: the deferred Close of the writer is missing.
CopyUnflushed(s) ==
    /\ pc[s] = "copy"
    /\ \E t \in NewText(s) : dir' = With(held[s].new, Torn(Append(old[s], t)))
    /\ Goto(s, "backUp")
    /\ UNCHANGED <<scanner, reader, history>>

\* Fault: the old body is not copied.
CopyAlone(s) ==
    /\ pc[s] = "copy"
    /\ \E t \in NewText(s) : dir' = With(held[s].new, Whole(<<t>>))
    /\ Goto(s, "backUp")
    /\ UNCHANGED <<scanner, reader, history>>

\* The rest of applyDiff, with the deferred calls: nobody looks at the error
\* of the last flush.
Copy(s) ==
    /\ pc[s] = "copy"
    /\ \E t \in NewText(s) :
          LET revs == Append(old[s], t)
          IN  \/ dir' = With(held[s].new, Whole(revs))
              \/ TailFails /\ dir' = With(held[s].new, Torn(revs))
    /\ Goto(s, "backUp")
    /\ UNCHANGED <<scanner, reader, history>>

\* Fault: the main file is removed instead of renamed.
BackUpRemoves(s) ==
    /\ pc[s] = "backUp"
    /\ dir' = Without(Main)
    /\ Goto(s, "swap")
    /\ UNCHANGED <<scanner, reader, history>>

\* The first rename, which may fail for a missing main file or any other
\* reason; its error is not looked at.
BackUp(s) ==
    /\ pc[s] = "backUp"
    /\ dir' \in {Renamed(Main, Bak), dir}
    /\ Goto(s, "swap")
    /\ UNCHANGED <<scanner, reader, history>>

\* The second rename; when it fails, its error is returned (Fail).  The first
\* revision is now written.
Swap(s) ==
    /\ pc[s] = "swap" /\ Exists(held[s].new)
    /\ dir' = Renamed(held[s].new, Main)
    /\ stopped' = FALSE
    /\ IF held[s].text = NoName
       THEN /\ Goto(s, "idle")
            /\ committed' = committed \cup {id[s]}
            /\ Forget(s)
       ELSE /\ Goto(s, "removePrior")
            /\ UNCHANGED <<scanner, committed>>
    /\ UNCHANGED <<reader, written, crashes, overlap, careless>>

\* The errors of removing the texts are not looked at.
RemovePrior(s) ==
    /\ pc[s] = "removePrior"
    /\ dir' \in {Without(held[s].prior), dir}
    /\ Goto(s, "removeText")
    /\ UNCHANGED <<scanner, reader, history>>

RemoveText(s) ==
    /\ pc[s] = "removeText"
    /\ dir' \in {Without(held[s].text), dir}
    /\ Goto(s, "idle")
    /\ committed' = committed \cup {id[s]}
    /\ Forget(s)
    /\ UNCHANGED <<reader, written, crashes, overlap, careless, stopped>>

\* weaveCreate and NewNewWeave remove the new file when its header or its
\* first mark cannot be written.
Discard(s) ==
    /\ pc[s] \in {"writeFirst", "copy"}
    /\ dir' = Without(held[s].new)
    /\ Goto(s, "idle")
    /\ Forget(s)
    /\ UNCHANGED <<reader, history>>

\* The scanner goes no further: at its second rename, that may leave the store
\* without a main file.
Stop(s) == stopped' = IF pc[s] = "swap" THEN ~ Exists(Main) ELSE stopped

\* Any other call fails, and Write returns its error.  The temporary files
\* stay.
Fail(s) ==
    /\ pc[s] \in {"look", "first", "writeFirst", "text", "encode", "prior",
                  "extract", "open", "new", "copy", "swap"}
    /\ Goto(s, "idle")
    /\ Forget(s)
    /\ Stop(s)
    /\ UNCHANGED <<dir, reader, written, committed, crashes, overlap, careless>>

\* The process dies.
Crash(s) ==
    /\ pc[s] # "idle" /\ crashes < MaxCrashes
    /\ crashes' = crashes + 1
    /\ Goto(s, "idle")
    /\ Forget(s)
    /\ Stop(s)
    /\ UNCHANGED <<dir, reader, written, committed, overlap, careless>>

-----------------------------------------------------------------------------
(***************************************************************************)
(* A reader in store.ReadDelta(DeltaLatest), and the user.                 *)
(***************************************************************************)

\* GetDelta: the latest delta in the header of the main file.
ReadHeader ==
    /\ rpc = "idle" /\ Exists(Main)
    /\ header' = dir[Main].revs /\ got' = << >>
    /\ rpc' = "read"
    /\ UNCHANGED <<dir, pc, scanner, history>>

\* The main file is opened again, and that delta is read; without a whole
\* main file the reader gets an error.
ReadLines ==
    /\ rpc = "read"
    /\ IF Exists(Main) /\ dir[Main].whole
       THEN got' = <<At(dir[Main].revs, Len(header))>> /\ UNCHANGED header
       ELSE got' = << >> /\ header' = << >>
    /\ rpc' = "idle"
    /\ UNCHANGED <<dir, pc, scanner, history>>

\* The user finds the main file missing and puts the backup in its place.
Repair ==
    /\ \A s \in Scanners : pc[s] = "idle"
    /\ ~ Exists(Main) /\ Exists(Bak)
    /\ dir' = Renamed(Bak, Main)
    /\ stopped' = FALSE
    /\ UNCHANGED <<pc, scanner, reader, written, committed, crashes, overlap, careless>>

-----------------------------------------------------------------------------
Init ==
    /\ dir = << >>
    /\ pc = [s \in Scanners |-> "idle"]
    /\ id = [s \in Scanners |-> 0]
    /\ base = [s \in Scanners |-> 0]
    /\ held = [s \in Scanners |-> [text |-> NoName, prior |-> NoName, new |-> NoName]]
    /\ try = [s \in Scanners |-> 0]
    /\ old = [s \in Scanners |-> << >>]
    /\ rpc = "idle" /\ header = << >> /\ got = << >>
    /\ written = 0 /\ committed = {} /\ crashes = 0
    /\ overlap = FALSE /\ careless = FALSE /\ stopped = FALSE

Write(s) == \/ Begin(s) \/ Look(s)
            \/ CreateFirst(s) \/ WriteFirst(s)
            \/ CreateText(s) \/ WriteText(s)
            \/ CreatePrior(s) \/ Extract(s)
            \/ Open(s) \/ CreateNew(s) \/ Copy(s)
            \/ BackUp(s) \/ Swap(s) \/ RemovePrior(s) \/ RemoveText(s)

Next == \/ \E s \in Scanners : Write(s) \/ Discard(s) \/ Fail(s) \/ Crash(s)
        \/ ReadHeader \/ ReadLines
        \/ Repair

Spec == Init /\ [][Next]_vars

-----------------------------------------------------------------------------
(***************************************************************************)
(* Type invariant                                                          *)
(***************************************************************************)

PC == {"idle", "look", "first", "writeFirst", "text", "encode", "prior",
       "extract", "open", "new", "copy", "backUp", "swap", "removePrior",
       "removeText"}

Held == [text : Name \cup {NoName}, prior : Name \cup {NoName},
         new : Name \cup {NoName}]

\* Every variable has its type.
TypeOK ==
    /\ DOMAIN dir \subseteq Name
    /\ \A n \in DOMAIN dir : dir[n] \in File
    /\ pc \in [Scanners -> PC]
    /\ id \in [Scanners -> Nat] /\ base \in [Scanners -> Nat]
    /\ held \in [Scanners -> Held]
    /\ try \in [Scanners -> Nat]
    /\ old \in [Scanners -> Seq(Nat)]
    /\ rpc \in {"idle", "read"}
    /\ header \in Seq(Nat) /\ got \in Seq(Nat)
    /\ written \in 0..MaxWrites /\ committed \subseteq 1..MaxWrites
    /\ crashes \in 0..MaxCrashes
    /\ overlap \in BOOLEAN /\ careless \in BOOLEAN /\ stopped \in BOOLEAN

-----------------------------------------------------------------------------
(***************************************************************************)
(* Safety                                                                  *)
(***************************************************************************)

Names(s) == {held[s].text, held[s].prior, held[s].new} \ {NoName}

\* The files that a scanner still has to read, rename or remove.
InUse(s) == CASE pc[s] = "removePrior" -> {held[s].prior, held[s].text}
              [] pc[s] = "removeText"  -> {held[s].text}
              [] OTHER                 -> Names(s)

\* "this code will never write to a file that already exists" (naming.go):
\* the temporary files of a scanner stay its own until it has done with them.
\* Nobody else gets their names, replaces them or removes them, whatever
\* temporary files other scanners leave behind when they fail or die.
OwnTemps ==
    /\ \A s \in Scanners : InUse(s) \subseteq DOMAIN dir \ {Main, Bak}
    /\ \A s, t \in Scanners : s # t => InUse(s) \cap InUse(t) = {}

\* While only whole files are flushed, the main file and the backup are whole
\* weave files whenever they exist, at every step of every scanner: the file
\* that takes the name of the main file is complete.
MainWhole == \A n \in {Main, Bak} :
                 Exists(n) => dir[n].whole /\ Len(dir[n].revs) > 0

\* A write that returned nil can be read in the main file or in the backup,
\* and one of the two has them all.  This holds whenever scanners die or fail,
\* as long as one runs at a time and the user repairs a missing main file.
NothingLost ==
    ~ overlap /\ ~ careless =>
        \/ committed = {}
        \/ \E n \in {Main, Bak} :
              Exists(n) /\ \A w \in committed :
                               \E k \in 1..Len(dir[n].revs) : dir[n].revs[k] = w

\* The same without the two provisos, as store/doc.go has it: ".dat.gz" holds
\* "all of the previous versions" and ".bak.gz" is "redundant".
NeverLost ==
    \A w \in committed : \E n \in {Main, Bak} :
        Exists(n) /\ \E k \in 1..Len(dir[n].revs) : dir[n].revs[k] = w

\* As long as scanners run one at a time, no diff is applied to a weave file
\* that it was not made for, and no revision is in a file twice.
NoMixUp ==
    ~ overlap =>
        \A n \in {Main, Bak} \cap DOMAIN dir : \A k \in 1..Len(dir[n].revs) :
            /\ dir[n].revs[k] # Garbled
            /\ \A j \in 1..k - 1 : dir[n].revs[j] < dir[n].revs[k]

\* Once a revision is written, the main file is missing only while a scanner
\* is between its two renames, or after one died there or could not do the
\* second; so it is even when scanners race.
MainThere ==
    committed # {} =>
        Exists(Main) \/ stopped \/ \E s \in Scanners : pc[s] = "swap"

\* revs has one revision more than before, and all of those.
Extends(revs, before) ==
    /\ Len(revs) = Len(before) + 1
    /\ \A k \in 1..Len(before) : revs[k] = before[k]

\* A main file is replaced by one that has all its revisions and one more: in
\* one step when it could not be backed up, or over the file that was backed
\* up.  Nothing becomes the backup but the main file as it was.
Grows ==
    [][~ overlap' /\ ~ careless' =>
           /\ Exists(Main) /\ Exists(Main)' =>
                  dir'[Main] = dir[Main] \/ Extends(dir'[Main].revs, dir[Main].revs)
           /\ ~ Exists(Main) /\ Exists(Main)' /\ Exists(Bak)' =>
                  Extends(dir'[Main].revs, dir'[Bak].revs)
           /\ Exists(Bak)' =>
                  \/ Exists(Bak) /\ dir'[Bak] = dir[Bak]
                  \/ Exists(Main) /\ dir'[Bak] = dir[Main]]_vars

\* What a reader gets is the revision that was the latest when it looked at
\* the header, although it opens the file a second time and a scanner may
\* have replaced it in between.
ReadsLatest ==
    ~ overlap /\ ~ careless =>
        (rpc = "idle" /\ got # << >> => got = <<header[Len(header)]>>)

\* "it is important to check the error status from this method" (delta.go, at
\* Close): a write that returned nil has left a whole main file.
CloseReports ==
    committed # {} /\ (\A s \in Scanners : pc[s] = "idle") =>
        \A n \in {Main, Bak} : Exists(n) => dir[n].whole
=============================================================================
