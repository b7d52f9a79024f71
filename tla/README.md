# Specifications of gosure

gosure records the state of a file tree (names, attributes, SHA-1 hashes) in a
*surefile*, keeps every version of it in one SCCS-style *weave* file, and
compares versions with each other and with the tree. This directory holds TLA+
specifications of its parts, the TLC configurations that check them on small
instances, and TLAPS proofs of their main invariants.

    tlc -config WeaveAnyBase.cfg MCWeaveDelta     # a model-checking run
    tlapm WeaveDelta_proofs.tla                   # a proof module

`PROJECT.json` lists the components, the runs, the source lines of every
definition, the hazards with the properties that watch over them, the findings
and the theorems. Operators with a comment that begins with `Fault:` are not
part of the specifications: each is a plausible mistake in the definition after
it, and putting it in that definition's place makes a property fail, which
shows that the property depends on the code.

## Inventory

| Component (source) | State | Operations | Correct when |
|---|---|---|---|
| weave format, parser (`weave/weave.go`, `write.go`, `plain.go`, `read.go`) | body of records I/D/E/P; `dstate`, `keeping`, `lineNo`, pending line | `ParseTo` with `push`, `pop`, `updateKeep`; `ReadDelta` | every revision reads as it was written; `pop` never panics; marks are ordered and balanced |
| weave writers (`weave/delta.go`, `initial.go`, `header.go`) | header's delta count, temporary text, prior text, diff hunk, `isDone`, `isAdding` | `NewNewWeave`, `NewDeltaWriter`, `Write`, `Close` (`getPrior`, `applyDiff`) | a new revision changes no older one, is read back as written, and the writer ends |
| store files (`store/store.go`, `weave/naming.go`, file operations of `weave/`) | `2sure.dat.gz`, `2sure.bak.gz`, temporary files; which of them each process has | `Store.Write`, `ReadDelta`, `GetDelta`, `TempFile`, the two renames | no version is lost by a crash, a failure or a second process; the main file is whole; readers see a version that was the latest |
| hash computation (`sure/hashes.go`, `sha/hashfile.go`) | request channel, WaitGroup, buffer pool, `Sha1` of the files | `EstimateHashes`, `ComputeHashes`, `updateWorker`, `HashFile`, `getBuffer`, `putBuffer` | each file is hashed once or its error logged, no race, `ComputeHashes` returns |
| status meter (`status/status.go`, `sure/progress.go`) | `Manager.meter`, `Meter.next`, `Progress.curFiles`, three mutexes, the terminal | `Manager.Write`, `Close`; `Meter.Write`, `Close`; `Progress.Update`, `Flush`; log messages | no message is erased, one text per meter, the last text is shown, no deadlock |
| surefile codec (`sure/encode.go`, `decode.go`) | `PushDecoder`: method `add`, stack `tree`, `result` | `Encode`; `Add`, `Tree` | a tree reads back as itself; a part of a surefile is no tree |
| tree scan (`sure/local.go`) | the tree under construction, the named result `err` of each call | `ScanFs`, `walkFs`, `readdir`, `getAtts` | an undisturbed scan records what is there, and of what cannot be read no more is missing than the code's error handling says |
| hash migration (`sure/migrate.go`) | map from inode to attributes | `MigrateHashes` | a hash is taken over only for the file that it is the hash of, and then always |
| tree comparison (`sure/compare.go`) | none | `CompareTrees` | every difference is reported once |
| scan driver (`drive.go`, `cmd/gosure`) | trees on their way from step to step | `Scan`, `HashUpdate`, the commands | check compares with what is on the disk, scan with what was hashed when the file last changed |
| store name and tags (`store/parse.go`) | `Store.Tags` | `FixTags`, `Parse` | string handling |
| others: `sha/atime*.go`, `sure/generate.go`, `build.go` | none | opening files, random trees, building | not modelled: I/O, tests and build |

How they interact. A command calls `Scan`, which reads the latest version from
the store (`ReadDat`: weave parser, decoder), walks the tree (`ScanFs`, with a
meter), takes over hashes of the old version (`MigrateHashes`), has the workers
hash the rest (`ComputeHashes`, with another meter), and writes the new version
(`Store.Write`: encoder, weave writer, files). The parts share:

- the store's directory, with other gosure processes: nothing locks it;
- the `Sha1` fields of the tree, between the walker and the workers;
- the terminal and its locks, between the main goroutine, the workers and
  every caller of the standard logger;
- the weave file, between the writer of today and all readers of later years.

What is hard. In the weave: an old revision is read through marks that every
later revision has put into the body, so that a mistake may show only revisions
later. In the store: a scan is a sequence of a dozen system calls that can fail,
be interrupted and interleave with another scan. In the hashing and the status:
goroutines with a channel, a pool and three nested mutexes.

## The modules

| Module | Models | Extends |
|---|---|---|
| `Weave` | the records of a weave body and the parser as a reader of one revision | |
| `WeaveDelta` | the writers: first revision, and deltas by following a diff | `Weave` |
| `RevisionStore` | abstract: a list of revisions that only grows | |
| `MCWeaveDelta` | instances of `WeaveDelta` | `WeaveDelta` |
| `Weave_proofs` | lemmas about the parser | `Weave` |
| `WeaveDelta_proofs` | theorems about the writers: old revisions, the form of a body, the parser that writes it, the new revision and the refinement | `WeaveDelta`, `Weave_proofs` |
| `SureStore` | the files of a store, with scanners, a reader, failures, crashes, a user who repairs | |
| `MCSureStore` | symmetry for its instances | `SureStore` |
| `SureStore_proofs` | theorems about the files, and about the revisions in them | `SureStore` |
| `HashPool` | `ComputeHashes` and its workers | |
| `HashPool_proofs` | theorems about the hashing | `HashPool` |
| `StatusMeter` | the terminal, the logger and the meters during a scan | |
| `StatusMeter_proofs` | theorems about the terminal and its locks | `StatusMeter` |
| `SureCodec` | encoder and push decoder of surefiles | |
| `MCSureCodec` | some trees and lines | `SureCodec` |
| `SureCodec_proofs` | theorems about what is written and read | `SureCodec` |
| `FileTree` | trees, their attributes, and `CompareTrees` | |
| `FileTree_proofs` | lemmas about directories, sorted names and `CompareTrees` | `FileTree` |
| `ScanTree` | scan, check and signoff on a tree that changes while they run: walk, migration, hashing, comparison and the versions in the store | `FileTree` |
| `MCScanTree` | a small tree | `ScanTree` |
| `ScanTree_proofs` | theorems about recorded hashes, undisturbed commands and reports | `ScanTree`, `FileTree_proofs` |

### Weave and WeaveDelta

A `Record` is what a Sink gets: `I`, `D`, `E` with a delta, or `P` with a line.
`Read(reader, record, d)` is one turn of `ParseTo` for delta `d`: `Push` is
`push` (the new entry goes before the first older one), `Pop` is `pop`,
`Keeps` is `updateKeep` (the newest entry decides, a line is out where an open
entry says so). `Reading(body, d)` is the reader after each record, `Extract`
what `WriteDelta` prints. They are recursive functions and no RECURSIVE
operators, so that theorems can be proved about them.

`WeaveDelta` has the fields of `DeltaWriter` and of its `Parser` as variables:
`parser.at` records have been passed to the new file `out`; a line at which
`ParseTo` stopped is pending and is passed on by the next call. One call of
`ParseTo` is several steps (`FlushPending`, `CopyLine`, `CopyControl`,
`StopAtLine`, `StopAtEnd`), whose target line depends on where in the hunk the
writer is (`pc`). A hunk is taken in the steps of the code: run to its first
line (`left`), put the D mark, run past its last line (`right`), put the E
mark, put the I mark and the new lines. `EndOfDiff` closes what is open and has
the rest copied, and `Rename` makes `out` the main file.

`diff` is external. It may print any edit script that turns the base into the
new text: the hunks are chosen step by step, with common lines between them
(`IsHunk`), not only shortest scripts. So the results do not depend on the
algorithm of the installed diff.

Abstractions: a line is a model value; of the header only the number of deltas
matters; a body that is complete is the main file at once (what happens on the
way is `SureStore`).

### SureStore

The directory is a partial function from names to files. An action is a system
call that other processes can see: the exclusive create of `TempFile` (one
number tried per step), opening the main file (three times in a write: header
in `Look`, base text in `Extract`, body in `Open`), the two renames (`BackUp`,
`Swap`) and the removals. Every call may fail:

- where the code returns the error, the step is `Fail`, which leaves the
  temporary files behind as the code does. This includes the second rename: the
  write then ends with an error and, if the first rename did its work, without a
  main file;
- when a header or the first mark of a new weave cannot be written, the code
  removes the new file before it returns the error: `Discard`;
- the error of the first rename is not looked at, so that `BackUp` may leave the
  directory as it is, and the new file then replaces the main file directly;
- the errors of the removals are not looked at either (`RemovePrior`, `RemoveText`);
- the error of the last flush is dropped (`Copy` with `TailFails`).

`Crash` is the death of the process at any point. A weave file is the sequence of
revisions read out of it; when a diff is applied to a body that it was not made
for, the revision is `Garbled`. `Repair` is a user who moves the backup to the
missing main file.

The history variables say which writes returned nil (`committed`), whether two
scanners have run at once (`overlap`), whether a weave was begun although a backup
exists (`careless`), and whether a scanner left no main file because it died at its
second rename or was refused it (`stopped`, until there is one again):
properties that hold only without these name them.

### HashPool

`hashWalk` sends the files without a hash into a channel of two per worker;
each worker takes one, opens it, gets a buffer, reads, gives the buffer back,
stores the hash, counts it. Opening and reading can fail: the error is logged,
the buffer (if any) is dropped, the worker goes on. The pool may be partly
filled at the start, by earlier calls. `putBuffer` waits while the pool is full,
since its `select` has no `default`.

### StatusMeter

The terminal is the sequence of its lines, each known by what printed it.
`clear` erases as many lines as `Manager.meter` has. All methods of `Manager`
and `Meter` are single steps that need `Manager.lock`, but for `Manager.Close`,
which waits for the logger's lock while it holds its own. A log message takes
the logger's lock in one step and the manager's in the next; `Progress.Update`
holds its lock until its text is written. The main goroutine goes through `Scan`:
scan with messages and a meter, hashing with workers and a second meter, writing,
`Manager.Close`, or `log.Fatal`.

Whether enough time has passed to show a text is a choice, but the first text of
a meter is always shown (`Meter` sets `next` to now).

### SureCodec

`Push` gives the decoder any line of a set: those of encodings and malformed
ones. Lines are sequences of symbols, escapes and brackets included, so that
`escapeString`, `scanName`, `parseNameAtts` are modelled by what they do.
Attributes kept are the kind, the hash that may be missing, and the link target
that is escaped. An end of a directory where none is open is the index out of
range of the code (`Panic`).

`Symbols` is what text is made of, any set that has the characters that are
escaped (`Special`), their codes (`Hex`) and the words of the format (`Words`); `Digests`
are the symbols that are hexadecimal numbers. `TreesTo[n]` are the trees with at
most `n` directories inside each other, of any width, with any names. `outWalk`
and `scanPairs` recur over the depth of a tree and the positions of a line; they
are recursive functions, so that they can be proved about.

What a line says (`SameSense`) is less than the line: of a `-` or a `u` only the
first character counts, and the pairs of a node may come in another order, twice,
or with keys that nobody asks for. `NothingElse` is up to that.

### FileTree and ScanTree

`ScanTree` composes what `Scan` (`drive.go`) and `doCheck` and `doSignoff`
(`cmd/gosure`) call, as far as trees go through it. The names that may occur are
fixed (`Parent`, `In`); a tree gives attributes to some of them. `store` is the
list of versions, which is what `WeaveDelta` and `SureStore` are about.

The disk is external: names lead to inodes, an inode has what was last written
to it and its ctime in seconds. Between any two steps of a command, users create,
write, rename, link and remove files, make, remove, lock and exchange
directories, inodes are used again, the clock ticks, and contents go bad without
anyone writing (`Rot`), which is what gosure is there to find.

- The permissions of a directory are of three kinds: those with which its names
  can be read (`MayList`), those with which what has these names can be looked at and
  opened (`MayPass`), and others. The instances have `open` (both), `blind` (names
  only) and `shut` (neither). Whether a directory can be listed or a file opened also
  depends on all directories on its way (`Listable`, `Passable`).
- `Descend` is a call of `walkFs` up to its loop: `readdir` and the `Lstat` of
  every entry. If the directory cannot be read, the caller's `err` is set. Entries
  whose `Lstat` fails are skipped without a word, so that a blind directory is recorded
  as an empty one (`SubdirsSeen`, `SeenAtts`). An error of that `Lstat` for
  another reason is a name that was not there.
  `Return` is the end of a call. `err` is the named result: each subdirectory
  assigns to it, so that the last one decides what the parent returns, and a
  parent that returns an error is not appended, with everything in it. The frame
  at the bottom of `stack` is `ScanFs`. (When the scanned path itself has no
  attributes or is no directory, the command ends as it began, and there is no step.)
- `Scan` begins with the last version as its old tree, or with none: any error of
  `ReadDat`, not only a missing store, is taken for the first scan, and the version
  that all files are hashed for is written to the store that is there.
- `StartHashing` is `MigrateHashes` (for a scan only) and the walk of
  `ComputeHashes`; `OldFiles` is the map of `getHashes`, in which the last
  file visited with an inode stays, `Updated` is `updateHashes`.
- `OpenFile` and `ReadFile` are a worker of `ComputeHashes`: it opens a path,
  and what is under that path by then may be another file. Reading while someone
  writes gives old bytes, new bytes or a mixture. `HashFails` is an error of `HashFile`,
  which is logged: because the name is gone or cannot be reached, or for any other
  reason in opening or reading a file that is there (`errors` counts these). `logged` has
  the files whose error was logged. How the workers share their channel
  and buffers is `HashPool`.
- `WriteVersion`, `CompareWithDisk` and `Signoff` end a command. `CompareTrees`
  is in `FileTree`, with the order in which it prints.

Abstractions: a directory's entries are looked at in the step that lists it; of the
attributes there are kind, permissions of directories, inode, ctime, size, hash
and link target (mtime, owner and the other kinds are compared like size or
permissions and decide nothing else); a hash is the content that was hashed;
which delta number a command gets is `GetDelta`, for a header with that many.

`blurred` and `quiet` serve the properties: `blurred` has the pairs of inode and
ctime that do not tell states of the inode apart, because it changed twice in
that second or a directory on its path was exchanged during a command; `quiet`
says that nothing changed since the command began.

## What the runs check

| Run | Module / cfg | Shows |
|---|---|---|
| `weave_any_base` | `MCWeaveDelta` / `WeaveAnyBase` | Deltas on any earlier revision, with any edit script: the writer never fails and `pop` never panics (`NeverFails`), open marks stay ordered (`NewestFirst`), the body stays balanced for all readers (`WellFormed`), old revisions do not change (`RevisionsKept`), with the copy in step with the original (`LockStep`). |
| `weave_latest` | `MCWeaveDelta` / `WeaveLatest` | With the latest revision as base, which is how the store calls it, the weave implements `RevisionStore`: the new revision is the text that was written, and every writer finishes. |
| `weave_old_base` | `MCWeaveDelta` / `WeaveOldBase` | *Violation.* A delta on an older base does not read back as written. |
| `store_files` | `MCSureStore` / `StoreFiles` | Two scanners, a crash, failures of any call and a reader: temporary files are never shared (`OwnTemps`), main file and backup are whole (`MainWhole`), nothing is lost or mixed up without overlap and with repair (`NothingLost`, `NoMixUp`), the main file is missing only between the renames or after a scanner stopped there (`MainThere`), readers get what was the latest (`ReadsLatest`), the main file only grows, and nothing but the main file as it was becomes the backup (`Grows`). 311,946 states. |
| `store_lost` | `MCSureStore` / `StoreLost` | *Violation.* After a crash between the renames, or an error of the second, two more scans lose the history. |
| `store_tail` | `MCSureStore` / `StoreTail` | *Violation.* A failed last flush is not reported by `Close`. |
| `hash_all` | `HashPool` / `HashAll` | As many workers as buffers: no race for `Sha1`, nothing is forgotten, the meter stays within its estimate, the pool never blocks, `ComputeHashes` returns. |
| `hash_stuck` | `HashPool` / `HashStuck` | *Violation.* More workers than buffers: it does not return. |
| `meter_lines` | `StatusMeter` / `MeterLines` | One-line meters: all messages stay on the terminal, one text per meter, the last text of a closed meter is shown, texts do not go back, no message is under way while `Manager.Close` waits for the logger's lock (`CloseUndisturbed`), the program ends. |
| `codec_lines` | `MCSureCodec` / `CodecLines` | Encodings read back, beginnings of encodings are no trees and no errors, no other lines make a tree. |
| `scan_check` | `MCScanTree` / `ScanCheck` | A tree that changes at any time: every recorded hash is that of the inode with the recorded ctime (`HashesTrue`), a scan that could read the last version keeps the hash of a file that did not change (`KeepsHash`), undisturbed scans record the tree but for what cannot be looked at or `walkFs` loses, and just the files whose error was logged have no hash (`QuietScan`), undisturbed checks find all that differs, contents that went bad included (`QuietCheck`), and each difference is printed once (`ReportsOnce`). 2,834,115 states, two minutes. |
| `scan_root` | `MCScanTree` / `ScanRoot` | *Violation.* Attributes of the scanned directory itself are not compared. |

Deadlock checking is off in all runs because all these systems stop: writers
stop at `MaxDeltas` or `MaxWrites`, the others when their work is done. That they
do not stop earlier is what `WriteFinishes`, `Returns` and `Ends` say.

### Bounds

- Weave: two different lines, texts of at most two lines, three deltas. Two
  lines give every kind of hunk (add, change, delete, at the top, in the middle,
  at the end, two hunks in a diff) and repeated lines, for which diff has a
  choice; three deltas give marks inside marks of other deltas and a base that
  is neither first nor latest. All properties of `weave_any_base`, and the
  refinement of `weave_latest`, are proved without these bounds; `WriteFinishes` is
  only checked. `weave_old_base` needs one line only.
- Store: three writes (first weave, a delta, one more for a second scanner or
  after a crash) by two scanners, which is the least with a race; one crash.
  Any call may fail in any write, without a bound but the number of writes. A fourth
  write is needed to lose the history (`store_lost`). All properties of
  `store_files` are proved without these bounds.
- Hashing: two workers, five files, so that the channel of four fills up;
  pool of two, or of one in `hash_stuck`. The safety properties are proved
  for all numbers.
- Meter: two workers, two directories and three files, so that the meter is
  shown, held back and shown again in both phases with messages between. All but
  `Ends` is proved without these bounds, and for texts of several lines.
- Codec: 11 lines, which is a root with two directories in it, or one directory
  with files beside it, or six files; names plain and with all escaped characters. All
  properties of `codec_lines` are proved without these bounds.

- Tree: directory 0 with 1, 2 and 4 in it and 3 in 1, one file each in 2 and in 3:
  first, middle and last subdirectories, one of which has its own and one of which
  is empty, and files in different directories. Two changes in a clock of two seconds:
  a change and its undoing, a change in each of two seconds or both in one, a file
  removed and its inode used again. Two versions: one to take hashes from and one
  that took them over; what a third would take over has the same origin. Two contents of the same
  size, so that size alone cannot tell them apart. An error with a file that is there counts as one of
  the two changes. All properties of `scan_check` are proved without these bounds.

### Fairness

- `WeaveDelta`: weak fairness of the writer's own steps once it was created
  (`Running`): it is one goroutine that waits for nobody. Clients may stop
  writing at any time.
- `HashPool`, `StatusMeter`: weak fairness of each goroutine: the Go scheduler
  runs what can run, and its mutexes and channels do not starve a waiter.
  Their liveness is checked under this and nothing stronger.

## What is proved

By TLAPS, for all values of the constants that the assumptions allow.

**`WeaveDelta_proofs`** (`Texts` any set of sequences of lines, any `MaxDeltas`,
any base):

- `Typed`: `Spec => []TypeOK`. Not inductive alone: the parser must not run past
  the body, and a hunk's line numbers must fit the texts. `TInv` adds `Shape`
  (where parser and diff are at each `pc`) and `Marks` (marks of the old body
  are of its deltas, those of the new one at most of the new delta).
- `InLockStep`: `Spec => []LockStep`. The argument: a reader of the new body for
  an *old* delta `d` sees what a reader of the old body sees. When the copy adds
  a mark of the new delta, its entry is at the head of `dstate`, being the
  newest, and for `d` its mode is one that leaves the decision to the entries
  below (lemmas `PushAtHead`, `KeepsUnderHead`); while it is there, pushing and
  popping old marks happens below it (`PushUnderHead`, `PopUnderHead`); lines
  of the new delta are not kept for `d`. So the state of the one reader is the
  state of the other with at most one entry in front (`InStepOpen`,
  `InStepUnderNext`, `InStepSkip`, `InStepClose`).
- `Kept`: `Spec => RevisionsKept`, since at `Rename` the old body has been read
  to its end and no mark of the new delta is open.
- `AlwaysWellFormed`: `Spec => []WellFormed`. `WellFormed` looks at deltas up to
  the next one only and at the ends of bodies; the invariant `AllTidy` says for
  readers of every delta and at every record that what comes next *fits*: a mark
  is put on for a delta that has none open, and taken off only where one is open
  (`Tidy`), and that nothing is open at the end (`Closed`). For the body that is being written, the reader has the
  marks of the reader of the old body with at most one of the new delta over them
  (`Over`); so what fitted the old reader fits the new one (lemmas
  `ReadUnder`, `ReadOpen`, `ReadClose`, `ReadPlain` in `Weave_proofs`). `NumInv`
  adds that marks have the numbers of deltas.
- `AlwaysWorks`: `Spec => []NeverFails`. The parser of `applyDiff`, which stops
  and goes on and has a line pending, is at each time in the state of a reader of
  the base that started from the top (`Follows`), so a tidy body gives it no panic; and
  since the hunks fit the text that `getPrior` extracted from the same body, the line
  of each hunk is still ahead of it and exists (`InHunk`).
- `AlwaysNewestFirst`: the marks that a reader of a tidy body has open are
  strictly sorted (`Strict`).
- `AlwaysReadsBack`, if `AnyBase = FALSE`: `Spec => ReadsBack`. What a reader of the new body for the
  new delta has so far is the beginning of the text; the lines of the base
  that are still to be copied before the next mark are the next ones of the text
  (`Fill`, `LaterText`). With the latest revision as base a line is kept for the
  new delta exactly when it is for the base, if no mark of the new delta is open. That
  hypothesis is what `store.WriteDelta` does, and `weave_old_base` shows that the
  theorem needs it.
- `AlwaysImplements`: `Spec => Implements`, step by step: a new writer is `Begin`,
  `Rename` is `Commit` by `RevisionsKept`'s invariant and the text just read back,
  and all other steps stutter.

`Weave_proofs` has the lemmas about the parser. `Reading` is a recursive
function over the records; that it is one (`ReadingRuns`), and facts about its
values, are proved with a least-element argument over the naturals, because the
induction theorems of the library cannot be instantiated.

**`SureStore_proofs`** (any number of scanners, writes and crashes, plain or
compressed, with or without a tail that fails):

- `StoreTyped`, `TempsOwned`, `MainIsWhole`. The invariant `Inv` says for each
  scanner which temporary files it has at each `pc` (`Shape`), that they exist
  and differ (`Temporary`), what is in those it will rename or read
  (`Contents`), and for two scanners that they have no file in common (`Apart`).
  Most of the proof is one lemma, `StepKeeps`: a step that changes only its own
  scanner's files, the main file and the backup, and takes only names that did
  not exist, disturbs nothing of another scanner (`OthersKeep`).
- `MainIsWhole` assumes `~ TailFails`; `store_tail` shows that it must.
- `MainIsThere`: the invariant adds the scanners whose revision is in place but
  who have not returned (`Stays`). It needs no order between scanners: whoever
  takes the main file away is between its renames until it puts one back, or stops
  there, by death or by an error of the second rename, which `stopped` then says.
- The properties that hold while scanners run one at a time: `RevisionsInOrder`,
  `CommittedIsKept`, `ReaderGetsLatest` and the action property `MainGrows`. `Lineage`
  says that what the scanner has read of the weave is still true (`Current`), that
  its new file is the main file, or after the first rename the backup, and one
  revision more (`Successor`), and that what was committed and what the reader's
  header had is in the store's revisions, which are those of the main file or else
  of the backup (`Latest`, `Kept`). The steps of a scanner leave `Latest` alone,
  except the second rename, which appends to it; and where the first rename failed, the
  new file is still one revision more than the main file that it replaces. `store_lost` shows what happens
  without the proviso about repair.

**`HashPool_proofs`** (any finite number of workers, files and buffers): `Typed`
and all four safety invariants, each from an invariant that is inductive
relative to those before it.

- `RoomInPool`: buffers in the pool and in the hands of workers are together no
  more than the workers (`Supply`).
- `RaceFree`: files in the channel are distinct and behind the walk, and none is
  also with a worker (`Apart`).
- `CompleteReturn`: the channel is closed after the walk, a worker is done only
  when it is closed and empty, the WaitGroup counts those that are not done
  (`Closing`); every file that the walk has passed is hashed, logged, in the
  channel or with a worker, and only one of these (`Outcome`).
- `EstimateHolds`: the estimate is what was counted, what has failed, what waits
  and what is hashed but not counted (`Tally`).

**`ScanTree_proofs`** (any tree, any permissions, any number of files, inodes, versions,
changes, errors and seconds): all properties of `scan_check`.

- `HashesAreTrue`: `Spec => []HashesTrue`. The property is about versions in the
  store only; the invariant `Inv` carries it through everything a hash comes
  from. Attributes are `Sound` when they are not from the inode's future and
  their hash, if the inode still has that ctime, is of its contents; this holds for
  the new tree, the old tree and all versions. While a file waits for its hash,
  its name leads to the inode in its attributes unless that inode has changed
  since (`Named`), and what a worker read at first is of that inode too
  (`Opened`). Two lemmas do the work: whatever users do, attributes that still
  identify their inode did so before, and the inode and its names are as they
  were (`UserChanges`, from `TouchKeeps` for all changes that set a ctime); and a
  hash that `updateHashes` takes over belongs to the attributes it is put beside
  (`UpdatedGood`).
- `HashesAreKept`: `Spec => KeepsHash`, from `Inv` and `Kept`: a scan has the last
  version as its old tree, or none, of which the property does not speak, and a hash that was taken over is there before the
  workers start and its file is not among those they get.
- `TreesAreTyped`: `Spec => []TypeOK`, from `Inv` and what it leaves out
  (`RestTypes`). The names in a frame of `walkFs` have a type because `byName` gives
  the names of a set, each once, in their order (`ByName`).
- `QuietScansAreTrue`: `Spec => []QuietScan`. While nothing changes, a walk is where it
  is by two numbers only: the directory of the top frame and the subdirectory that it
  looked at last (`WalkAt`). They fix all frames below (`Chain`), which directories
  are listed and not yet looked at (`Waiting`), and with that the whole tree so far
  (`Record`): what waits is in it, what is done is in it unless some directory on its way
  was lost (`Clear`). At the end nothing waits, and `Record` is the tree on the disk; from
  then on the new tree is that but for hashes that are still to come (`HashAt`).
  `MigrateHashes` can only put hashes that are right as far as `HashesTrue` goes, so
  the theorem says of a scan which names and attributes are recorded, and of a check
  also that each hash is of what is on the disk. That a file has no hash just when its
  error was logged holds whatever changes (`Logs`, an invariant of its own).
- `DifferencesAreReportedOnce`: `Spec => []ReportsOnce`, with a tree that may change at any
  time. `CompareTrees` prints right about trees that have the directory around
  everything they have (`Closed`). `ScanFs` returns such trees (`Walking`): a directory is
  cut out with all below it, what is cut out is not being walked, and what a frame
  has yet to look at is in the tree. So all versions in the store are closed
  too (`ClosedInv`, which TLC checked on `scan_check`'s instance before it was proved).
- `ChecksAreTrue`: `Spec => []QuietCheck`, from `HashAt`, `Logs` and the theorem about
  `CompareTrees`. It says no more than is true: to a check a file that it could not
  read is one without a hash, so that it differs from one that has a hash in the old
  version, and not from one that has none there either.

**`FileTree_proofs`** has what these rest on. `Way`, `byName`, `FlattenSeq`, `compWalk`, and in
`ScanTree` `Fails`, are recursive functions: that each equals its definition is proved
from finite approximations (`WayExists`, `UpToExists`, `FlatExists`, `WalkedExists`,
`FailsExists`), and what they do by induction over a *set* of numbers (`SetInduction`, from the library's
well-founded order of the naturals), which the installed provers can do.

- `ComparePrints`: for closed trees, `CompareTrees` prints `Differences`, each line once.
  `Prints(s, S)` says that a sequence without repetition has the elements of `S`; it holds of a
  concatenation when the sets are disjoint (`PrintsConcat`, `PrintsFlat`). What is below one
  directory is what is in its subdirectories, their own attributes, and its files, which are
  disjoint; what is below a directory that only one tree has adds nothing (`NotUnder`),
  because in a closed tree nothing there is in the other one.

**`StatusMeter_proofs`** (any finite number of workers, any directories and files):

- `Typed`: `Spec => []TypeOK`, which bounds the counters by `MaxDirs` and `MaxFiles`;
  the invariant counts the files that are left, those that workers are about to
  count and those counted (`Counts`).
- `ClosesUndisturbed`: whoever has the logger's lock is at a certain place (`Held`), and
  the workers are past theirs when the hash meter is closed.
- `NeverBack`: the action property `Forward`. The text that a worker has formatted
  counts the files as they are, since it holds `Progress.lock` until the text is
  written (`Formatted`), and the meter shows as many or one less (`HashShown`).
- `LogIsKept`, `OneMeterShown`, `LastTextIsShown`, under the hypothesis `OneHeight`
  that all texts have the same number of lines. What `clear` would leave on the
  terminal (`Cleared`) then only grows, by a message or by the text of a closed
  meter, and the rest is one text of the open meter (`Layout`); the three properties hold
  of lines that grow in this way (`KeptText`, `KeptLog`, `TextBelow`, `LogBelow`,
  `ShowsMore`). The program's texts have one line each
  (`sure/local.go:84`, `sure/progress.go:51`). Without the hypothesis they are false: see
  below about `status/status.go:134`.

**`SureCodec_proofs`** (any symbols, any set of lines, trees of any depth up to `MaxLines`,
which is any number):

- `ReadsNode`: a line written by `outNode` is parsed as the name and the attributes
  it was written for. An escaped text has no space and no bracket in it, and an
  equal sign only where a code follows (`EscapeFacts`), so `EndOfWord` finds the space that
  `Pair` has put there (`ScanEscaped`); pairs are then read one after the other
  (`PairRead`), and the map that comes of them is that of the attributes in each of the
  four forms that `encodeAtts` gives them (`AttsCases`, `AttsRead`).
- `Types`: `Spec => []TypeOK`, from `Typed`, in which the trees are as deep as there
  were lines: a line adds at most one level.
- `NothingIsAdded`: `Spec => []NothingElse`. The invariant `Written` says what
  has been pushed in terms of the stack: the header, for each open directory its line
  and the whole of its children (`Opened`), and in the last one the `-` and its
  files, once that has come (`FilesText`). A `u` makes the last directory a child of the one
  before, and its text with the `u` is that of a child (`EndOfDir`, `EndOfChild`); that
  directories which are still open have no files is part of it (`NoFilesTo`).
- `IsReadBack`, `IsOnlyWhole`: `Spec => []ReadsBack` and `Spec => []OnlyWhole`. `Leads` says which
  state a line of an encoding leads to, and `Reads` is a run of such lines.
  By induction over the depth of a tree, and inside over its children and its files,
  its lines lead from any stack to the one with that tree as a child of
  the last directory (`ReadsChild`), or to the result (`ReadsRoot`). The decoder has
  no other choice (`Takes`), so its state is the one in that run (`Follows`), and from each
  state but the last a line leads on, so there is no result, no error and no
  panic before the end (`Goes`).

Induction is over sets of numbers or of sequences (`SetInduction`, `SeqInduction`), since the
induction theorems of the library take an operator. That `outWalk`, `TreesTo`, `FlattenSeq`
and the functions of the scanner are the functions that their equations say is
proved from the existence of each finite part (`WalkExists`, `TowerExists`, `PairsExist`).

Assumptions are those declared with the constants: `TextsAssumption`,
`BoundAssumption`, `BoundsAssumption`, `PoolAssumption`, `TreeAssumption`, `ScanAssumption`,
`StatusAssumption`, `CodecAssumption`, and the hypotheses `AnyBase = FALSE` and `OneHeight` where a theorem
states them.

**Only model-checked**: all liveness (`WriteFinishes`, `Returns`, `Ends`), which the
prover does not handle under fairness. Every invariant and every action property of the
runs that pass is proved.

## Findings

1. `weave_old_base` (`weave/delta.go:193`): `NewDeltaWriter` is documented to
   take any delta as base, "typically" the last one. With an older base the new
   revision reads back wrong, as lines of the deltas in between stay. The store
   always uses the latest.
2. `store_lost` (`weave/delta.go:83`): the backup is called redundant, but after
   a crash between the two renames it is the only copy, the next scan
   starts a new weave without it and the one after that replaces it.
3. `store_tail` (`weave/delta.go:189`): an error of the last flush is dropped by a
   deferred `Close`; the torn file becomes the main file and `Close` returns nil.
4. `hash_stuck` (`sha/hashfile.go:60`): the comment says a buffer is discarded when
   the pool is full, but the `select` has no `default`. With more than 16 CPUs
   `ComputeHashes` can hang.
5. `scan_root` (`sure/compare.go:34`): `CompareTrees` is documented to print
   everything that is different. Attributes are compared by the parent's loop, and
   the scanned directory has no parent: its permissions and owner are recorded
   in every version and compared in none.

Seen and not spent a run on: two scans at once lose one of the two revisions;
`getPrior` expects gzip also in a store of plain files; `PushDecoder` panics on an
end of a directory before the first one; a directory that cannot be read and is
the last of its parent makes the parent fail too, and the whole scan if it is the
last of the scanned directory (`sure/local.go:65`; `QuietScan` states exactly
this); names that cannot be looked at are skipped by `readdir` without the warning that
its comment promises (`sure/local.go:92`, `QuietScan` says what is missing then); any
error of reading the last version counts as a first scan (`drive.go:17`), which hashes
contents that went bad as if they were right, and `KeepsHash` leaves such scans out; a
file that cannot be read is recorded without a hash and the scan succeeds
(`sure/hashes.go:90`), so that no later check can tell what happened to it while it
cannot be read; a directory that is new is one line of a comparison, whatever is in it;
a delta number that does not exist reads as the latest one (`GetDelta`); a meter
that held back a text of more lines than the one shown would erase messages of the
logger, but the program's meters have one line (`status/status.go:134`); the
manager's lock and the logger's are taken in both orders, which `CloseUndisturbed` and
`Ends` show to be harmless only because the workers are gone by then.

## Not modelled

- Headers (names, times, tags), gzip and JSON: formats of single files.
- `ScanRevs`, `Store.writeTemp`, `tmpFile`, `readNamed`, `Decode`: never called by
  the program.
- Kinds of nodes other than directory, file and link, and in `SureCodec` the numbers
  among the attributes: each is printed, parsed and compared by itself.
- Power failure: no file is synced, and what is then left depends on the file
  system.
- `store/parse.go`: `Parse` splits a path, `FixTags` moves one entry of a map: single
  calls on strings without state that outlives them.
- `sha/atime*.go`, `sure/generate.go`, `build.go`, and flags, `list` and `version` of
  `cmd/`: I/O, tests, build, printing.

## Plan

Done, in this order: `Weave` and `WeaveDelta` with `RevisionStore`, their proofs,
`SureStore`, `HashPool` and its proofs, `StatusMeter`, `SureCodec`, `FileTree` and
`ScanTree`, the proofs about recorded hashes, the proofs about `SureStore`, the
refinement of `RevisionStore`, the proofs about `StatusMeter`, the proofs about the walk,
the comparison and the check, the proofs about `SureCodec`.

Next modules: a store of plain files in `SureStore`, with `getPrior` expecting gzip
and torn files that read as shorter ones; liveness of a command in `ScanTree`
(that each ends is so far what `Returns` and `Ends` say of its parts).

Next theorems:

1. A lexicographic measure that every step of a writer decreases, which is the part
   of `WriteFinishes` that needs no fairness.
2. That `ScanTree` hands `SureStore` one revision for each scan that ends: the store of
   versions of the one as the revisions of the other.
