------------------------------ MODULE ScanTree ------------------------------
(***************************************************************************)
(* gosure scan, check and signoff on a tree that changes while they run:   *)
(* Scan (drive.go) and doCheck (cmd/gosure/check.go) walk the tree         *)
(* (sure/local.go), take over hashes of the last version                   *)
(* (sure/migrate.go), hash what is left (sure/hashes.go), and write a new  *)
(* version or compare with an old one (sure/compare.go).                   *)
(*                                                                         *)
(* The store is the list of its versions, as WeaveDelta and SureStore make *)
(* it; one command runs at a time.                                         *)
(***************************************************************************)
EXTENDS FileTree

CONSTANTS Inodes,       \* numbers of the inodes of files
          Data,         \* contents of regular files
          Links,        \* contents of symbolic links: their targets
          Size,         \* Size[x] for x \in Data
          Modes,        \* permissions of directories
          MayList,      \* those with which one can read the names in it
          MayPass,      \* those with which one can get at what has these names
          FirstIno,     \* what the files are before anything changes
          FirstData,    \* what is in the inodes then
          MaxChanges,   \* bound: changes to the tree and errors of files
          MaxTime,      \* bound: the clock, in seconds
          MaxVersions   \* bound: versions in the store

Other   == "other"      \* bytes that no file was meant to have
NoIno   == 0
NoHash  == "nil"
Contents == Data \cup {Other}

ASSUME ScanAssumption ==
    /\ Inodes \subseteq Nat \ {NoIno}
    /\ Size \in [Data -> Nat]
    /\ Data \cap Links = {} /\ Other \notin Data \cup Links
    /\ NoHash \notin Contents
    /\ FirstIno \in [Files -> Inodes \cup {NoIno}]
    /\ FirstData \in [Inodes -> Data \cup Links]
    /\ MayList \subseteq Modes /\ MayPass \subseteq Modes /\ "gone" \notin Modes
    /\ MaxChanges \in Nat /\ MaxTime \in Nat /\ MaxVersions \in Nat

VARIABLES
    \* The tree on disk.
    mode,      \* mode[d]: permissions of d, or "gone"
    ino,       \* ino[f]: the inode with the name f, or NoIno
    node,      \* node[i]: what was last written to i, and when it was changed
    rotten,    \* inodes whose contents went bad on the disk
    clock,     \* the time in seconds
    changes,   \* how many changes there were
    \* gosure.
    cmd,       \* the command that runs
    pc,        \* where it is
    old,       \* the version it has read
    stack,     \* the calls of walkFs
    dirs,      \* the new tree: directories
    files,     \* and files
    todo,      \* files that hashWalk sends to the workers, not yet done
    handle,    \* handle[f]: the inode that a worker has opened for f
    first,     \* first[f]: what was in it when it was opened
    logged,    \* files whose error in hashing was logged
    errors,    \* how many files failed to be hashed that are there
    report,    \* what was printed
    store,     \* the versions in the surefile
    \* For the properties only.
    blurred,   \* pairs <<i, s>>: i is not told apart by having ctime s
    quiet      \* nothing has changed since the command began

disk   == <<mode, ino, node, rotten, clock, changes>>
walk   == <<stack, dirs>>
hashing == <<todo, handle, first, logged, errors>>
gosure == <<cmd, pc, old, walk, files, hashing, report, store>>
vars   == <<disk, gosure, blurred, quiet>>

-----------------------------------------------------------------------------
(***************************************************************************)
(* The disk.                                                               *)
(***************************************************************************)

Kind(i) == IF node[i].data \in Links THEN "lnk" ELSE "file"

\* What one reads in i: what was written, unless it went bad, and through a
\* link what no one knows.
Bytes(i) == IF i \in rotten \/ Kind(i) = "lnk" THEN Other ELSE node[i].data

\* The names in a directory, and what has these names, can be looked at.
Listable(d) == mode[d] \in MayList /\ \A c \in Way[d] \ {d} : mode[c] \in MayPass
Passable(d) == \A c \in Way[d] : mode[c] \in MayPass

Free(i) == /\ \A f \in Files : ino[f] # i
           /\ \A f \in Files : handle[f] # i

Change == /\ changes + errors < MaxChanges
          /\ changes' = changes + 1
          /\ quiet' = (quiet /\ cmd = "none")
          /\ UNCHANGED <<clock, gosure>>

\* The system sets the ctime of the inodes in S.  Within one second nobody
\* sees that it did.
Touched(S) == blurred' = blurred \cup {<<i, clock>> : i \in {j \in S : node[j].ctime = clock}}

Stamp(S) == node' = [i \in Inodes |-> IF i \in S THEN [node[i] EXCEPT !.ctime = clock]
                                      ELSE node[i]]

Put(i, x) == node' = [node EXCEPT ![i] = [data |-> x, ctime |-> clock]]

Create(f, i, x) ==
    /\ Change
    /\ mode[In[f]] # "gone" /\ ino[f] = NoIno /\ Free(i)
    /\ ino' = [ino EXCEPT ![f] = i]
    /\ Put(i, x) /\ Touched({i})
    /\ rotten' = rotten \ {i}
    /\ UNCHANGED mode

WriteFile(i, x) ==
    /\ Change
    /\ (\E f \in Files : ino[f] = i) /\ Kind(i) = "file"
    /\ Put(i, x) /\ Touched({i})
    /\ rotten' = rotten \ {i}
    /\ UNCHANGED <<mode, ino>>

Unlink(f) ==
    /\ Change
    /\ ino[f] # NoIno
    /\ ino' = [ino EXCEPT ![f] = NoIno]
    /\ Stamp({ino[f]}) /\ Touched({ino[f]})
    /\ UNCHANGED <<mode, rotten>>

\* rename(2), over a file that may be there.
Rename(f, g) ==
    /\ Change
    /\ ino[f] # NoIno /\ ino[f] # ino[g] /\ mode[In[g]] # "gone"
    /\ ino' = [ino EXCEPT ![f] = NoIno, ![g] = ino[f]]
    /\ Stamp({ino[f], ino[g]} \ {NoIno}) /\ Touched({ino[f], ino[g]} \ {NoIno})
    /\ UNCHANGED <<mode, rotten>>

HardLink(f, g) ==
    /\ Change
    /\ ino[f] # NoIno /\ ino[g] = NoIno /\ mode[In[g]] # "gone"
    /\ ino' = [ino EXCEPT ![g] = ino[f]]
    /\ Stamp({ino[f]}) /\ Touched({ino[f]})
    /\ UNCHANGED <<mode, rotten>>

Chmod(d, m) ==
    /\ Change
    /\ mode[d] \notin {"gone", m}
    /\ mode' = [mode EXCEPT ![d] = m]
    /\ UNCHANGED <<ino, node, rotten, blurred>>

MakeDir(d) ==
    /\ Change
    /\ mode[d] = "gone" /\ mode[Parent[d]] # "gone"
    /\ \E m \in MayList \cap MayPass : mode' = [mode EXCEPT ![d] = m]
    /\ UNCHANGED <<ino, node, rotten, blurred>>

RemoveDir(d) ==
    /\ Change
    /\ mode[d] # "gone"
    /\ \A c \in SubdirsOf(d) : mode[c] = "gone"
    /\ \A f \in FilesOf(d) : ino[f] = NoIno
    /\ mode' = [mode EXCEPT ![d] = "gone"]
    /\ UNCHANGED <<ino, node, rotten, blurred>>

\* Two directories with one file each change places.  That changes no ctime
\* of a file.
MoveDirs(f, g) ==
    LET c == In[f]
        d == In[g]
    IN  /\ Change
        /\ c # d /\ mode[c] # "gone" /\ mode[d] # "gone"
        /\ FilesOf(c) = {f} /\ FilesOf(d) = {g}
        /\ SubdirsOf(c) = {} /\ SubdirsOf(d) = {}
        /\ mode' = [mode EXCEPT ![c] = mode[d], ![d] = mode[c]]
        /\ ino' = [ino EXCEPT ![f] = ino[g], ![g] = ino[f]]
        /\ blurred' = IF cmd = "none" THEN blurred
                      ELSE blurred \cup {<<i, node[i].ctime>> :
                                            i \in {ino[f], ino[g]} \ {NoIno}}
        /\ UNCHANGED <<node, rotten>>

\* The contents go bad without anyone writing to the file.
Rot(i) ==
    /\ Change
    /\ ~ Free(i) /\ Kind(i) = "file" /\ i \notin rotten
    /\ rotten' = rotten \cup {i}
    /\ UNCHANGED <<mode, ino, node, blurred>>

Tick ==
    /\ clock < MaxTime
    /\ clock' = clock + 1
    /\ UNCHANGED <<mode, ino, node, rotten, changes, gosure, blurred, quiet>>

User == \/ \E f \in Files, i \in Inodes, x \in Data \cup Links : Create(f, i, x)
        \/ \E i \in Inodes, x \in Data : WriteFile(i, x)
        \/ \E f \in Files : Unlink(f)
        \/ \E f, g \in Files : Rename(f, g) \/ HardLink(f, g) \/ MoveDirs(f, g)
        \/ \E d \in Dirs, m \in Modes : Chmod(d, m)
        \/ \E d \in Subdirs : MakeDir(d) \/ RemoveDir(d)
        \/ \E i \in Inodes : Rot(i)
        \/ Tick

-----------------------------------------------------------------------------
(***************************************************************************)
(* ScanFs and walkFs.                                                      *)
(***************************************************************************)

\* A call of walkFs: its directory, the subdirectories it has yet to look at,
\* and its result err.  The lowest frame is the caller, ScanFs.
Frame(d, left, err) == [dir |-> d, left |-> left, err |-> err]
Caller == -1

Top  == stack[Len(stack)]
Rest == SubSeq(stack, 1, Len(stack) - 1)

\* getAtts.
AttsOf(i) ==
    IF i = NoIno THEN None
    ELSE IF Kind(i) = "lnk" THEN LinkAtts(node[i].data)
    ELSE RegAtts(i, node[i].ctime, Size[node[i].data], NoHash)

\* The parts of the new tree without what is at or below d: the tree of a call
\* that returns an error is not appended.
DirsWithout(d)  == [c \in Dirs |-> IF c \in Below(d) THEN None ELSE dirs[c]]
FilesWithout(d) == [f \in Files |-> IF In[f] \in Below(d) THEN None ELSE files[f]]

\* (When Lstat of the directory to scan fails, or it is not a directory, the
\* command ends as it began.)
Begin(c, version) ==
    /\ pc = "idle"
    /\ cmd' = c /\ old' = version
    /\ pc' = "walk"
    /\ dirs' = [EmptyTree.dir EXCEPT ![0] = DirAtts(mode[0])]
    /\ stack' = <<Frame(Caller, <<0>>, FALSE)>>
    /\ quiet' = TRUE
    /\ UNCHANGED <<disk, files, hashing, report, store, blurred>>

\* readdir: the subdirectories and the files of d.  A name whose attributes
\* cannot be had is skipped, so that a directory in which nothing can be
\* looked at seems empty.
SubdirsSeen(d) == {c \in SubdirsOf(d) : mode[c] # "gone" /\ mode[d] \in MayPass}
SeenAtts(f) == IF mode[In[f]] \in MayPass THEN AttsOf(ino[f]) ELSE None

\* walkFs calls itself for the next directory, whose names readdir reads, and
\* their attributes.  If that fails, err is set, and stays set while no other
\* directory follows.
Descend ==
    /\ pc = "walk" /\ Top.left # << >>
    /\ LET d      == Head(Top.left)
           caller == [Top EXCEPT !.left = Tail(Top.left)]
           subs   == SubdirsSeen(d)
       IN  IF Listable(d)
           THEN /\ stack' = Append(Append(Rest, caller), Frame(d, byName(subs), FALSE))
                /\ dirs' = [c \in Dirs |-> IF c \in subs THEN DirAtts(mode[c]) ELSE dirs[c]]
                /\ files' = [f \in Files |-> IF In[f] = d THEN SeenAtts(f) ELSE files[f]]
           ELSE /\ stack' = Append(Rest, [caller EXCEPT !.err = TRUE])
                /\ dirs' = DirsWithout(d)
                /\ files' = FilesWithout(d)
    /\ UNCHANGED <<disk, cmd, pc, old, hashing, report, store, blurred, quiet>>

\* Fault: the error of the last directory is not returned.
ReturnNil ==
    /\ pc = "walk" /\ Len(stack) > 1 /\ Top.left = << >>
    /\ stack' = [Rest EXCEPT ![Len(stack) - 1].err = FALSE]
    /\ UNCHANGED <<dirs, files>>
    /\ UNCHANGED <<disk, cmd, pc, old, hashing, report, store, blurred, quiet>>

\* walkFs returns; with an error when its last directory had one.
Return ==
    /\ pc = "walk" /\ Len(stack) > 1 /\ Top.left = << >>
    /\ stack' = [Rest EXCEPT ![Len(stack) - 1].err = Top.err]
    /\ IF Top.err
       THEN dirs' = DirsWithout(Top.dir) /\ files' = FilesWithout(Top.dir)
       ELSE UNCHANGED <<dirs, files>>
    /\ UNCHANGED <<disk, cmd, pc, old, hashing, report, store, blurred, quiet>>

WalkDone == pc = "walk" /\ Len(stack) = 1 /\ Top.left = << >>

End ==
    /\ cmd' = "none" /\ pc' = "idle"
    /\ old' = EmptyTree
    /\ dirs' = EmptyTree.dir /\ files' = EmptyTree.file
    /\ stack' = << >>
    /\ todo' = {} /\ logged' = {}
    /\ report' = << >>
    /\ quiet' = TRUE
    /\ UNCHANGED <<disk, handle, first, errors, blurred>>

\* ScanFs returns an error, and with it the command.
WalkFails == WalkDone /\ Top.err /\ End /\ UNCHANGED store

-----------------------------------------------------------------------------
(***************************************************************************)
(* MigrateHashes.                                                          *)
(***************************************************************************)

Hashed(a) == a.kind = "file" /\ a.sha1 # NoHash

\* The files of a tree as getHashes visits them: those in subdirectories
\* before those beside them.
VisitedBefore ==
    {x \in Files \X Files :
        \/ In[x[1]] = In[x[2]] /\ x[1] < x[2]
        \/ In[x[1]] # In[x[2]] /\ In[x[1]] \in Below(In[x[2]])
        \/ \E c, d \in Subdirs : /\ Parent[c] = Parent[d] /\ c < d
                                 /\ In[x[1]] \in Below(c) /\ In[x[2]] \in Below(d)}

\* getHashes: the file from which the map has the attributes for inode i, the
\* last one with a hash.
OldFiles(i) ==
    LET found == {f \in Files : Hashed(old.file[f]) /\ old.file[f].ino = i}
    IN  {f \in found : \A g \in found : g # f => <<g, f>> \in VisitedBefore}

\* Fault: the ctime is not compared.
SameAttsLoose(a, b) == a.size = b.size

SameAtts(a, b) == a.ctime = b.ctime /\ a.size = b.size

\* updateHashes
Updated(a) ==
    LET same == {f \in OldFiles(a.ino) : SameAtts(old.file[f], a)}
    IN  IF a.kind # "file" \/ same = {} THEN a
        ELSE [a EXCEPT !.sha1 = old.file[CHOOSE f \in same : TRUE].sha1]

\* Fault: check takes over hashes as scan does.
MigrateAlways == WalkDone /\ ~ Top.err /\ files' = [f \in Files |-> Updated(files[f])]

\* Fault: scan hashes all files.
MigrateNever == WalkDone /\ ~ Top.err /\ files' = files

\* Only Scan takes over hashes; check hashes all files.
Migrate ==
    /\ WalkDone /\ ~ Top.err
    /\ files' = IF cmd = "scan" THEN [f \in Files |-> Updated(files[f])] ELSE files

\* ComputeHashes begins: hashWalk picks the files without a hash.
StartHashing ==
    /\ Migrate
    /\ todo' = {f \in Files : files'[f].kind = "file" /\ files'[f].sha1 = NoHash}
    /\ pc' = "hash"
    /\ stack' = << >>
    /\ UNCHANGED <<disk, cmd, old, dirs, handle, first, logged, errors, report, store,
                   blurred, quiet>>

-----------------------------------------------------------------------------
(***************************************************************************)
(* The workers: each file is opened by its name, which may be another file *)
(* by then, and read while it may be written.                              *)
(***************************************************************************)

\* Fault: the error is not looked at.
SkipHashing(f) ==
    /\ files' = [files EXCEPT ![f].sha1 = ""]
    /\ todo' = todo \ {f}
    /\ logged' = logged \cup {f}
    /\ UNCHANGED <<handle, first>>

\* HashFile returns an error, which is logged; the file goes without a hash.
HashError(f) ==
    /\ todo' = todo \ {f}
    /\ logged' = logged \cup {f}
    /\ handle' = [handle EXCEPT ![f] = NoIno]
    /\ first' = [first EXCEPT ![f] = Other]
    /\ UNCHANGED files

CanOpen(f) == Passable(In[f]) /\ ino[f] # NoIno

\* The file cannot be opened, because there is none any more or one cannot get
\* at it.  Or, at any time: because it may not be read, or the system has no
\* more handles; or reading it fails.
HashFails(f) ==
    /\ pc = "hash" /\ f \in todo
    /\ \/ handle[f] = NoIno /\ ~ CanOpen(f) /\ UNCHANGED errors
       \/ changes + errors < MaxChanges /\ errors' = errors + 1
    /\ HashError(f)
    /\ UNCHANGED <<disk, cmd, pc, old, walk, report, store, blurred, quiet>>

OpenFile(f) ==
    /\ pc = "hash" /\ f \in todo /\ handle[f] = NoIno
    /\ CanOpen(f)
    /\ handle' = [handle EXCEPT ![f] = ino[f]]
    /\ first' = [first EXCEPT ![f] = Bytes(ino[f])]
    /\ UNCHANGED <<files, todo, logged, errors>>
    /\ UNCHANGED <<disk, cmd, pc, old, walk, report, store, blurred, quiet>>

\* A file that is written while it is read may give bytes from before, from
\* after, or some of each.
ReadFile(f) ==
    /\ pc = "hash" /\ f \in todo /\ handle[f] # NoIno
    /\ \E x \in IF first[f] = Bytes(handle[f]) THEN {first[f]}
                ELSE {first[f], Bytes(handle[f]), Other} :
          files' = [files EXCEPT ![f].sha1 = x]
    /\ todo' = todo \ {f}
    /\ handle' = [handle EXCEPT ![f] = NoIno]
    /\ first' = [first EXCEPT ![f] = Other]
    /\ UNCHANGED <<disk, cmd, pc, old, walk, logged, errors, report, store, blurred,
                   quiet>>

-----------------------------------------------------------------------------
(***************************************************************************)
(* The commands.                                                           *)
(***************************************************************************)

NewTree == [dir |-> dirs, file |-> files]

\* GetDelta, and what ReadDelta makes of a number: one that the header does
\* not have is not looked for, and reads as the latest if it is greater.
GetDelta(n) == CASE n = -1 -> Len(store)
                 [] n = -2 -> Len(store) - 1
                 [] OTHER  -> IF n > Len(store) THEN Len(store) ELSE n

Deltas == -2..-1 \cup 1..MaxVersions + 1

\* Whatever the error of ReadDat, it is taken for a store without a version,
\* and there is no old tree.
Scan ==
    /\ Len(store) < MaxVersions
    /\ \/ Begin("scan", EmptyTree)
       \/ store # << >> /\ Begin("scan", store[GetDelta(-1)])

\* st.Write, which may return an error.
WriteVersion ==
    /\ pc = "hash" /\ todo = {} /\ cmd = "scan"
    /\ store' \in {store, Append(store, NewTree)}
    /\ End

Check ==
    \E n \in Deltas : GetDelta(n) > 0 /\ Begin("check", store[GetDelta(n)])

CompareWithDisk ==
    /\ pc = "hash" /\ todo = {} /\ cmd = "check"
    /\ report' = CompareTrees(old, NewTree)
    /\ pc' = "report"
    /\ UNCHANGED <<disk, cmd, old, walk, files, hashing, store, blurred, quiet>>

\* Signoff compares the last two versions.
Signoff ==
    /\ pc = "idle" /\ Len(store) > 1
    /\ cmd' = "signoff" /\ pc' = "report"
    /\ old' = store[GetDelta(-2)]
    /\ dirs' = store[GetDelta(-1)].dir /\ files' = store[GetDelta(-1)].file
    /\ report' = CompareTrees(store[GetDelta(-2)], store[GetDelta(-1)])
    /\ UNCHANGED <<disk, stack, hashing, store, blurred, quiet>>

Reported == pc = "report" /\ End /\ UNCHANGED store

Walk == Descend \/ Return \/ WalkFails \/ StartHashing
Hash == \E f \in Files : OpenFile(f) \/ ReadFile(f) \/ HashFails(f)
Finish == WriteVersion \/ CompareWithDisk \/ Reported

-----------------------------------------------------------------------------
Init ==
    /\ mode \in [Dirs -> MayList \cap MayPass]
    /\ ino = FirstIno
    /\ node = [i \in Inodes |-> [data |-> FirstData[i], ctime |-> 0]]
    /\ rotten = {} /\ clock = 0 /\ changes = 0
    /\ cmd = "none" /\ pc = "idle" /\ old = EmptyTree
    /\ stack = << >> /\ dirs = EmptyTree.dir /\ files = EmptyTree.file
    /\ todo = {} /\ logged = {} /\ errors = 0
    /\ handle = [f \in Files |-> NoIno] /\ first = [f \in Files |-> Other]
    /\ report = << >>
    /\ store = << >>
    /\ blurred = {} /\ quiet = TRUE

Next == \/ User
        \/ Scan \/ Check \/ Signoff
        \/ Walk \/ Hash \/ Finish

Spec == Init /\ [][Next]_vars

-----------------------------------------------------------------------------
(***************************************************************************)
(* Type invariant                                                          *)
(***************************************************************************)

Hashes == Contents \cup {NoHash}

DirAttsType  == {None} \cup [kind : {"dir"}, perm : Modes]
RegAttsType  == [kind : {"file"}, ino : Inodes, ctime : 0..MaxTime,
                 size : Nat, sha1 : Hashes]
FileAttsType == {None} \cup [kind : {"lnk"}, targ : Links] \cup RegAttsType
TreeType == [dir : [Dirs -> DirAttsType], file : [Files -> FileAttsType]]

FrameType == [dir : Dirs \cup {Caller}, left : Seq(Dirs), err : BOOLEAN]

\* Every variable has its type.
TypeOK ==
    /\ mode \in [Dirs -> Modes \cup {"gone"}]
    /\ ino \in [Files -> Inodes \cup {NoIno}]
    /\ node \in [Inodes -> [data : Data \cup Links, ctime : 0..MaxTime]]
    /\ rotten \subseteq Inodes /\ clock \in 0..MaxTime /\ changes \in 0..MaxChanges
    /\ cmd \in {"none", "scan", "check", "signoff"}
    /\ pc \in {"idle", "walk", "hash", "report"}
    /\ old \in TreeType /\ NewTree \in TreeType
    /\ stack \in Seq(FrameType)
    /\ todo \subseteq Files /\ logged \subseteq Files /\ errors \in 0..MaxChanges
    /\ handle \in [Files -> Inodes \cup {NoIno}] /\ first \in [Files -> Contents]
    /\ store \in Seq(TreeType)
    /\ blurred \subseteq Inodes \X (0..MaxTime) /\ quiet \in BOOLEAN

-----------------------------------------------------------------------------
(***************************************************************************)
(* Safety                                                                  *)
(***************************************************************************)

\* The inode still has the ctime it was recorded with, and that tells.
Identified(a) == node[a.ino].ctime = a.ctime /\ <<a.ino, a.ctime>> \notin blurred

\* A hash is that of the file with these attributes: of what was written to
\* it, or of what the disk has made of that.
Faithful(a) ==
    Hashed(a) /\ Identified(a) =>
        \/ a.sha1 = node[a.ino].data
        \/ a.sha1 = Other /\ a.ino \in rotten

\* However the tree changes while it is walked and hashed, and however files
\* are renamed and inodes used again between scans: a hash in any version
\* belongs to the attributes beside it.  Excepted are inodes that changed
\* twice in a second, or whose directory was renamed during a command.
HashesTrue ==
    \A k \in 1..Len(store) : \A f \in Files : Faithful(store[k].file[f])

\* The error that walkFs(d) returns: its own, or that of its last directory.
Fails[d \in Dirs] ==
    \/ ~ Listable(d)
    \/ \E c \in SubdirsSeen(d) : Fails[c] /\ \A b \in SubdirsSeen(d) : b <= c

\* The directories that walkFs finds and does not lose.
Found(d) == /\ mode[d] # "gone"
            /\ \A c \in Way[d] : ~ Fails[c] /\ (c # d => mode[c] \in MayPass)

\* The tree as it is on the disk, without what walkFs does not find or loses;
\* h(f) is the hash of file f.
DiskTree(h(_)) ==
    [dir  |-> [d \in Dirs |-> IF Found(d) THEN DirAtts(mode[d]) ELSE None],
     file |-> [f \in Files |->
                  IF Found(In[f]) /\ Has(SeenAtts(f))
                  THEN IF Kind(ino[f]) = "file" THEN [SeenAtts(f) EXCEPT !.sha1 = h(f)]
                       ELSE SeenAtts(f)
                  ELSE None]]

\* When nothing changes while a tree is walked, the new tree is the tree on
\* the disk: only what cannot be looked at is missing, and the directories
\* whose last directory is missing.  The walk fails when directory 0 is
\* missing.  A file is without a hash just when an error was logged for it,
\* whatever changes.
QuietScan ==
    /\ quiet /\ WalkDone => (Top.err <=> Fails[0])
    /\ pc = "hash" /\ todo = {} =>
          /\ \A f \in Files : files[f].kind = "file" =>
                 (files[f].sha1 = NoHash <=> f \in logged)
          /\ quiet => NewTree = DiskTree(LAMBDA f : files[f].sha1)

\* Every difference is printed, once.
ReportsOnce ==
    pc = "report" =>
        /\ {report[i] : i \in 1..Len(report)} = Differences(old, NewTree)
        /\ \A i, j \in 1..Len(report) : report[i] = report[j] => i = j

\* When nothing changes meanwhile, check compares with what is on the disk,
\* contents that went bad included.  A file that it could not read is to it
\* one without a hash, so that one which could not be read in the scan either
\* is no difference, whatever is in it now.
QuietCheck ==
    pc = "report" /\ cmd = "check" /\ quiet =>
        {report[i] : i \in 1..Len(report)}
            = Differences(old, DiskTree(LAMBDA f : IF f \in logged THEN NoHash
                                                  ELSE Bytes(ino[f])))

\* "printing out everything that is different between them" (compare.go): no
\* output means that nothing is.
ReportsAll == pc = "report" /\ report = << >> => SameTree(old, NewTree)

\* When scan could read the last version, a new one has the hash that the last
\* one had for an inode with this ctime and size: contents that went bad after
\* they were hashed are not hashed again, so that check goes on to find them.
KeepsHash ==
    [][Len(store') > Len(store) /\ old # EmptyTree =>
           LET last == store[Len(store)].file
               new  == store'[Len(store')].file
           IN  \A f, g \in Files :
                  /\ Hashed(last[f]) /\ Hashed(new[g])
                  /\ last[f].ino = new[g].ino /\ SameAtts(last[f], new[g])
                  /\ \A e \in Files : Hashed(last[e]) /\ last[e].ino = last[f].ino => e = f
                  => new[g].sha1 = last[f].sha1]_vars

=============================================================================
