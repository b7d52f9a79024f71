--------------------------- MODULE ScanTree_proofs ---------------------------
(***************************************************************************)
(* Theorems about ScanTree: hashes belong to the attributes beside them,   *)
(* and are kept from version to version; without changes the new tree is   *)
(* the tree on the disk; and every difference is reported once.            *)
(***************************************************************************)
EXTENDS ScanTree, FileTree_proofs

-----------------------------------------------------------------------------
(***************************************************************************)
(* The inductive invariant.                                                *)
(***************************************************************************)

NodeType == [data : Data \cup Links, ctime : 0..MaxTime]

\* TypeOK without the stack of walkFs and what depends on it.
Types ==
    /\ mode \in [Dirs -> Modes \cup {"gone"}] /\ mode[0] # "gone"
    /\ ino \in [Files -> Inodes \cup {NoIno}]
    /\ node \in [Inodes -> NodeType]
    /\ rotten \subseteq Inodes /\ clock \in 0..MaxTime
    /\ todo \subseteq Files
    /\ handle \in [Files -> Inodes \cup {NoIno}]
    /\ first \in [Files -> Contents]
    /\ dirs \in [Dirs -> DirAttsType] /\ files \in [Files -> FileAttsType]
    /\ old.file \in [Files -> FileAttsType]
    /\ store \in Seq(TreeType)

\* No inode was changed in the future.
Clocked == \A i \in Inodes : node[i].ctime <= clock

\* No attributes are from the inode's future.
Aged(a) == a.kind = "file" => a.ctime <= node[a.ino].ctime

Sound(a) == Aged(a) /\ Faithful(a)

AllSound == /\ \A f \in Files : Sound(files[f]) /\ Sound(old.file[f])
            /\ \A k \in 1..Len(store) : \A f \in Files : Sound(store[k].file[f])

\* While a file waits to be hashed, its name leads to it.
Named == \A f \in Files :
            /\ pc \in {"walk", "hash"} /\ files[f].kind = "file"
            /\ Identified(files[f])
            => ino[f] = files[f].ino /\ Kind(ino[f]) = "file"

\* A file that a worker has open is the one it is to hash.
Opened == \A f \in Files : handle[f] # NoIno =>
            /\ pc = "hash" /\ f \in todo
            /\ Identified(files[f]) =>
                  /\ handle[f] = files[f].ino
                  /\ \/ first[f] = node[files[f].ino].data
                     \/ first[f] = Other /\ files[f].ino \in rotten

Phases == /\ pc \in {"walk", "hash"} => cmd # "none"
          /\ pc = "idle" => \A f \in Files : files[f] = None
          /\ todo # {} => pc = "hash"
          /\ \A f \in todo : files[f].kind = "file"

Inv == Types /\ Clocked /\ AllSound /\ Named /\ Opened /\ Phases

LEMMA StoredTypes ==
    ASSUME Types, NEW k \in 1..Len(store)
    PROVE  /\ store[k].file \in [Files -> FileAttsType]
           /\ store[k] \in TreeType
<1>1. store[k] \in TreeType
    BY ElementOfSeq DEF Types
<1> QED
    BY <1>1 DEF TreeType

-----------------------------------------------------------------------------
(***************************************************************************)
(* What the disk may do.                                                   *)
(***************************************************************************)

\* Attributes that still identify their inode did so before, and the inode is
\* as it was; its names too, while a command runs.
DiskKept ==
    \A a \in RegAttsType : Aged(a) =>
        /\ a.ctime <= node'[a.ino].ctime
        /\ node'[a.ino].ctime = a.ctime /\ <<a.ino, a.ctime>> \notin blurred' =>
              /\ Identified(a)
              /\ node'[a.ino] = node[a.ino]
              /\ a.ino \in rotten => a.ino \in rotten'
              /\ cmd # "none" => \A f \in Files : ino[f] = a.ino => ino'[f] = ino[f]

\* Changes that set the ctime of all inodes that they touch.
LEMMA TouchKeeps ==
    ASSUME Types, Clocked, NEW S \in SUBSET Inodes, Touched(S),
           \A i \in S : node'[i].ctime = clock,
           \A i \in Inodes \ S : node'[i] = node[i] /\ (i \in rotten => i \in rotten'),
           \A f \in Files : ino'[f] # ino[f] => ino[f] \in S \cup {NoIno}
    PROVE  DiskKept
<1> SUFFICES ASSUME NEW a \in RegAttsType, Aged(a)
             PROVE  /\ a.ctime <= node'[a.ino].ctime
                    /\ node'[a.ino].ctime = a.ctime
                       /\ <<a.ino, a.ctime>> \notin blurred' =>
                          /\ Identified(a)
                          /\ node'[a.ino] = node[a.ino]
                          /\ a.ino \in rotten => a.ino \in rotten'
                          /\ cmd # "none" =>
                                \A f \in Files : ino[f] = a.ino => ino'[f] = ino[f]
    BY DEF DiskKept
<1>1. /\ a.kind = "file" /\ a.ino \in Inodes /\ a.ctime \in Int
      /\ node[a.ino].ctime \in Int /\ clock \in Int
      /\ a.ctime <= node[a.ino].ctime /\ node[a.ino].ctime <= clock
    BY DEF RegAttsType, Types, NodeType, Aged, Clocked
<1>2. CASE a.ino \in S
  <2>1. node'[a.ino].ctime = clock
      BY <1>2
  <2>2. a.ctime = clock => <<a.ino, a.ctime>> \in blurred'
    <3> SUFFICES ASSUME a.ctime = clock PROVE <<a.ino, clock>> \in blurred'
        OBVIOUS
    <3>1. node[a.ino].ctime = clock
        BY <1>1
    <3> QED
        BY <3>1, <1>2 DEF Touched
  <2> QED
      BY <1>1, <2>1, <2>2
<1>3. CASE a.ino \notin S
  <2>1. node'[a.ino] = node[a.ino] /\ (a.ino \in rotten => a.ino \in rotten')
      BY <1>1, <1>3
  <2>2. blurred \subseteq blurred'
      BY DEF Touched
  <2>3. a.ino # NoIno
      BY <1>1, ScanAssumption
  <2>4. \A f \in Files : ino[f] = a.ino => ino'[f] = ino[f]
      BY <1>3, <2>3
  <2> QED
      BY <1>1, <2>1, <2>2, <2>4 DEF Identified
<1> QED
    BY <1>2, <1>3

LEMMA PutTypes ==
    ASSUME Types, NEW i \in Inodes, NEW x \in Data \cup Links, Put(i, x)
    PROVE  /\ node' \in [Inodes -> NodeType]
           /\ node'[i].ctime = clock
           /\ \A j \in Inodes \ {i} : node'[j] = node[j]
BY DEF Types, Put, NodeType

LEMMA StampTypes ==
    ASSUME Types, NEW S \in SUBSET Inodes, Stamp(S)
    PROVE  /\ node' \in [Inodes -> NodeType]
           /\ \A i \in S : node'[i].ctime = clock
           /\ \A i \in Inodes \ S : node'[i] = node[i]
<1>1. \A i \in Inodes : node[i] \in NodeType /\ [node[i] EXCEPT !.ctime = clock] \in NodeType
                        /\ [node[i] EXCEPT !.ctime = clock].ctime = clock
    BY DEF Types, NodeType
<1>2. \A i \in Inodes : node'[i] = IF i \in S THEN [node[i] EXCEPT !.ctime = clock]
                                   ELSE node[i]
    BY DEF Stamp
<1>3. node' \in [Inodes -> NodeType]
    BY <1>1 DEF Stamp
<1> QED
    BY <1>1, <1>2, <1>3

\* What a change does to the disk, and that gosure does nothing meanwhile.
Changed == /\ DiskKept
           /\ mode' \in [Dirs -> Modes \cup {"gone"}] /\ mode'[0] # "gone"
           /\ ino' \in [Files -> Inodes \cup {NoIno}]
           /\ node' \in [Inodes -> NodeType]
           /\ rotten' \subseteq Inodes /\ clock' \in 0..MaxTime
           /\ Clocked'
           /\ UNCHANGED gosure

LEMMA TouchChanges ==
    ASSUME Types, Clocked, NEW S \in SUBSET Inodes, Touched(S),
           node' \in [Inodes -> NodeType],
           ino' \in [Files -> Inodes \cup {NoIno}], rotten' \subseteq Inodes,
           \A i \in S : node'[i].ctime = clock,
           \A i \in Inodes \ S : node'[i] = node[i] /\ (i \in rotten => i \in rotten'),
           \A f \in Files : ino'[f] # ino[f] => ino[f] \in S \cup {NoIno},
           UNCHANGED <<mode, clock, gosure>>
    PROVE  Changed
<1>1. DiskKept
    BY TouchKeeps
<1>2. Clocked'
  <2> SUFFICES ASSUME NEW i \in Inodes PROVE node'[i].ctime <= clock
      BY DEF Clocked
  <2>1. node[i].ctime <= clock /\ clock \in Int
      BY DEF Clocked, Types
  <2> QED
      BY <2>1
<1> QED
    BY <1>1, <1>2 DEF Changed, Types

\* The changes that leave the inodes and their names alone.
LEMMA ModeChanges ==
    ASSUME Types, Clocked, UNCHANGED <<ino, node, blurred, gosure>>,
           rotten \subseteq rotten', rotten' \subseteq Inodes,
           clock <= clock', clock' \in 0..MaxTime,
           mode' \in [Dirs -> Modes \cup {"gone"}], mode'[0] # "gone"
    PROVE  Changed
<1>1. DiskKept
  <2> SUFFICES ASSUME NEW a \in RegAttsType, Aged(a)
               PROVE  /\ a.ctime <= node[a.ino].ctime
                      /\ node[a.ino].ctime = a.ctime
                         /\ <<a.ino, a.ctime>> \notin blurred => Identified(a)
      BY DEF DiskKept
  <2> QED
      BY DEF Aged, RegAttsType, Identified
<1>2. Clocked'
  <2> SUFFICES ASSUME NEW i \in Inodes PROVE node[i].ctime <= clock'
      BY DEF Clocked
  <2>1. node[i].ctime <= clock /\ clock \in Int /\ node[i].ctime \in Int
      BY DEF Clocked, Types, NodeType
  <2> QED
      BY <2>1
<1> QED
    BY <1>1, <1>2 DEF Changed, Types

\* Two places of a function change their values.
LEMMA Swapped ==
    ASSUME NEW D, NEW R, NEW m \in [D -> R], NEW x, NEW c \in D, NEW d \in D,
           m[c] # x, m[d] # x
    PROVE  LET s == [m EXCEPT ![c] = m[d], ![d] = m[c]]
           IN  s \in [D -> R] /\ \A e \in D : m[e] # x => s[e] # x
OBVIOUS

LEMMA MoveChanges ==
    ASSUME Types, Clocked, NEW f \in Files, NEW g \in Files, MoveDirs(f, g)
    PROVE  Changed
<1> DEFINE S == {ino[f], ino[g]} \ {NoIno}
<1>1. /\ ino' = [ino EXCEPT ![f] = ino[g], ![g] = ino[f]]
      /\ blurred' = IF cmd = "none" THEN blurred
                    ELSE blurred \cup {<<i, node[i].ctime>> : i \in S}
      /\ UNCHANGED <<node, rotten, clock, gosure>>
    BY DEF MoveDirs, Change
<1>5. mode' \in [Dirs -> Modes \cup {"gone"}] /\ mode'[0] # "gone"
  <2>1. /\ mode' = [mode EXCEPT ![In[f]] = mode[In[g]], ![In[g]] = mode[In[f]]]
        /\ mode[In[f]] # "gone" /\ mode[In[g]] # "gone"
      BY DEF MoveDirs
  <2>2. In[f] \in Dirs /\ In[g] \in Dirs /\ 0 \in Dirs
      BY TreeAssumption DEF Dirs
  <2>3. PICK m \in [Dirs -> Modes \cup {"gone"}] : m = mode
      BY DEF Types
  <2>4. /\ m[In[f]] # "gone" /\ m[In[g]] # "gone" /\ m[0] # "gone"
        /\ mode' = [m EXCEPT ![In[f]] = m[In[g]], ![In[g]] = m[In[f]]]
      BY <2>1, <2>3 DEF Types
  <2> QED
      BY <2>2, <2>4, Swapped
<1>2. DiskKept
  <2> SUFFICES ASSUME NEW a \in RegAttsType, Aged(a)
               PROVE  /\ a.ctime <= node[a.ino].ctime
                      /\ node[a.ino].ctime = a.ctime
                         /\ <<a.ino, a.ctime>> \notin blurred' =>
                            /\ Identified(a)
                            /\ cmd # "none" =>
                                  \A h \in Files : ino[h] = a.ino => ino'[h] = ino[h]
      BY <1>1 DEF DiskKept
  <2>1. a.ctime <= node[a.ino].ctime
      BY DEF Aged, RegAttsType
  <2>2. ASSUME node[a.ino].ctime = a.ctime, <<a.ino, a.ctime>> \notin blurred'
        PROVE  Identified(a)
      BY <1>1, <2>2 DEF Identified
  <2>3. ASSUME node[a.ino].ctime = a.ctime, <<a.ino, a.ctime>> \notin blurred',
               cmd # "none", NEW h \in Files, ino[h] = a.ino
        PROVE  ino'[h] = ino[h]
    <3>1. a.ino # NoIno
        BY ScanAssumption DEF RegAttsType
    <3>2. a.ino \notin S
        BY <1>1, <2>3
    <3> QED
        BY <1>1, <2>3, <3>1, <3>2 DEF Types
  <2> QED
      BY <2>1, <2>2, <2>3
<1>3. Clocked'
    BY <1>1 DEF Clocked
<1>4. ino' \in [Files -> Inodes \cup {NoIno}]
    BY <1>1 DEF Types
<1> QED
    BY <1>1, <1>2, <1>3, <1>4, <1>5 DEF Changed, Types

LEMMA UserChanges ==
    ASSUME Types, Clocked, User
    PROVE  Changed
<1> USE DEF Change
<1>1. ASSUME NEW f \in Files, NEW i \in Inodes, NEW x \in Data \cup Links, Create(f, i, x)
      PROVE  Changed
  <2>1. ino[f] = NoIno /\ ino' = [ino EXCEPT ![f] = i] /\ rotten' = rotten \ {i}
        /\ Put(i, x) /\ Touched({i}) /\ UNCHANGED <<mode, clock, gosure>>
      BY <1>1 DEF Create
  <2>2. /\ node' \in [Inodes -> NodeType] /\ node'[i].ctime = clock
        /\ \A j \in Inodes \ {i} : node'[j] = node[j]
      BY <2>1, PutTypes
  <2>3. /\ ino' \in [Files -> Inodes \cup {NoIno}]
        /\ \A h \in Files : ino'[h] # ino[h] => ino[h] = NoIno
      BY <2>1 DEF Types
  <2> QED
      BY <2>1, <2>2, <2>3, TouchChanges DEF Types
<1>2. ASSUME NEW i \in Inodes, NEW x \in Data, WriteFile(i, x)
      PROVE  Changed
  <2>1. rotten' = rotten \ {i} /\ Put(i, x) /\ Touched({i}) /\ UNCHANGED <<mode, ino, clock, gosure>>
      BY <1>2 DEF WriteFile
  <2>2. /\ node' \in [Inodes -> NodeType] /\ node'[i].ctime = clock
        /\ \A j \in Inodes \ {i} : node'[j] = node[j]
      BY <2>1, PutTypes
  <2> QED
      BY <2>1, <2>2, TouchChanges DEF Types
<1>3. ASSUME NEW f \in Files, NEW S \in SUBSET Inodes, Stamp(S), Touched(S),
             ino' \in [Files -> Inodes \cup {NoIno}],
             \A h \in Files : ino'[h] # ino[h] => ino[h] \in S \cup {NoIno},
             UNCHANGED <<mode, rotten, clock, gosure>>
      PROVE  Changed
  <2>1. /\ node' \in [Inodes -> NodeType]
        /\ \A i \in S : node'[i].ctime = clock
        /\ \A i \in Inodes \ S : node'[i] = node[i]
      BY <1>3, StampTypes
  <2> QED
      BY <1>3, <2>1, TouchChanges DEF Types
<1>4. ASSUME NEW f \in Files, Unlink(f)
      PROVE  Changed
  <2>1. ino[f] \in Inodes /\ ino' = [ino EXCEPT ![f] = NoIno] /\ Stamp({ino[f]})
        /\ Touched({ino[f]}) /\ UNCHANGED <<mode, rotten, clock, gosure>>
      BY <1>4 DEF Unlink, Types
  <2>2. /\ ino' \in [Files -> Inodes \cup {NoIno}]
        /\ \A h \in Files : ino'[h] # ino[h] => ino[h] \in {ino[f]} \cup {NoIno}
      BY <2>1 DEF Types
  <2> QED
      BY <2>1, <2>2, <1>3
<1>5. ASSUME NEW f \in Files, NEW g \in Files, Rename(f, g)
      PROVE  Changed
  <2> DEFINE S == {ino[f], ino[g]} \ {NoIno}
  <2>1. /\ ino[f] \in Inodes /\ S \in SUBSET Inodes
        /\ ino' = [ino EXCEPT ![f] = NoIno, ![g] = ino[f]]
        /\ Stamp(S) /\ Touched(S) /\ UNCHANGED <<mode, rotten, clock, gosure>>
      BY <1>5 DEF Rename, Types
  <2>2. /\ ino' \in [Files -> Inodes \cup {NoIno}]
        /\ \A h \in Files : ino'[h] # ino[h] => ino[h] \in S \cup {NoIno}
      BY <2>1 DEF Types
  <2> HIDE DEF S
  <2> QED
      BY <2>1, <2>2, <1>3
<1>6. ASSUME NEW f \in Files, NEW g \in Files, HardLink(f, g)
      PROVE  Changed
  <2>1. ino[f] \in Inodes /\ ino[g] = NoIno /\ ino' = [ino EXCEPT ![g] = ino[f]]
        /\ Stamp({ino[f]}) /\ Touched({ino[f]}) /\ UNCHANGED <<mode, rotten, clock, gosure>>
      BY <1>6 DEF HardLink, Types
  <2>2. /\ ino' \in [Files -> Inodes \cup {NoIno}]
        /\ \A h \in Files : ino'[h] # ino[h] => ino[h] \in {ino[f]} \cup {NoIno}
      BY <2>1 DEF Types
  <2> QED
      BY <2>1, <2>2, <1>3
<1>7. ASSUME UNCHANGED <<ino, node, rotten, clock, blurred, gosure>>,
             mode' \in [Dirs -> Modes \cup {"gone"}], mode'[0] # "gone"
      PROVE  Changed
    BY <1>7, ModeChanges DEF Types
<1>8. ASSUME NEW d \in Dirs, NEW m \in Modes, Chmod(d, m)
      PROVE  Changed
  <2>1. /\ mode' = [mode EXCEPT ![d] = m]
        /\ UNCHANGED <<ino, node, rotten, clock, blurred, gosure>>
      BY <1>8 DEF Chmod
  <2>2. mode' \in [Dirs -> Modes \cup {"gone"}] /\ mode'[0] # "gone"
      BY <2>1, ScanAssumption DEF Types
  <2> QED
      BY <1>7, <2>1, <2>2
<1>9. ASSUME NEW d \in Subdirs, MakeDir(d) \/ RemoveDir(d)
      PROVE  Changed
  <2>1. PICK m \in Modes \cup {"gone"} :
            /\ mode' = [mode EXCEPT ![d] = m]
            /\ UNCHANGED <<ino, node, rotten, clock, blurred, gosure>>
      BY <1>9, ScanAssumption DEF MakeDir, RemoveDir
  <2>2. mode' \in [Dirs -> Modes \cup {"gone"}] /\ mode'[0] # "gone"
      BY <2>1, TreeAssumption DEF Types, Subdirs, Dirs
  <2> QED
      BY <1>7, <2>1, <2>2
<1>10. ASSUME NEW i \in Inodes, Rot(i)
       PROVE  Changed
  <2>1. rotten' = rotten \cup {i} /\ UNCHANGED <<mode, ino, node, blurred, clock, gosure>>
      BY <1>10 DEF Rot
  <2> QED
      BY <2>1, ModeChanges DEF Types
<1>11. ASSUME Tick
       PROVE  Changed
  <2>1. clock < MaxTime /\ clock' = clock + 1 /\ UNCHANGED <<mode, ino, node, rotten, blurred, gosure>>
      BY <1>11 DEF Tick
  <2>2. clock <= clock' /\ clock' \in 0..MaxTime
      BY <2>1, ScanAssumption DEF Types
  <2> QED
      BY <2>1, <2>2, ModeChanges DEF Types
<1> QED
    BY <1>1, <1>2, <1>4, <1>5, <1>6, <1>8, <1>9, <1>10, <1>11, MoveChanges DEF User

\* The invariant lives through a change.
LEMMA ChangeKeeps ==
    ASSUME Inv, Changed
    PROVE  Inv'
<1> USE DEF Changed
<1>1. UNCHANGED <<cmd, pc, old, dirs, files, todo, handle, first, store>>
    BY DEF gosure, walk, hashing
<1>2. Types' /\ Phases' /\ Clocked'
    BY <1>1 DEF Inv, Types, Phases
<1>3. ASSUME NEW a \in FileAttsType, Sound(a)
      PROVE  Sound(a)'
  <2>1. CASE a.kind # "file"
      BY <2>1 DEF Sound, Aged, Faithful, Hashed
  <2>2. CASE a.kind = "file"
    <3>1. a \in RegAttsType
        BY <2>2 DEF FileAttsType, None
    <3> DEFINE b == node'[a.ino].ctime = a.ctime /\ <<a.ino, a.ctime>> \notin blurred'
    <3>2. /\ a.ctime <= node'[a.ino].ctime
          /\ b => /\ Identified(a)
                  /\ node'[a.ino] = node[a.ino]
                  /\ a.ino \in rotten => a.ino \in rotten'
        BY <1>3, <3>1 DEF DiskKept, Sound
    <3>3. Identified(a)' <=> b
        BY DEF Identified
    <3> HIDE DEF b
    <3> QED
        BY <1>3, <3>2, <3>3 DEF Sound, Aged, Faithful, Hashed
  <2> QED
      BY <2>1, <2>2
<1>4. AllSound'
  <2>1. ASSUME NEW f \in Files PROVE Sound(files[f])' /\ Sound(old.file[f])'
    <3>1. PICK a \in FileAttsType : a = files[f]
        BY DEF Inv, Types
    <3>2. PICK b \in FileAttsType : b = old.file[f]
        BY DEF Inv, Types
    <3>3. Sound(a)' /\ Sound(b)'
        BY <1>3, <3>1, <3>2 DEF Inv, AllSound
    <3>4. a = files'[f] /\ b = old'.file[f]
        BY <1>1, <3>1, <3>2
    <3> QED
        BY <3>3, <3>4
  <2>2. ASSUME NEW k \in 1..Len(store), NEW f \in Files PROVE Sound(store[k].file[f])'
    <3>1. PICK a \in FileAttsType : a = store[k].file[f]
        BY StoredTypes DEF Inv
    <3>2. Sound(a)'
        BY <1>3, <3>1 DEF Inv, AllSound
    <3>3. a = store'[k].file[f]
        BY <1>1, <3>1
    <3> QED
        BY <3>2, <3>3
  <2> QED
      BY <1>1, <2>1, <2>2 DEF AllSound
<1>5. ASSUME NEW f \in Files, files[f].kind = "file", Identified(files[f])'
      PROVE  /\ Identified(files[f])
             /\ node'[files[f].ino] = node[files[f].ino]
             /\ files[f].ino \in rotten => files[f].ino \in rotten'
             /\ cmd # "none" => \A g \in Files : ino[g] = files[f].ino => ino'[g] = ino[g]
  <2>1. PICK a \in RegAttsType : a = files[f]
      BY <1>5 DEF Inv, Types, FileAttsType, None
  <2>2. Aged(a)
      BY <2>1 DEF Inv, AllSound, Sound
  <2>3. node'[a.ino].ctime = a.ctime /\ <<a.ino, a.ctime>> \notin blurred'
      BY <1>1, <1>5, <2>1 DEF Identified
  <2> QED
      BY <2>1, <2>2, <2>3 DEF DiskKept
<1>6. Named'
  <2> SUFFICES ASSUME NEW f \in Files, pc \in {"walk", "hash"}, files[f].kind = "file",
                      Identified(files[f])'
               PROVE  ino'[f] = files[f].ino /\ Kind(ino[f])' = "file"
      BY <1>1 DEF Named
  <2>1. ino[f] = files[f].ino /\ Kind(ino[f]) = "file"
      BY <1>5 DEF Inv, Named
  <2>2. ino'[f] = files[f].ino /\ node'[ino'[f]] = node[ino[f]]
      BY <1>5, <2>1 DEF Inv, Phases
  <2> QED
      BY <2>1, <2>2 DEF Kind
<1>7. Opened'
  <2> SUFFICES ASSUME NEW f \in Files, handle[f] # NoIno
               PROVE  /\ pc = "hash" /\ f \in todo
                      /\ Identified(files[f])' =>
                            /\ handle[f] = files[f].ino
                            /\ \/ first[f] = node'[files[f].ino].data
                               \/ first[f] = Other /\ files[f].ino \in rotten'
      BY <1>1 DEF Opened
  <2>1. pc = "hash" /\ f \in todo /\ files[f].kind = "file"
      BY DEF Inv, Opened, Phases
  <2>2. Identified(files[f]) =>
            /\ handle[f] = files[f].ino
            /\ \/ first[f] = node[files[f].ino].data
               \/ first[f] = Other /\ files[f].ino \in rotten
      BY DEF Inv, Opened
  <2> QED
      BY <1>5, <2>1, <2>2
<1> QED
    BY <1>2, <1>4, <1>6, <1>7 DEF Inv

-----------------------------------------------------------------------------
(***************************************************************************)
(* What gosure does.                                                       *)
(***************************************************************************)

LEMMA NoneTypes ==
    /\ None \in FileAttsType /\ None.kind # "file"
    /\ EmptyTree.file \in [Files -> FileAttsType]
    /\ EmptyTree.dir \in [Dirs -> DirAttsType]
    /\ \A f \in Files : EmptyTree.file[f] = None
    /\ Sound(None)
BY DEF None, FileAttsType, DirAttsType, EmptyTree, Sound, Aged, Faithful, Hashed

\* Attributes that are read from the disk now.
LEMMA AttsTypes ==
    ASSUME Types, Clocked, NEW i \in Inodes \cup {NoIno}
    PROVE  /\ AttsOf(i) \in FileAttsType
           /\ Sound(AttsOf(i))
           /\ AttsOf(i).kind = "file" => AttsOf(i).ino = i /\ Kind(i) = "file"
                                         /\ AttsOf(i).sha1 = NoHash
<1>1. CASE i = NoIno
    BY <1>1, NoneTypes DEF AttsOf
<1>2. CASE i # NoIno /\ Kind(i) = "lnk"
  <2>1. AttsOf(i) = [kind |-> "lnk", targ |-> node[i].data]
      BY <1>2 DEF AttsOf, LinkAtts
  <2>2. node[i].data \in Links
      BY <1>2 DEF Kind
  <2> QED
      BY <2>1, <2>2 DEF FileAttsType, Sound, Aged, Faithful, Hashed
<1>3. CASE i # NoIno /\ Kind(i) # "lnk"
  <2>1. i \in Inodes /\ Kind(i) = "file" /\ node[i].data \in Data /\ node[i] \in NodeType
      BY <1>3 DEF Kind, Types, NodeType
  <2>2. AttsOf(i) = [kind |-> "file", ino |-> i, ctime |-> node[i].ctime,
                     size |-> Size[node[i].data], sha1 |-> NoHash]
      BY <1>3 DEF AttsOf, RegAtts
  <2>3. AttsOf(i) \in RegAttsType
      BY <2>1, <2>2, ScanAssumption DEF RegAttsType, NodeType, Hashes
  <2>4. node[i].ctime <= node[i].ctime
      BY <2>1 DEF NodeType
  <2> QED
      BY <2>1, <2>2, <2>3, <2>4 DEF FileAttsType, Sound, Aged, Faithful, Hashed
<1> QED
    BY <1>1, <1>2, <1>3

LEMMA BytesTypes ==
    ASSUME Types, NEW i \in Inodes
    PROVE  Bytes(i) \in Contents
BY DEF Types, NodeType, Bytes, Kind, Contents

\* The disk is as it was: what was sound is sound.
LEMMA SameDisk ==
    ASSUME UNCHANGED <<disk, blurred>>
    PROVE  /\ \A a : Sound(a)' <=> Sound(a)
           /\ \A a : Identified(a)' <=> Identified(a)
           /\ \A i : (Kind(i)' = Kind(i)) /\ (Bytes(i)' = Bytes(i))
           /\ Clocked' <=> Clocked
BY DEF disk, Sound, Aged, Faithful, Identified, Kind, Bytes, Clocked, Hashed

\* The attributes a may stand for file f in a new tree.
Good(a, f) ==
    /\ a \in FileAttsType
    /\ Sound(a)
    /\ a.kind = "file" /\ Identified(a) => ino[f] = a.ino /\ Kind(ino[f]) = "file"

\* What gosure does outside the workers.
LEMMA StepKeeps ==
    ASSUME Inv, UNCHANGED <<disk, blurred>>,
           dirs' \in [Dirs -> DirAttsType], files' \in [Files -> FileAttsType],
           old'.file \in [Files -> FileAttsType], store' \in Seq(TreeType),
           \A f \in Files : Sound(files'[f]) /\ Sound(old'.file[f]),
           pc' \in {"walk", "hash"} => \A f \in Files : Good(files'[f], f),
           \A k \in 1..Len(store') : \A f \in Files : Sound(store'[k].file[f]),
           UNCHANGED <<handle, first>>, \A f \in Files : handle[f] = NoIno,
           pc' \in {"walk", "hash"} => cmd' # "none",
           pc' = "idle" => \A f \in Files : files'[f] = None,
           todo' \subseteq {f \in Files : files'[f].kind = "file"},
           todo' # {} => pc' = "hash"
    PROVE  Inv'
<1>1. UNCHANGED <<mode, ino, node, rotten, clock>>
    BY DEF disk
<1>2. /\ \A a : Sound(a)' <=> Sound(a)
      /\ \A a : Identified(a)' <=> Identified(a)
      /\ \A i : Kind(i)' = Kind(i)
      /\ Clocked'
    BY SameDisk DEF Inv
<1>3. Types'
    BY <1>1 DEF Inv, Types
<1>4. AllSound'
  <2>1. ASSUME NEW f \in Files PROVE Sound(files[f])' /\ Sound(old.file[f])'
      BY <1>2
  <2>2. ASSUME NEW k \in 1..Len(store'), NEW f \in Files PROVE Sound(store[k].file[f])'
      BY <1>2
  <2> QED
      BY <2>1, <2>2 DEF AllSound
<1>5. Named'
  <2> SUFFICES ASSUME NEW f \in Files, pc' \in {"walk", "hash"}, files'[f].kind = "file",
                      Identified(files[f])'
               PROVE  ino'[f] = files'[f].ino /\ Kind(ino[f])' = "file"
      BY DEF Named
  <2>1. Identified(files'[f])
      BY <1>2
  <2>2. ino[f] = files'[f].ino /\ Kind(ino[f]) = "file"
      BY <2>1 DEF Good
  <2> QED
      BY <1>1, <1>2, <2>2
<1>6. Opened' /\ Phases'
    BY DEF Opened, Phases
<1> QED
    BY <1>2, <1>3, <1>4, <1>5, <1>6 DEF Inv

LEMMA Unopened ==
    ASSUME Inv, pc # "hash" \/ todo = {}
    PROVE  \A f \in Files : handle[f] = NoIno
BY DEF Inv, Opened

LEMMA BeginKeeps ==
    ASSUME Inv, NEW c \in {"scan", "check"}, NEW version,
           version.file \in [Files -> FileAttsType],
           \A f \in Files : Sound(version.file[f]),
           Begin(c, version)
    PROVE  Inv'
<1>1. /\ pc = "idle" /\ cmd' = c /\ old' = version /\ pc' = "walk"
      /\ dirs' = [EmptyTree.dir EXCEPT ![0] = DirAtts(mode[0])]
      /\ UNCHANGED <<disk, files, todo, handle, first, store, blurred>>
    BY DEF Begin, hashing
<1>2. dirs' \in [Dirs -> DirAttsType]
  <2>1. DirAtts(mode[0]) \in DirAttsType
      BY TreeAssumption DEF Inv, Types, Dirs, DirAtts, DirAttsType
  <2> QED
      BY <1>1, <2>1, NoneTypes
<1>3. \A f \in Files : files[f] = None /\ Good(files[f], f)
    BY <1>1, NoneTypes DEF Inv, Phases, Good
<1>4. todo = {} /\ \A f \in Files : handle[f] = NoIno
    BY <1>1, Unopened DEF Inv, Phases
<1>5. files \in [Files -> FileAttsType] /\ store \in Seq(TreeType)
    BY DEF Inv, Types
<1>6. \A k \in 1..Len(store) : \A f \in Files : Sound(store[k].file[f])
    BY DEF Inv, AllSound
<1> QED
    BY <1>1, <1>2, <1>3, <1>4, <1>5, <1>6, NoneTypes, StepKeeps

\* A step of the walk.
LEMMA WalkKeeps ==
    ASSUME Inv, pc = "walk", pc' \in {"walk", "hash"},
           UNCHANGED <<disk, blurred, cmd, old, handle, first, store>>,
           dirs' \in [Dirs -> DirAttsType],
           files' = [f \in Files |-> files'[f]],
           \A f \in Files : Good(files'[f], f),
           todo' \subseteq {f \in Files : files'[f].kind = "file"},
           todo' # {} => pc' = "hash"
    PROVE  Inv'
<1>1. files' \in [Files -> FileAttsType] /\ \A f \in Files : Sound(files'[f])
    BY DEF Good
<1>2. old'.file \in [Files -> FileAttsType] /\ store' \in Seq(TreeType)
    BY DEF Inv, Types
<1>3. /\ \A f \in Files : Sound(old'.file[f])
      /\ \A k \in 1..Len(store') : \A f \in Files : Sound(store'[k].file[f])
    BY DEF Inv, AllSound
<1>4. cmd' # "none" /\ \A f \in Files : handle[f] = NoIno
    BY Unopened DEF Inv, Phases
<1> QED
    BY <1>1, <1>2, <1>3, <1>4, StepKeeps

LEMMA NoneGood == \A f \in Files : Good(None, f)
BY NoneTypes DEF Good

LEMMA OldGood ==
    ASSUME Inv, pc = "walk", NEW f \in Files
    PROVE  Good(files[f], f)
BY DEF Inv, Types, AllSound, Named, Good

LEMMA WithoutGood ==
    ASSUME Inv, pc = "walk", NEW d
    PROVE  /\ DirsWithout(d) \in [Dirs -> DirAttsType]
           /\ \A f \in Files : Good(FilesWithout(d)[f], f)
<1>1. DirsWithout(d) \in [Dirs -> DirAttsType]
    BY DEF Inv, Types, DirsWithout, DirAttsType
<1>2. ASSUME NEW f \in Files PROVE Good(FilesWithout(d)[f], f)
    BY OldGood, NoneGood DEF FilesWithout
<1> QED
    BY <1>1, <1>2

LEMMA DescendKeeps ==
    ASSUME Inv, Descend
    PROVE  Inv'
<1> DEFINE d    == Head(Top.left)
           subs == SubdirsSeen(d)
<1>1. /\ pc = "walk" /\ pc' = "walk" /\ todo' = todo
      /\ UNCHANGED <<disk, blurred, cmd, old, handle, first, store>>
    BY DEF Descend, hashing
<1>2. todo' = {}
    BY <1>1 DEF Inv, Phases
<1>3. CASE /\ dirs' = [c \in Dirs |-> IF c \in subs THEN DirAtts(mode[c]) ELSE dirs[c]]
           /\ files' = [f \in Files |-> IF In[f] = d THEN SeenAtts(f) ELSE files[f]]
  <2>1. dirs' \in [Dirs -> DirAttsType]
    <3>1. ASSUME NEW c \in Dirs
          PROVE  dirs[c] \in DirAttsType /\ (c \in subs => DirAtts(mode[c]) \in DirAttsType)
        BY DEF Inv, Types, DirAttsType, DirAtts, SubdirsSeen
    <3> HIDE DEF subs
    <3> QED
        BY <1>3, <3>1
  <2>2. ASSUME NEW f \in Files PROVE Good(SeenAtts(f), f) /\ Good(files[f], f)
    <3>1. ino[f] \in Inodes \cup {NoIno}
        BY DEF Inv, Types
    <3>2. Good(AttsOf(ino[f]), f)
        BY <3>1, AttsTypes DEF Good, Inv
    <3> QED
        BY <1>1, <3>2, NoneGood, OldGood DEF SeenAtts
  <2>3. files' = [f \in Files |-> files'[f]]
      BY <1>3
  <2>4. \A f \in Files : Good(files'[f], f)
    <3> HIDE DEF d
    <3> QED
        BY <1>3, <2>2
  <2> QED
      BY <1>1, <1>2, <2>1, <2>3, <2>4, WalkKeeps
<1>4. CASE dirs' = DirsWithout(d) /\ files' = FilesWithout(d)
  <2>1. files' = [f \in Files |-> files'[f]]
      BY <1>4 DEF FilesWithout
  <2> HIDE DEF d
  <2>2. dirs' \in [Dirs -> DirAttsType] /\ \A f \in Files : Good(files'[f], f)
      BY <1>1, <1>4, WithoutGood
  <2> QED
      BY <1>1, <1>2, <2>1, <2>2, WalkKeeps
<1> QED
    BY <1>3, <1>4 DEF Descend

LEMMA ReturnKeeps ==
    ASSUME Inv, Return
    PROVE  Inv'
<1>1. /\ pc = "walk" /\ pc' = "walk" /\ todo' = todo
      /\ UNCHANGED <<disk, blurred, cmd, old, handle, first, store>>
    BY DEF Return, hashing
<1>2. todo' = {}
    BY <1>1 DEF Inv, Phases
<1>3. /\ files' = [f \in Files |-> files'[f]]
      /\ dirs' \in [Dirs -> DirAttsType] /\ \A f \in Files : Good(files'[f], f)
  <2>1. CASE dirs' = DirsWithout(Top.dir) /\ files' = FilesWithout(Top.dir)
    <3>1. files' = [f \in Files |-> files'[f]]
        BY <2>1 DEF FilesWithout
    <3> QED
        BY <1>1, <2>1, <3>1, WithoutGood
  <2>2. CASE UNCHANGED <<dirs, files>>
      BY <1>1, <2>2, OldGood DEF Inv, Types
  <2> QED
      BY <2>1, <2>2 DEF Return
<1> QED
    BY <1>1, <1>2, <1>3, WalkKeeps

\* A hash that is taken over belongs to the attributes that it is put beside.
LEMMA UpdatedGood ==
    ASSUME Inv, NEW f \in Files, NEW a, Good(a, f)
    PROVE  Good(Updated(a), f)
<1> DEFINE same == {g \in OldFiles(a.ino) : SameAtts(old.file[g], a)}
<1>1. CASE a.kind # "file" \/ same = {}
    BY <1>1 DEF Updated
<1>2. CASE a.kind = "file" /\ same # {}
  <2>1. PICK g \in same : g = CHOOSE h \in same : TRUE
      BY <1>2
  <2>2. PICK o : o = old.file[g]
      OBVIOUS
  <2>3. /\ g \in Files /\ Hashed(o) /\ o.ino = a.ino
        /\ o.ctime = a.ctime
      BY <2>1, <2>2 DEF OldFiles, SameAtts
  <2>4. Sound(o) /\ o.sha1 \in Hashes
    <3>1. o \in RegAttsType /\ Sound(o)
        BY <2>2, <2>3 DEF Inv, Types, AllSound, Hashed, FileAttsType, None
    <3> QED
        BY <3>1 DEF RegAttsType
  <2>5. a \in RegAttsType
      BY <1>2 DEF Good, FileAttsType, None
  <2>6. Updated(a) = [a EXCEPT !.sha1 = o.sha1]
      BY <1>2, <2>1, <2>2 DEF Updated
  <2> HIDE DEF same
  <2>7. PICK b : b = [a EXCEPT !.sha1 = o.sha1]
      OBVIOUS
  <2>8. /\ b \in RegAttsType /\ b.kind = "file" /\ b.ino = a.ino
        /\ b.ctime = a.ctime /\ b.sha1 = o.sha1
      BY <2>4, <2>5, <2>7 DEF RegAttsType
  <2>9. Sound(b)
      BY <2>3, <2>4, <2>8, <1>2 DEF Good, Sound, Aged, Faithful, Hashed, Identified
  <2>10. Identified(b) <=> Identified(a)
      BY <2>8 DEF Identified
  <2>11. Good(b, f)
      BY <2>8, <2>9, <2>10, <1>2 DEF Good, FileAttsType
  <2> QED
      BY <2>6, <2>7, <2>11
<1> QED
    BY <1>1, <1>2

LEMMA StartHashingKeeps ==
    ASSUME Inv, StartHashing
    PROVE  Inv'
<1>1. /\ pc = "walk" /\ pc' = "hash"
      /\ todo' = {f \in Files : files'[f].kind = "file" /\ files'[f].sha1 = NoHash}
      /\ UNCHANGED <<disk, blurred, cmd, old, dirs, handle, first, store>>
    BY DEF StartHashing, Migrate, WalkDone
<1>2. files' = IF cmd = "scan" THEN [f \in Files |-> Updated(files[f])] ELSE files
    BY DEF StartHashing, Migrate
<1>3. \A f \in Files : Good(files[f], f) /\ Good(Updated(files[f]), f)
    BY <1>1, OldGood, UpdatedGood
<1>4. files' = [f \in Files |-> files'[f]] /\ \A f \in Files : Good(files'[f], f)
    BY <1>2, <1>3 DEF Inv, Types
<1>5. dirs' \in [Dirs -> DirAttsType]
    BY <1>1 DEF Inv, Types
<1> QED
    BY <1>1, <1>4, <1>5, WalkKeeps

LEMMA EndKeeps ==
    ASSUME Inv, End, pc # "hash" \/ todo = {},
           \/ UNCHANGED store
           \/ pc = "hash" /\ store' = Append(store, NewTree)
    PROVE  Inv'
<1>1. /\ pc' = "idle" /\ old' = EmptyTree /\ todo' = {}
      /\ dirs' = EmptyTree.dir /\ files' = EmptyTree.file
      /\ UNCHANGED <<disk, handle, first, blurred>>
    BY DEF End
<1>2. \A f \in Files : handle[f] = NoIno
    BY Unopened
<1>3. store' \in Seq(TreeType)
  <2>1. NewTree \in TreeType
      BY DEF Inv, Types, NewTree, TreeType
  <2>2. store \in Seq(TreeType)
      BY DEF Inv, Types
  <2>3. Append(store, NewTree) \in Seq(TreeType)
      BY <2>1, <2>2, AppendProperties
  <2> QED
      BY <2>2, <2>3
<1>4. \A k \in 1..Len(store') : \A f \in Files : Sound(store'[k].file[f])
  <2>1. store \in Seq(TreeType)
      BY DEF Inv, Types
  <2>2. /\ \A k \in 1..Len(store) : \A f \in Files : Sound(store[k].file[f])
        /\ \A f \in Files : Sound(NewTree.file[f])
      BY DEF Inv, AllSound, NewTree
  <2>3. ASSUME store' = Append(store, NewTree), NEW k \in 1..Len(store')
        PROVE  \/ store'[k] = NewTree
               \/ k \in 1..Len(store) /\ store'[k] = store[k]
    <3>1. PICK t : t = NewTree
        OBVIOUS
    <3>2. store' = Append(store, t) /\ k \in 1..Len(store) + 1
        BY <2>1, <2>3, <3>1
    <3> QED
        BY <2>1, <3>1, <3>2
  <2> QED
      BY <2>2, <2>3
<1>5. \A f \in Files : files'[f] = None /\ Sound(files'[f]) /\ Sound(old'.file[f])
    BY <1>1, NoneTypes
<1> QED
    BY <1>1, <1>2, <1>3, <1>4, <1>5, NoneTypes, StepKeeps

LEMMA CompareKeeps ==
    ASSUME Inv, CompareWithDisk
    PROVE  Inv'
<1>1. /\ pc = "hash" /\ pc' = "report" /\ todo = {} /\ todo' = todo
      /\ UNCHANGED <<disk, blurred, cmd, old, dirs, files, handle, first, store>>
    BY DEF CompareWithDisk, walk, hashing
<1>2. \A f \in Files : handle[f] = NoIno
    BY <1>1, Unopened
<1>3. /\ dirs' \in [Dirs -> DirAttsType] /\ files' \in [Files -> FileAttsType]
      /\ old'.file \in [Files -> FileAttsType] /\ store' \in Seq(TreeType)
    BY <1>1 DEF Inv, Types
<1>4. /\ \A f \in Files : Sound(files'[f]) /\ Sound(old'.file[f])
      /\ \A k \in 1..Len(store') : \A f \in Files : Sound(store'[k].file[f])
    BY <1>1 DEF Inv, AllSound
<1> QED
    BY <1>1, <1>2, <1>3, <1>4, StepKeeps

LEMMA SignoffKeeps ==
    ASSUME Inv, Signoff
    PROVE  Inv'
<1> DEFINE l == Len(store)
<1>1. /\ pc = "idle" /\ pc' = "report" /\ todo' = todo /\ l > 1
      /\ old' = store[l - 1] /\ dirs' = store[l].dir /\ files' = store[l].file
      /\ UNCHANGED <<disk, blurred, handle, first, store>>
    BY DEF Signoff, hashing, GetDelta
<1>2. todo = {} /\ \A f \in Files : handle[f] = NoIno
    BY <1>1, Unopened DEF Inv, Phases
<1>3. store \in Seq(TreeType)
    BY DEF Inv, Types
<1>4. l \in 1..Len(store) /\ l - 1 \in 1..Len(store)
    BY <1>1, <1>3
<1> HIDE DEF l
<1>5. /\ store[l].file \in [Files -> FileAttsType] /\ store[l].dir \in [Dirs -> DirAttsType]
      /\ store[l - 1].file \in [Files -> FileAttsType]
    BY <1>4, StoredTypes DEF Inv, TreeType
<1>6. \A k \in 1..Len(store) : \A f \in Files : Sound(store[k].file[f])
    BY DEF Inv, AllSound
<1>7. /\ \A f \in Files : Sound(files'[f]) /\ Sound(old'.file[f])
      /\ \A k \in 1..Len(store') : \A f \in Files : Sound(store'[k].file[f])
    BY <1>1, <1>4, <1>6
<1> QED
    BY <1>1, <1>2, <1>3, <1>5, <1>7, StepKeeps

LEMMA ScanKeeps ==
    ASSUME Inv, Scan
    PROVE  Inv'
<1>1. store \in Seq(TreeType)
    BY DEF Inv, Types
<1>2. CASE Begin("scan", EmptyTree)
    BY <1>2, NoneTypes, BeginKeeps
<1>3. CASE store # << >> /\ Begin("scan", store[Len(store)])
  <2>1. Len(store) \in 1..Len(store)
      BY <1>1, <1>3
  <2>2. /\ store[Len(store)].file \in [Files -> FileAttsType]
        /\ \A f \in Files : Sound(store[Len(store)].file[f])
      BY <2>1, StoredTypes DEF Inv, AllSound
  <2> QED
      BY <1>3, <2>2, BeginKeeps
<1> QED
    BY <1>2, <1>3 DEF Scan, GetDelta

LEMMA CheckKeeps ==
    ASSUME Inv, Check
    PROVE  Inv'
<1>1. store \in Seq(TreeType)
    BY DEF Inv, Types
<1>2. PICK n \in Deltas : GetDelta(n) > 0 /\ Begin("check", store[GetDelta(n)])
    BY DEF Check
<1>3. n \in Int
    BY <1>2, ScanAssumption DEF Deltas
<1>4. GetDelta(n) \in 1..Len(store)
  <2>1. CASE n = -1
      BY <1>1, <1>2, <2>1 DEF GetDelta
  <2>2. CASE n = -2
      BY <1>1, <1>2, <2>2 DEF GetDelta
  <2>3. CASE n # -1 /\ n # -2
    <3>1. GetDelta(n) = IF n > Len(store) THEN Len(store) ELSE n
        BY <2>3 DEF GetDelta
    <3> QED
        BY <1>1, <1>2, <1>3, <3>1
  <2> QED
      BY <2>1, <2>2, <2>3
<1>5. PICK k \in 1..Len(store) : k = GetDelta(n)
    BY <1>4
<1>6. /\ store[k].file \in [Files -> FileAttsType]
      /\ \A f \in Files : Sound(store[k].file[f])
    BY StoredTypes DEF Inv, AllSound
<1> QED
    BY <1>2, <1>5, <1>6, BeginKeeps

\* The attributes of the files that the workers do not touch stay sound.
LEMMA HashKeeps ==
    ASSUME Inv, NEW f \in todo, pc = "hash",
           UNCHANGED <<mode, ino, node, rotten, clock, blurred,
                       cmd, pc, old, dirs, store>>,
           todo' \in {todo, todo \ {f}},
           files' \in [Files -> FileAttsType],
           handle' \in [Files -> Inodes \cup {NoIno}], first' \in [Files -> Contents],
           Sound(files'[f]), files'[f].kind = "file",
           files'[f].ino = files[f].ino, files'[f].ctime = files[f].ctime,
           \A g \in Files \ {f} : /\ files'[g] = files[g] /\ handle'[g] = handle[g]
                                  /\ first'[g] = first[g],
           \/ handle'[f] = NoIno
           \/ /\ todo' = todo /\ files' = files
              /\ Identified(files[f]) => /\ handle'[f] = files[f].ino
                                         /\ \/ first'[f] = node[files[f].ino].data
                                            \/ first'[f] = Other /\ files[f].ino \in rotten
    PROVE  Inv'
<1>1. f \in Files /\ \A g \in todo : g \in Files /\ files[g].kind = "file"
    BY DEF Inv, Types, Phases
<1>2. /\ \A a : Sound(a)' <=> Sound(a)
      /\ \A a : Identified(a)' <=> Identified(a)
      /\ \A i : Kind(i)' = Kind(i)
    BY DEF Sound, Aged, Faithful, Identified, Kind, Hashed
<1>3. Types' /\ Clocked'
    BY DEF Inv, Types, Clocked
<1>4. AllSound'
  <2>1. ASSUME NEW g \in Files PROVE Sound(files[g])' /\ Sound(old.file[g])'
    <3>1. Sound(files'[g]) /\ Sound(old'.file[g])
        BY DEF Inv, AllSound
    <3> QED
        BY <1>2, <3>1
  <2>2. ASSUME NEW k \in 1..Len(store'), NEW g \in Files PROVE Sound(store[k].file[g])'
    <3>1. Sound(store'[k].file[g])
        BY DEF Inv, AllSound
    <3> QED
        BY <1>2, <3>1
  <2> QED
      BY <2>1, <2>2 DEF AllSound
<1>5. ASSUME NEW g \in Files
      PROVE  /\ files'[g].kind = files[g].kind
             /\ files[g].kind = "file" => files'[g].ino = files[g].ino
             /\ files[g].kind = "file" => (Identified(files[g])' <=> Identified(files[g]))
    BY <1>1, <1>2 DEF Identified
<1>6. Named'
  <2> SUFFICES ASSUME NEW g \in Files, files'[g].kind = "file", Identified(files[g])'
               PROVE  ino'[g] = files'[g].ino /\ Kind(ino[g])' = "file"
      BY DEF Named
  <2>1. ino[g] = files[g].ino /\ Kind(ino[g]) = "file"
      BY <1>5 DEF Inv, Named
  <2> QED
      BY <1>2, <1>5, <2>1
<1>7. Opened'
  <2> SUFFICES ASSUME NEW g \in Files, handle'[g] # NoIno
               PROVE  /\ g \in todo'
                      /\ Identified(files[g])' =>
                            /\ handle'[g] = files'[g].ino
                            /\ \/ first'[g] = node[files'[g].ino].data
                               \/ first'[g] = Other /\ files'[g].ino \in rotten
      BY DEF Opened
  <2>1. CASE g = f
      BY <1>1, <1>5, <2>1
  <2>2. CASE g # f
    <3>1. /\ handle[g] # NoIno /\ first'[g] = first[g] /\ handle'[g] = handle[g]
          /\ files'[g] = files[g]
        BY <2>2
    <3>2. /\ g \in todo
          /\ Identified(files[g]) =>
                /\ handle[g] = files[g].ino
                /\ \/ first[g] = node[files[g].ino].data
                   \/ first[g] = Other /\ files[g].ino \in rotten
        BY <3>1 DEF Inv, Opened
    <3>3. Identified(files[g])' => Identified(files[g])
        BY <1>1, <1>5, <3>2
    <3> QED
        BY <2>2, <3>1, <3>2, <3>3
  <2> QED
      BY <2>1, <2>2
<1>8. Phases'
    BY <1>1, <1>5 DEF Inv, Phases
<1> QED
    BY <1>3, <1>4, <1>6, <1>7, <1>8 DEF Inv

LEMMA HashErrorKeeps ==
    ASSUME Inv, NEW f \in todo, pc = "hash", HashError(f),
           UNCHANGED <<mode, ino, node, rotten, clock, blurred,
                       cmd, pc, old, dirs, store>>
    PROVE  Inv'
<1>1. f \in Files /\ files[f].kind = "file" /\ Sound(files[f])
    BY DEF Inv, Types, Phases, AllSound
<1>2. /\ todo' = todo \ {f} /\ files' = files
      /\ handle' = [handle EXCEPT ![f] = NoIno] /\ first' = [first EXCEPT ![f] = Other]
    BY DEF HashError
<1>3. /\ files' \in [Files -> FileAttsType]
      /\ handle' \in [Files -> Inodes \cup {NoIno}] /\ first' \in [Files -> Contents]
      /\ handle'[f] = NoIno
      /\ \A g \in Files \ {f} : handle'[g] = handle[g] /\ first'[g] = first[g]
    BY <1>1, <1>2 DEF Inv, Types, Contents
<1> QED
    BY <1>1, <1>2, <1>3, HashKeeps

LEMMA OpenKeeps ==
    ASSUME Inv, NEW f \in Files, OpenFile(f)
    PROVE  Inv'
<1>1. /\ pc = "hash" /\ f \in todo
      /\ UNCHANGED <<mode, ino, node, rotten, clock, blurred, cmd, pc, old, dirs, store>>
    BY DEF OpenFile, disk, walk
<1>2. /\ ino[f] # NoIno
      /\ handle' = [handle EXCEPT ![f] = ino[f]]
      /\ first' = [first EXCEPT ![f] = Bytes(ino[f])]
      /\ UNCHANGED <<files, todo>>
    BY DEF OpenFile, CanOpen
<1>3. ino[f] \in Inodes /\ Bytes(ino[f]) \in Contents
    BY <1>2, BytesTypes DEF Inv, Types
<1>4. /\ files' \in [Files -> FileAttsType] /\ Sound(files'[f]) /\ files'[f].kind = "file"
    BY <1>1, <1>2 DEF Inv, Types, AllSound, Phases
<1>5. /\ handle' \in [Files -> Inodes \cup {NoIno}] /\ first' \in [Files -> Contents]
      /\ handle'[f] = ino[f] /\ first'[f] = Bytes(ino[f])
      /\ \A g \in Files \ {f} : handle'[g] = handle[g] /\ first'[g] = first[g]
    BY <1>2, <1>3 DEF Inv, Types
<1>6. Identified(files[f]) => /\ ino[f] = files[f].ino
                              /\ \/ Bytes(ino[f]) = node[files[f].ino].data
                                 \/ Bytes(ino[f]) = Other /\ files[f].ino \in rotten
  <2>1. Identified(files[f]) => ino[f] = files[f].ino /\ Kind(ino[f]) = "file"
      BY <1>1, <1>2, <1>4 DEF Inv, Named
  <2> QED
      BY <2>1 DEF Bytes
<1> QED
    BY <1>1, <1>2, <1>4, <1>5, <1>6, HashKeeps

\* The bytes a worker reads from a file that still has the attributes it was
\* listed with are those of the file.
LEMMA ReadKeeps ==
    ASSUME Inv, NEW f \in Files, ReadFile(f)
    PROVE  Inv'
<1>1. /\ pc = "hash" /\ f \in todo /\ handle[f] # NoIno
      /\ todo' = todo \ {f}
      /\ handle' = [handle EXCEPT ![f] = NoIno] /\ first' = [first EXCEPT ![f] = Other]
      /\ UNCHANGED <<mode, ino, node, rotten, clock, blurred, cmd, pc, old, dirs, store>>
    BY DEF ReadFile, disk, walk
<1>2. PICK x \in IF first[f] = Bytes(handle[f]) THEN {first[f]}
                 ELSE {first[f], Bytes(handle[f]), Other} :
          files' = [files EXCEPT ![f].sha1 = x]
    BY DEF ReadFile
<1>3. PICK a \in RegAttsType : a = files[f] /\ Sound(a)
    BY <1>1 DEF Inv, Types, AllSound, Phases, FileAttsType, None
<1>4. x \in Hashes
  <2>1. handle[f] \in Inodes /\ first[f] \in Contents
      BY <1>1 DEF Inv, Types
  <2> QED
      BY <1>2, <2>1, BytesTypes DEF Inv, Hashes, Contents
<1>5. PICK b : b = [a EXCEPT !.sha1 = x]
    OBVIOUS
<1>6. /\ b \in RegAttsType /\ b.kind = "file" /\ b.ino = a.ino /\ b.ctime = a.ctime
      /\ b.sha1 = x
    BY <1>4, <1>5 DEF RegAttsType
<1>7. files' = [files EXCEPT ![f] = b]
    BY <1>2, <1>3, <1>5 DEF Inv, Types
<1>8. Sound(b)
  <2>1. Aged(b)
      BY <1>3, <1>6 DEF Sound, Aged, RegAttsType
  <2>2. ASSUME Identified(b)
        PROVE  x = node[b.ino].data \/ (x = Other /\ b.ino \in rotten)
    <3>1. Identified(files[f])
        BY <1>3, <1>6, <2>2 DEF Identified
    <3>2. /\ handle[f] = b.ino
          /\ \/ first[f] = node[b.ino].data
             \/ first[f] = Other /\ b.ino \in rotten
        BY <1>1, <1>3, <1>6, <3>1 DEF Inv, Opened
    <3>3. Kind(b.ino) = "file"
        BY <1>1, <1>3, <1>6, <3>1 DEF Inv, Named, RegAttsType
    <3>4. Bytes(b.ino) = IF b.ino \in rotten THEN Other ELSE node[b.ino].data
        BY <3>3 DEF Bytes
    <3> QED
        BY <1>2, <3>2, <3>4
  <2> QED
      BY <1>6, <2>1, <2>2 DEF Sound, Faithful
<1>9. /\ files' \in [Files -> FileAttsType] /\ files'[f] = b
      /\ \A g \in Files \ {f} : files'[g] = files[g]
    BY <1>6, <1>7 DEF Inv, Types, FileAttsType
<1>10. /\ handle' \in [Files -> Inodes \cup {NoIno}] /\ first' \in [Files -> Contents]
       /\ handle'[f] = NoIno
       /\ \A g \in Files \ {f} : handle'[g] = handle[g] /\ first'[g] = first[g]
    BY <1>1 DEF Inv, Types, Contents
<1> QED
    BY <1>1, <1>3, <1>6, <1>8, <1>9, <1>10, HashKeeps

-----------------------------------------------------------------------------
(***************************************************************************)
(* The theorems.                                                           *)
(***************************************************************************)

LEMMA InitInv ==
    ASSUME Init
    PROVE  Inv
<1> USE DEF Init
<1>1. Types
  <2>1. node \in [Inodes -> NodeType]
      BY ScanAssumption DEF NodeType
  <2>2. 0 \in Dirs /\ mode[0] # "gone" /\ mode \in [Dirs -> Modes \cup {"gone"}]
      BY TreeAssumption, ScanAssumption DEF Dirs
  <2>3. /\ rotten \subseteq Inodes /\ clock \in 0..MaxTime /\ todo \subseteq Files
        /\ ino \in [Files -> Inodes \cup {NoIno}]
        /\ handle \in [Files -> Inodes \cup {NoIno}] /\ first \in [Files -> Contents]
        /\ store \in Seq(TreeType)
      BY ScanAssumption DEF Contents
  <2> QED
      BY <2>1, <2>2, <2>3, NoneTypes DEF Types
<1>2. Clocked
    BY DEF Clocked
<1>3. AllSound /\ Named /\ Opened /\ Phases
    BY NoneTypes DEF AllSound, Named, Opened, Phases
<1> QED
    BY <1>1, <1>2, <1>3 DEF Inv

LEMMA NextInv ==
    ASSUME Inv, [Next]_vars
    PROVE  Inv'
<1>1. CASE User
    BY <1>1, UserChanges, ChangeKeeps DEF Inv
<1>2. ASSUME NEW f \in Files, HashFails(f) PROVE Inv'
  <2>1. /\ pc = "hash" /\ f \in todo /\ HashError(f)
        /\ UNCHANGED <<mode, ino, node, rotten, clock, blurred,
                       cmd, pc, old, dirs, store>>
      BY <1>2 DEF HashFails, disk, walk
  <2> QED
      BY <2>1, HashErrorKeeps
<1>3. CASE WalkFails
    BY <1>3, EndKeeps DEF WalkFails, WalkDone
<1>4. CASE WriteVersion
  <2>1. pc = "hash" /\ todo = {} /\ End /\ store' \in {store, Append(store, NewTree)}
      BY <1>4 DEF WriteVersion
  <2> QED
      BY <2>1, EndKeeps
<1>5. CASE Reported
    BY <1>5, EndKeeps DEF Reported
<1>6. CASE UNCHANGED vars
  <2>1. UNCHANGED <<mode, ino, node, rotten, clock, cmd, pc, old, dirs, files,
                    todo, handle, first, store, blurred>>
      BY <1>6 DEF vars, disk, gosure, walk, hashing
  <2> QED
      BY ZenonT(40), <2>1 DEF Inv, Types, Clocked, AllSound, Sound, Aged, Faithful, Hashed,
                  Identified, Named, Kind, Opened, Phases
<1> QED
    BY <1>1, <1>2, <1>3, <1>4, <1>5, <1>6, DescendKeeps, ReturnKeeps, StartHashingKeeps,
       OpenKeeps, ReadKeeps, CompareKeeps, SignoffKeeps, ScanKeeps, CheckKeeps
       DEF Next, Walk, Hash, Finish

LEMMA Invariance == Spec => []Inv
<1>1. Init => Inv
    BY InitInv
<1>2. Inv /\ [Next]_vars => Inv'
    BY NextInv
<1> QED
    BY <1>1, <1>2, PTL DEF Spec

\* Whatever happens to the tree while it is walked and hashed, and between
\* scans: in every version a hash belongs to the attributes beside it.
THEOREM HashesAreTrue == Spec => []HashesTrue
<1>1. Inv => HashesTrue
    BY DEF Inv, AllSound, Sound, HashesTrue
<1> QED
    BY <1>1, Invariance, PTL

\* g in the new tree is to have the hash of f in the old one, which is the only
\* file there with this inode.
Takes(f, g) ==
    /\ Hashed(old.file[f]) /\ files[g].kind = "file"
    /\ old.file[f].ino = files[g].ino /\ SameAtts(old.file[f], files[g])
    /\ \A e \in Files : Hashed(old.file[e]) /\ old.file[e].ino = old.file[f].ino => e = f

\* A scan that has an old tree has the last version, and the hashes that it
\* takes over are in place before the workers start.
Kept ==
    cmd = "scan" =>
        /\ pc \in {"walk", "hash"} /\ old # EmptyTree => old = store[Len(store)]
        /\ pc = "hash" => \A f, g \in Files :
              Takes(f, g) => files[g].sha1 = old.file[f].sha1 /\ g \notin todo

LEMMA InitKept == Init => Kept
BY DEF Init, Kept

\* Steps of the workers change the hashes of files that wait for one.
LEMMA WorkerKept ==
    ASSUME Inv, Kept, pc = "hash", UNCHANGED <<cmd, pc, old, store>>,
           todo' \subseteq todo,
           \/ UNCHANGED files
           \/ \E h \in todo : \E x \in {first[h], Bytes(handle[h]), Other} :
                 files' = [files EXCEPT ![h].sha1 = x]
    PROVE  Kept'
<1> SUFFICES ASSUME cmd = "scan", NEW f \in Files, NEW g \in Files, Takes(f, g)'
             PROVE  files'[g].sha1 = old.file[f].sha1 /\ g \notin todo'
    BY DEF Kept
<1>1. CASE UNCHANGED files
  <2>1. Takes(f, g)
      BY <1>1 DEF Takes, Hashed, SameAtts
  <2> QED
      BY <1>1, <2>1 DEF Kept
<1>2. ASSUME NEW h \in todo, NEW x, files' = [files EXCEPT ![h].sha1 = x]
      PROVE  files'[g].sha1 = old.file[f].sha1 /\ g \notin todo'
  <2>1. PICK a \in RegAttsType : a = files[h]
      BY DEF Inv, Types, Phases, FileAttsType, None
  <2>2. PICK b : b = [a EXCEPT !.sha1 = x]
      OBVIOUS
  <2>3. b.kind = a.kind /\ b.ino = a.ino /\ b.ctime = a.ctime /\ b.size = a.size
      BY <2>2 DEF RegAttsType
  <2>4. files' = [files EXCEPT ![h] = b]
      BY <1>2, <2>1, <2>2 DEF Inv, Types
  <2>5. h \in Files
      BY DEF Inv, Types
  <2>6. /\ files'[g] = IF g = h THEN b ELSE files[g]
        /\ files'[g].kind = files[g].kind /\ files'[g].ino = files[g].ino
        /\ files'[g].ctime = files[g].ctime /\ files'[g].size = files[g].size
      BY <2>1, <2>3, <2>4, <2>5 DEF Inv, Types
  <2>7. Takes(f, g)
      BY <2>6 DEF Takes, Hashed, SameAtts
  <2>8. files[g].sha1 = old.file[f].sha1 /\ g \notin todo
      BY <2>7 DEF Kept
  <2> QED
      BY <2>6, <2>8
<1> QED
    BY <1>1, <1>2

LEMMA StartHashingKept ==
    ASSUME Inv, Kept, StartHashing
    PROVE  Kept'
<1>1. /\ pc = "walk" /\ pc' = "hash" /\ UNCHANGED <<cmd, old, store>>
      /\ todo' = {f \in Files : files'[f].kind = "file" /\ files'[f].sha1 = NoHash}
      /\ files' = IF cmd = "scan" THEN [f \in Files |-> Updated(files[f])] ELSE files
    BY DEF StartHashing, Migrate, WalkDone
<1>2. ASSUME cmd = "scan", NEW f \in Files, NEW g \in Files, Takes(f, g)'
      PROVE  files'[g].sha1 = old.file[f].sha1 /\ g \notin todo'
  <2>1. PICK o \in RegAttsType : o = old.file[f] /\ Hashed(o)
      BY <1>1, <1>2 DEF Takes, Inv, Types, Hashed, FileAttsType, None
  <2>2. PICK b : b = Updated(files[g])
      OBVIOUS
  <2>3. /\ files'[g] = b /\ b.kind = "file" /\ o.ino = b.ino /\ SameAtts(o, b)
        /\ \A e \in Files : Hashed(old.file[e]) /\ old.file[e].ino = o.ino => e = f
      BY <1>1, <1>2, <2>1, <2>2 DEF Takes, Hashed, SameAtts
  <2>4. /\ files[g] \in FileAttsType
        /\ \/ b = files[g]
           \/ \E x : b = [files[g] EXCEPT !.sha1 = x] /\ files[g].kind = "file"
      BY <2>2 DEF Updated, Inv, Types
  <2>5. PICK a \in RegAttsType : a = files[g]
      BY <2>3, <2>4 DEF FileAttsType, None
  <2>6. a.ino = b.ino /\ a.ctime = b.ctime /\ a.size = b.size /\ a.kind = "file"
      BY <2>4, <2>5 DEF RegAttsType
  <2>7. OldFiles(a.ino) = {f} /\ SameAtts(old.file[f], a)
      BY <2>1, <2>3, <2>6 DEF OldFiles, SameAtts
  <2>8. b = [a EXCEPT !.sha1 = o.sha1]
    <3>1. {h \in OldFiles(a.ino) : SameAtts(old.file[h], a)} = {f}
        BY <2>7
    <3>2. (CHOOSE h \in {f} : TRUE) = f
        OBVIOUS
    <3> QED
        BY <2>1, <2>2, <2>5, <2>6, <3>1, <3>2 DEF Updated
  <2>9. b.sha1 = o.sha1 /\ o.sha1 # NoHash
      BY <2>1, <2>8 DEF RegAttsType, Hashed
  <2> QED
      BY <1>1, <2>1, <2>3, <2>9
<1> QED
    BY <1>1, <1>2 DEF Kept

LEMMA NextKept ==
    ASSUME Inv, Kept, [Next]_vars
    PROVE  Kept'
<1>1. ASSUME UNCHANGED <<cmd, pc, old, files, todo, store>>
      PROVE  Kept'
    BY <1>1 DEF Kept, Takes, Hashed, SameAtts
<1>2. ASSUME pc' \in {"idle", "report"} \/ cmd' # "scan" \/
             (pc = "walk" /\ pc' = "walk" /\ UNCHANGED <<cmd, old, store>>)
      PROVE  Kept'
    BY <1>2 DEF Kept
<1>3. CASE User \/ UNCHANGED vars
  <2>1. UNCHANGED gosure
      BY <1>3 DEF User, Create, WriteFile, Unlink, Rename, HardLink, Chmod, MakeDir,
                  RemoveDir, MoveDirs, Rot, Tick, Change, vars
  <2> QED
      BY <1>1, <2>1 DEF gosure, walk, hashing
<1>4. CASE Hash
  <2>1. /\ pc = "hash" /\ UNCHANGED <<cmd, pc, old, store>> /\ todo' \subseteq todo
        /\ \/ UNCHANGED files
           \/ \E h \in todo : \E x \in {first[h], Bytes(handle[h]), Other} :
                 files' = [files EXCEPT ![h].sha1 = x]
      BY <1>4 DEF Hash, OpenFile, ReadFile, HashFails, HashError
  <2> QED
      BY <2>1, WorkerKept
<1>5. CASE Scan
  <2>1. /\ cmd' = "scan" /\ pc' = "walk" /\ store' = store
        /\ old' # EmptyTree => old' = store[Len(store)]
    <3>1. PICK v : Begin("scan", v) /\ (v # EmptyTree => v = store[Len(store)])
      <4>1. GetDelta(-1) = Len(store)
          BY DEF GetDelta
      <4> QED
          BY Zenon, <1>5, <4>1 DEF Scan
    <3> QED
        BY <3>1 DEF Begin
  <2> QED
      BY <2>1 DEF Kept
<1>6. CASE Check \/ Signoff \/ Descend \/ Return \/ WalkFails \/ Finish
    BY <1>2, <1>6 DEF Check, Begin, Signoff, Descend, Return, WalkFails, Finish,
                      WriteVersion, CompareWithDisk, Reported, End
<1> QED
    BY <1>3, <1>4, <1>5, <1>6, StartHashingKept DEF Next, Walk

\* Only WriteVersion makes a version, and of the tree that is there.
LEMMA Versions ==
    ASSUME Inv, [Next]_vars, Len(store') > Len(store)
    PROVE  pc = "hash" /\ cmd = "scan" /\ store' = Append(store, NewTree)
<1>1. CASE WriteVersion
  <2>1. store \in Seq(TreeType)
      BY DEF Inv, Types
  <2>2. store' # store
      BY <2>1
  <2> QED
      BY <1>1, <2>2 DEF WriteVersion
<1>2. CASE ~ WriteVersion
  <2>1. store' = store
      BY <1>2 DEF Next, User, Create, WriteFile, Unlink, Rename, HardLink, Chmod, MakeDir,
                  RemoveDir, MoveDirs, Rot, Tick, Change, vars, gosure,
                  OpenFile, ReadFile, HashFails, Scan, Begin, Check, Signoff,
                  Walk, Hash, Finish, Descend, Return, WalkFails, StartHashing,
                  CompareWithDisk, Reported
  <2>2. store \in Seq(TreeType)
      BY DEF Inv, Types
  <2> QED
      BY <2>1, <2>2
<1> QED
    BY <1>1, <1>2

\* A scan that could read the last version keeps the hash of a file with the
\* inode, ctime and size that it had, also when its contents have gone bad
\* since.
THEOREM HashesAreKept == Spec => KeepsHash
<1> DEFINE last == store[Len(store)].file
           new  == store'[Len(store')].file
           Keeps(f, g) ==
              /\ Hashed(last[f]) /\ Hashed(new[g])
              /\ last[f].ino = new[g].ino /\ SameAtts(last[f], new[g])
              /\ \A e \in Files : Hashed(last[e]) /\ last[e].ino = last[f].ino => e = f
              => new[g].sha1 = last[f].sha1
<1>1. ASSUME Inv, Kept, [Next]_vars, Len(store') > Len(store), old # EmptyTree
      PROVE  \A f, g \in Files : Keeps(f, g)
  <2> SUFFICES ASSUME NEW f \in Files, NEW g \in Files PROVE Keeps(f, g)
      OBVIOUS
  <2>1. /\ pc = "hash" /\ cmd = "scan" /\ store' = Append(store, NewTree)
      BY <1>1, Versions
  <2>2. store \in Seq(TreeType)
      BY <1>1 DEF Inv, Types
  <2>3. store'[Len(store')] = NewTree
    <3>1. PICK t : t = NewTree
        OBVIOUS
    <3> QED
        BY <2>1, <2>2, <3>1
  <2>4. new = files
      BY <2>3 DEF NewTree
  <2>5. last = old.file
      BY <1>1, <2>1 DEF Kept
  <2> HIDE DEF last, new
  <2> QED
      BY <1>1, <2>1, <2>4, <2>5 DEF Kept, Takes, Hashed
<1>2. Inv /\ Kept /\ [Next]_vars =>
        [Len(store') > Len(store) /\ old # EmptyTree => \A f, g \in Files : Keeps(f, g)]_vars
    BY <1>1
<1>3. Spec => []Kept
  <2>1. Inv /\ Kept /\ [Next]_vars => Kept'
      BY NextKept
  <2> QED
      BY <2>1, InitKept, Invariance, PTL DEF Spec
<1> QED
    BY <1>2, <1>3, Invariance, PTL DEF Spec, KeepsHash

-----------------------------------------------------------------------------
(***************************************************************************)
(* Which calls of walkFs fail.                                             *)
(***************************************************************************)

Fail(f, d) ==
    \/ ~ Listable(d)
    \/ \E c \in SubdirsSeen(d) : f[c] /\ \A b \in SubdirsSeen(d) : b <= c

FailsFrom(f, n) == f = [d \in n..LastDir |-> Fail(f, d)]

LEMMA FailsExists == \A n \in Nat : n <= LastDir => \E f : FailsFrom(f, LastDir - n)
<1> DEFINE S == {n \in Nat : n <= LastDir => \E f : FailsFrom(f, LastDir - n)}
<1>1. LastDir \in Nat /\ \A d \in Dirs : \A c \in SubdirsOf(d) : c > d /\ c <= LastDir
    BY TreeAssumption DEF Dirs, Subdirs, SubdirsOf
<1>2. 0 \in S
  <2> DEFINE f == [d \in LastDir..LastDir |-> ~ Listable(d)]
  <2>1. SubdirsOf(LastDir) = {}
    <3>1. ASSUME NEW c \in SubdirsOf(LastDir) PROVE FALSE
      <4>1. LastDir \in Dirs
          BY <1>1 DEF Dirs
      <4>2. c > LastDir /\ c <= LastDir /\ c \in Int
          BY <1>1, <4>1 DEF SubdirsOf, Subdirs
      <4> QED
          BY <4>2, <1>1
    <3> QED
        BY <3>1
  <2>2. ASSUME NEW d \in LastDir..LastDir PROVE Fail(f, d) = ~ Listable(d)
    <3>1. d = LastDir
        BY <1>1
    <3> HIDE DEF f
    <3>2. SubdirsSeen(d) = {}
        BY <2>1, <3>1 DEF SubdirsSeen
    <3> QED
        BY Zenon, <3>2 DEF Fail
  <2>3. FailsFrom(f, LastDir)
    <3>1. [d \in LastDir..LastDir |-> Fail(f, d)] = [d \in LastDir..LastDir |-> ~ Listable(d)]
        BY Zenon, <2>2
    <3> QED
        BY Zenon, <3>1 DEF FailsFrom
  <2>4. LastDir - 0 = LastDir
      BY <1>1
  <2> HIDE DEF f
  <2> QED
      BY <2>3, <2>4
<1>3. ASSUME NEW n \in Nat, n \in S PROVE n + 1 \in S
  <2> SUFFICES ASSUME n + 1 <= LastDir PROVE \E f : FailsFrom(f, LastDir - (n + 1))
      OBVIOUS
  <2>1. PICK g : FailsFrom(g, LastDir - n)
      BY <1>1, <1>3
  <2> DEFINE k == LastDir - (n + 1)
             f == [d \in k..LastDir |-> IF d = k THEN Fail(g, d) ELSE g[d]]
  <2>2. k \in Dirs /\ k + 1 = LastDir - n
      BY <1>1 DEF Dirs
  <2>3. \A d \in k..LastDir : SubdirsOf(d) \subseteq k + 1..LastDir
    <3> SUFFICES ASSUME NEW d \in k..LastDir, NEW c \in SubdirsOf(d)
                 PROVE  c \in k + 1..LastDir
        OBVIOUS
    <3>1. d \in Dirs /\ d >= k
        BY <2>2, <1>1 DEF Dirs
    <3>2. c > d /\ c <= LastDir /\ c \in Int
        BY <3>1, <1>1 DEF SubdirsOf, Subdirs
    <3> QED
        BY <3>1, <3>2, <2>2, <1>1 DEF Dirs
  <2> HIDE DEF k
  <2>4. \A c \in k + 1..LastDir : f[c] = g[c]
      BY <2>2, <1>1 DEF Dirs
  <2>5. ASSUME NEW d \in k..LastDir PROVE Fail(f, d) = Fail(g, d)
    <3>1. \A c \in SubdirsSeen(d) : f[c] = g[c]
        BY <2>3, <2>4 DEF SubdirsSeen
    <3> HIDE DEF f
    <3> QED
        BY Zenon, <3>1 DEF Fail
  <2>6. ASSUME NEW d \in k..LastDir PROVE f[d] = Fail(f, d)
    <3>1. CASE d = k
        BY Zenon, <3>1, <2>5
    <3>2. CASE d # k
      <4>1. d \in k + 1..LastDir
          BY <3>2, <2>2, <1>1 DEF Dirs
      <4>2. d \in LastDir - n..LastDir
          BY <4>1, <2>2
      <4>3. g[d] = Fail(g, d)
          BY Zenon, <2>1, <4>2 DEF FailsFrom
      <4>4. f[d] = g[d]
          BY <2>4, <4>1
      <4> HIDE DEF f
      <4> QED
          BY Zenon, <2>5, <4>3, <4>4
    <3> QED
        BY <3>1, <3>2
  <2>7. FailsFrom(f, k)
    <3>1. f = [d \in k..LastDir |-> f[d]]
        BY Zenon
    <3>2. [d \in k..LastDir |-> f[d]] = [d \in k..LastDir |-> Fail(f, d)]
      <4> HIDE DEF f
      <4> QED
          BY Zenon, <2>6
    <3> HIDE DEF f
    <3> QED
        BY Zenon, <3>1, <3>2 DEF FailsFrom
  <2> HIDE DEF f
  <2> QED
      BY <2>7 DEF k
<1> HIDE DEF S
<1>4. Nat \subseteq S
    BY <1>2, <1>3, SetInduction
<1> QED
    BY <1>4 DEF S

LEMMA FailsStep ==
    ASSUME NEW d \in Dirs
    PROVE  Fails[d] = Fail(Fails, d)
<1>1. Fails = CHOOSE f : FailsFrom(f, 0)
    BY Zenon DEF Fails, FailsFrom, Fail, Dirs
<1>2. \E f : FailsFrom(f, 0)
  <2>1. LastDir \in Nat /\ LastDir <= LastDir /\ LastDir - LastDir = 0
      BY TreeAssumption
  <2> QED
      BY <2>1, FailsExists
<1>3. FailsFrom(Fails, 0)
    BY Zenon, <1>1, <1>2
<1> QED
    BY Zenon, <1>3 DEF FailsFrom, Dirs

-----------------------------------------------------------------------------
(***************************************************************************)
(* The walk of a tree that does not change.  Where walkFs is, the pair of  *)
(* the directory x and of its subdirectory m that was looked at last (m is *)
(* x when none was), says which directories it has listed and not looked   *)
(* at, and with that what the new tree is.                                 *)
(***************************************************************************)

Above(d) == IF d = 0 THEN Caller ELSE Parent[d]

Entries(x) == IF x = Caller THEN {0} ELSE SubdirsSeen(x)

After(x, m) == {c \in Entries(x) : c > m}

OnWay(x) == IF x = Caller THEN {} ELSE Way[x]

Waiting(x, m) == After(x, m) \cup UNION {After(Above(b), b) : b \in OnWay(x)}

\* With W listed and not looked at, and P being walked: walkFs is in c, or
\* has done c and not lost it.
Clear(c, W, P) == /\ Way[c] \cap W = {}
                  /\ \A b \in Way[c] \ P : ~ Fails[b]
                  /\ \A b \in Way[c] \ {c} : mode[b] \in MayPass

Record(ds, fs, W, P) ==
    /\ \A c \in Dirs : ds[c] = IF c \in W \/ (Clear(c, W, P) /\ mode[c] # "gone")
                               THEN DirAtts(mode[c]) ELSE None
    /\ \A f \in Files : fs[f] = IF Clear(In[f], W, P) THEN SeenAtts(f) ELSE None

LEMMA DirNumbers == /\ Caller \in Int /\ Caller \notin Dirs /\ 0 \in Dirs
                    /\ \A d \in Dirs : d \in Int /\ Caller < d
BY TreeAssumption DEF Dirs, Caller

LEMMA EntriesAbove ==
    ASSUME NEW x \in Dirs \cup {Caller}, NEW c \in Entries(x)
    PROVE  c \in Dirs /\ Above(c) = x /\ x < c
<1>1. CASE x = Caller
    BY <1>1, DirNumbers DEF Entries, Above
<1>2. CASE x \in Dirs
    BY <1>2, DirNumbers, TreeAssumption DEF Entries, SubdirsSeen, Above, SubdirsOf, Dirs, Subdirs
<1> QED
    BY <1>1, <1>2

\* The directories that are being walked, from one to the next.
LEMMA OnWayStep ==
    ASSUME NEW d \in Dirs
    PROVE  /\ Above(d) \in Dirs \cup {Caller}
           /\ OnWay(d) = {d} \cup OnWay(Above(d))
           /\ d \notin OnWay(Above(d)) /\ Above(d) < d
<1>1. CASE d = 0
    BY <1>1, WayStep, DirNumbers DEF OnWay, Above
<1>2. CASE d # 0
  <2>1. Parent[d] \in Dirs /\ Parent[d] < d
      BY <1>2, ParentBelow
  <2>2. d \notin Way[Parent[d]]
      BY <2>1, WayFacts, DirNumbers
  <2> QED
      BY <1>2, <2>1, <2>2, WayStep, DirNumbers DEF OnWay, Above
<1> QED
    BY <1>1, <1>2

LEMMA OnWayFacts ==
    ASSUME NEW x \in Dirs \cup {Caller}, NEW b \in OnWay(x)
    PROVE  /\ b \in Dirs /\ b <= x
           /\ Way[b] \subseteq OnWay(x)
           /\ Above(b) \in OnWay(x) \cup {Caller}
<1>1. b \in Dirs /\ b <= x /\ Way[b] \subseteq OnWay(x)
    BY WayFacts DEF OnWay
<1>2. CASE b = 0
    BY <1>1, <1>2 DEF Above
<1>3. CASE b # 0
  <2>1. Parent[b] \in Dirs /\ Parent[b] \in Way[b]
      BY <1>1, <1>3, ParentBelow, WayStep, WayFacts
  <2> QED
      BY <1>1, <1>3, <2>1 DEF Above
<1> QED
    BY <1>1, <1>2, <1>3

\* What waits is in a directory that is being walked, and is not walked.
LEMMA WaitingFacts ==
    ASSUME NEW x \in Dirs \cup {Caller}, NEW m \in Int, x <= m, NEW w \in Waiting(x, m)
    PROVE  /\ w \in Dirs
           /\ Above(w) \in OnWay(x) \cup {Caller}
           /\ w \notin OnWay(x)
<1>1. CASE w \in After(x, m)
  <2>1. w \in Entries(x) /\ w > m
      BY <1>1 DEF After
  <2>2. w \in Dirs /\ Above(w) = x
      BY <2>1, EntriesAbove
  <2>3. x \in OnWay(x) \cup {Caller}
      BY WayFacts DEF OnWay
  <2>4. ~ (w <= x)
      BY <2>1, <2>2, DirNumbers
  <2> QED
      BY <2>2, <2>3, <2>4, OnWayFacts
<1>2. CASE w \notin After(x, m)
  <2>1. PICK b \in OnWay(x) : w \in After(Above(b), b)
      BY <1>2 DEF Waiting
  <2>2. b \in Dirs /\ Above(b) \in OnWay(x) \cup {Caller}
      BY <2>1, OnWayFacts
  <2>3. Above(b) \in Dirs \cup {Caller} /\ w \in Entries(Above(b)) /\ w > b
      BY <2>1, <2>2, OnWayStep DEF After
  <2>4. w \in Dirs /\ Above(w) = Above(b)
      BY <2>3, EntriesAbove
  <2>5. ASSUME w \in OnWay(x) PROVE FALSE
    <3>1. x \in Dirs /\ w \in Way[x] /\ b \in Way[x]
        BY <2>1, <2>5 DEF OnWay
    <3>2. b \in Way[w] /\ b # w
        BY <2>2, <2>3, <2>4, <3>1, WayFacts, DirNumbers
    <3>3. b \in OnWay(w) /\ OnWay(w) = {w} \cup OnWay(Above(w))
        BY <2>4, <3>2, OnWayStep, DirNumbers DEF OnWay
    <3>4. b \in OnWay(Above(b))
        BY <2>4, <3>2, <3>3
    <3> QED
        BY <2>2, <3>4, OnWayStep
  <2> QED
      BY <2>2, <2>4, <2>5
<1> QED
    BY <1>1, <1>2

\* Of a directory that is not walked and those below it, only it may wait.
LEMMA WaitingBelow ==
    ASSUME NEW x \in Dirs \cup {Caller}, NEW m \in Int, x <= m, NEW w \in Waiting(x, m),
           NEW y \in Dirs, y \in Way[w], y \notin OnWay(x)
    PROVE  w = y
<1>1. w \in Dirs /\ Above(w) \in OnWay(x) \cup {Caller}
    BY WaitingFacts
<1>2. SUFFICES ASSUME w # y PROVE FALSE
    OBVIOUS
<1>3. y \in OnWay(Above(w))
  <2>1. y \in OnWay(w)
      BY <1>1, DirNumbers DEF OnWay
  <2> QED
      BY <1>1, <1>2, <2>1, OnWayStep
<1>4. Above(w) \in OnWay(x)
    BY <1>1, <1>3 DEF OnWay
<1>5. Way[Above(w)] \subseteq OnWay(x)
    BY <1>4, OnWayFacts
<1> QED
    BY <1>3, <1>5 DEF OnWay

\* When all of x was looked at, nothing below it waits.
LEMMA NoneWaits ==
    ASSUME NEW x \in Dirs, NEW m \in Int, x <= m, After(x, m) = {},
           NEW w \in Waiting(x, m)
    PROVE  x \notin Way[w]
<1> SUFFICES ASSUME x \in Way[w] PROVE FALSE
    OBVIOUS
<1>1. PICK b \in OnWay(x) : w \in After(Above(b), b)
    BY DEF Waiting
<1>2. w \in Dirs /\ w \notin OnWay(x)
    BY WaitingFacts
<1>3. b \in Dirs /\ b <= x /\ Above(b) \in Dirs \cup {Caller} /\ Above(b) < b
    BY <1>1, OnWayFacts, OnWayStep
<1>4. Above(w) = Above(b)
    BY <1>1, <1>3, EntriesAbove DEF After
<1>5. w # x /\ x \in OnWay(w)
    BY <1>2, WayFacts, DirNumbers DEF OnWay
<1>6. x \in OnWay(Above(b))
    BY <1>2, <1>4, <1>5, OnWayStep
<1>7. x <= Above(b)
    BY <1>3, <1>6, OnWayFacts
<1> QED
    BY <1>3, <1>7, DirNumbers

\* What happens at d and below it is not seen outside.
LEMMA Outside ==
    ASSUME NEW d \in Dirs, NEW W, NEW P, NEW W2, NEW P2,
           \A b \in Dirs : d \notin Way[b] => /\ b \in W <=> b \in W2
                                              /\ b \in P <=> b \in P2,
           NEW c \in Dirs, d \notin Way[c]
    PROVE  /\ Clear(c, W, P) <=> Clear(c, W2, P2)
           /\ c \in W <=> c \in W2
<1>1. \A b \in Way[c] : b \in Dirs /\ d \notin Way[b]
    BY WayFacts
<1>2. \A b \in Way[c] : (b \in W <=> b \in W2) /\ (b \in P <=> b \in P2)
    BY <1>1
<1> QED
    BY <1>2 DEF Clear

LEMMA EntriesAfter ==
    ASSUME NEW x \in Dirs \cup {Caller}
    PROVE  After(x, x) = Entries(x)
BY EntriesAbove, DirNumbers DEF After

\* What is at d or below it and clear, or waits, decides.
LEMMA RecordStep ==
    ASSUME NEW ds, NEW fs, NEW W, NEW P, Record(ds, fs, W, P),
           NEW ds2, NEW fs2, NEW W2, NEW P2, NEW d \in Dirs,
           \A b \in Dirs : d \notin Way[b] => /\ b \in W <=> b \in W2
                                              /\ b \in P <=> b \in P2,
           \A c \in Dirs : ds2[c] =
              IF d \notin Way[c] THEN ds[c]
              ELSE IF c \in W2 \/ (Clear(c, W2, P2) /\ mode[c] # "gone")
                   THEN DirAtts(mode[c]) ELSE None,
           \A f \in Files : fs2[f] =
              IF d \notin Way[In[f]] THEN fs[f]
              ELSE IF Clear(In[f], W2, P2) THEN SeenAtts(f) ELSE None
    PROVE  Record(ds2, fs2, W2, P2)
<1>1. ASSUME NEW c \in Dirs, d \notin Way[c]
      PROVE  (Clear(c, W, P) <=> Clear(c, W2, P2)) /\ (c \in W <=> c \in W2)
    BY <1>1, Outside
<1>2. \A f \in Files : In[f] \in Dirs
    BY TreeAssumption
<1> QED
    BY <1>1, <1>2 DEF Record

\* walkFs calls itself for d.
LEMMA DescendRecords ==
    ASSUME NEW x \in Dirs \cup {Caller}, NEW m \in Int, x <= m,
           NEW d \in After(x, m), \A c \in After(x, m) : d <= c, Listable(d),
           NEW ds, NEW fs, Record(ds, fs, Waiting(x, m), OnWay(x)),
           NEW ds2, \A c \in Dirs : ds2[c] = IF c \in Entries(d) THEN DirAtts(mode[c]) ELSE ds[c],
           NEW fs2, \A f \in Files : fs2[f] = IF In[f] = d THEN SeenAtts(f) ELSE fs[f]
    PROVE  Record(ds2, fs2, Waiting(d, d), OnWay(d))
<1> DEFINE W  == Waiting(x, m)
           W2 == Waiting(d, d)
           P  == OnWay(x)
           P2 == OnWay(d)
<1>1. d \in Dirs /\ Above(d) = x /\ d \in Waiting(x, m) /\ m < d
    BY EntriesAbove DEF After, Waiting
<1>2. P2 = {d} \cup P /\ d \notin P
    BY <1>1, OnWayStep
<1>3. W2 = Entries(d) \cup (W \ {d})
  <2>1. After(d, d) = Entries(d)
      BY <1>1, EntriesAfter
  <2>2. After(x, d) = After(x, m) \ {d}
    <3>1. \A c \in Entries(x) : c \in Int
        BY EntriesAbove, DirNumbers
    <3> QED
        BY <1>1, <3>1 DEF After
  <2>3. UNION {After(Above(b), b) : b \in P2}
            = After(x, d) \cup UNION {After(Above(b), b) : b \in P}
      BY <1>1, <1>2
  <2>4. d \notin UNION {After(Above(b), b) : b \in P}
    <3> SUFFICES ASSUME NEW b \in P, d \in After(Above(b), b) PROVE FALSE
        OBVIOUS
    <3>1. b \in Dirs /\ Above(b) \in Dirs \cup {Caller} /\ Above(b) < b /\ b <= x
        BY OnWayFacts, OnWayStep
    <3>2. Above(d) = Above(b)
        BY <3>1, EntriesAbove DEF After
    <3> QED
        BY <1>1, <3>1, <3>2, DirNumbers
  <2> QED
      BY <2>1, <2>2, <2>3, <2>4 DEF Waiting
<1>4. \A w \in W : w \in Dirs /\ w \notin P /\ (d \in Way[w] => w = d)
    BY <1>1, <1>2, WaitingFacts, WaitingBelow
<1>5. \A e \in SubdirsOf(d) : e \in Dirs /\ e > d /\ d \in Way[e] /\ e \notin P2
  <2> SUFFICES ASSUME NEW e \in SubdirsOf(d)
               PROVE  e \in Dirs /\ e > d /\ d \in Way[e] /\ e \notin P2
      OBVIOUS
  <2>1. e \in Dirs /\ e # 0 /\ Parent[e] = d
      BY DEF SubdirsOf, Subdirs, Dirs
  <2>2. e > d /\ d \in Way[e]
      BY <2>1, ParentBelow, WayStep, WayFacts
  <2>3. ~ (e <= d)
      BY <1>1, <2>1, <2>2, DirNumbers
  <2> QED
      BY <1>1, <2>1, <2>2, <2>3, OnWayFacts
<1>6. Entries(d) = {e \in SubdirsOf(d) : mode[e] # "gone" /\ mode[d] \in MayPass}
    BY <1>1, DirNumbers DEF Entries, SubdirsSeen
<1> HIDE DEF W, W2, P, P2
<1>7. ASSUME NEW b \in Dirs, d \notin Way[b]
      PROVE  (b \in W <=> b \in W2) /\ (b \in P <=> b \in P2)
  <2>1. b # d /\ b \notin Entries(d)
      BY <1>1, <1>5, <1>6, <1>7, WayFacts
  <2> QED
      BY <1>2, <1>3, <2>1
<1>8. ASSUME NEW c \in Dirs, d \in Way[c]
      PROVE  /\ c \in W <=> c = d
             /\ ~ Clear(c, W, P)
             /\ c \in W2 <=> c \in Entries(d)
             /\ Clear(c, W2, P2) <=> c = d
  <2>1. d \in W
      BY <1>1 DEF W
  <2>2. c \in W <=> c = d
      BY <1>4, <1>8, <2>1
  <2>3. ~ Clear(c, W, P)
      BY <1>8, <2>1 DEF Clear
  <2>4. c \in W2 <=> c \in Entries(d)
      BY <1>3, <1>4, <1>8
  <2>5. Clear(d, W2, P2)
    <3>1. Way[d] = P2
        BY <1>1, DirNumbers DEF P2, OnWay
    <3>2. ASSUME NEW w \in Way[d], w \in W2 PROVE FALSE
      <4>1. CASE w \in Entries(d)
          BY <1>5, <1>6, <3>1, <3>2, <4>1
      <4>2. CASE w \in W \ {d}
          BY <1>2, <1>4, <3>1, <3>2, <4>2
      <4> QED
          BY <1>3, <3>2, <4>1, <4>2
    <3>3. \A b \in Way[d] \ {d} : mode[b] \in MayPass
        BY DEF Listable
    <3> QED
        BY <3>1, <3>2, <3>3 DEF Clear
  <2>6. ASSUME c # d, Clear(c, W2, P2) PROVE FALSE
    <3>1. PICK e \in SubdirsOf(d) : e \in Way[c]
        BY <1>1, <1>8, <2>6, BelowSome
    <3>2. mode[d] \in MayPass
        BY <1>8, <2>6 DEF Clear
    <3>3. CASE mode[e] # "gone"
        BY <1>3, <1>6, <2>6, <3>1, <3>2, <3>3 DEF Clear
    <3>4. CASE mode[e] = "gone"
      <4>1. e \in Dirs /\ e \notin P2
          BY <1>5, <3>1
      <4>2. ~ Listable(e)
          BY <3>4, ScanAssumption DEF Listable
      <4>3. Fails[e]
          BY <4>1, <4>2, FailsStep DEF Fail
      <4> QED
          BY <2>6, <3>1, <4>1, <4>3 DEF Clear
    <3> QED
        BY <3>3, <3>4
  <2> QED
      BY <2>2, <2>3, <2>4, <2>5, <2>6
<1>9. d \notin Entries(d) /\ mode[d] # "gone"
    BY <1>1, <1>5, <1>6, ScanAssumption, DirNumbers DEF Listable
<1>10. Record(ds, fs, W, P)
    BY DEF W, P
<1>11. ASSUME NEW c \in Dirs
       PROVE  ds2[c] = IF d \notin Way[c] THEN ds[c]
                       ELSE IF c \in W2 \/ (Clear(c, W2, P2) /\ mode[c] # "gone")
                            THEN DirAtts(mode[c]) ELSE None
  <2>1. CASE d \notin Way[c]
      BY <1>5, <1>6, <2>1
  <2>2. CASE d \in Way[c]
    <3>1. ds[c] = IF c = d THEN DirAtts(mode[c]) ELSE None
        BY <1>8, <1>10, <2>2 DEF Record
    <3> QED
        BY <1>8, <1>9, <2>2, <3>1
  <2> QED
      BY <2>1, <2>2
<1>12. ASSUME NEW f \in Files
       PROVE  fs2[f] = IF d \notin Way[In[f]] THEN fs[f]
                       ELSE IF Clear(In[f], W2, P2) THEN SeenAtts(f) ELSE None
  <2>1. In[f] \in Dirs
      BY TreeAssumption
  <2>2. CASE d \notin Way[In[f]]
      BY <1>1, <2>2, WayFacts
  <2>3. CASE d \in Way[In[f]]
    <3>1. fs[f] = None
        BY <1>8, <1>10, <2>1, <2>3 DEF Record
    <3> QED
        BY <1>8, <2>1, <2>3, <3>1
  <2> QED
      BY <2>2, <2>3
<1>13. Record(ds2, fs2, W2, P2)
    BY <1>1, <1>7, <1>10, <1>11, <1>12, RecordStep
<1> QED
    BY <1>13 DEF W2, P2

\* walkFs looks at d, whose names cannot be read.
LEMMA FailRecords ==
    ASSUME NEW x \in Dirs \cup {Caller}, NEW m \in Int, x <= m,
           NEW d \in After(x, m), \A c \in After(x, m) : d <= c, ~ Listable(d),
           NEW ds, NEW fs, Record(ds, fs, Waiting(x, m), OnWay(x)),
           NEW ds2, \A c \in Dirs : ds2[c] = IF d \in Way[c] THEN None ELSE ds[c],
           NEW fs2, \A f \in Files : fs2[f] = IF d \in Way[In[f]] THEN None ELSE fs[f]
    PROVE  Record(ds2, fs2, Waiting(x, d), OnWay(x))
<1> DEFINE W  == Waiting(x, m)
           W2 == Waiting(x, d)
           P  == OnWay(x)
<1>1. d \in Dirs /\ Above(d) = x /\ d \in Waiting(x, m) /\ m < d
    BY EntriesAbove DEF After, Waiting
<1>2. d \notin P
    BY <1>1, OnWayStep
<1>3. W2 = W \ {d}
  <2>1. After(x, d) = After(x, m) \ {d}
    <3>1. \A c \in Entries(x) : c \in Int
        BY EntriesAbove, DirNumbers
    <3> QED
        BY <1>1, <3>1 DEF After
  <2>2. d \notin UNION {After(Above(b), b) : b \in P}
    <3> SUFFICES ASSUME NEW b \in P, d \in After(Above(b), b) PROVE FALSE
        OBVIOUS
    <3>1. b \in Dirs /\ Above(b) \in Dirs \cup {Caller} /\ Above(b) < b /\ b <= x
        BY OnWayFacts, OnWayStep
    <3>2. Above(d) = Above(b)
        BY <3>1, EntriesAbove DEF After
    <3> QED
        BY <1>1, <3>1, <3>2, DirNumbers
  <2> QED
      BY <2>1, <2>2 DEF Waiting
<1>4. Fails[d]
    BY <1>1, FailsStep DEF Fail
<1>5. \A w \in W : d \in Way[w] => w = d
    BY <1>1, <1>2, WaitingBelow
<1> HIDE DEF W, W2, P
<1>6. ASSUME NEW b \in Dirs, d \notin Way[b]
      PROVE  b \in W <=> b \in W2
    BY <1>3, <1>6, WayFacts
<1>7. ASSUME NEW c \in Dirs, d \in Way[c]
      PROVE  c \notin W2 /\ ~ Clear(c, W2, P)
    BY <1>2, <1>3, <1>4, <1>5, <1>7 DEF Clear
<1>8. Record(ds, fs, W, P)
    BY DEF W, P
<1>9. \A f \in Files : In[f] \in Dirs
    BY TreeAssumption
<1>10. /\ \A c \in Dirs : ds2[c] =
              IF d \notin Way[c] THEN ds[c]
              ELSE IF c \in W2 \/ (Clear(c, W2, P) /\ mode[c] # "gone")
                   THEN DirAtts(mode[c]) ELSE None
       /\ \A f \in Files : fs2[f] =
              IF d \notin Way[In[f]] THEN fs[f]
              ELSE IF Clear(In[f], W2, P) THEN SeenAtts(f) ELSE None
    BY <1>7, <1>9
<1>11. Record(ds2, fs2, W2, P)
    BY <1>1, <1>6, <1>8, <1>10, RecordStep
<1> QED
    BY <1>11 DEF W2, P

\* walkFs(x) has looked at all, and returns.
LEMMA ReturnRecords ==
    ASSUME NEW x \in Dirs, NEW m \in Int, x <= m, After(x, m) = {},
           NEW ds, NEW fs, Record(ds, fs, Waiting(x, m), OnWay(x)),
           NEW ds2, \A c \in Dirs : ds2[c] = IF Fails[x] /\ x \in Way[c] THEN None ELSE ds[c],
           NEW fs2, \A f \in Files :
                        fs2[f] = IF Fails[x] /\ x \in Way[In[f]] THEN None ELSE fs[f]
    PROVE  Record(ds2, fs2, Waiting(Above(x), x), OnWay(Above(x)))
<1> DEFINE W  == Waiting(x, m)
           P  == OnWay(x)
           P2 == OnWay(Above(x))
<1>1. P = {x} \cup P2 /\ x \notin P2
    BY OnWayStep
<1>2. Waiting(Above(x), x) = W
  <2>1. UNION {After(Above(b), b) : b \in P}
            = After(Above(x), x) \cup UNION {After(Above(b), b) : b \in P2}
      BY <1>1
  <2> QED
      BY <2>1 DEF Waiting
<1>3. \A w \in W : x \notin Way[w]
    BY NoneWaits
<1> HIDE DEF W, P, P2
<1>4. ASSUME NEW b \in Dirs, x \notin Way[b]
      PROVE  b \in P <=> b \in P2
    BY <1>1, <1>4, WayFacts
<1>5. ASSUME NEW c \in Dirs, x \in Way[c]
      PROVE  /\ c \notin W
             /\ Clear(c, W, P2) <=> ~ Fails[x] /\ Clear(c, W, P)
    BY <1>1, <1>3, <1>5 DEF Clear
<1>6. Record(ds, fs, W, P)
    BY DEF W, P
<1>7. \A f \in Files : In[f] \in Dirs
    BY TreeAssumption
<1>8. ASSUME NEW c \in Dirs
      PROVE  ds2[c] = IF x \notin Way[c] THEN ds[c]
                      ELSE IF c \in W \/ (Clear(c, W, P2) /\ mode[c] # "gone")
                           THEN DirAtts(mode[c]) ELSE None
    BY <1>5, <1>6 DEF Record
<1>9. ASSUME NEW f \in Files
      PROVE  fs2[f] = IF x \notin Way[In[f]] THEN fs[f]
                      ELSE IF Clear(In[f], W, P2) THEN SeenAtts(f) ELSE None
    BY <1>5, <1>6, <1>7 DEF Record
<1>10. Record(ds2, fs2, W, P2)
    BY <1>4, <1>6, <1>8, <1>9, RecordStep
<1> QED
    BY <1>2, <1>10 DEF P2

-----------------------------------------------------------------------------
(***************************************************************************)
(* Types.                                                                  *)
(***************************************************************************)

\* What TypeOK says beyond Inv; walkFs runs for a caller.
RestTypes ==
    /\ changes \in 0..MaxChanges /\ errors \in 0..MaxChanges
    /\ cmd \in {"none", "scan", "check", "signoff"}
    /\ pc \in {"idle", "walk", "hash", "report"}
    /\ old \in TreeType
    /\ stack \in Seq(FrameType) /\ (pc = "walk" => stack # << >>)
    /\ logged \subseteq Files
    /\ blurred \subseteq Inodes \X (0..MaxTime) /\ quiet \in BOOLEAN

LEMMA TypesSuffice ==
    ASSUME Inv, RestTypes
    PROVE  TypeOK
<1>1. NewTree \in TreeType
    BY DEF Inv, Types, NewTree, TreeType
<1> QED
    BY <1>1 DEF Inv, Types, RestTypes, TypeOK, NodeType

\* The frame of walkFs that runs, and its caller's.
LEMMA TopTypes ==
    ASSUME RestTypes, pc = "walk"
    PROVE  /\ Len(stack) \in Nat \ {0} /\ Top = stack[Len(stack)] /\ Top \in FrameType
           /\ Rest \in Seq(FrameType) /\ Len(Rest) = Len(stack) - 1
           /\ \A k \in 1..Len(Rest) : Rest[k] = stack[k]
           /\ \A k \in 1..Len(stack) : stack[k] \in FrameType
<1>1. stack \in Seq(FrameType) /\ Len(stack) \in Nat \ {0}
    BY DEF RestTypes
<1>2. \A k \in 1..Len(stack) : stack[k] \in FrameType
    BY <1>1
<1>3. Top \in FrameType
    BY <1>1, <1>2 DEF Top
<1>4. Rest = SubSeq(stack, 1, Len(stack) - 1)
    BY DEF Rest
<1>5. /\ Rest \in Seq(FrameType) /\ Len(Rest) = Len(stack) - 1
      /\ \A k \in 1..Len(Rest) : Rest[k] = stack[k]
  <2>1. /\ 1 \in 1..Len(stack) + 1 /\ Len(stack) - 1 \in 0..Len(stack)
        /\ Len(stack) - 1 - 1 + 1 = Len(stack) - 1
      BY <1>1
  <2>2. /\ Rest \in Seq(FrameType) /\ Len(Rest) = Len(stack) - 1
        /\ \A k \in 1..Len(stack) - 1 : Rest[k] = stack[1 + k - 1]
      BY <1>1, <1>4, <2>1, SubSeqProperties
  <2>3. \A k \in 1..Len(stack) - 1 : 1 + k - 1 = k
      BY <1>1
  <2> QED
      BY <2>2, <2>3
<1> QED
    BY <1>1, <1>2, <1>3, <1>5 DEF Top

\* The disk changes under gosure.
LEMMA UserTypes ==
    ASSUME Inv, RestTypes, User
    PROVE  RestTypes'
<1>1. ASSUME NEW S \in SUBSET Inodes, Touched(S)
      PROVE  blurred' \subseteq Inodes \X (0..MaxTime)
    BY <1>1 DEF Touched, Inv, Types, RestTypes
<1>2. UNCHANGED gosure /\ quiet' \in BOOLEAN /\ changes' \in 0..MaxChanges
  <2>1. Change \/ UNCHANGED <<changes, gosure, quiet>>
      BY Zenon DEF User, Create, WriteFile, Unlink, Rename, HardLink, Chmod, MakeDir,
         RemoveDir, MoveDirs, Rot, Tick
  <2>2. CASE Change
    <3>1. UNCHANGED gosure /\ quiet' \in BOOLEAN
        BY <2>2 DEF Change, RestTypes
    <3>2. changes + errors < MaxChanges /\ changes' = changes + 1
        BY <2>2 DEF Change
    <3> QED
        BY <3>1, <3>2, ScanAssumption DEF RestTypes
  <2> QED
      BY <2>1, <2>2 DEF RestTypes
<1>3. blurred' \subseteq Inodes \X (0..MaxTime)
  <2>0. ino \in [Files -> Inodes \cup {NoIno}] /\ blurred \subseteq Inodes \X (0..MaxTime)
      BY DEF Inv, Types, RestTypes
  <2>1. ASSUME NEW f \in Files, NEW i \in Inodes, NEW x \in Data \cup Links, Create(f, i, x)
        PROVE  blurred' \subseteq Inodes \X (0..MaxTime)
      BY <2>1, <1>1 DEF Create
  <2>2. ASSUME NEW i \in Inodes, NEW x \in Data, WriteFile(i, x)
        PROVE  blurred' \subseteq Inodes \X (0..MaxTime)
      BY <2>2, <1>1 DEF WriteFile
  <2>3. ASSUME NEW f \in Files, Unlink(f)
        PROVE  blurred' \subseteq Inodes \X (0..MaxTime)
      BY <2>0, <2>3, <1>1 DEF Unlink
  <2>4. ASSUME NEW f \in Files, NEW g \in Files, Rename(f, g)
        PROVE  blurred' \subseteq Inodes \X (0..MaxTime)
    <3>1. {ino[f], ino[g]} \ {NoIno} \in SUBSET Inodes
        BY <2>0
    <3> QED
        BY <2>4, <3>1, <1>1 DEF Rename
  <2>5. ASSUME NEW f \in Files, NEW g \in Files, HardLink(f, g)
        PROVE  blurred' \subseteq Inodes \X (0..MaxTime)
    <3>1. ino[f] \in Inodes
        BY <2>0, <2>5 DEF HardLink
    <3> QED
        BY <2>5, <3>1, <1>1 DEF HardLink
  <2>6. ASSUME NEW f \in Files, NEW g \in Files, MoveDirs(f, g)
        PROVE  blurred' \subseteq Inodes \X (0..MaxTime)
    <3>1. \A i \in {ino[f], ino[g]} \ {NoIno} : i \in Inodes /\ node[i].ctime \in 0..MaxTime
        BY <2>0 DEF Inv, Types, NodeType
    <3>2. \/ blurred' = blurred
          \/ blurred' = blurred \cup {<<i, node[i].ctime>> : i \in {ino[f], ino[g]} \ {NoIno}}
        BY <2>6 DEF MoveDirs
    <3> QED
        BY <2>0, <3>1, <3>2
  <2>7. ASSUME UNCHANGED blurred
        PROVE  blurred' \subseteq Inodes \X (0..MaxTime)
      BY <2>0, <2>7
  <2> QED
      BY <2>1, <2>2, <2>3, <2>4, <2>5, <2>6, <2>7
         DEF User, Chmod, MakeDir, RemoveDir, Rot, Tick
<1> QED
    BY <1>2, <1>3 DEF RestTypes, gosure, walk, hashing

LEMMA BeginTypes ==
    ASSUME Inv, RestTypes, NEW c \in {"scan", "check"}, NEW version \in TreeType,
           Begin(c, version)
    PROVE  RestTypes'
<1>1. /\ cmd' = c /\ old' = version /\ pc' = "walk" /\ quiet' = TRUE
      /\ stack' = <<Frame(Caller, <<0>>, FALSE)>>
      /\ UNCHANGED <<changes, errors, logged, blurred>>
    BY DEF Begin, disk, hashing
<1>2. Frame(Caller, <<0>>, FALSE) \in FrameType
    BY DirNumbers DEF Frame, FrameType
<1>3. stack' \in Seq(FrameType) /\ stack' # << >>
  <2> DEFINE g == Frame(Caller, <<0>>, FALSE)
  <2>1. g \in FrameType /\ stack' = <<g>>
      BY <1>1, <1>2
  <2> HIDE DEF g
  <2> QED
      BY <2>1
<1> QED
    BY <1>1, <1>3 DEF RestTypes

\* GetDelta names a version.
LEMMA DeltaThere ==
    ASSUME Inv, NEW n \in Deltas, GetDelta(n) > 0
    PROVE  GetDelta(n) \in 1..Len(store)
<1>1. store \in Seq(TreeType) /\ n \in Int
    BY ScanAssumption DEF Inv, Types, Deltas
<1>2. CASE n = -1
    BY <1>1, <1>2 DEF GetDelta
<1>3. CASE n = -2
    BY <1>1, <1>3 DEF GetDelta
<1>4. CASE n # -1 /\ n # -2
  <2>1. GetDelta(n) = IF n > Len(store) THEN Len(store) ELSE n
      BY <1>4 DEF GetDelta
  <2> QED
      BY <1>1, <2>1
<1> QED
    BY <1>2, <1>3, <1>4

LEMMA EmptyTypes == EmptyTree \in TreeType
BY DEF EmptyTree, TreeType, DirAttsType, FileAttsType

\* walkFs calls itself, or fails to.
LEMMA DescendTypes ==
    ASSUME Inv, RestTypes, Descend
    PROVE  RestTypes'
<1> DEFINE d      == Head(Top.left)
           caller == [Top EXCEPT !.left = Tail(Top.left)]
           subs   == SubdirsSeen(d)
<1>1. /\ pc = "walk" /\ Top.left # << >>
      /\ UNCHANGED <<changes, errors, cmd, pc, old, logged, blurred, quiet>>
    BY DEF Descend, disk, hashing
<1>2. Top \in FrameType /\ Rest \in Seq(FrameType)
    BY <1>1, TopTypes
<1>3. Top.left \in Seq(Dirs) /\ Top.dir \in Dirs \cup {Caller} /\ Top.err \in BOOLEAN
    BY <1>2 DEF FrameType
<1>4. d \in Dirs /\ Tail(Top.left) \in Seq(Dirs)
    BY <1>1, <1>3
<1>5. caller \in FrameType /\ [caller EXCEPT !.err = TRUE] \in FrameType
    BY <1>2, <1>4 DEF FrameType
<1>6. byName(subs) \in Seq(Dirs)
  <2>1. subs \subseteq 1..LastDir + LastFile /\ subs \subseteq Dirs
      BY TreeAssumption DEF SubdirsSeen, SubdirsOf, Subdirs, Dirs
  <2> HIDE DEF subs
  <2>2. byName(subs) \in Seq(subs)
      BY <2>1, ByName DEF Lists
  <2> QED
      BY <2>1, <2>2, SeqMonotonic
<1>7. Frame(d, byName(subs), FALSE) \in FrameType
    BY <1>4, <1>6 DEF Frame, FrameType
<1>8. \/ stack' = Append(Append(Rest, caller), Frame(d, byName(subs), FALSE))
      \/ stack' = Append(Rest, [caller EXCEPT !.err = TRUE])
    BY Zenon DEF Descend
<1>9. stack' \in Seq(FrameType) /\ stack' # << >>
  <2> DEFINE a == caller
             b == Frame(d, byName(subs), FALSE)
             e == [caller EXCEPT !.err = TRUE]
  <2>1. a \in FrameType /\ b \in FrameType /\ e \in FrameType
      BY <1>5, <1>7
  <2>2. stack' = Append(Append(Rest, a), b) \/ stack' = Append(Rest, e)
      BY <1>8
  <2> HIDE DEF a, b, e
  <2> QED
      BY <1>2, <2>1, <2>2
<1> QED
    BY <1>1, <1>9 DEF RestTypes

LEMMA ReturnTypes ==
    ASSUME Inv, RestTypes, Return
    PROVE  RestTypes'
<1>1. /\ pc = "walk" /\ Len(stack) > 1
      /\ UNCHANGED <<changes, errors, cmd, pc, old, logged, blurred, quiet>>
      /\ stack' = [Rest EXCEPT ![Len(stack) - 1].err = Top.err]
    BY DEF Return, disk, hashing
<1>2. Top \in FrameType /\ Rest \in Seq(FrameType) /\ Len(Rest) = Len(stack) - 1
      /\ Len(stack) \in Nat
    BY <1>1, TopTypes
<1>3. Top.err \in BOOLEAN
    BY <1>2 DEF FrameType
<1>4. \A g \in FrameType : [g EXCEPT !.err = Top.err] \in FrameType
    BY <1>3 DEF FrameType
<1>5. Len(stack) - 1 \in 1..Len(Rest)
    BY <1>1, <1>2
<1>6. Rest[Len(stack) - 1] \in FrameType
    BY <1>2, <1>5
<1>7. stack' = [Rest EXCEPT ![Len(stack) - 1] = [Rest[Len(stack) - 1] EXCEPT !.err = Top.err]]
    BY <1>1
<1>8. stack' \in Seq(FrameType) /\ Len(stack') = Len(Rest)
  <2> DEFINE g == [Rest[Len(stack) - 1] EXCEPT !.err = Top.err]
  <2>1. g \in FrameType
      BY <1>4, <1>6
  <2>2. stack' = [Rest EXCEPT ![Len(stack) - 1] = g]
      BY <1>7
  <2> HIDE DEF g
  <2> QED
      BY <1>2, <1>5, <2>1, <2>2
<1>9. pc' = pc /\ pc = "walk" /\ stack' # << >>
    BY <1>1, <1>2, <1>8
<1> QED
    BY <1>1, <1>8, <1>9 DEF RestTypes

LEMMA EndTypes ==
    ASSUME RestTypes, End
    PROVE  RestTypes'
<1>1. UNCHANGED <<changes, errors, blurred>>
    BY DEF End, disk
<1> QED
    BY <1>1, EmptyTypes DEF End, RestTypes

LEMMA NextTypes ==
    ASSUME Inv, RestTypes, [Next]_vars
    PROVE  RestTypes'
<1>1. CASE Scan
  <2>1. store \in Seq(TreeType)
      BY DEF Inv, Types
  <2>2. store # << >> => store[Len(store)] \in TreeType
      BY <2>1
  <2>3. \E t \in TreeType : Begin("scan", t)
      BY <1>1, <2>2, EmptyTypes DEF Scan, GetDelta
  <2> QED
      BY <2>3, BeginTypes
<1>2. CASE Check
  <2>1. PICK n \in Deltas : GetDelta(n) > 0 /\ Begin("check", store[GetDelta(n)])
      BY <1>2 DEF Check
  <2>2. store[GetDelta(n)] \in TreeType
      BY <2>1, DeltaThere, StoredTypes DEF Inv
  <2> QED
      BY <2>1, <2>2, BeginTypes
<1>3. CASE Signoff
  <2>1. store \in Seq(TreeType) /\ Len(store) > 1
      BY <1>3 DEF Signoff, Inv, Types
  <2>2. Len(store) - 1 \in 1..Len(store)
      BY <2>1
  <2>3. store[Len(store) - 1] \in TreeType
      BY <2>1, <2>2
  <2>4. /\ cmd' = "signoff" /\ pc' = "report" /\ old' = store[Len(store) - 1]
        /\ UNCHANGED <<changes, errors, stack, logged, blurred, quiet>>
      BY <1>3 DEF Signoff, GetDelta, disk, hashing
  <2> QED
      BY <2>3, <2>4 DEF RestTypes
<1>4. CASE WalkFails \/ WriteVersion \/ Reported
    BY <1>4, EndTypes DEF WalkFails, WriteVersion, Reported
<1>5. CASE StartHashing
  <2>1. pc' = "hash" /\ stack' = << >> /\ UNCHANGED <<changes, errors, cmd, old, logged, blurred, quiet>>
      BY <1>5 DEF StartHashing, disk
  <2> QED
      BY <2>1 DEF RestTypes
<1>6. CASE Hash
  <2>1. UNCHANGED <<changes, cmd, pc, old, stack, blurred, quiet>>
      BY <1>6 DEF Hash, OpenFile, ReadFile, HashFails, disk, walk
  <2>2. logged' \subseteq Files
      BY <1>6 DEF Hash, OpenFile, ReadFile, HashFails, HashError, RestTypes
  <2>3. errors' = errors \/ (changes + errors < MaxChanges /\ errors' = errors + 1)
      BY <1>6 DEF Hash, OpenFile, ReadFile, HashFails
  <2>4. errors' \in 0..MaxChanges
      BY <2>3, ScanAssumption DEF RestTypes
  <2> QED
      BY <2>1, <2>2, <2>4 DEF RestTypes
<1>7. CASE CompareWithDisk
  <2>1. pc' = "report" /\ UNCHANGED <<changes, errors, cmd, old, stack, logged, blurred, quiet>>
      BY <1>7 DEF CompareWithDisk, disk, walk, hashing
  <2> QED
      BY <2>1 DEF RestTypes
<1>8. CASE UNCHANGED vars
    BY <1>8 DEF vars, gosure, disk, walk, hashing, RestTypes
<1> QED
    BY <1>1, <1>2, <1>3, <1>4, <1>5, <1>6, <1>7, <1>8, UserTypes, DescendTypes, ReturnTypes
       DEF Next, Walk, Finish

LEMMA TypesHold == Spec => [](Inv /\ RestTypes)
<1>1. Init => RestTypes
    BY EmptyTypes, ScanAssumption DEF Init, RestTypes
<1>2. Init => Inv
    BY InitInv
<1>3. Inv /\ RestTypes /\ [Next]_vars => Inv' /\ RestTypes'
    BY NextInv, NextTypes
<1> QED
    BY <1>1, <1>2, <1>3, PTL DEF Spec

\* Every variable has its type: the frames of walkFs too.
THEOREM TreesAreTyped == Spec => []TypeOK
<1>1. Inv /\ RestTypes => TypeOK
    BY TypesSuffice
<1> QED
    BY <1>1, TypesHold, PTL

-----------------------------------------------------------------------------
(***************************************************************************)
(* The walk as the frames of walkFs have it.                               *)
(***************************************************************************)

\* The top frame has looked at m last.
Chain(s, m) ==
    /\ s[1].dir = Caller
    /\ \A k \in 2..Len(s) : s[k].dir \in Dirs /\ Above(s[k].dir) = s[k - 1].dir
    /\ \A k \in 1..Len(s) - 1 : Lists(s[k].left, After(s[k].dir, s[k + 1].dir))
    /\ m \in {s[Len(s)].dir} \cup Entries(s[Len(s)].dir)
    /\ Lists(s[Len(s)].left, After(s[Len(s)].dir, m))
    /\ s[Len(s)].err <=> m # s[Len(s)].dir /\ Fails[m]

WalkAt(m) == /\ Chain(stack, m)
             /\ \A b \in OnWay(Top.dir) : Listable(b)
             /\ Record(dirs, files, Waiting(Top.dir, m), OnWay(Top.dir))

\* The disk is as it was.
LEMMA SameTrees ==
    ASSUME UNCHANGED <<mode, ino, node, rotten>>
    PROVE  /\ Fails' = Fails
           /\ \A d : Listable(d)' <=> Listable(d)
           /\ \A f : SeenAtts(f)' = SeenAtts(f)
           /\ \A i : AttsOf(i)' = AttsOf(i) /\ Bytes(i)' = Bytes(i) /\ Kind(i)' = Kind(i)
           /\ \A x : Entries(x)' = Entries(x)
           /\ \A x, m : After(x, m)' = After(x, m) /\ Waiting(x, m)' = Waiting(x, m)
           /\ \A ds, fs, W, P : Record(ds, fs, W, P)' <=> Record(ds, fs, W, P)
           /\ \A s, m : Chain(s, m)' <=> Chain(s, m)
<1>1. Fails' = Fails
    BY DEF Fails, Listable, SubdirsSeen
<1>2. \A d : Listable(d)' <=> Listable(d)
    BY DEF Listable
<1>3. \A i : AttsOf(i)' = AttsOf(i) /\ Bytes(i)' = Bytes(i) /\ Kind(i)' = Kind(i)
    BY DEF AttsOf, Bytes, Kind
<1>4. \A f : SeenAtts(f)' = SeenAtts(f)
    BY <1>3 DEF SeenAtts
<1>5. \A x : Entries(x)' = Entries(x)
    BY DEF Entries, SubdirsSeen
<1>6. \A x, m : After(x, m)' = After(x, m) /\ Waiting(x, m)' = Waiting(x, m)
    BY DEF Waiting, After, Entries, SubdirsSeen
<1>7. \A ds, fs, W, P : Record(ds, fs, W, P)' <=> Record(ds, fs, W, P)
    BY <1>1, <1>4 DEF Record, Clear
<1>8. \A s, m : Chain(s, m)' <=> Chain(s, m)
    BY <1>1, <1>5, <1>6 DEF Chain
<1> QED
    BY <1>1, <1>2, <1>3, <1>4, <1>5, <1>6, <1>7, <1>8

\* Where walkFs is after a step.
LEMMA WalkNow ==
    ASSUME UNCHANGED <<mode, ino, node, rotten>>,
           NEW s, NEW ds, NEW fs, NEW x, NEW m,
           stack' = s, dirs' = ds, files' = fs, s[Len(s)].dir = x,
           Chain(s, m), \A b \in OnWay(x) : Listable(b),
           Record(ds, fs, Waiting(x, m), OnWay(x))
    PROVE  WalkAt(m)'
<1>1. Chain(s, m)'
    BY SameTrees
<1>2. Waiting(x, m)' = Waiting(x, m)
    BY SameTrees
<1>3. \A b \in OnWay(x) : Listable(b)'
    BY SameTrees
<1>4. PICK W, P : W = Waiting(x, m) /\ P = OnWay(x)
    OBVIOUS
<1>5. Record(ds, fs, W, P)'
    BY <1>4, SameTrees
<1>6. Top'.dir = x
    BY DEF Top
<1>7. Chain(stack, m)'
    BY <1>1
<1>8. Record(ds, fs, Waiting(x, m), OnWay(x))'
    BY <1>2, <1>4, <1>5
<1>9. Record(dirs, files, Waiting(Top.dir, m), OnWay(Top.dir))'
    BY <1>6, <1>8
<1> QED
    BY <1>3, <1>6, <1>7, <1>9 DEF WalkAt

\* Once the next one has been looked at, the others are left.
LEMMA AfterNext ==
    ASSUME NEW x \in Dirs \cup {Caller}, NEW m \in Int, NEW d \in After(x, m),
           \A c \in After(x, m) : d <= c
    PROVE  After(x, d) = After(x, m) \ {d}
<1>1. (\A c \in Entries(x) : c \in Int) /\ m < d
    BY EntriesAbove, DirNumbers DEF After
<1> QED
    BY <1>1 DEF After

\* Scan or check begins.
LEMMA BeginWalk ==
    ASSUME Inv, NEW c, NEW version, Begin(c, version)
    PROVE  WalkAt(Caller)'
<1>1. /\ pc = "idle" /\ dirs' = [EmptyTree.dir EXCEPT ![0] = DirAtts(mode[0])]
      /\ stack' = <<Frame(Caller, <<0>>, FALSE)>>
      /\ files' = files /\ UNCHANGED <<mode, ino, node, rotten>>
    BY DEF Begin, disk
<1>2. \A f \in Files : files[f] = None
    BY <1>1 DEF Inv, Phases
<1>3. /\ Entries(Caller) = {0} /\ After(Caller, Caller) = {0} /\ OnWay(Caller) = {}
      /\ Waiting(Caller, Caller) = {0}
    BY DirNumbers DEF Entries, After, OnWay, Waiting
<1>4. \A d \in Dirs : 0 \in Way[d]
    BY ZeroOnWay
<1>5. \A d \in Dirs : ~ Clear(d, {0}, {})
    BY <1>4 DEF Clear
<1>6. /\ dirs'[0] = DirAtts(mode[0])
      /\ \A d \in Dirs : d # 0 => dirs'[d] = None
    BY <1>1, DirNumbers DEF EmptyTree
<1>7. \A f \in Files : In[f] \in Dirs
    BY TreeAssumption
<1>8. Record(dirs', files', {0}, {})
    BY <1>1, <1>2, <1>5, <1>6, <1>7 DEF Record
<1>9. Lists(<<0>>, {0})
    BY DEF Lists
<1>10. PICK s : s = stack'
    OBVIOUS
<1>11. Len(s) = 1 /\ s[1].dir = Caller /\ s[1].left = <<0>> /\ s[1].err = FALSE
    BY <1>1, <1>10 DEF Frame
<1>12. Chain(s, Caller)
    BY <1>3, <1>9, <1>11 DEF Chain
<1>13. PICK ds, fs : ds = dirs' /\ fs = files'
    OBVIOUS
<1>14. Record(ds, fs, Waiting(Caller, Caller), OnWay(Caller))
    BY <1>3, <1>8, <1>13
<1> QED
    BY <1>1, <1>3, <1>10, <1>11, <1>12, <1>13, <1>14, WalkNow

\* The top frame in the walk.
LEMMA TopWalks ==
    ASSUME RestTypes, pc = "walk", NEW m, WalkAt(m)
    PROVE  /\ Top.dir \in Dirs \cup {Caller} /\ m \in Int /\ Top.dir <= m
           /\ m \in {Top.dir} \cup Entries(Top.dir)
           /\ Lists(Top.left, After(Top.dir, m))
           /\ Top.err <=> m # Top.dir /\ Fails[m]
           /\ After(Top.dir, m) \subseteq Int
<1>1. Top \in FrameType /\ Top = stack[Len(stack)]
    BY TopTypes
<1>2. Top.dir \in Dirs \cup {Caller}
    BY <1>1 DEF FrameType
<1>3. /\ m \in {Top.dir} \cup Entries(Top.dir)
      /\ Lists(Top.left, After(Top.dir, m))
      /\ Top.err <=> m # Top.dir /\ Fails[m]
    BY <1>1 DEF WalkAt, Chain
<1>4. \A c \in Entries(Top.dir) : c \in Dirs /\ Top.dir < c
    BY <1>2, EntriesAbove
<1> QED
    BY <1>2, <1>3, <1>4, DirNumbers DEF After

LEMMA DescendWalks ==
    ASSUME Inv, RestTypes, NEW m, WalkAt(m), Descend
    PROVE  \E n : WalkAt(n)'
<1> DEFINE x      == Top.dir
           d      == Head(Top.left)
           caller == [Top EXCEPT !.left = Tail(Top.left)]
           subs   == SubdirsSeen(d)
           failed == [caller EXCEPT !.err = TRUE]
           called == Frame(d, byName(subs), FALSE)
           n      == Len(stack)
<1>1. pc = "walk" /\ Top.left # << >> /\ UNCHANGED <<mode, ino, node, rotten>>
    BY DEF Descend, disk
<1>2. /\ n \in Nat \ {0} /\ Top \in FrameType /\ Top = stack[n]
      /\ Rest \in Seq(FrameType) /\ Len(Rest) = n - 1
      /\ \A k \in 1..n - 1 : Rest[k] = stack[k]
    BY <1>1, TopTypes
<1>3. /\ x \in Dirs \cup {Caller} /\ m \in Int /\ x <= m
      /\ Lists(Top.left, After(x, m)) /\ After(x, m) \subseteq Int
    BY <1>1, TopWalks
<1>4. d \in After(x, m) /\ (\A c \in After(x, m) : d <= c)
      /\ Lists(Tail(Top.left), After(x, m) \ {d})
    BY <1>1, <1>3, ListsHead
<1>5. After(x, d) = After(x, m) \ {d}
    BY <1>3, <1>4, AfterNext
<1>6. d \in Entries(x) /\ d \in Dirs /\ Above(d) = x /\ x < d
    BY <1>3, <1>4, EntriesAbove DEF After
<1>7. Entries(d) = subs /\ After(d, d) = subs
    BY <1>6, DirNumbers, EntriesAfter DEF Entries
<1>8. Lists(byName(subs), subs)
  <2>1. subs \subseteq 1..LastDir + LastFile
      BY TreeAssumption DEF SubdirsSeen, SubdirsOf, Subdirs, Dirs
  <2> HIDE DEF subs
  <2> QED
      BY <2>1, ByName
<1>9. /\ caller.dir = x /\ caller.left = Tail(Top.left)
      /\ failed.dir = x /\ failed.left = Tail(Top.left) /\ failed.err = TRUE
      /\ called.dir = d /\ called.left = byName(subs) /\ called.err = FALSE
    BY <1>2 DEF FrameType, Frame
<1>10. /\ stack[1].dir = Caller
       /\ \A k \in 2..n : stack[k].dir \in Dirs /\ Above(stack[k].dir) = stack[k - 1].dir
       /\ \A k \in 1..n - 1 : Lists(stack[k].left, After(stack[k].dir, stack[k + 1].dir))
    BY DEF WalkAt, Chain
<1>11. Record(dirs, files, Waiting(x, m), OnWay(x)) /\ \A b \in OnWay(x) : Listable(b)
    BY DEF WalkAt
<1>12. CASE Listable(d)
  <2>1. /\ stack' = Append(Append(Rest, caller), called)
        /\ dirs' = [c \in Dirs |-> IF c \in subs THEN DirAtts(mode[c]) ELSE dirs[c]]
        /\ files' = [f \in Files |-> IF In[f] = d THEN SeenAtts(f) ELSE files[f]]
      BY <1>12 DEF Descend
  <2>2. /\ Len(stack') = n + 1 /\ stack'[n + 1] = called /\ stack'[n] = caller
        /\ \A k \in 1..n - 1 : stack'[k] = stack[k]
    <3> HIDE DEF caller, called, n
    <3> QED
        BY <1>2, <2>1
  <2> DEFINE ds2 == [c \in Dirs |-> IF c \in subs THEN DirAtts(mode[c]) ELSE dirs[c]]
             fs2 == [f \in Files |-> IF In[f] = d THEN SeenAtts(f) ELSE files[f]]
  <2>3. /\ \A c \in Dirs : ds2[c] = IF c \in Entries(d) THEN DirAtts(mode[c]) ELSE dirs[c]
        /\ \A f \in Files : fs2[f] = IF In[f] = d THEN SeenAtts(f) ELSE files[f]
      BY <1>7
  <2>4. dirs' = ds2 /\ files' = fs2
      BY <2>1
  <2> HIDE DEF caller, called, failed, subs, x, d, n, ds2, fs2
  <2>5. Record(ds2, fs2, Waiting(d, d), OnWay(d))
      BY <1>3, <1>4, <1>11, <1>12, <2>3, DescendRecords
  <2>6. \A b \in OnWay(d) : Listable(b)
      BY <1>6, <1>11, <1>12, OnWayStep
  <2>7. PICK s : s = stack'
      OBVIOUS
  <2>8. Chain(s, d)
    <3>1. Len(s) = n + 1 /\ s[n + 1].dir = d /\ s[n].dir = x /\ s[1].dir = Caller
      <4>1. Len(s) = n + 1 /\ s[n + 1].dir = d /\ s[n].dir = x
          BY <1>9, <2>2, <2>7
      <4>2. stack[n].dir = x
          BY <1>2 DEF x
      <4>3. CASE n = 1
          BY <1>10, <4>1, <4>2, <4>3
      <4>4. CASE n # 1
        <5>1. 1 \in 1..n - 1
            BY <1>2, <4>4
        <5>2. s[1].dir = Caller
            BY <1>10, <2>2, <2>7, <5>1
        <5> QED
            BY <4>1, <5>2
      <4> QED
          BY <4>1, <4>3, <4>4
    <3>2. ASSUME NEW k \in 2..n + 1
          PROVE  s[k].dir \in Dirs /\ Above(s[k].dir) = s[k - 1].dir
      <4>1. CASE k = n + 1
          BY <1>2, <1>6, <3>1, <4>1
      <4>2. CASE k \in 2..n
        <5>1. s[k].dir = stack[k].dir /\ s[k - 1].dir = stack[k - 1].dir
            BY <1>2, <1>9, <2>2, <2>7, <4>2 DEF x
        <5> QED
            BY <1>10, <4>2, <5>1
      <4> QED
          BY <1>2, <4>1, <4>2
    <3>3. ASSUME NEW k \in 1..n
          PROVE  Lists(s[k].left, After(s[k].dir, s[k + 1].dir))
      <4>1. CASE k = n
          BY <1>4, <1>5, <1>9, <2>2, <2>7, <3>1, <4>1
      <4>2. CASE k \in 1..n - 1
        <5>1. s[k] = stack[k] /\ s[k + 1].dir = stack[k + 1].dir
            BY <1>2, <1>9, <2>2, <2>7, <4>2 DEF x
        <5> QED
            BY <1>10, <4>2, <5>1
      <4> QED
          BY <1>2, <4>1, <4>2
    <3>4. Lists(s[n + 1].left, After(s[n + 1].dir, d)) /\ s[n + 1].err = FALSE
        BY <1>7, <1>8, <1>9, <2>2, <2>7
    <3>5. n + 1 - 1 = n
        BY <1>2
    <3>6. d \in {s[n + 1].dir} \cup Entries(s[n + 1].dir)
        BY <3>1
    <3>7. s[n + 1].err <=> d # s[n + 1].dir /\ Fails[d]
        BY <3>1, <3>4
    <3>8. \A k \in 2..Len(s) : s[k].dir \in Dirs /\ Above(s[k].dir) = s[k - 1].dir
        BY <3>1, <3>2
    <3>9. \A k \in 1..Len(s) - 1 : Lists(s[k].left, After(s[k].dir, s[k + 1].dir))
      <4>1. Len(s) - 1 = n
          BY <1>2, <3>1
      <4> QED
          BY <3>3, <4>1
    <3>10. /\ Lists(s[Len(s)].left, After(s[Len(s)].dir, d))
           /\ d \in {s[Len(s)].dir} \cup Entries(s[Len(s)].dir)
           /\ s[Len(s)].err <=> d # s[Len(s)].dir /\ Fails[d]
        BY <3>1, <3>4, <3>6, <3>7
    <3> QED
        BY <3>1, <3>8, <3>9, <3>10 DEF Chain
  <2>9. PICK e, ds, fs : e = d /\ ds = dirs' /\ fs = files'
      OBVIOUS
  <2>10. s[Len(s)].dir = e
      BY <1>9, <2>2, <2>7, <2>9
  <2>11. Record(ds, fs, Waiting(e, e), OnWay(e)) /\ Chain(s, e) /\ \A b \in OnWay(e) : Listable(b)
      BY <2>4, <2>5, <2>6, <2>8, <2>9
  <2>12. WalkAt(e)'
      BY <1>1, <2>7, <2>9, <2>10, <2>11, WalkNow
  <2> QED
      BY <2>12
<1>13. CASE ~ Listable(d)
  <2>1. /\ stack' = Append(Rest, failed)
        /\ dirs' = DirsWithout(d) /\ files' = FilesWithout(d)
      BY <1>13 DEF Descend
  <2>2. /\ Len(stack') = n /\ stack'[n] = failed
        /\ \A k \in 1..n - 1 : stack'[k] = stack[k]
    <3> HIDE DEF failed, n
    <3> QED
        BY <1>2, <2>1
  <2>3. PICK e, y, ds, fs, s : e = d /\ y = x /\ ds = dirs' /\ fs = files' /\ s = stack'
      OBVIOUS
  <2> HIDE DEF caller, called, failed, subs, x, d, n
  <2>4. /\ \A c \in Dirs : ds[c] = IF d \in Way[c] THEN None ELSE dirs[c]
        /\ \A f \in Files : fs[f] = IF d \in Way[In[f]] THEN None ELSE files[f]
    <3>1. \A f \in Files : In[f] \in Dirs
        BY TreeAssumption
    <3> QED
        BY <2>1, <2>3, <3>1 DEF DirsWithout, FilesWithout, Below
  <2>5. Record(ds, fs, Waiting(x, d), OnWay(x))
      BY <1>3, <1>4, <1>11, <1>13, <2>4, FailRecords
  <2>6. Fails[d]
      BY <1>6, <1>13, FailsStep DEF Fail
  <2>7. Chain(s, d)
    <3>1. /\ Len(s) = n /\ s[n].dir = x /\ s[1].dir = Caller
          /\ \A k \in 1..n : s[k].dir = stack[k].dir
          /\ \A k \in 1..n - 1 : s[k].left = stack[k].left
      <4>1. stack[n].dir = x
          BY <1>2 DEF x
      <4>2. \A k \in 1..n : s[k].dir = stack[k].dir
        <5> SUFFICES ASSUME NEW k \in 1..n PROVE s[k].dir = stack[k].dir
            OBVIOUS
        <5>1. CASE k = n
            BY <1>9, <2>2, <2>3, <4>1, <5>1
        <5>2. CASE k \in 1..n - 1
            BY <2>2, <2>3, <5>2
        <5> QED
            BY <1>2, <5>1, <5>2
      <4>3. \A k \in 1..n - 1 : s[k].left = stack[k].left
          BY <2>2, <2>3
      <4> QED
          BY <1>2, <1>10, <2>2, <2>3, <4>1, <4>2, <4>3
    <3>2. \A k \in 2..n : s[k].dir \in Dirs /\ Above(s[k].dir) = s[k - 1].dir
      <4>1. \A k \in 2..n : k \in 1..n /\ k - 1 \in 1..n
          BY <1>2
      <4> QED
          BY <1>10, <3>1, <4>1
    <3>3. \A k \in 1..n - 1 : Lists(s[k].left, After(s[k].dir, s[k + 1].dir))
      <4>1. \A k \in 1..n - 1 : k \in 1..n /\ k + 1 \in 1..n
          BY <1>2
      <4> QED
          BY <1>10, <3>1, <4>1
    <3>4. Lists(s[n].left, After(s[n].dir, d)) /\ s[n].err = TRUE
        BY <1>4, <1>5, <1>9, <2>2, <2>3, <3>1
    <3>5. d \in {s[n].dir} \cup Entries(s[n].dir)
        BY <1>6, <3>1
    <3>6. s[n].err <=> d # s[n].dir /\ Fails[d]
      <4>1. d # x
          BY <1>3, <1>6, DirNumbers
      <4> QED
          BY <2>6, <3>1, <3>4, <4>1
    <3> QED
        BY <3>1, <3>2, <3>3, <3>4, <3>5, <3>6 DEF Chain
  <2>8. s[Len(s)].dir = y
      BY <1>9, <2>2, <2>3
  <2>9. /\ Record(ds, fs, Waiting(y, e), OnWay(y)) /\ Chain(s, e)
        /\ \A b \in OnWay(y) : Listable(b)
      BY <1>11, <2>3, <2>5, <2>7
  <2>10. WalkAt(e)'
      BY <1>1, <2>3, <2>8, <2>9, WalkNow
  <2> QED
      BY <2>10
<1> QED
    BY <1>12, <1>13

\* walkFs returns the error of the directory that it looked at last.
LEMMA ReturnWalks ==
    ASSUME Inv, RestTypes, NEW m, WalkAt(m), Return
    PROVE  \E k : WalkAt(k)'
<1> DEFINE x == Top.dir
           n == Len(stack)
           g == [stack[n - 1] EXCEPT !.err = Top.err]
<1>1. /\ pc = "walk" /\ n > 1 /\ Top.left = << >> /\ UNCHANGED <<mode, ino, node, rotten>>
      /\ stack' = [Rest EXCEPT ![n - 1].err = Top.err]
    BY DEF Return, disk
<1>2. /\ n \in Nat \ {0} /\ Top \in FrameType /\ Top = stack[n]
      /\ Rest \in Seq(FrameType) /\ Len(Rest) = n - 1
      /\ \A k \in 1..n - 1 : Rest[k] = stack[k]
      /\ \A k \in 1..n : stack[k] \in FrameType
    BY <1>1, TopTypes
<1>3. /\ x \in Dirs \cup {Caller} /\ m \in Int /\ x <= m /\ m \in {x} \cup Entries(x)
      /\ Lists(Top.left, After(x, m))
      /\ Top.err <=> m # x /\ Fails[m]
    BY <1>1, TopWalks
<1>4. After(x, m) = {}
  <2> SUFFICES ASSUME NEW c \in After(x, m) PROVE FALSE
      OBVIOUS
  <2>1. \E i \in 1..Len(Top.left) : Top.left[i] = c
      BY <1>3 DEF Lists
  <2> QED
      BY <1>1, <2>1
<1>5. /\ stack[1].dir = Caller
      /\ \A k \in 2..n : stack[k].dir \in Dirs /\ Above(stack[k].dir) = stack[k - 1].dir
      /\ \A k \in 1..n - 1 : Lists(stack[k].left, After(stack[k].dir, stack[k + 1].dir))
    BY DEF WalkAt, Chain
<1>6. n - 1 \in 1..n - 1 /\ n \in 2..n
    BY <1>1, <1>2
<1>7. x \in Dirs /\ Above(x) = stack[n - 1].dir
    BY <1>2, <1>5, <1>6
<1>8. Record(dirs, files, Waiting(x, m), OnWay(x)) /\ \A b \in OnWay(x) : Listable(b)
    BY DEF WalkAt
<1>9. Listable(x) /\ mode[x] # "gone"
    BY <1>7, <1>8, OnWayStep, ScanAssumption DEF Listable
<1>10. g.dir = stack[n - 1].dir /\ g.left = stack[n - 1].left /\ g.err = Top.err
    BY <1>2, <1>6 DEF FrameType
<1>11. /\ Len(stack') = n - 1 /\ stack'[n - 1] = g
       /\ \A k \in 1..n - 2 : stack'[k] = stack[k]
  <2>1. stack' = [Rest EXCEPT ![n - 1] = [Rest[n - 1] EXCEPT !.err = Top.err]]
      BY <1>1
  <2>2. stack' = [Rest EXCEPT ![n - 1] = g]
      BY <1>2, <1>6, <2>1
  <2> HIDE DEF g, n
  <2>3. Len(stack') = Len(Rest)
      BY <1>2, <2>2
  <2>4. \A k \in 1..n - 1 : stack'[k] = IF k = n - 1 THEN g ELSE Rest[k]
      BY <1>2, <2>2
  <2> QED
      BY <1>2, <1>6, <2>3, <2>4
<1> HIDE DEF g, x, n
<1>12. Top.err <=> Fails[x]
  <2>1. Fails[x] = \E c \in Entries(x) : Fails[c] /\ \A b \in Entries(x) : b <= c
    <3>1. Entries(x) = SubdirsSeen(x)
        BY <1>7, DirNumbers DEF Entries
    <3>2. Fails[x] = Fail(Fails, x)
        BY <1>7, FailsStep
    <3>3. Fail(Fails, x) = \E c \in Entries(x) : Fails[c] /\ \A b \in Entries(x) : b <= c
        BY <1>9, <3>1 DEF Fail
    <3> QED
        BY <3>2, <3>3
  <2>2. \A c \in Entries(x) : c \in Int /\ x < c
      BY <1>7, EntriesAbove, DirNumbers
  <2>3. \A c \in Entries(x) : c <= m
      BY <1>3, <1>4, <2>2 DEF After
  <2>4. CASE m = x
    <3>1. Entries(x) = {}
        BY <1>3, <2>2, <2>3, <2>4
    <3> QED
        BY <1>3, <2>1, <2>4, <3>1
  <2>5. CASE m # x
    <3>1. m \in Entries(x)
        BY <1>3, <2>5
    <3>2. \A c \in Entries(x) : (\A b \in Entries(x) : b <= c) <=> c = m
        BY <1>3, <2>2, <2>3, <3>1
    <3>3. Fails[x] <=> Fails[m]
        BY <2>1, <3>1, <3>2
    <3> QED
        BY <1>3, <2>5, <3>3
  <2> QED
      BY <2>4, <2>5
<1>13. PICK e, y, ds, fs, s : e = x /\ y = Above(x) /\ ds = dirs' /\ fs = files' /\ s = stack'
    OBVIOUS
<1>14. /\ \A c \in Dirs : ds[c] = IF Fails[x] /\ x \in Way[c] THEN None ELSE dirs[c]
       /\ \A f \in Files : fs[f] = IF Fails[x] /\ x \in Way[In[f]] THEN None ELSE files[f]
  <2>1. \A f \in Files : In[f] \in Dirs
      BY TreeAssumption
  <2>2. CASE Top.err
    <3>1. dirs' = DirsWithout(x) /\ files' = FilesWithout(x)
        BY <2>2 DEF Return, x
    <3> QED
        BY <1>12, <1>13, <2>1, <2>2, <3>1 DEF DirsWithout, FilesWithout, Below
  <2>3. CASE ~ Top.err
    <3>1. dirs' = dirs /\ files' = files
        BY <2>3 DEF Return
    <3> QED
        BY <1>12, <1>13, <2>3, <3>1
  <2> QED
      BY <2>2, <2>3
<1>15. Record(ds, fs, Waiting(Above(x), x), OnWay(Above(x)))
    BY <1>3, <1>4, <1>7, <1>8, <1>14, ReturnRecords
<1>16. x \in Entries(Above(x)) /\ x # Above(x)
  <2>1. CASE x = 0
      BY <2>1, DirNumbers DEF Entries, Above
  <2>2. CASE x # 0
    <3>1. x \in Subdirs /\ Parent[x] \in Dirs /\ Parent[x] < x
        BY <1>7, <2>2, ParentBelow
    <3>2. mode[Parent[x]] \in MayPass
      <4>1. Parent[x] \in Way[x] /\ Parent[x] # x
          BY <1>7, <2>2, <3>1, WayStep, WayFacts, DirNumbers
      <4> QED
          BY <1>9, <4>1 DEF Listable
    <3> QED
        BY <1>7, <1>9, <2>2, <3>1, <3>2, DirNumbers
           DEF Entries, SubdirsSeen, Above, SubdirsOf
  <2> QED
      BY <2>1, <2>2
<1>17. Chain(s, x)
  <2>1. /\ Len(s) = n - 1 /\ s[n - 1].dir = Above(x)
        /\ \A k \in 1..n - 1 : s[k].dir = stack[k].dir /\ s[k].left = stack[k].left
    <3>1. ASSUME NEW k \in 1..n - 1
          PROVE  s[k].dir = stack[k].dir /\ s[k].left = stack[k].left
      <4>1. CASE k = n - 1
          BY <1>10, <1>11, <1>13, <4>1
      <4>2. CASE k \in 1..n - 2
          BY <1>11, <1>13, <4>2
      <4> QED
          BY <1>2, <4>1, <4>2
    <3> QED
        BY <1>6, <1>7, <1>11, <1>13, <3>1
  <2>2. s[1].dir = Caller
    <3>1. 1 \in 1..n - 1
        BY <1>1, <1>2 DEF n
    <3> QED
        BY <1>5, <2>1, <3>1
  <2>3. \A k \in 2..n - 1 : s[k].dir \in Dirs /\ Above(s[k].dir) = s[k - 1].dir
    <3>1. \A k \in 2..n - 1 : k \in 1..n - 1 /\ k - 1 \in 1..n - 1 /\ k \in 2..n
        BY <1>2
    <3> QED
        BY <1>5, <2>1, <3>1
  <2>4. \A k \in 1..n - 1 - 1 : Lists(s[k].left, After(s[k].dir, s[k + 1].dir))
    <3>1. \A k \in 1..n - 1 - 1 : k \in 1..n - 1 /\ k + 1 \in 1..n - 1
        BY <1>2
    <3> QED
        BY <1>5, <2>1, <3>1
  <2>5. Lists(s[n - 1].left, After(s[n - 1].dir, x))
    <3>1. n - 1 + 1 = n /\ stack[n].dir = x
        BY <1>2 DEF x
    <3>2. Lists(stack[n - 1].left, After(stack[n - 1].dir, stack[n - 1 + 1].dir))
        BY <1>5, <1>6
    <3> QED
        BY <1>6, <2>1, <3>1, <3>2
  <2>6. s[n - 1].err <=> x # s[n - 1].dir /\ Fails[x]
      BY <1>10, <1>11, <1>12, <1>13, <1>16, <2>1
  <2>7. x \in {s[n - 1].dir} \cup Entries(s[n - 1].dir)
      BY <1>16, <2>1
  <2> QED
      BY <2>1, <2>2, <2>3, <2>4, <2>5, <2>6, <2>7 DEF Chain
<1>18. \A b \in OnWay(Above(x)) : Listable(b)
    BY <1>7, <1>8, OnWayStep
<1>19. s[Len(s)].dir = y
    BY <1>7, <1>10, <1>11, <1>13
<1>20. /\ Record(ds, fs, Waiting(y, e), OnWay(y)) /\ Chain(s, e)
       /\ \A b \in OnWay(y) : Listable(b)
    BY <1>13, <1>15, <1>17, <1>18
<1>21. WalkAt(e)'
    BY <1>1, <1>13, <1>19, <1>20, WalkNow
<1> QED
    BY <1>21

-----------------------------------------------------------------------------
(***************************************************************************)
(* What is hashed when nothing changes.                                    *)
(***************************************************************************)

\* What walkFs sees of a file, but for its hash.
Seen(f) == IF Found(In[f]) THEN SeenAtts(f) ELSE None

ButHash(a, b) == IF a.kind = "file" THEN \E h \in Hashes : b = [a EXCEPT !.sha1 = h]
                 ELSE b = a

\* The files without a hash are those that wait for one and those whose error
\* was logged, whatever changes.
Logs ==
    /\ pc \in {"idle", "walk"} => logged = {}
    /\ todo \cap logged = {}
    /\ pc = "hash" => \A f \in Files : files[f].kind = "file" =>
                        (files[f].sha1 = NoHash <=> f \in todo \cup logged)

HashAt ==
    /\ \A d \in Dirs : dirs[d] = IF Found(d) THEN DirAtts(mode[d]) ELSE None
    /\ \A f \in Files : ButHash(Seen(f), files[f])
    /\ \A f \in Files : cmd = "check" /\ files[f].kind = "file" /\ f \notin todo =>
          files[f].sha1 = IF f \in logged THEN NoHash ELSE Bytes(ino[f])
    /\ \A f \in Files : handle[f] # NoIno =>
          handle[f] = ino[f] /\ first[f] = Bytes(ino[f])

QuietInv ==
    quiet => /\ pc = "walk" => \E m : WalkAt(m)
             /\ pc = "hash" \/ (pc = "report" /\ cmd = "check") => HashAt

LEMMA SameSeen ==
    ASSUME UNCHANGED <<mode, ino, node, rotten>>
    PROVE  /\ \A d : Found(d)' <=> Found(d)
           /\ \A f : Seen(f)' = Seen(f)
<1>1. \A d : Found(d)' <=> Found(d)
    BY SameTrees DEF Found
<1>2. \A f : SeenAtts(f)' = SeenAtts(f)
    BY SameTrees
<1> QED
    BY <1>1, <1>2 DEF Seen

LEMMA SeenTypes ==
    ASSUME Inv, NEW f \in Files
    PROVE  /\ Seen(f) \in FileAttsType
           /\ Seen(f).kind = "file" =>
                 /\ Seen(f) \in RegAttsType /\ Seen(f).sha1 = NoHash
                 /\ Found(In[f]) /\ ino[f] \in Inodes /\ Kind(ino[f]) = "file"
                 /\ Seen(f) = SeenAtts(f)
<1>1. ino[f] \in Inodes \cup {NoIno}
    BY DEF Inv, Types
<1>2. /\ AttsOf(ino[f]) \in FileAttsType
      /\ AttsOf(ino[f]).kind = "file" => Kind(ino[f]) = "file" /\ AttsOf(ino[f]).sha1 = NoHash
    BY <1>1, AttsTypes DEF Inv
<1>3. AttsOf(NoIno) = None
    BY DEF AttsOf
<1>4. Seen(f) = AttsOf(ino[f]) \/ Seen(f) = None
    BY DEF Seen, SeenAtts
<1>5. Seen(f).kind = "file" => Found(In[f]) /\ Seen(f) = SeenAtts(f)
    BY NoneTypes DEF Seen
<1> QED
    BY <1>1, <1>2, <1>3, <1>4, <1>5, NoneTypes DEF FileAttsType, None

LEMMA ButHashFacts ==
    ASSUME NEW a \in FileAttsType, NEW b
    PROVE  /\ ButHash(a, b) => b.kind = a.kind
           /\ a.kind = "file" => \A h \in Hashes :
                 /\ ButHash(a, [a EXCEPT !.sha1 = h])
                 /\ [a EXCEPT !.sha1 = h].sha1 = h /\ [a EXCEPT !.sha1 = h].kind = "file"
           /\ a.kind = "file" /\ ButHash(a, b) => b = [a EXCEPT !.sha1 = b.sha1]
           /\ a.kind = "file" /\ ButHash(a, b) =>
                 \A h \in Hashes : ButHash(a, [b EXCEPT !.sha1 = h])
                                   /\ [b EXCEPT !.sha1 = h].sha1 = h
           /\ a.kind = "file" => ButHash(a, a)
<1>1. CASE a.kind = "file"
  <2>1. a \in RegAttsType
      BY <1>1 DEF FileAttsType, None
  <2>2. \A h \in Hashes : /\ [a EXCEPT !.sha1 = h] \in RegAttsType
                          /\ [a EXCEPT !.sha1 = h].sha1 = h
                          /\ [a EXCEPT !.sha1 = h].kind = "file"
      BY <2>1 DEF RegAttsType
  <2>3. \A h \in Hashes : ButHash(a, [a EXCEPT !.sha1 = h])
      BY <1>1 DEF ButHash
  <2>4. a = [a EXCEPT !.sha1 = a.sha1] /\ a.sha1 \in Hashes
      BY <2>1 DEF RegAttsType
  <2>5. ASSUME ButHash(a, b)
        PROVE  /\ b.kind = "file" /\ b = [a EXCEPT !.sha1 = b.sha1]
               /\ \A h \in Hashes : ButHash(a, [b EXCEPT !.sha1 = h])
                                    /\ [b EXCEPT !.sha1 = h].sha1 = h
    <3>1. PICK g \in Hashes : b = [a EXCEPT !.sha1 = g]
        BY <1>1, <2>5 DEF ButHash
    <3>2. b \in RegAttsType /\ b.sha1 = g /\ b.kind = "file"
        BY <2>2, <3>1
    <3>3. \A h \in Hashes : [b EXCEPT !.sha1 = h] = [a EXCEPT !.sha1 = h]
        BY <2>1, <3>1 DEF RegAttsType
    <3> QED
        BY <2>2, <2>3, <3>1, <3>2, <3>3
  <2>6. ButHash(a, a)
      BY <1>1, <2>4 DEF ButHash
  <2> QED
      BY <1>1, <2>2, <2>3, <2>5, <2>6
<1>2. CASE a.kind # "file"
    BY <1>2 DEF ButHash
<1> QED
    BY <1>1, <1>2

\* When the walk is over, the new tree is what is there.
LEMMA WalkOver ==
    ASSUME Inv, RestTypes, NEW m, WalkAt(m), WalkDone
    PROVE  /\ Top.err <=> Fails[0]
           /\ \A d \in Dirs : dirs[d] = IF Found(d) THEN DirAtts(mode[d]) ELSE None
           /\ \A f \in Files : files[f] = Seen(f)
<1>1. pc = "walk" /\ Len(stack) = 1 /\ Top.left = << >>
    BY DEF WalkDone
<1>2. Top = stack[1] /\ Top.dir = Caller
    BY <1>1 DEF Top, WalkAt, Chain
<1>3. /\ m \in {Caller} \cup Entries(Caller)
      /\ Lists(<< >>, After(Caller, m))
      /\ Top.err <=> m # Caller /\ Fails[m]
    BY <1>1, <1>2, TopWalks
<1>4. After(Caller, m) = {}
  <2> SUFFICES ASSUME NEW c \in After(Caller, m) PROVE FALSE
      OBVIOUS
  <2>1. \E i \in 1..Len(<< >>) : << >>[i] = c
      BY <1>3 DEF Lists
  <2> QED
      BY <2>1
<1>5. Entries(Caller) = {0}
    BY DEF Entries
<1>6. m = 0
    BY <1>3, <1>4, <1>5, DirNumbers DEF After
<1>7. OnWay(Caller) = {} /\ Waiting(Caller, m) = {}
    BY <1>4 DEF OnWay, Waiting
<1>8. Record(dirs, files, {}, {})
    BY <1>2, <1>7 DEF WalkAt
<1>9. \A d \in Dirs : Clear(d, {}, {}) <=>
          \A c \in Way[d] : ~ Fails[c] /\ (c # d => mode[c] \in MayPass)
    BY DEF Clear
<1>10. ASSUME NEW d \in Dirs, \A c \in Way[d] : ~ Fails[c] PROVE mode[d] # "gone"
  <2>1. d \in Way[d]
      BY WayFacts
  <2>2. ~ Fails[d]
      BY <1>10, <2>1
  <2>3. Listable(d)
      BY <2>2, FailsStep DEF Fail
  <2> QED
      BY <2>3, ScanAssumption DEF Listable
<1>11. \A f \in Files : In[f] \in Dirs
    BY TreeAssumption
<1> QED
    BY <1>3, <1>6, <1>8, <1>9, <1>10, <1>11, DirNumbers DEF Record, Found, Seen

LEMMA StartHashingQuiet ==
    ASSUME Inv, RestTypes, quiet, QuietInv, StartHashing
    PROVE  HashAt'
<1>1. /\ WalkDone /\ pc = "walk"
      /\ files' = IF cmd = "scan" THEN [f \in Files |-> Updated(files[f])] ELSE files
      /\ todo' = {f \in Files : files'[f].kind = "file" /\ files'[f].sha1 = NoHash}
      /\ UNCHANGED <<mode, ino, node, rotten, cmd, dirs, handle, first>>
    BY DEF StartHashing, Migrate, WalkDone, disk
<1>2. PICK m : WalkAt(m)
    BY <1>1 DEF QuietInv
<1>3. /\ \A d \in Dirs : dirs[d] = IF Found(d) THEN DirAtts(mode[d]) ELSE None
      /\ \A f \in Files : files[f] = Seen(f)
    BY <1>1, <1>2, WalkOver
<1>4. ASSUME NEW f \in Files
      PROVE  /\ ButHash(Seen(f), files'[f])
             /\ files'[f].kind = "file" /\ cmd = "check" => f \in todo'
  <2>1. /\ Seen(f) \in FileAttsType
        /\ Seen(f).kind = "file" => Seen(f) \in RegAttsType /\ Seen(f).sha1 = NoHash
      BY SeenTypes
  <2>2. CASE files'[f] = Seen(f)
      BY <1>1, <2>1, <2>2, ButHashFacts DEF ButHash
  <2>3. CASE cmd = "scan" /\ files'[f] # Seen(f)
    <3>1. files'[f] = Updated(Seen(f))
        BY <1>1, <1>3, <2>3
    <3> DEFINE a    == Seen(f)
               same == {g \in OldFiles(a.ino) : SameAtts(old.file[g], a)}
    <3>2. a.kind = "file" /\ same # {}
        BY <2>3, <3>1 DEF Updated
    <3>3. PICK g \in same : g = CHOOSE h \in same : TRUE
        BY <3>2
    <3>4. files'[f] = [a EXCEPT !.sha1 = old.file[g].sha1]
        BY <3>1, <3>2, <3>3 DEF Updated
    <3>5. g \in Files /\ Hashed(old.file[g]) /\ old.file[g] \in FileAttsType
        BY <3>3 DEF OldFiles, Inv, Types
    <3>6. old.file[g].sha1 \in Hashes
        BY <3>5 DEF Hashed, FileAttsType, None, RegAttsType
    <3> HIDE DEF a, same
    <3>7. ButHash(a, files'[f])
        BY <3>2, <3>4, <3>6 DEF ButHash
    <3> QED
        BY <2>3, <3>7 DEF a
  <2> QED
      BY <1>1, <1>3, <2>2, <2>3
<1>5. \A f \in Files : handle[f] = NoIno
    BY <1>1, Unopened DEF Inv
<1>6. /\ \A d : Found(d)' <=> Found(d)
      /\ \A f : Seen(f)' = Seen(f)
    BY <1>1, SameSeen
<1>7. \A d \in Dirs : dirs'[d] = IF Found(d)' THEN DirAtts(mode[d])' ELSE None
    BY <1>1, <1>3, <1>6 DEF DirAtts
<1>8. \A f \in Files : ButHash(Seen(f), files[f])'
    BY <1>4, <1>6 DEF ButHash
<1>9. \A f \in Files : files'[f].kind = "file" /\ f \notin todo' => cmd' # "check"
    BY <1>1, <1>4
<1> QED
    BY <1>1, <1>5, <1>7, <1>8, <1>9 DEF HashAt

\* A worker has f open, or is to.
LEMMA QuietFile ==
    ASSUME Inv, HashAt, NEW f \in todo
    PROVE  /\ f \in Files /\ files[f].kind = "file" /\ Seen(f).kind = "file"
           /\ ino[f] \in Inodes
<1>1. f \in Files /\ files[f].kind = "file"
    BY DEF Inv, Types, Phases
<1>2. Seen(f) \in FileAttsType /\ ButHash(Seen(f), files[f])
    BY <1>1, SeenTypes DEF HashAt
<1>3. Seen(f).kind = "file"
    BY <1>1, <1>2, ButHashFacts
<1>4. ino[f] \in Inodes
    BY <1>1, <1>3, SeenTypes
<1> QED
    BY <1>1, <1>3, <1>4

LEMMA OpenQuiet ==
    ASSUME Inv, HashAt, NEW f \in Files, OpenFile(f)
    PROVE  HashAt'
<1>1. /\ UNCHANGED <<mode, ino, node, rotten, cmd, dirs, files, todo, logged>>
      /\ handle' = [handle EXCEPT ![f] = ino[f]]
      /\ first' = [first EXCEPT ![f] = Bytes(ino[f])]
    BY DEF OpenFile, disk, walk
<1>2. /\ \A d : Found(d)' <=> Found(d)
      /\ \A g : Seen(g)' = Seen(g)
    BY <1>1, SameSeen
<1>3. \A g \in Files : handle'[g] # NoIno => handle'[g] = ino[g] /\ first'[g] = Bytes(ino[g])
    BY <1>1 DEF HashAt, Inv, Types
<1>4. \A g : Bytes(ino[g])' = Bytes(ino[g])
    BY <1>1 DEF Bytes, Kind
<1> QED
    BY <1>1, <1>2, <1>3, <1>4 DEF HashAt, ButHash, DirAtts

LEMMA FailQuiet ==
    ASSUME Inv, Logs, HashAt, NEW f \in Files, HashFails(f)
    PROVE  HashAt'
<1>1. /\ pc = "hash" /\ f \in todo
      /\ todo' = todo \ {f} /\ logged' = logged \cup {f}
      /\ handle' = [handle EXCEPT ![f] = NoIno]
      /\ first' = [first EXCEPT ![f] = Other]
      /\ UNCHANGED <<mode, ino, node, rotten, cmd, dirs, files>>
    BY DEF HashFails, HashError, disk, walk
<1>2. /\ \A d : Found(d)' <=> Found(d)
      /\ \A g : Seen(g)' = Seen(g)
      /\ \A g : Bytes(ino[g])' = Bytes(ino[g])
    BY <1>1, SameSeen DEF Bytes, Kind
<1>3. /\ handle'[f] = NoIno
      /\ \A g \in Files \ {f} : handle'[g] = handle[g] /\ first'[g] = first[g]
    BY <1>1 DEF Inv, Types
<1>4. files[f].kind = "file" => files[f].sha1 = NoHash
    BY <1>1 DEF Logs
<1>5. \A g \in Files : cmd' = "check" /\ files'[g].kind = "file" /\ g \notin todo' =>
          files'[g].sha1 = IF g \in logged' THEN NoHash ELSE Bytes(ino[g])'
    BY ZenonT(40), <1>1, <1>2, <1>4 DEF HashAt
<1>6. \A g \in Files : handle'[g] # NoIno => handle'[g] = ino'[g] /\ first'[g] = Bytes(ino[g])'
    BY <1>1, <1>2, <1>3 DEF HashAt
<1>7. /\ \A g \in Files : ButHash(Seen(g), files[g])'
      /\ \A d \in Dirs : dirs'[d] = IF Found(d)' THEN DirAtts(mode[d])' ELSE None
    BY <1>1, <1>2 DEF HashAt, ButHash, DirAtts
<1> QED
    BY <1>5, <1>6, <1>7 DEF HashAt

LEMMA ReadQuiet ==
    ASSUME Inv, Logs, HashAt, NEW f \in Files, ReadFile(f)
    PROVE  HashAt'
<1>1. /\ f \in todo /\ handle[f] # NoIno /\ todo' = todo \ {f}
      /\ handle' = [handle EXCEPT ![f] = NoIno]
      /\ UNCHANGED <<mode, ino, node, rotten, cmd, dirs, logged>>
      /\ first' = [first EXCEPT ![f] = Other]
    BY DEF ReadFile, disk, walk
<1>2. first[f] = Bytes(handle[f]) /\ handle[f] = ino[f]
    BY <1>1 DEF HashAt
<1>3. PICK x : x = Bytes(ino[f]) /\ files' = [files EXCEPT ![f].sha1 = x]
    BY <1>2 DEF ReadFile
<1>4. Seen(f).kind = "file" /\ ino[f] \in Inodes
    BY <1>1, QuietFile
<1>5. x \in Hashes /\ f \notin logged
    BY <1>1, <1>3, <1>4, BytesTypes DEF Inv, Hashes, Logs
<1>6. Seen(f) \in FileAttsType /\ ButHash(Seen(f), files[f])
    BY SeenTypes DEF HashAt
<1>7. ButHash(Seen(f), [files[f] EXCEPT !.sha1 = x]) /\ [files[f] EXCEPT !.sha1 = x].sha1 = x
    BY <1>4, <1>5, <1>6, ButHashFacts
<1>8. /\ files'[f] = [files[f] EXCEPT !.sha1 = x]
      /\ \A g \in Files \ {f} : files'[g] = files[g]
    BY <1>3 DEF Inv, Types
<1>9. /\ \A d : Found(d)' <=> Found(d)
      /\ \A g : Seen(g)' = Seen(g)
      /\ \A g : Bytes(ino[g])' = Bytes(ino[g])
    BY <1>1, SameSeen DEF Bytes, Kind
<1>10. /\ handle'[f] = NoIno
       /\ \A g \in Files \ {f} : handle'[g] = handle[g] /\ first'[g] = first[g]
    BY <1>1 DEF Inv, Types
<1>11. \A g \in Files : ButHash(Seen(g), files'[g])
    BY ZenonT(40), <1>7, <1>8 DEF HashAt
<1>12. \A g \in Files : ButHash(Seen(g), files[g])'
    BY <1>9, <1>11 DEF ButHash
<1>13. \A g \in Files : cmd' = "check" /\ files'[g].kind = "file" /\ g \notin todo' =>
           files'[g].sha1 = IF g \in logged' THEN NoHash ELSE Bytes(ino[g])'
    BY ZenonT(40), <1>1, <1>3, <1>5, <1>7, <1>8, <1>9 DEF HashAt
<1>14. \A g \in Files : handle'[g] # NoIno => handle'[g] = ino'[g] /\ first'[g] = Bytes(ino[g])'
    BY <1>1, <1>9, <1>10 DEF HashAt
<1>15. \A d \in Dirs : dirs'[d] = IF Found(d)' THEN DirAtts(mode[d])' ELSE None
    BY <1>1, <1>9 DEF HashAt, DirAtts
<1> QED
    BY <1>12, <1>13, <1>14, <1>15 DEF HashAt

LEMMA WalkStays ==
    ASSUME NEW m, WalkAt(m), UNCHANGED <<mode, ino, node, rotten, stack, dirs, files>>
    PROVE  WalkAt(m)'
<1>1. PICK s, ds, fs, x : s = stack /\ ds = dirs /\ fs = files /\ x = Top.dir
    OBVIOUS
<1>2. s[Len(s)].dir = x
    BY <1>1 DEF Top
<1>3. Chain(s, m) /\ (\A b \in OnWay(x) : Listable(b)) /\ Record(ds, fs, Waiting(x, m), OnWay(x))
    BY <1>1 DEF WalkAt
<1> QED
    BY <1>1, <1>2, <1>3, WalkNow

LEMMA HashStays ==
    ASSUME HashAt,
           UNCHANGED <<mode, ino, node, rotten, cmd, dirs, files, todo, logged, handle, first>>
    PROVE  HashAt'
<1>1. /\ \A d : Found(d)' <=> Found(d)
      /\ \A g : Seen(g)' = Seen(g)
      /\ \A g : Bytes(ino[g])' = Bytes(ino[g])
    BY SameSeen DEF Bytes, Kind
<1> QED
    BY <1>1 DEF HashAt, ButHash, DirAtts

LEMMA NextLogs ==
    ASSUME Inv, Logs, [Next]_vars
    PROVE  Logs'
<1>1. ASSUME UNCHANGED <<pc, files, todo, logged>> PROVE Logs'
    BY <1>1 DEF Logs
<1>2. ASSUME pc' \in {"walk", "report"}, todo' = todo, logged' = logged,
             pc' = "walk" => pc \in {"idle", "walk"}
      PROVE  Logs'
    BY <1>2 DEF Logs
<1>3. CASE User \/ UNCHANGED vars
  <2>1. UNCHANGED gosure
      BY <1>3 DEF User, Create, WriteFile, Unlink, Rename, HardLink, Chmod, MakeDir,
                  RemoveDir, MoveDirs, Rot, Tick, Change, vars
  <2> QED
      BY <1>1, <2>1 DEF gosure, hashing
<1>4. CASE Scan \/ Check \/ Signoff \/ Descend \/ Return \/ CompareWithDisk
    BY <1>2, <1>4 DEF Scan, Check, Begin, Signoff, Descend, Return, CompareWithDisk, hashing
<1>5. CASE WalkFails \/ WriteVersion \/ Reported
    BY <1>5 DEF WalkFails, WriteVersion, Reported, End, Logs
<1>6. CASE StartHashing
  <2>1. /\ pc = "walk" /\ pc' = "hash" /\ logged' = logged
        /\ todo' = {f \in Files : files'[f].kind = "file" /\ files'[f].sha1 = NoHash}
      BY <1>6 DEF StartHashing, Migrate, WalkDone
  <2>2. logged = {}
      BY <2>1 DEF Logs
  <2> QED
      BY <2>1, <2>2 DEF Logs
<1>7. ASSUME NEW f \in Files, OpenFile(f) PROVE Logs'
    BY <1>1, <1>7 DEF OpenFile
<1>8. ASSUME NEW f \in Files, HashFails(f) PROVE Logs'
  <2>1. /\ pc = "hash" /\ f \in todo /\ pc' = pc /\ files' = files
        /\ todo' = todo \ {f} /\ logged' = logged \cup {f}
      BY <1>8 DEF HashFails, HashError
  <2> QED
      BY <2>1 DEF Logs
<1>9. ASSUME NEW f \in Files, ReadFile(f) PROVE Logs'
  <2>1. /\ pc = "hash" /\ f \in todo /\ handle[f] # NoIno /\ pc' = pc
        /\ todo' = todo \ {f} /\ logged' = logged
      BY <1>9 DEF ReadFile
  <2>2. PICK x \in {first[f], Bytes(handle[f]), Other} :
            files' = [files EXCEPT ![f].sha1 = x]
      BY <1>9 DEF ReadFile
  <2>3. x # NoHash
    <3>1. first[f] \in Contents /\ handle[f] \in Inodes
        BY <2>1 DEF Inv, Types
    <3>2. Bytes(handle[f]) \in Contents
        BY <3>1, BytesTypes DEF Inv
    <3> QED
        BY <2>2, <3>1, <3>2, ScanAssumption DEF Contents
  <2>4. files[f] \in RegAttsType
    <3>1. files[f] \in FileAttsType /\ files[f].kind = "file"
        BY <1>9, <2>1 DEF Inv, Types, Phases
    <3> QED
        BY <3>1 DEF FileAttsType, None
  <2>5. /\ files'[f].sha1 = x
        /\ \A g \in Files \ {f} : files'[g] = files[g]
      BY <2>2, <2>4 DEF Inv, Types, RegAttsType
  <2>6. f \notin logged
      BY <2>1 DEF Logs
  <2>7. ASSUME NEW g \in Files, files'[g].kind = "file"
        PROVE  files'[g].sha1 = NoHash <=> g \in todo' \cup logged'
    <3>1. CASE g = f
        BY <2>1, <2>3, <2>5, <2>6, <3>1
    <3>2. CASE g # f
        BY <2>1, <2>5, <2>7, <3>2 DEF Logs
    <3> QED
        BY <3>1, <3>2
  <2> QED
      BY <2>1, <2>7 DEF Logs
<1> QED
    BY <1>3, <1>4, <1>5, <1>6, <1>7, <1>8, <1>9 DEF Next, Walk, Hash, Finish

LEMMA NextQuiet ==
    ASSUME Inv, RestTypes, Logs, QuietInv, [Next]_vars
    PROVE  QuietInv'
<1>1. CASE User
  <2>1. \/ UNCHANGED <<cmd, pc>> /\ quiet' = (quiet /\ cmd = "none")
        \/ UNCHANGED <<mode, ino, node, rotten, gosure, quiet>>
    <3>1. Change => UNCHANGED <<cmd, pc>> /\ quiet' = (quiet /\ cmd = "none")
        BY DEF Change, gosure
    <3>2. Change \/ Tick
        BY <1>1 DEF User, Create, WriteFile, Unlink, Rename, HardLink, Chmod, MakeDir,
           RemoveDir, MoveDirs, Rot
    <3> QED
        BY <3>1, <3>2 DEF Tick
  <2>2. CASE UNCHANGED <<cmd, pc>> /\ quiet' = (quiet /\ cmd = "none")
      BY <2>2 DEF QuietInv, Inv, Phases
  <2>3. CASE UNCHANGED <<mode, ino, node, rotten, gosure, quiet>>
    <3>1. UNCHANGED <<mode, ino, node, rotten, stack, dirs, files, cmd, pc, todo, logged,
                        handle, first, quiet>>
        BY <2>3 DEF gosure, walk, hashing
    <3> QED
        BY <3>1, WalkStays, HashStays DEF QuietInv
  <2> QED
      BY <2>1, <2>2, <2>3
<1>2. CASE Scan \/ Check
  <2>1. PICK c, v : c \in {"scan", "check"} /\ Begin(c, v)
      BY <1>2 DEF Scan, Check
  <2>2. WalkAt(Caller)' /\ pc' = "walk"
      BY <2>1, BeginWalk DEF Begin
  <2> QED
      BY <2>2 DEF QuietInv
<1>3. CASE Signoff
    BY <1>3 DEF Signoff, QuietInv
<1>4. CASE WalkFails \/ WriteVersion \/ Reported
    BY <1>4 DEF WalkFails, WriteVersion, Reported, End, QuietInv
<1>5. CASE Descend
  <2>1. pc = "walk" /\ pc' = "walk" /\ quiet' = quiet
      BY <1>5 DEF Descend
  <2> QED
      BY <1>5, <2>1, DescendWalks DEF QuietInv
<1>6. CASE Return
  <2>1. pc = "walk" /\ pc' = "walk" /\ quiet' = quiet
      BY <1>6 DEF Return
  <2> QED
      BY <1>6, <2>1, ReturnWalks DEF QuietInv
<1>7. CASE StartHashing
  <2>1. pc' = "hash" /\ quiet' = quiet
      BY <1>7 DEF StartHashing
  <2> QED
      BY <1>7, <2>1, StartHashingQuiet DEF QuietInv
<1>8. ASSUME NEW f \in Files, OpenFile(f) \/ ReadFile(f) \/ HashFails(f) PROVE QuietInv'
  <2>1. pc = "hash" /\ pc' = "hash" /\ quiet' = quiet
      BY <1>8 DEF OpenFile, ReadFile, HashFails
  <2> QED
      BY <1>8, <2>1, OpenQuiet, ReadQuiet, FailQuiet DEF QuietInv
<1>9. CASE CompareWithDisk
  <2>1. /\ pc = "hash" /\ pc' = "report" /\ quiet' = quiet
        /\ UNCHANGED <<mode, ino, node, rotten, cmd, dirs, files, todo, logged, handle, first>>
      BY <1>9 DEF CompareWithDisk, disk, walk, hashing
  <2> QED
      BY <2>1, HashStays DEF QuietInv
<1>10. CASE UNCHANGED vars
  <2>1. UNCHANGED <<mode, ino, node, rotten, stack, dirs, files, cmd, pc, todo, logged,
                        handle, first, quiet>>
      BY <1>10 DEF vars, disk, gosure, walk, hashing
  <2> QED
      BY <2>1, WalkStays, HashStays DEF QuietInv
<1> QED
    BY <1>1, <1>2, <1>3, <1>4, <1>5, <1>6, <1>7, <1>8, <1>9, <1>10
       DEF Next, Walk, Hash, Finish

\* DiskTree with the hashes h[f].
Listed(h) ==
    [dir  |-> [d \in Dirs |-> IF Found(d) THEN DirAtts(mode[d]) ELSE None],
     file |-> [f \in Files |->
                  IF Found(In[f]) /\ Has(SeenAtts(f))
                  THEN IF Kind(ino[f]) = "file" THEN [SeenAtts(f) EXCEPT !.sha1 = h[f]]
                       ELSE SeenAtts(f)
                  ELSE None]]

\* The new tree is what is on the disk, with its hashes.
LEMMA NewTreeListed ==
    ASSUME Inv, HashAt, NEW h,
           \A f \in Files : files[f].kind = "file" => files[f].sha1 = h[f]
    PROVE  NewTree = Listed(h)
<1>1. dirs = [d \in Dirs |-> IF Found(d) THEN DirAtts(mode[d]) ELSE None]
    BY DEF Inv, Types, HashAt
<1>2. ASSUME NEW f \in Files
      PROVE  files[f] = IF Found(In[f]) /\ Has(SeenAtts(f))
                        THEN IF Kind(ino[f]) = "file" THEN [SeenAtts(f) EXCEPT !.sha1 = h[f]]
                             ELSE SeenAtts(f)
                        ELSE None
  <2>1. Seen(f) \in FileAttsType /\ ButHash(Seen(f), files[f])
      BY SeenTypes DEF HashAt
  <2>2. CASE Seen(f).kind = "file"
    <3>1. Found(In[f]) /\ Kind(ino[f]) = "file" /\ Seen(f) = SeenAtts(f)
        BY <2>2, SeenTypes
    <3>2. files[f] = [Seen(f) EXCEPT !.sha1 = files[f].sha1] /\ files[f].kind = "file"
        BY <2>1, <2>2, ButHashFacts
    <3>3. Has(SeenAtts(f))
        BY <2>2, <3>1 DEF Has
    <3> QED
        BY <3>1, <3>2, <3>3
  <2>3. CASE Seen(f).kind # "file"
    <3>1. files[f] = Seen(f)
        BY <2>1, <2>3 DEF ButHash
    <3>2. CASE ~ Found(In[f])
        BY <3>1, <3>2 DEF Seen
    <3>3. CASE Found(In[f])
      <4>1. Seen(f) = SeenAtts(f)
          BY <3>3 DEF Seen
      <4>2. CASE ~ Has(SeenAtts(f))
        <5>1. SeenAtts(f) = None
            BY <2>1, <4>1, <4>2 DEF Has, FileAttsType, RegAttsType
        <5> QED
            BY <3>1, <4>1, <4>2, <5>1
      <4>3. CASE Has(SeenAtts(f))
        <5>1. SeenAtts(f) = AttsOf(ino[f]) /\ ino[f] # NoIno
            BY <4>3 DEF SeenAtts, AttsOf, Has, None
        <5>2. Kind(ino[f]) # "file"
            BY <2>3, <4>1, <5>1 DEF AttsOf, RegAtts
        <5> QED
            BY <3>1, <3>3, <4>1, <4>3, <5>2
      <4> QED
          BY <4>2, <4>3
    <3> QED
        BY <3>2, <3>3
  <2> QED
      BY <2>2, <2>3
<1>3. files = [f \in Files |-> files[f]]
    BY DEF Inv, Types
<1>4. files = [f \in Files |->
                  IF Found(In[f]) /\ Has(SeenAtts(f))
                  THEN IF Kind(ino[f]) = "file" THEN [SeenAtts(f) EXCEPT !.sha1 = h[f]]
                       ELSE SeenAtts(f)
                  ELSE None]
    BY Zenon, <1>2, <1>3
<1> QED
    BY <1>1, <1>4 DEF NewTree, Listed

LEMMA Quietness == Spec => [](Inv /\ RestTypes /\ Logs /\ QuietInv)
<1>1. Init => Logs /\ QuietInv
    BY DEF Init, Logs, QuietInv
<1>2. Inv /\ RestTypes /\ Logs /\ QuietInv /\ [Next]_vars => Logs' /\ QuietInv'
    BY NextLogs, NextQuiet
<1> QED
    BY <1>1, <1>2, TypesHold, PTL DEF Spec

\* When nothing changes while a tree is walked, the new tree is what is on the
\* disk, but for what walkFs does not find or loses.  Whatever changes, the
\* files without a hash are those whose error was logged.
THEOREM QuietScansAreTrue == Spec => []QuietScan
<1>1. ASSUME Inv, RestTypes, Logs, QuietInv PROVE QuietScan
  <2>1. ASSUME quiet, WalkDone PROVE Top.err <=> Fails[0]
    <3>1. PICK m : WalkAt(m)
        BY <1>1, <2>1 DEF WalkDone, QuietInv
    <3> QED
        BY <1>1, <2>1, <3>1, WalkOver
  <2>2. ASSUME pc = "hash", todo = {}, NEW f \in Files, files[f].kind = "file"
        PROVE  files[f].sha1 = NoHash <=> f \in logged
      BY <1>1, <2>2 DEF Logs
  <2>3. ASSUME pc = "hash", quiet
        PROVE  NewTree = DiskTree(LAMBDA f : files[f].sha1)
    <3>1. HashAt
        BY <1>1, <2>3 DEF QuietInv
    <3> DEFINE h == [f \in Files |-> files[f].sha1]
    <3>2. \A f \in Files : h[f] = files[f].sha1
        OBVIOUS
    <3>3. DiskTree(LAMBDA f : files[f].sha1) = Listed(h)
        BY DEF DiskTree, Listed
    <3> HIDE DEF h
    <3> QED
        BY <1>1, <3>1, <3>2, <3>3, NewTreeListed
  <2> QED
      BY <2>1, <2>2, <2>3 DEF QuietScan
<1> QED
    BY <1>1, Quietness, PTL

-----------------------------------------------------------------------------
(***************************************************************************)
(* Every tree that is compared has the directory around each one that it   *)
(* has, whatever happened to the disk while it was walked.                 *)
(***************************************************************************)

DirsClosed(ds) == \A c \in Subdirs : Has(ds[c]) => Has(ds[Parent[c]])

\* What walkFs has yet to look at is in the new tree and is not being walked;
\* directory 0 is in it until the walk is over with an error.
Walking(s, ds) ==
    /\ s[1].dir = Caller
    /\ \A j, k \in 1..Len(s) : j < k => s[j].dir < s[k].dir
    /\ \A k \in 1..Len(s) : \A i \in 1..Len(s[k].left) :
          /\ Above(s[k].left[i]) = s[k].dir
          /\ Has(ds[s[k].left[i]])
          /\ \A j \in 1..Len(s) : s[k].left[i] # s[j].dir
    /\ \A k \in 1..Len(s) : \A i, j \in 1..Len(s[k].left) :
          i < j => s[k].left[i] < s[k].left[j]
    /\ DirsClosed(ds)
    /\ Has(ds[0]) \/ (Len(s) = 1 /\ s[1].left = << >> /\ s[1].err)

ClosedInv ==
    /\ pc = "walk" => Walking(stack, dirs)
    /\ pc = "hash" => Closed(NewTree)
    /\ pc = "report" => /\ Closed(old) /\ Closed(NewTree)
                        /\ report = CompareTrees(old, NewTree)
    /\ cmd = "check" => Closed(old)
    /\ \A k \in 1..Len(store) : Closed(store[k])

LEMMA AboveFacts ==
    ASSUME NEW d \in Dirs
    PROVE  /\ Above(d) \in Dirs \cup {Caller} /\ Above(d) \in Int /\ Above(d) < d
           /\ Above(d) = Caller <=> d = 0
<1>1. Above(d) \in Dirs \cup {Caller} /\ Above(d) < d
    BY OnWayStep
<1>2. Above(d) = Caller <=> d = 0
    BY ParentBelow, DirNumbers DEF Above
<1> QED
    BY <1>1, <1>2, DirNumbers

\* A directory below d, other than d, is in one that is not before d.
LEMMA BelowAbove ==
    ASSUME NEW d \in Dirs, NEW e \in Dirs, d \in Way[e], e # d
    PROVE  d <= Above(e)
<1>1. e # 0
    BY WayStep
<1>2. d \in Way[Parent[e]] /\ Parent[e] \in Dirs
    BY <1>1, WayStep, ParentBelow
<1> QED
    BY <1>1, <1>2, WayFacts DEF Above

LEMMA CutCloses ==
    ASSUME NEW d \in Dirs, NEW ds, DirsClosed(ds),
           NEW ds2, \A c \in Dirs : ds2[c] = IF d \in Way[c] THEN None ELSE ds[c]
    PROVE  DirsClosed(ds2)
<1> SUFFICES ASSUME NEW c \in Subdirs, Has(ds2[c])
             PROVE  Has(ds2[Parent[c]])
    BY DEF DirsClosed
<1>1. c \in Dirs /\ c # 0 /\ Parent[c] \in Dirs
    BY TreeAssumption DEF Subdirs, Dirs
<1>2. d \notin Way[c] /\ Has(ds[c])
    BY <1>1 DEF Has, None
<1>3. d \notin Way[Parent[c]]
    BY <1>1, <1>2, WayStep
<1> QED
    BY <1>1, <1>2, <1>3 DEF DirsClosed

\* What is left of the top frame is taken one by one.
LEMMA TopAwaits ==
    ASSUME RestTypes, pc = "walk", Walking(stack, dirs)
    PROVE  LET n == Len(stack)
           IN  /\ Top.dir = stack[n].dir /\ Top.left = stack[n].left
               /\ \A k \in 1..n : stack[k].dir \in Dirs \cup {Caller} /\ stack[k].dir \in Int
               /\ \A k \in 1..n : stack[k].dir <= Top.dir
               /\ \A k \in 1..n - 1 : stack[k].dir < Top.dir
               /\ n # 1 => Top.dir # Caller
               /\ \A k \in 1..n : \A i \in 1..Len(stack[k].left) : stack[k].left[i] \in Dirs
               /\ Top.left # << >> => Has(dirs[0])
<1> DEFINE n == Len(stack)
<1>1. n \in Nat \ {0} /\ Top = stack[n] /\ \A k \in 1..n : stack[k] \in FrameType
    BY TopTypes
<1>2. \A k \in 1..n : stack[k].dir \in Dirs \cup {Caller} /\ stack[k].left \in Seq(Dirs)
    BY <1>1 DEF FrameType
<1>3. \A k \in 1..n : stack[k].dir \in Int
    BY <1>2, DirNumbers
<1>4. \A k \in 1..n - 1 : stack[k].dir < stack[n].dir
    BY <1>1 DEF Walking
<1>5. \A k \in 1..n : stack[k].dir <= stack[n].dir
  <2> SUFFICES ASSUME NEW k \in 1..n PROVE stack[k].dir <= stack[n].dir
      OBVIOUS
  <2>1. CASE k = n
      BY <1>1, <1>3, <2>1
  <2>2. CASE k # n
    <3>1. k \in 1..n - 1 /\ n \in 1..n
      <4> HIDE DEF n
      <4> QED
          BY <1>1, <2>2
    <3>2. stack[k].dir \in Int /\ stack[n].dir \in Int /\ stack[k].dir < stack[n].dir
        BY <1>3, <1>4, <3>1
    <3> QED
        BY <3>2
  <2> QED
      BY <2>1, <2>2
<1>6. n # 1 => stack[n].dir # Caller
  <2> SUFFICES ASSUME n # 1 PROVE stack[n].dir # Caller
      OBVIOUS
  <2>1. 1 \in 1..n - 1 /\ 1 \in 1..n
    <3> HIDE DEF n
    <3> QED
        BY <1>1
  <2>2. Caller < stack[n].dir
      BY <1>4, <2>1 DEF Walking
  <2> QED
      BY <2>2, DirNumbers
<1>7. \A k \in 1..n : \A i \in 1..Len(stack[k].left) : stack[k].left[i] \in Dirs
    BY <1>2, ElementOfSeq
<1>8. stack[n].left # << >> => Has(dirs[0])
    BY <1>1 DEF Walking
<1> QED
    BY <1>1, <1>2, <1>3, <1>4, <1>5, <1>6, <1>7, <1>8

LEMMA DescendCloses ==
    ASSUME RestTypes, Walking(stack, dirs), Descend
    PROVE  Walking(stack', dirs')
<1> DEFINE x      == Top.dir
           d      == Head(Top.left)
           caller == [Top EXCEPT !.left = Tail(Top.left)]
           subs   == SubdirsSeen(d)
           failed == [caller EXCEPT !.err = TRUE]
           called == Frame(d, byName(subs), FALSE)
           n      == Len(stack)
<1>1. pc = "walk" /\ Top.left # << >>
    BY DEF Descend
<1>2. /\ n \in Nat \ {0} /\ Top \in FrameType /\ Top = stack[n]
      /\ Rest \in Seq(FrameType) /\ Len(Rest) = n - 1
      /\ \A k \in 1..n - 1 : Rest[k] = stack[k]
    BY <1>1, TopTypes
<1>3. /\ x = stack[n].dir /\ Top.left = stack[n].left
      /\ \A k \in 1..n : stack[k].dir \in Dirs \cup {Caller} /\ stack[k].dir \in Int
      /\ \A k \in 1..n : stack[k].dir <= x
      /\ \A k \in 1..n - 1 : stack[k].dir < x
      /\ n # 1 => x # Caller
      /\ \A k \in 1..n : \A i \in 1..Len(stack[k].left) : stack[k].left[i] \in Dirs
      /\ Has(dirs[0])
    BY <1>1, TopAwaits
<1>4. /\ stack[1].dir = Caller
      /\ \A j, k \in 1..n : j < k => stack[j].dir < stack[k].dir
      /\ \A k \in 1..n : \A i \in 1..Len(stack[k].left) :
            /\ Above(stack[k].left[i]) = stack[k].dir
            /\ Has(dirs[stack[k].left[i]])
            /\ \A j \in 1..n : stack[k].left[i] # stack[j].dir
      /\ \A k \in 1..n : \A i, j \in 1..Len(stack[k].left) :
            i < j => stack[k].left[i] < stack[k].left[j]
      /\ DirsClosed(dirs)
    BY DEF Walking
<1>5. /\ caller.dir = x /\ caller.left = Tail(Top.left)
      /\ failed.dir = x /\ failed.left = Tail(Top.left) /\ failed.err = TRUE
      /\ called.dir = d /\ called.left = byName(subs) /\ called.err = FALSE
    BY <1>2 DEF FrameType, Frame
<1>6. /\ Len(Top.left) \in Nat \ {0} /\ d = Top.left[1] /\ Len(Tail(Top.left)) = Len(Top.left) - 1
      /\ \A i \in 1..Len(Top.left) - 1 : Tail(Top.left)[i] = Top.left[i + 1]
  <2>1. Top.left \in Seq(Dirs)
      BY <1>2 DEF FrameType
  <2> QED
      BY <1>1, <2>1
<1>7. /\ d \in Dirs /\ Above(d) = x /\ Has(dirs[d]) /\ \A j \in 1..n : d # stack[j].dir
      /\ \A i \in 1..Len(Top.left) - 1 : d < Top.left[i + 1]
  <2>1. n \in 1..n /\ 1 \in 1..Len(stack[n].left) /\ d = stack[n].left[1]
      BY <1>2, <1>3, <1>6
  <2>2. /\ d \in Dirs /\ Above(d) = x /\ Has(dirs[d]) /\ \A j \in 1..n : d # stack[j].dir
      BY <1>3, <1>4, <2>1
  <2>3. \A i \in 1..Len(Top.left) - 1 : i + 1 \in 1..Len(stack[n].left) /\ 1 < i + 1
      BY <1>3, <1>6
  <2>4. \A i \in 1..Len(Top.left) - 1 : d < Top.left[i + 1]
      BY <1>3, <1>4, <2>1, <2>3
  <2> QED
      BY <2>2, <2>4
<1>8. x < d /\ d \in Int /\ x \in Int /\ (x = Caller <=> d = 0)
    BY <1>7, AboveFacts, DirNumbers
\* The frames without d.
<1> DEFINE Waits(t, ds) ==
              /\ \A k \in 1..n : t[k].dir = stack[k].dir
              /\ \A k \in 1..n : \A i \in 1..Len(t[k].left) :
                    /\ t[k].left[i] \in Dirs /\ t[k].left[i] # d
                    /\ Above(t[k].left[i]) = stack[k].dir
                    /\ Has(dirs[t[k].left[i]])
                    /\ \A j \in 1..n : t[k].left[i] # stack[j].dir
              /\ \A k \in 1..n : \A i, j \in 1..Len(t[k].left) :
                    i < j => t[k].left[i] < t[k].left[j]
<1>9. ASSUME NEW t, \A k \in 1..n - 1 : t[k] = stack[k],
             t[n].dir = x, t[n].left = Tail(Top.left)
      PROVE  Waits(t, dirs)
  <2>1. \A k \in 1..n : t[k].dir = stack[k].dir
    <3>1. \A k \in 1..n : k = n \/ k \in 1..n - 1
        BY <1>2
    <3>2. t[n].dir = stack[n].dir
        BY <1>3, <1>9
    <3>3. \A k \in 1..n - 1 : t[k].dir = stack[k].dir
        BY <1>9
    <3> QED
        BY <3>1, <3>2, <3>3
  <2>2. ASSUME NEW k \in 1..n, NEW i \in 1..Len(t[k].left)
        PROVE  \E j \in 1..Len(stack[k].left) :
                  /\ t[k].left[i] = stack[k].left[j] /\ t[k].left[i] # d
                  /\ j = IF k = n THEN i + 1 ELSE i
    <3>1. CASE k = n
      <4>1. i \in 1..Len(Top.left) - 1
          BY <1>6, <1>9, <3>1
      <4>2. t[k].left[i] = Top.left[i + 1] /\ i + 1 \in 1..Len(Top.left) /\ d < Top.left[i + 1]
        <5>1. Tail(Top.left)[i] = Top.left[i + 1] /\ d < Top.left[i + 1]
            BY <1>6, <1>7, <4>1
        <5>2. i + 1 \in 1..Len(Top.left)
            BY <1>6, <4>1
        <5> QED
            BY <1>9, <3>1, <5>1, <5>2
      <4>3. Top.left = stack[k].left /\ t[k].left[i] # d
          BY <1>3, <1>8, <3>1, <4>2
      <4> QED
          BY <3>1, <4>2, <4>3
    <3>2. CASE k # n
      <4>1. k \in 1..n - 1
          BY <1>2, <3>2
      <4>2. t[k] = stack[k]
          BY <1>9, <4>1
      <4>3. Above(t[k].left[i]) < x
          BY <1>3, <1>4, <4>1, <4>2
      <4>4. t[k].left[i] # d
          BY <1>7, <1>8, <4>3
      <4> QED
          BY <3>2, <4>2, <4>4
    <3> QED
        BY <3>1, <3>2
  <2>3. \A k \in 1..n : \A i \in 1..Len(t[k].left) :
                    /\ t[k].left[i] \in Dirs /\ t[k].left[i] # d
                    /\ Above(t[k].left[i]) = stack[k].dir
                    /\ Has(dirs[t[k].left[i]])
                    /\ \A j \in 1..n : t[k].left[i] # stack[j].dir
    <3> SUFFICES ASSUME NEW k \in 1..n, NEW i \in 1..Len(t[k].left)
                 PROVE  /\ t[k].left[i] \in Dirs /\ t[k].left[i] # d
                        /\ Above(t[k].left[i]) = stack[k].dir
                        /\ Has(dirs[t[k].left[i]])
                        /\ \A j \in 1..n : t[k].left[i] # stack[j].dir
        OBVIOUS
    <3>1. PICK j \in 1..Len(stack[k].left) :
              t[k].left[i] = stack[k].left[j] /\ t[k].left[i] # d
        BY <2>2
    <3> QED
        BY <1>3, <1>4, <3>1
  <2>4. ASSUME NEW k \in 1..n, NEW i \in 1..Len(t[k].left), NEW j \in 1..Len(t[k].left), i < j
        PROVE  t[k].left[i] < t[k].left[j]
    <3>1. PICK a \in 1..Len(stack[k].left) :
              t[k].left[i] = stack[k].left[a] /\ a = IF k = n THEN i + 1 ELSE i
        BY <2>2
    <3>2. PICK b \in 1..Len(stack[k].left) :
              t[k].left[j] = stack[k].left[b] /\ b = IF k = n THEN j + 1 ELSE j
        BY <2>2
    <3>3. a < b
        BY <2>4, <3>1, <3>2
    <3> QED
        BY <1>4, <3>1, <3>2, <3>3
  <2> QED
      BY <2>1, <2>3, <2>4
<1> HIDE DEF caller, called, failed, x, d, n
<1>10. CASE Listable(d)
  <2>1. /\ stack' = Append(Append(Rest, caller), called)
        /\ dirs' = [c \in Dirs |-> IF c \in subs THEN DirAtts(mode[c]) ELSE dirs[c]]
      BY <1>10 DEF Descend, caller, called, d
  <2>2. PICK t, ds : t = stack' /\ ds = dirs'
      OBVIOUS
  <2>3. /\ Len(t) = n + 1 /\ t[n + 1] = called /\ t[n] = caller
        /\ \A k \in 1..n - 1 : t[k] = stack[k]
      BY <1>2, <2>1, <2>2
  <2>4. Waits(t, dirs)
      BY <1>5, <1>9, <2>3
  <2>5. /\ \A c \in Dirs : Has(dirs[c]) => Has(ds[c])
        /\ \A c \in subs : Has(ds[c])
        /\ \A c \in Dirs : Has(ds[c]) => Has(dirs[c]) \/ c \in subs
    <3>1. \A c \in subs : c \in Dirs
        BY DEF SubdirsSeen, SubdirsOf, Subdirs, Dirs
    <3>2. \A c \in Dirs : ds[c] = IF c \in subs THEN DirAtts(mode[c]) ELSE dirs[c]
        BY <2>1, <2>2
    <3>3. \A c : Has(DirAtts(mode[c]))
        BY DEF Has, DirAtts
    <3> HIDE DEF subs
    <3> QED
        BY <3>1, <3>2, <3>3
  <2>6. \A e \in subs : /\ e \in Dirs /\ e \in Int /\ Parent[e] = d /\ Above(e) = d /\ d < e
    <3>1. \A e \in subs : e \in Dirs /\ e # 0 /\ Parent[e] = d
        BY DEF SubdirsSeen, SubdirsOf, Subdirs, Dirs
    <3>2. \A e \in subs : Above(e) = d
        BY <3>1 DEF Above
    <3> HIDE DEF subs
    <3> QED
        BY <3>1, <3>2, AboveFacts, DirNumbers
  <2>7. /\ Lists(byName(subs), subs)
        /\ \A i \in 1..Len(byName(subs)) : byName(subs)[i] \in subs
    <3>1. subs \subseteq SubdirsOf(d)
        BY DEF SubdirsSeen
    <3> HIDE DEF subs
    <3> QED
        BY <3>1, SubsAreNames
  <2>8. t[n + 1].dir = d /\ t[n + 1].left = byName(subs)
      BY <1>5, <2>3
  <2> HIDE DEF subs
  <2>9. \A k \in 1..n + 1 : k \in 1..n \/ k = n + 1
      BY <1>2
  <2>10. t[1].dir = Caller
    <3>1. 1 \in 1..n
        BY <1>2
    <3> QED
        BY <1>4, <2>4, <3>1
  <2>11. ASSUME NEW j \in 1..n + 1, NEW k \in 1..n + 1, j < k PROVE t[j].dir < t[k].dir
    <3>1. CASE k \in 1..n
      <4>1. j \in 1..n
          BY <1>2, <2>11, <3>1
      <4> QED
          BY <1>4, <2>4, <2>11, <3>1, <4>1
    <3>2. CASE k = n + 1
      <4>1. j \in 1..n
          BY <1>2, <2>11, <3>2
      <4>2. t[j].dir <= x /\ t[j].dir \in Int
          BY <1>3, <2>4, <4>1
      <4> QED
          BY <1>8, <2>8, <3>2, <4>2
    <3> QED
        BY <2>9, <3>1, <3>2
  <2>12. ASSUME NEW k \in 1..n + 1, NEW i \in 1..Len(t[k].left)
         PROVE  /\ Above(t[k].left[i]) = t[k].dir
                /\ Has(ds[t[k].left[i]])
                /\ \A j \in 1..n + 1 : t[k].left[i] # t[j].dir
    <3>1. CASE k \in 1..n
      <4>1. \A j \in 1..n + 1 : t[k].left[i] # t[j].dir
          BY <2>4, <2>8, <2>9, <3>1
      <4> QED
          BY <2>4, <2>5, <3>1, <4>1
    <3>2. CASE k = n + 1
      <4>1. t[k].left[i] \in subs
          BY <2>7, <2>8, <3>2
      <4>2. PICK e \in subs : e = t[k].left[i]
          BY <4>1
      <4>3. \A j \in 1..n : t[j].dir \in Int /\ t[j].dir <= x
          BY <1>3, <2>4
      <4>4. \A j \in 1..n + 1 : e # t[j].dir
          BY <1>8, <2>6, <2>8, <2>9, <4>3
      <4> QED
          BY <2>5, <2>6, <2>8, <3>2, <4>2, <4>4
    <3> QED
        BY <2>9, <3>1, <3>2
  <2>13. ASSUME NEW k \in 1..n + 1, NEW i \in 1..Len(t[k].left), NEW j \in 1..Len(t[k].left), i < j
         PROVE  t[k].left[i] < t[k].left[j]
      BY <2>4, <2>7, <2>8, <2>9, <2>13 DEF Lists
  <2>14. DirsClosed(ds)
    <3> SUFFICES ASSUME NEW c \in Subdirs, Has(ds[c]) PROVE Has(ds[Parent[c]])
        BY DEF DirsClosed
    <3>1. c \in Dirs /\ Parent[c] \in Dirs
        BY TreeAssumption DEF Subdirs, Dirs
    <3> QED
        BY <1>4, <1>7, <2>5, <2>6, <3>1 DEF DirsClosed
  <2>15. Has(ds[0])
      BY <1>3, <2>5, DirNumbers
  <2>16. Walking(t, ds)
      BY <2>3, <2>10, <2>11, <2>12, <2>13, <2>14, <2>15 DEF Walking
  <2> QED
      BY <2>2, <2>16
<1>11. CASE ~ Listable(d)
  <2>1. stack' = Append(Rest, failed) /\ dirs' = DirsWithout(d)
      BY <1>11 DEF Descend, failed, caller, d
  <2>2. PICK t, ds : t = stack' /\ ds = dirs'
      OBVIOUS
  <2>3. Len(t) = n /\ t[n] = failed /\ \A k \in 1..n - 1 : t[k] = stack[k]
      BY <1>2, <2>1, <2>2
  <2>4. Waits(t, dirs)
      BY <1>5, <1>9, <2>3
  <2>5. \A c \in Dirs : ds[c] = IF d \in Way[c] THEN None ELSE dirs[c]
      BY <2>1, <2>2 DEF DirsWithout, Below
  <2>6. t[1].dir = Caller
    <3>1. 1 \in 1..n
        BY <1>2
    <3> QED
        BY <1>4, <2>4, <3>1
  <2>7. \A j, k \in 1..n : j < k => t[j].dir < t[k].dir
      BY <1>4, <2>4
  <2>8. ASSUME NEW k \in 1..n, NEW i \in 1..Len(t[k].left)
        PROVE  /\ Above(t[k].left[i]) = t[k].dir
               /\ Has(ds[t[k].left[i]])
               /\ \A j \in 1..n : t[k].left[i] # t[j].dir
    <3>1. PICK e \in Dirs : e = t[k].left[i]
        BY <2>4
    <3>2. e # d /\ Above(e) = stack[k].dir /\ Has(dirs[e])
        BY <2>4, <3>1
    <3>3. Above(e) < d
        BY <1>3, <1>8, <3>2
    <3>4. d \notin Way[e]
      <4> SUFFICES ASSUME d \in Way[e] PROVE FALSE
          OBVIOUS
      <4>1. d <= Above(e)
          BY <1>7, <3>2, BelowAbove
      <4> QED
          BY <1>8, <3>3, <4>1, AboveFacts
    <3>5. Has(ds[e])
        BY <2>5, <3>2, <3>4
    <3> QED
        BY <2>4, <3>1, <3>5
  <2>9. \A k \in 1..n : \A i, j \in 1..Len(t[k].left) : i < j => t[k].left[i] < t[k].left[j]
      BY <2>4
  <2>10. DirsClosed(ds)
      BY <1>4, <1>7, <2>5, CutCloses
  <2>11. Has(ds[0]) \/ (Len(t) = 1 /\ t[1].left = << >> /\ t[1].err)
    <3>1. CASE d # 0
      <4>1. d \notin Way[0]
          BY <3>1, WayStep, DirNumbers
      <4> QED
          BY <1>3, <2>5, <4>1, DirNumbers
    <3>2. CASE d = 0
      <4>1. n = 1 /\ t[1] = failed
          BY <1>3, <1>8, <2>3, <3>2
      <4>2. ASSUME NEW i \in 1..Len(t[1].left) PROVE FALSE
        <5>1. PICK e \in Dirs : e = t[1].left[i] /\ e # d /\ Above(e) = Caller
            BY <1>4, <2>4, <4>1
        <5> QED
            BY <3>2, <5>1, AboveFacts
      <4>3. t[1].left \in Seq(Dirs)
        <5>1. Top.left \in Seq(Dirs)
            BY <1>2 DEF FrameType
        <5>2. Tail(Top.left) \in Seq(Dirs)
            BY <1>1, <5>1
        <5> QED
            BY <1>5, <4>1, <5>2
      <4>4. t[1].left = << >>
        <5>1. Len(t[1].left) = 0
            BY <4>2, <4>3
        <5> QED
            BY <4>3, <5>1
      <4> QED
          BY <1>5, <2>3, <4>1, <4>4
    <3> QED
        BY <3>1, <3>2
  <2>12. Walking(t, ds)
      BY <2>3, <2>6, <2>7, <2>8, <2>9, <2>10, <2>11 DEF Walking
  <2> QED
      BY <2>2, <2>12
<1> QED
    BY <1>10, <1>11

LEMMA ReturnCloses ==
    ASSUME RestTypes, Walking(stack, dirs), Return
    PROVE  Walking(stack', dirs')
<1> DEFINE x == Top.dir
           n == Len(stack)
           g == [stack[n - 1] EXCEPT !.err = Top.err]
<1>1. /\ pc = "walk" /\ n > 1 /\ Top.left = << >>
      /\ stack' = [Rest EXCEPT ![n - 1].err = Top.err]
    BY DEF Return
<1>2. /\ n \in Nat \ {0} /\ Top \in FrameType /\ Top = stack[n]
      /\ Rest \in Seq(FrameType) /\ Len(Rest) = n - 1
      /\ \A k \in 1..n - 1 : Rest[k] = stack[k]
      /\ \A k \in 1..n : stack[k] \in FrameType
    BY <1>1, TopTypes
<1>3. /\ x = stack[n].dir
      /\ \A k \in 1..n : stack[k].dir \in Dirs \cup {Caller} /\ stack[k].dir \in Int
      /\ \A k \in 1..n - 1 : stack[k].dir < x
      /\ x # Caller
      /\ \A k \in 1..n : \A i \in 1..Len(stack[k].left) : stack[k].left[i] \in Dirs
    BY <1>1, TopAwaits
<1>4. /\ stack[1].dir = Caller
      /\ \A j, k \in 1..n : j < k => stack[j].dir < stack[k].dir
      /\ \A k \in 1..n : \A i \in 1..Len(stack[k].left) :
            /\ Above(stack[k].left[i]) = stack[k].dir
            /\ Has(dirs[stack[k].left[i]])
            /\ \A j \in 1..n : stack[k].left[i] # stack[j].dir
      /\ \A k \in 1..n : \A i, j \in 1..Len(stack[k].left) :
            i < j => stack[k].left[i] < stack[k].left[j]
      /\ DirsClosed(dirs) /\ Has(dirs[0])
    BY <1>1 DEF Walking
<1>5. x \in Dirs /\ x \in Int
    BY <1>2, <1>3
<1>6. n - 1 \in 1..n - 1 /\ \A k \in 1..n - 1 : k \in 1..n
    BY <1>1, <1>2
<1>7. g.dir = stack[n - 1].dir /\ g.left = stack[n - 1].left /\ g.err = Top.err
    BY <1>2, <1>6 DEF FrameType
<1>8. Len(stack') = n - 1 /\ \A k \in 1..n - 1 : stack'[k] = IF k = n - 1 THEN g ELSE stack[k]
  <2>1. stack' = [Rest EXCEPT ![n - 1] = [Rest[n - 1] EXCEPT !.err = Top.err]]
      BY <1>1
  <2>2. stack' = [Rest EXCEPT ![n - 1] = g]
      BY <1>2, <1>6, <2>1
  <2> HIDE DEF g, n
  <2>3. Len(stack') = Len(Rest)
      BY <1>2, <2>2
  <2>4. \A k \in 1..n - 1 : stack'[k] = IF k = n - 1 THEN g ELSE Rest[k]
      BY <1>2, <2>2
  <2> QED
      BY <1>2, <2>3, <2>4
<1>9. PICK t, ds : t = stack' /\ ds = dirs'
    OBVIOUS
<1> HIDE DEF g, x, n
<1>10. /\ Len(t) = n - 1
       /\ \A k \in 1..n - 1 : t[k].dir = stack[k].dir /\ t[k].left = stack[k].left
       /\ t[n - 1].err = Top.err
    BY <1>6, <1>7, <1>8, <1>9
<1>11. \A c \in Dirs : ds[c] = IF Top.err /\ x \in Way[c] THEN None ELSE dirs[c]
  <2>1. CASE Top.err
    <3>1. dirs' = DirsWithout(x)
        BY <2>1 DEF Return, x
    <3> QED
        BY <1>9, <2>1, <3>1 DEF DirsWithout, Below
  <2>2. CASE ~ Top.err
    <3>1. dirs' = dirs
        BY <2>2 DEF Return
    <3> QED
        BY <1>9, <2>2, <3>1
  <2> QED
      BY <2>1, <2>2
<1>12. 1 \in 1..n - 1 /\ n \in 1..n
    BY <1>1, <1>2 DEF n
<1>13. t[1].dir = Caller
    BY <1>4, <1>10, <1>12
<1>14. \A j, k \in 1..n - 1 : j < k => t[j].dir < t[k].dir
    BY <1>4, <1>6, <1>10
<1>15. ASSUME NEW k \in 1..n - 1, NEW i \in 1..Len(t[k].left)
       PROVE  /\ Above(t[k].left[i]) = t[k].dir
              /\ Has(ds[t[k].left[i]])
              /\ \A j \in 1..n - 1 : t[k].left[i] # t[j].dir
  <2>1. PICK e \in Dirs : e = t[k].left[i]
      BY <1>3, <1>6, <1>10
  <2>2. /\ Above(e) = stack[k].dir /\ Has(dirs[e]) /\ e # x
        /\ \A j \in 1..n - 1 : e # stack[j].dir
      BY <1>3, <1>4, <1>6, <1>10, <1>12, <2>1
  <2>3. x \notin Way[e]
    <3> SUFFICES ASSUME x \in Way[e] PROVE FALSE
        OBVIOUS
    <3>1. x <= Above(e)
        BY <1>5, <2>2, BelowAbove
    <3>2. Above(e) < x
        BY <1>3, <2>2
    <3> QED
        BY <1>5, <3>1, <3>2, AboveFacts
  <2> QED
      BY <1>10, <1>11, <2>1, <2>2, <2>3
<1>16. \A k \in 1..n - 1 : \A i, j \in 1..Len(t[k].left) : i < j => t[k].left[i] < t[k].left[j]
    BY <1>4, <1>6, <1>10
<1>17. DirsClosed(ds)
  <2>1. CASE Top.err
      BY <1>4, <1>5, <1>11, <2>1, CutCloses
  <2>2. CASE ~ Top.err
    <3>1. \A c \in Subdirs : c \in Dirs /\ Parent[c] \in Dirs
        BY TreeAssumption DEF Subdirs, Dirs
    <3> QED
        BY <1>4, <1>11, <2>2, <3>1 DEF DirsClosed
  <2> QED
      BY <2>1, <2>2
<1>18. Has(ds[0]) \/ (Len(t) = 1 /\ t[1].left = << >> /\ t[1].err)
  <2>1. CASE ~ Top.err \/ x # 0
    <3>1. x # 0 => x \notin Way[0]
        BY WayStep, DirNumbers
    <3> QED
        BY <1>4, <1>11, <2>1, <3>1, DirNumbers
  <2>2. CASE Top.err /\ x = 0
    <3>1. stack[n - 1].dir = Caller
        BY <1>3, <1>6, <2>2 DEF Dirs
    <3>2. n - 1 = 1
      <4> SUFFICES ASSUME n - 1 # 1 PROVE FALSE
          OBVIOUS
      <4>1. 1 < n - 1
          BY <1>2, <1>12 DEF n
      <4>2. Caller < Caller
          BY <1>4, <1>6, <1>12, <3>1, <4>1
      <4> QED
          BY <4>2, DirNumbers
    <3>3. ASSUME NEW i \in 1..Len(stack[1].left) PROVE FALSE
      <4>1. PICK e \in Dirs : e = stack[1].left[i]
          BY <1>3, <1>6, <1>12
      <4>2. Above(e) = Caller /\ e # x
          BY <1>3, <1>4, <1>6, <1>12, <4>1
      <4> QED
          BY <2>2, <4>2, AboveFacts
    <3>4. stack[1].left \in Seq(Dirs)
        BY <1>2, <1>6, <1>12 DEF FrameType
    <3>5. Len(stack[1].left) = 0
        BY <3>3, <3>4
    <3>6. stack[1].left = << >>
        BY <3>4, <3>5
    <3> QED
        BY <1>10, <1>12, <2>2, <3>2, <3>6
  <2> QED
      BY <2>1, <2>2
<1>19. Walking(t, ds)
    BY <1>10, <1>13, <1>14, <1>15, <1>16, <1>17, <1>18 DEF Walking
<1> QED
    BY <1>9, <1>19

LEMMA BeginCloses ==
    ASSUME NEW c, NEW version, Begin(c, version)
    PROVE  Walking(stack', dirs')
<1>1. PICK t, ds : t = stack' /\ ds = dirs'
    OBVIOUS
<1>2. /\ ds = [EmptyTree.dir EXCEPT ![0] = DirAtts(mode[0])]
      /\ t = <<Frame(Caller, <<0>>, FALSE)>>
    BY <1>1 DEF Begin
<1>3. Len(t) = 1 /\ t[1].dir = Caller /\ t[1].left = <<0>>
    BY <1>2 DEF Frame
<1>4. Has(ds[0]) /\ \A d \in Dirs : d # 0 => ~ Has(ds[d])
  <2>1. ds[0] = DirAtts(mode[0]) /\ \A d \in Dirs : d # 0 => ds[d] = None
      BY <1>2, DirNumbers DEF EmptyTree
  <2> QED
      BY <2>1 DEF Has, DirAtts, None
<1>5. DirsClosed(ds)
    BY <1>4, TreeAssumption DEF DirsClosed, Subdirs, Dirs
<1>6. Above(0) = Caller /\ 0 # Caller
    BY DirNumbers DEF Above
<1>7. \A k \in 1..1 : k = 1
    OBVIOUS
<1>8. Walking(t, ds)
  <2>1. \A k \in 1..1 : \A i \in 1..Len(t[k].left) : k = 1 /\ i = 1 /\ t[k].left[i] = 0
    <3> SUFFICES ASSUME NEW k \in 1..1, NEW i \in 1..Len(t[k].left)
                 PROVE  k = 1 /\ i = 1 /\ t[k].left[i] = 0
        OBVIOUS
    <3>1. k = 1 /\ t[k].left = <<0>>
        BY <1>3, <1>7
    <3>2. Len(<<0>>) = 1 /\ <<0>>[1] = 0
        OBVIOUS
    <3> QED
        BY <3>1, <3>2
  <2> QED
      BY <1>3, <1>4, <1>5, <1>6, <1>7, <2>1 DEF Walking
<1> QED
    BY <1>1, <1>8

LEMMA NextCloses ==
    ASSUME Inv, RestTypes, ClosedInv, [Next]_vars
    PROVE  ClosedInv'
<1>1. ASSUME UNCHANGED <<cmd, pc, old, stack, dirs, files, report, store>>
      PROVE  ClosedInv'
    BY <1>1 DEF ClosedInv, NewTree, Closed
<1>2. ASSUME NEW c, NEW version, Begin(c, version), c = "check" => Closed(version)
      PROVE  ClosedInv'
  <2>1. cmd' = c /\ old' = version /\ pc' = "walk" /\ store' = store
      BY <1>2 DEF Begin
  <2> QED
      BY <1>2, <2>1, BeginCloses DEF ClosedInv
<1>3. CASE User
  <2>1. UNCHANGED gosure
      BY <1>3 DEF User, Create, WriteFile, Unlink, Rename, HardLink, Chmod, MakeDir, RemoveDir,
         MoveDirs, Rot, Tick, Change
  <2> QED
      BY <1>1, <2>1 DEF gosure, walk
<1>4. CASE Scan
  <2>1. \E v : Begin("scan", v)
      BY <1>4 DEF Scan
  <2> QED
      BY <1>2, <2>1
<1>5. CASE Check
  <2>1. PICK n \in Deltas : GetDelta(n) > 0 /\ Begin("check", store[GetDelta(n)])
      BY <1>5 DEF Check
  <2>2. Closed(store[GetDelta(n)])
      BY <2>1, DeltaThere DEF ClosedInv
  <2> QED
      BY <1>2, <2>1, <2>2
<1>6. CASE Signoff
  <2> DEFINE a == store[Len(store) - 1]
             b == store[Len(store)]
  <2>1. store \in Seq(TreeType) /\ Len(store) > 1
      BY <1>6 DEF Signoff, Inv, Types
  <2>2. Len(store) - 1 \in 1..Len(store) /\ Len(store) \in 1..Len(store)
      BY <2>1
  <2>3. b \in TreeType /\ Closed(a) /\ Closed(b)
      BY <2>1, <2>2 DEF ClosedInv
  <2>4. /\ cmd' = "signoff" /\ pc' = "report" /\ old' = a /\ store' = store
        /\ dirs' = b.dir /\ files' = b.file
        /\ report' = CompareTrees(a, b)
      BY <1>6 DEF Signoff, GetDelta
  <2>5. b = [dir |-> b.dir, file |-> b.file]
    <3> HIDE DEF b
    <3> QED
        BY <2>3 DEF TreeType
  <2>6. NewTree' = b
      BY <2>4, <2>5 DEF NewTree
  <2> HIDE DEF a, b
  <2> QED
      BY <2>3, <2>4, <2>6 DEF ClosedInv
<1>7. CASE Descend
  <2>1. UNCHANGED <<cmd, pc, old, store>> /\ pc = "walk"
      BY <1>7 DEF Descend
  <2>2. Walking(stack', dirs')
      BY <1>7, <2>1, DescendCloses DEF ClosedInv
  <2> QED
      BY <2>1, <2>2 DEF ClosedInv
<1>8. CASE Return
  <2>1. UNCHANGED <<cmd, pc, old, store>> /\ pc = "walk"
      BY <1>8 DEF Return
  <2>2. Walking(stack', dirs')
      BY <1>8, <2>1, ReturnCloses DEF ClosedInv
  <2> QED
      BY <2>1, <2>2 DEF ClosedInv
<1>9. CASE WalkFails \/ Reported
  <2>1. cmd' = "none" /\ pc' = "idle" /\ store' = store
      BY <1>9 DEF WalkFails, Reported, End
  <2> QED
      BY <2>1 DEF ClosedInv
<1>10. CASE WriteVersion
  <2>1. /\ cmd' = "none" /\ pc' = "idle" /\ pc = "hash"
        /\ store' \in {store, Append(store, NewTree)}
      BY <1>10 DEF WriteVersion, End
  <2>2. Closed(NewTree)
      BY <2>1 DEF ClosedInv
  <2>3. store \in Seq(TreeType)
      BY DEF Inv, Types
  <2>4. \A k \in 1..Len(store') : Closed(store'[k])
    <3>1. CASE store' = store
        BY <3>1 DEF ClosedInv
    <3>2. CASE store' = Append(store, NewTree)
      <4>1. /\ Len(store') = Len(store) + 1 /\ store'[Len(store) + 1] = NewTree
            /\ \A k \in 1..Len(store) : store'[k] = store[k]
          BY <2>3, <3>2, AppendProperties
      <4>2. \A k \in 1..Len(store) + 1 : k \in 1..Len(store) \/ k = Len(store) + 1
          BY <2>3
      <4> QED
          BY <2>2, <4>1, <4>2 DEF ClosedInv
    <3> QED
        BY <2>1, <3>1, <3>2
  <2> QED
      BY <2>1, <2>4 DEF ClosedInv
<1>11. CASE StartHashing
  <2>1. /\ WalkDone /\ ~ Top.err /\ pc' = "hash" /\ UNCHANGED <<cmd, old, dirs, store>>
      BY <1>11 DEF StartHashing, Migrate
  <2>2. Walking(stack, dirs) /\ Top = stack[1]
      BY <2>1 DEF ClosedInv, WalkDone, Top
  <2>3. Has(dirs[0]) /\ DirsClosed(dirs)
      BY <2>1, <2>2 DEF Walking
  <2>4. Closed(NewTree)'
      BY <2>1, <2>3 DEF Closed, DirsClosed, NewTree
  <2> QED
      BY <2>1, <2>4 DEF ClosedInv
<1>12. ASSUME NEW f \in Files, OpenFile(f) \/ ReadFile(f) \/ HashFails(f) PROVE ClosedInv'
  <2>1. /\ pc = "hash" /\ UNCHANGED <<cmd, pc, old, dirs, store>>
      BY <1>12 DEF OpenFile, ReadFile, HashFails, walk
  <2>2. Closed(NewTree)'
      BY <2>1 DEF ClosedInv, Closed, NewTree
  <2> QED
      BY <2>1, <2>2 DEF ClosedInv
<1>13. CASE CompareWithDisk
  <2>1. /\ pc = "hash" /\ cmd = "check" /\ pc' = "report"
        /\ UNCHANGED <<cmd, old, dirs, files, store>>
        /\ report' = CompareTrees(old, NewTree)
      BY <1>13 DEF CompareWithDisk, walk
  <2>2. NewTree' = NewTree
      BY <2>1 DEF NewTree
  <2> QED
      BY <2>1, <2>2 DEF ClosedInv
<1>14. CASE UNCHANGED vars
    BY <1>1, <1>14 DEF vars, gosure, walk
<1> QED
    BY <1>3, <1>4, <1>5, <1>6, <1>7, <1>8, <1>9, <1>10, <1>11, <1>12, <1>13, <1>14
       DEF Next, Walk, Hash, Finish

LEMMA Closedness == Spec => [](Inv /\ RestTypes /\ Logs /\ QuietInv /\ ClosedInv)
<1>1. Init => ClosedInv
    BY DEF Init, ClosedInv
<1>2. Inv /\ RestTypes /\ ClosedInv /\ [Next]_vars => ClosedInv'
    BY NextCloses
<1> QED
    BY <1>1, <1>2, Quietness, PTL DEF Spec

\* What a report says.
LEMMA ReportPrints ==
    ASSUME ClosedInv, pc = "report"
    PROVE  /\ {report[i] : i \in 1..Len(report)} = Differences(old, NewTree)
           /\ \A i, j \in 1..Len(report) : report[i] = report[j] => i = j
<1> DEFINE S == Differences(old, NewTree)
<1>1. Prints(report, S)
    BY ComparePrints DEF ClosedInv
<1> HIDE DEF S
<1>2. \A i \in 1..Len(report) : report[i] \in S
    BY <1>1, ElementOfSeq DEF Prints
<1> QED
    BY <1>1, <1>2 DEF Prints, S

\* check and signoff print every difference, once, however the disk changed
\* while the trees were walked.
THEOREM DifferencesAreReportedOnce == Spec => []ReportsOnce
<1>1. ClosedInv => ReportsOnce
    BY ReportPrints DEF ReportsOnce
<1> QED
    BY <1>1, Closedness, PTL

\* When nothing changes meanwhile, check prints what differs on the disk, with
\* no hash for the files that it could not read.
THEOREM ChecksAreTrue == Spec => []QuietCheck
<1>1. ASSUME Inv, RestTypes, QuietInv, ClosedInv PROVE QuietCheck
  <2> DEFINE h == [f \in Files |-> IF f \in logged THEN NoHash ELSE Bytes(ino[f])]
  <2> SUFFICES ASSUME pc = "report", cmd = "check", quiet
               PROVE  {report[i] : i \in 1..Len(report)}
                          = Differences(old, DiskTree(LAMBDA f : IF f \in logged THEN NoHash
                                                                ELSE Bytes(ino[f])))
      BY DEF QuietCheck
  <2>1. HashAt /\ todo = {}
      BY <1>1 DEF QuietInv, Inv, Phases
  <2>2. \A f \in Files : files[f].kind = "file" => files[f].sha1 = h[f]
      BY <2>1 DEF HashAt
  <2>3. DiskTree(LAMBDA f : IF f \in logged THEN NoHash ELSE Bytes(ino[f])) = Listed(h)
      BY DEF DiskTree, Listed
  <2> HIDE DEF h
  <2>4. NewTree = Listed(h)
      BY <1>1, <2>1, <2>2, NewTreeListed
  <2>5. {report[i] : i \in 1..Len(report)} = Differences(old, NewTree)
      BY <1>1, ReportPrints
  <2> QED
      BY <2>3, <2>4, <2>5
<1> QED
    BY <1>1, Closedness, PTL
=============================================================================
