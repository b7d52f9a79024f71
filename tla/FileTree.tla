------------------------------ MODULE FileTree ------------------------------
(***************************************************************************)
(* Trees as gosure scans and records them (sure/tree.go), and their        *)
(* comparison (sure/compare.go).                                           *)
(*                                                                         *)
(* The names that may occur are fixed: directories are numbers, 0 being    *)
(* the one that is scanned and each other one greater than its parent;     *)
(* files are numbers too, each of them a name in one directory.  Names in  *)
(* a directory sort as their numbers.  A tree says which of the names it   *)
(* has, and with which attributes.                                         *)
(***************************************************************************)
EXTENDS Integers, Sequences, FiniteSets, SequencesExt

CONSTANTS LastDir,   \* the directories are 0..LastDir
          Parent,    \* Parent[d] is the directory that has d in it
          LastFile,  \* the names of files are 1..LastFile
          In         \* In[f] is the directory that has f in it

Dirs    == 0..LastDir
Subdirs == 1..LastDir
Files   == 1..LastFile

ASSUME TreeAssumption == /\ LastDir \in Nat /\ LastFile \in Nat
                         /\ Parent \in [Subdirs -> Dirs]
                         /\ \A d \in Subdirs : Parent[d] < d
                         /\ In \in [Files -> Dirs]

SubdirsOf(d) == {c \in Subdirs : Parent[c] = d}
FilesOf(d)   == {f \in Files : In[f] = d}

\* The directories on the way from 0 to d.
Way[d \in Dirs] == {d} \cup IF d = 0 THEN {} ELSE Way[Parent[d]]

Below(d) == {c \in Dirs : d \in Way[c]}

\* As sort.Sort(byName(entries)): of the names, those up to n in their order.
byName(names) ==
    LET upTo[n \in 0..LastDir + LastFile] ==
            IF n = 0 THEN << >>
            ELSE IF n \in names THEN Append(upTo[n - 1], n)
            ELSE upTo[n - 1]
    IN  upTo[LastDir + LastFile]

-----------------------------------------------------------------------------
(***************************************************************************)
(* Attributes.  A tree t has t.dir[d] and t.file[f], which are None for a  *)
(* name that it does not have.                                             *)
(***************************************************************************)

None == [kind |-> "none"]

DirAtts(perm)                == [kind |-> "dir", perm |-> perm]
RegAtts(ino, ctime, size, h) == [kind |-> "file", ino |-> ino, ctime |-> ctime,
                                 size |-> size, sha1 |-> h]
LinkAtts(targ)               == [kind |-> "lnk", targ |-> targ]

Has(atts) == atts.kind # "none"

EmptyTree == [dir |-> [d \in Dirs |-> None], file |-> [f \in Files |-> None]]

-----------------------------------------------------------------------------
(***************************************************************************)
(* CompareTrees.  A line of its output has a mark, a path and, when the    *)
(* attributes differ, their names.                                         *)
(***************************************************************************)

Line(mark, at, names) == [mark |-> mark, at |-> at, atts |-> names]

\* compAttWalk passes over ctime and ino, which are not the same after the
\* tree was restored from a backup.
Mismatch(old, new) ==
    IF old.kind # new.kind THEN {"kind"}
    ELSE {a \in DOMAIN old \ {"ctime", "ino"} : old[a] # new[a]}

compAtts(at, old, new) ==
    IF Mismatch(old, new) = {} THEN << >>
    ELSE <<Line("changed", at, Mismatch(old, new))>>

\* Fault: a name that is in both stays in the map of the older ones.
compFilesKept(older, newer, d) ==
    LET news == byName({f \in FilesOf(d) : Has(newer.file[f])})
        left == byName({f \in FilesOf(d) : Has(older.file[f])})
        compared(f) == IF Has(older.file[f])
                       THEN compAtts(<<"file", f>>, older.file[f], newer.file[f])
                       ELSE <<Line("+", <<"file", f>>, {})>>
    IN  FlattenSeq([i \in DOMAIN news |-> compared(news[i])])
            \o [i \in DOMAIN left |-> Line("-", <<"file", left[i]>>, {})]

\* The files of the newer tree in their order, then what is left of the older
\* ones.
compFiles(older, newer, d) ==
    LET news == byName({f \in FilesOf(d) : Has(newer.file[f])})
        left == byName({f \in FilesOf(d) : Has(older.file[f]) /\ ~ Has(newer.file[f])})
        compared(f) == IF Has(older.file[f])
                       THEN compAtts(<<"file", f>>, older.file[f], newer.file[f])
                       ELSE <<Line("+", <<"file", f>>, {})>>
    IN  FlattenSeq([i \in DOMAIN news |-> compared(news[i])])
            \o [i \in DOMAIN left |-> Line("-", <<"file", left[i]>>, {})]

\* A directory that is in both is compared after what it has in it; one that
\* is in one tree only is a single line, whatever it has in it.  Nobody
\* compares the attributes of directory 0.
CompareTrees(older, newer) ==
    LET compWalk[d \in Dirs] ==
            LET news == byName({c \in SubdirsOf(d) : Has(newer.dir[c])})
                left == byName({c \in SubdirsOf(d) :
                                    Has(older.dir[c]) /\ ~ Has(newer.dir[c])})
                compared(c) ==
                    IF Has(older.dir[c])
                    THEN compWalk[c]
                             \o compAtts(<<"dir", c>>, older.dir[c], newer.dir[c])
                    ELSE <<Line("+", <<"dir", c>>, {})>>
            IN  FlattenSeq([i \in DOMAIN news |-> compared(news[i])])
                    \o [i \in DOMAIN left |-> Line("-", <<"dir", left[i]>>, {})]
                    \o compFiles(older, newer, d)
    IN  compWalk[0]

-----------------------------------------------------------------------------
(***************************************************************************)
(* What the comparison is to find.                                         *)
(***************************************************************************)

Names == {<<"dir", d>> : d \in Subdirs} \cup {<<"file", f>> : f \in Files}

Atts(t, x)      == IF x[1] = "dir" THEN t.dir[x[2]] ELSE t.file[x[2]]
DirAround(t, x) == t.dir[IF x[1] = "dir" THEN Parent[x[2]] ELSE In[x[2]]]

\* The names, in directories that both trees have, that only one of the trees
\* has or that have different attributes.
Differences(older, newer) ==
    LET shared == {x \in Names : Has(DirAround(older, x)) /\ Has(DirAround(newer, x))}
        inOld  == {x \in shared : Has(Atts(older, x))}
        inNew  == {x \in shared : Has(Atts(newer, x))}
        Wrong(x) == Mismatch(Atts(older, x), Atts(newer, x))
    IN  {Line("+", x, {}) : x \in inNew \ inOld}
          \cup {Line("-", x, {}) : x \in inOld \ inNew}
          \cup {Line("changed", x, Wrong(x)) :
                    x \in {y \in inOld \cap inNew : Wrong(y) # {}}}

\* Nothing differs that a comparison looks at.
SameTree(older, newer) ==
    /\ \A d \in Dirs : Mismatch(older.dir[d], newer.dir[d]) = {}
    /\ \A f \in Files : Mismatch(older.file[f], newer.file[f]) = {}
=============================================================================
