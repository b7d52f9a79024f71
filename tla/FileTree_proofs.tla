--------------------------- MODULE FileTree_proofs ---------------------------
(***************************************************************************)
(* Lemmas about FileTree: the way from directory 0, the names of a         *)
(* directory in their order, and what CompareTrees prints.                 *)
(***************************************************************************)
EXTENDS FileTree, TLAPS, WellFoundedInduction, SequenceTheorems

-----------------------------------------------------------------------------
(***************************************************************************)
(* Induction over the natural numbers, for sets.                           *)
(***************************************************************************)

Less == {p \in Nat \X Nat : p[1] < p[2]}

LEMMA LessWellFounded == IsWellFoundedOn(Less, Nat)
<1>1. OpToRel(<, Nat) = Less
    BY Zenon DEF OpToRel, Less
<1> QED
    BY Zenon, <1>1, NatLessThanWellFounded

\* A set that holds 0, and n + 1 whenever it holds n, holds every number.
LEMMA SetInduction ==
    ASSUME NEW S, 0 \in S, \A n \in Nat : n \in S => n + 1 \in S
    PROVE  Nat \subseteq S
<1> DEFINE T == Nat \ S
<1> SUFFICES ASSUME T # {} PROVE FALSE
    OBVIOUS
<1>1. PICK m \in T : \A k \in T : ~ (<<k, m>> \in Less)
  <2>1. T \subseteq Nat
      OBVIOUS
  <2> HIDE DEF T
  <2> QED
      BY Zenon, <2>1, WFMin, LessWellFounded
<1>2. m # 0
    OBVIOUS
<1>3. m - 1 \in Nat /\ <<m - 1, m>> \in Less
    BY <1>2 DEF Less
<1> QED
    BY <1>1, <1>3

\* A set of directories that holds each one whose smaller ones it holds.
LEMMA DirInduction ==
    ASSUME NEW S, \A d \in Dirs : (\A c \in Dirs : c < d => c \in S) => d \in S
    PROVE  Dirs \subseteq S
<1> DEFINE T == {n \in Nat : \A c \in Dirs : c < n => c \in S}
<1>1. 0 \in T
    BY TreeAssumption DEF Dirs
<1>2. ASSUME NEW n \in Nat, n \in T PROVE n + 1 \in T
  <2> SUFFICES ASSUME NEW c \in Dirs, c < n + 1, c \notin S PROVE FALSE
      OBVIOUS
  <2>1. c \in Int /\ \A b \in Dirs : b \in Int
      BY TreeAssumption DEF Dirs
  <2>2. \A b \in Dirs : b < c => b \in S
      BY <1>2, <2>1
  <2> QED
      BY <2>2
<1> HIDE DEF T
<1>3. Nat \subseteq T
    BY <1>1, <1>2, SetInduction
<1>4. LastDir + 1 \in T
    BY <1>3, TreeAssumption
<1>5. \A c \in Dirs : c < LastDir + 1
    BY TreeAssumption DEF Dirs
<1> QED
    BY <1>4, <1>5 DEF T

-----------------------------------------------------------------------------
(***************************************************************************)
(* The way from directory 0.                                               *)
(***************************************************************************)

IsWay(f, n) == f = [d \in 0..n |-> {d} \cup IF d = 0 THEN {} ELSE f[Parent[d]]]

LEMMA WayExists == \A n \in Nat : n <= LastDir => \E f : IsWay(f, n)
<1> DEFINE S == {n \in Nat : n <= LastDir => \E f : IsWay(f, n)}
<1>1. 0 \in S
  <2> DEFINE f == [d \in 0..0 |-> {0}]
  <2>1. IsWay(f, 0)
      BY DEF IsWay
  <2> QED
      BY <2>1
<1>2. ASSUME NEW n \in Nat, n \in S PROVE n + 1 \in S
  <2> SUFFICES ASSUME n + 1 <= LastDir PROVE \E f : IsWay(f, n + 1)
      OBVIOUS
  <2>1. PICK g : IsWay(g, n)
      BY <1>2, TreeAssumption
  <2>2. n + 1 \in Subdirs /\ Parent[n + 1] \in 0..n
      BY TreeAssumption DEF Subdirs, Dirs
  <2> DEFINE f == [d \in 0..n + 1 |-> IF d <= n THEN g[d] ELSE {d} \cup g[Parent[d]]]
  <2>3. ASSUME NEW d \in 0..n + 1
        PROVE  f[d] = {d} \cup IF d = 0 THEN {} ELSE f[Parent[d]]
    <3>1. CASE d = n + 1
        BY <2>2, <3>1
    <3>2. CASE d \in 0..n
      <4>1. g[d] = {d} \cup IF d = 0 THEN {} ELSE g[Parent[d]]
          BY <2>1, <3>2 DEF IsWay
      <4>2. d # 0 => d \in Subdirs
          BY <3>2, TreeAssumption DEF Subdirs
      <4>3. d # 0 => Parent[d] \in 0..n
          BY <3>2, <4>2, TreeAssumption DEF Dirs
      <4> QED
          BY <3>2, <4>1, <4>3
    <3> QED
        BY <3>1, <3>2
  <2>4. IsWay(f, n + 1)
      BY <2>3 DEF IsWay
  <2> QED
      BY <2>4
<1> HIDE DEF S
<1>3. Nat \subseteq S
    BY <1>1, <1>2, SetInduction
<1> QED
    BY <1>3 DEF S

LEMMA WayStep ==
    ASSUME NEW d \in Dirs
    PROVE  Way[d] = {d} \cup IF d = 0 THEN {} ELSE Way[Parent[d]]
<1>1. Way = CHOOSE f : IsWay(f, LastDir)
    BY Zenon DEF Way, IsWay, Dirs
<1>2. \E f : IsWay(f, LastDir)
    BY WayExists, TreeAssumption
<1>3. IsWay(Way, LastDir)
    BY Zenon, <1>1, <1>2
<1> QED
    BY <1>3 DEF IsWay, Dirs

LEMMA ParentBelow ==
    ASSUME NEW d \in Dirs, d # 0
    PROVE  d \in Subdirs /\ Parent[d] \in Dirs /\ Parent[d] < d
BY TreeAssumption DEF Dirs, Subdirs

\* What is on the way to d.
LEMMA WayFacts ==
    \A d \in Dirs : /\ d \in Way[d] /\ Way[d] \subseteq Dirs
                    /\ \A c \in Way[d] : c <= d /\ Way[c] \subseteq Way[d]
                    /\ \A b, c \in Way[d] : b <= c => b \in Way[c]
<1> DEFINE Fine(d) == /\ d \in Way[d] /\ Way[d] \subseteq Dirs
                      /\ \A c \in Way[d] : c <= d /\ Way[c] \subseteq Way[d]
                      /\ \A b, c \in Way[d] : b <= c => b \in Way[c]
           S == {d \in Dirs : Fine(d)}
<1>1. ASSUME NEW d \in Dirs, \A c \in Dirs : c < d => c \in S
      PROVE  d \in S
  <2>1. d \in Int /\ \A c \in Dirs : c \in Int
      BY TreeAssumption DEF Dirs
  <2>2. CASE d = 0
    <3>1. Way[d] = {0}
        BY <2>2, WayStep
    <3> QED
        BY <2>1, <2>2, <3>1
  <2>3. CASE d # 0
    <3>1. Way[d] = {d} \cup Way[Parent[d]] /\ Parent[d] \in Dirs /\ Parent[d] < d
        BY <2>3, WayStep, ParentBelow
    <3>2. Fine(Parent[d])
        BY <1>1, <3>1
    <3>3. d \in Way[d] /\ Way[d] \subseteq Dirs
        BY <3>1, <3>2
    <3>4. ASSUME NEW c \in Way[d] PROVE c <= d /\ Way[c] \subseteq Way[d]
      <4>1. c \in Int /\ Parent[d] \in Int
          BY <2>1, <3>1, <3>3
      <4>2. CASE c = d
          BY <2>1, <4>2
      <4>3. CASE c \in Way[Parent[d]]
        <5>1. c <= Parent[d] /\ Way[c] \subseteq Way[Parent[d]]
            BY <3>2, <4>3
        <5>2. c <= d
            BY <2>1, <3>1, <4>1, <5>1
        <5> QED
            BY <3>1, <5>1, <5>2
      <4> QED
          BY <3>1, <4>2, <4>3
    <3>5. ASSUME NEW b \in Way[d], NEW c \in Way[d], b <= c PROVE b \in Way[c]
      <4>1. CASE c = d
          BY <4>1, <3>5
      <4>2. CASE c \in Way[Parent[d]]
        <5>1. c <= Parent[d] /\ c \in Int /\ b \in Int /\ Parent[d] \in Int
            BY <2>1, <3>1, <3>2, <3>3, <4>2
        <5>2. b # d
            BY <3>1, <3>5, <5>1, <2>1
        <5> QED
            BY <3>1, <3>2, <3>5, <4>2, <5>2
      <4> QED
          BY <3>1, <4>1, <4>2
    <3> QED
        BY <3>3, <3>4, <3>5
  <2> QED
      BY <2>2, <2>3
<1> HIDE DEF S
<1>2. Dirs \subseteq S
    BY <1>1, DirInduction
<1> QED
    BY <1>2 DEF S

\* A directory below d, other than d, is at or below one in d.
LEMMA BelowSome ==
    ASSUME NEW d \in Dirs
    PROVE  \A c \in Dirs : d \in Way[c] /\ c # d => \E e \in SubdirsOf(d) : e \in Way[c]
<1> DEFINE S == {c \in Dirs : d \in Way[c] /\ c # d => \E e \in SubdirsOf(d) : e \in Way[c]}
<1>1. ASSUME NEW c \in Dirs, \A b \in Dirs : b < c => b \in S
      PROVE  c \in S
  <2> SUFFICES ASSUME d \in Way[c], c # d PROVE \E e \in SubdirsOf(d) : e \in Way[c]
      OBVIOUS
  <2>1. c # 0 /\ Way[c] = {c} \cup Way[Parent[c]]
      BY WayStep
  <2>2. c \in Subdirs /\ Parent[c] \in Dirs /\ Parent[c] < c
      BY <2>1, ParentBelow
  <2>3. CASE Parent[c] = d
      BY <2>1, <2>2, <2>3 DEF SubdirsOf
  <2>4. CASE Parent[c] # d
      BY <1>1, <2>1, <2>2, <2>4
  <2> QED
      BY <2>3, <2>4
<1> HIDE DEF S
<1>2. Dirs \subseteq S
    BY <1>1, DirInduction
<1> QED
    BY <1>2 DEF S

LEMMA DirInts == 0 \in Dirs /\ \A d \in Dirs : d \in Int
BY TreeAssumption DEF Dirs

LEMMA ZeroOnWay == \A d \in Dirs : 0 \in Way[d]
<1> DEFINE S == {d \in Dirs : 0 \in Way[d]}
<1>1. ASSUME NEW d \in Dirs, \A c \in Dirs : c < d => c \in S PROVE d \in S
  <2>1. CASE d = 0
      BY <2>1, WayFacts
  <2>2. CASE d # 0
      BY <1>1, <2>2, ParentBelow, WayStep
  <2> QED
      BY <2>1, <2>2
<1> HIDE DEF S
<1>2. Dirs \subseteq S
    BY <1>1, DirInduction
<1> QED
    BY <1>2 DEF S

-----------------------------------------------------------------------------
(***************************************************************************)
(* The names of a directory, in their order.                               *)
(***************************************************************************)

\* s has the numbers in S, each once and in their order.
Lists(s, S) ==
    /\ s \in Seq(S)
    /\ \A i, j \in 1..Len(s) : i < j => s[i] < s[j]
    /\ \A n \in S : \E i \in 1..Len(s) : s[i] = n

LEMMA ListsNone == ASSUME NEW s PROVE Lists(s, {}) <=> s = << >>
<1>1. ASSUME Lists(s, {}) PROVE s = << >>
  <2>1. s \in Seq({})
      BY <1>1 DEF Lists
  <2>2. s # << >> => s[1] \in {}
      BY <2>1
  <2> QED
      BY <2>2
<1>2. Lists(<< >>, {})
    BY DEF Lists
<1> QED
    BY <1>1, <1>2

LEMMA ListsAppend ==
    ASSUME NEW S, S \subseteq Int, NEW s, Lists(s, S), NEW n \in Int, \A m \in S : m < n
    PROVE  Lists(Append(s, n), S \cup {n})
<1>1. s \in Seq(S) /\ s \in Seq(S \cup {n})
    BY DEF Lists
<1>2. PICK t : t = Append(s, n)
    OBVIOUS
<1>3. /\ t \in Seq(S \cup {n}) /\ Len(t) = Len(s) + 1 /\ Len(s) \in Nat
      /\ t[Len(s) + 1] = n
      /\ \A i \in 1..Len(s) : t[i] = s[i] /\ s[i] \in S
    BY <1>1, <1>2
<1>4. ASSUME NEW i \in 1..Len(t), NEW j \in 1..Len(t), i < j PROVE t[i] < t[j]
  <2>1. i \in 1..Len(s)
      BY <1>3, <1>4
  <2>2. CASE j = Len(s) + 1
      BY <1>3, <2>1, <2>2
  <2>3. CASE j \in 1..Len(s)
      BY <1>3, <1>4, <2>1, <2>3 DEF Lists
  <2> QED
      BY <1>3, <2>2, <2>3
<1>5. ASSUME NEW m \in S \cup {n} PROVE \E i \in 1..Len(t) : t[i] = m
  <2>1. CASE m = n
      BY <1>3, <2>1
  <2>2. CASE m \in S
    <3>1. PICK i \in 1..Len(s) : s[i] = m
        BY <2>2 DEF Lists
    <3> QED
        BY <1>3, <3>1
  <2> QED
      BY <2>1, <2>2
<1> QED
    BY <1>2, <1>3, <1>4, <1>5 DEF Lists

\* The first one is the least; the others follow.
LEMMA ListsHead ==
    ASSUME NEW S, S \subseteq Int, NEW s, Lists(s, S), s # << >>
    PROVE  /\ Head(s) \in S /\ \A m \in S : Head(s) <= m
           /\ Lists(Tail(s), S \ {Head(s)})
<1>1. s \in Seq(S) /\ Len(s) \in Nat /\ Len(s) > 0
    BY DEF Lists
<1>2. \A i \in 1..Len(s) : s[i] \in S /\ s[i] \in Int
  <2>1. \A i \in 1..Len(s) : s[i] \in S
      BY <1>1
  <2> QED
      BY <2>1
<1>3. Head(s) = s[1] /\ 1 \in 1..Len(s)
    BY <1>1
<1>4. PICK t : t = Tail(s)
    OBVIOUS
<1>5. /\ Len(t) = Len(s) - 1 /\ t \in Seq(S)
      /\ \A i \in 1..Len(t) : t[i] = s[i + 1] /\ i + 1 \in 1..Len(s)
    BY <1>1, <1>4
<1>6. \A i \in 1..Len(s) : i # 1 => s[1] < s[i]
  <2>1. 1 \in 1..Len(s) /\ \A i \in 1..Len(s) : i # 1 => 1 < i
      BY <1>1, <1>3
  <2> QED
      BY <2>1 DEF Lists
<1>7. \A m \in S : Head(s) <= m
  <2> SUFFICES ASSUME NEW m \in S PROVE s[1] <= m
      BY <1>3
  <2>1. PICK i \in 1..Len(s) : s[i] = m
      BY DEF Lists
  <2> QED
      BY <1>2, <1>3, <1>6, <2>1
<1>8. \A i \in 1..Len(t) : t[i] \in S \ {s[1]}
    BY SMTT(20), <1>1, <1>2, <1>3, <1>5, <1>6
<1>9. t \in Seq(S \ {s[1]})
  <2>1. t = [i \in 1..Len(t) |-> t[i]] /\ Len(t) \in Nat
      BY <1>5
  <2> QED
      BY <1>8, <2>1, IsASeq
<1>10. \A i, j \in 1..Len(t) : i < j => t[i] < t[j]
    BY <1>1, <1>5 DEF Lists
<1>11. ASSUME NEW m \in S \ {s[1]} PROVE \E i \in 1..Len(t) : t[i] = m
  <2>1. PICK i \in 1..Len(s) : s[i] = m
      BY DEF Lists
  <2>2. i # 1 /\ i - 1 \in 1..Len(t) /\ (i - 1) + 1 = i
      BY <1>1, <1>5, <1>11, <2>1
  <2> QED
      BY <1>5, <2>1, <2>2
<1> QED
    BY <1>1, <1>2, <1>3, <1>4, <1>7, <1>9, <1>10, <1>11 DEF Lists

\* How byName counts up.
Added(f, names, n) == IF n = 0 THEN << >>
                      ELSE IF n \in names THEN Append(f[n - 1], n)
                      ELSE f[n - 1]

IsUpTo(f, names, k) == f = [n \in 0..k |-> Added(f, names, n)]

LEMMA UpToExists ==
    ASSUME NEW names
    PROVE  \A k \in Nat : \E f : IsUpTo(f, names, k)
<1> DEFINE S == {k \in Nat : \E f : IsUpTo(f, names, k)}
<1>1. 0 \in S
  <2> DEFINE f == [n \in 0..0 |-> << >>]
  <2>1. IsUpTo(f, names, 0)
      BY DEF IsUpTo, Added
  <2> QED
      BY <2>1
<1>2. ASSUME NEW k \in Nat, k \in S PROVE k + 1 \in S
  <2>1. PICK g : IsUpTo(g, names, k)
      BY <1>2
  <2> DEFINE f == [n \in 0..k + 1 |-> IF n <= k THEN g[n] ELSE Added(g, names, n)]
  <2>2. ASSUME NEW n \in 0..k + 1 PROVE f[n] = Added(f, names, n)
    <3>1. n # 0 => f[n - 1] = g[n - 1]
        OBVIOUS
    <3>2. Added(f, names, n) = Added(g, names, n)
      <4> HIDE DEF f
      <4> QED
          BY <3>1 DEF Added
    <3>3. f[n] = Added(g, names, n)
      <4>1. n <= k => g[n] = Added(g, names, n)
          BY <2>1 DEF IsUpTo
      <4> QED
          BY <4>1
    <3> HIDE DEF f
    <3> QED
        BY <3>2, <3>3
  <2>3. IsUpTo(f, names, k + 1)
    <3>1. f = [n \in 0..k + 1 |-> f[n]]
        OBVIOUS
    <3> HIDE DEF f
    <3> QED
        BY <2>2, <3>1 DEF IsUpTo
  <2> HIDE DEF f
  <2> QED
      BY <2>3
<1> HIDE DEF S
<1>3. Nat \subseteq S
    BY <1>1, <1>2, SetInduction
<1> QED
    BY <1>3 DEF S

\* byName sorts.
LEMMA ByName ==
    ASSUME NEW names, names \subseteq 1..LastDir + LastFile
    PROVE  Lists(byName(names), names)
<1> DEFINE last == LastDir + LastFile
<1>1. last \in Nat
    BY TreeAssumption
<1>2. PICK f : byName(names) = f[last] /\ IsUpTo(f, names, last)
  <2>1. byName(names) = (CHOOSE f : IsUpTo(f, names, last))[last]
      BY Zenon DEF byName, IsUpTo, Added
  <2>2. \E f : IsUpTo(f, names, last)
      BY <1>1, UpToExists
  <2> HIDE DEF last
  <2> QED
      BY Zenon, <2>1, <2>2
<1> DEFINE S == {n \in Nat : n <= last => Lists(f[n], names \cap 1..n)}
<1> HIDE DEF last
<1>3. 0 \in S
  <2>1. f[0] = << >>
      BY <1>1, <1>2 DEF IsUpTo, Added
  <2>2. names \cap 1..0 = {}
      OBVIOUS
  <2> QED
      BY <2>1, <2>2, ListsNone
<1>4. ASSUME NEW n \in Nat, n \in S PROVE n + 1 \in S
  <2> SUFFICES ASSUME n + 1 <= last PROVE Lists(f[n + 1], names \cap 1..n + 1)
      OBVIOUS
  <2>1. Lists(f[n], names \cap 1..n)
      BY <1>1, <1>4
  <2>2. f[n + 1] = IF n + 1 \in names THEN Append(f[n], n + 1) ELSE f[n]
    <3>1. f[n + 1] = Added(f, names, n + 1)
        BY <1>1, <1>2 DEF IsUpTo
    <3>2. n + 1 # 0 /\ (n + 1) - 1 = n
        OBVIOUS
    <3> QED
        BY <3>1, <3>2 DEF Added
  <2>3. CASE n + 1 \in names
    <3>1. names \cap 1..n + 1 = (names \cap 1..n) \cup {n + 1}
        BY <2>3
    <3>2. names \cap 1..n \subseteq Int /\ (\A m \in names \cap 1..n : m < n + 1)
          /\ n + 1 \in Int
        OBVIOUS
    <3>3. Lists(Append(f[n], n + 1), (names \cap 1..n) \cup {n + 1})
        BY <2>1, <3>2, ListsAppend
    <3> QED
        BY <2>2, <2>3, <3>1, <3>3
  <2>4. CASE n + 1 \notin names
    <3>1. names \cap 1..n + 1 = names \cap 1..n
        BY <2>4
    <3> QED
        BY <2>1, <2>2, <2>4, <3>1
  <2> QED
      BY <2>3, <2>4
<1> HIDE DEF S
<1>5. Nat \subseteq S
    BY <1>3, <1>4, SetInduction
<1>6. Lists(f[last], names \cap 1..last)
    BY <1>1, <1>5 DEF S
<1>7. names \cap 1..last = names
    BY DEF last
<1> QED
    BY <1>2, <1>6, <1>7

-----------------------------------------------------------------------------
(***************************************************************************)
(* Sequences that have each element of a set once.                         *)
(***************************************************************************)

Prints(s, S) ==
    /\ s \in Seq(S)
    /\ \A l \in S : \E i \in 1..Len(s) : s[i] = l
    /\ \A i, j \in 1..Len(s) : s[i] = s[j] => i = j

LEMMA PrintsFew ==
    /\ Prints(<< >>, {})
    /\ \A l : Prints(<<l>>, {l})
BY DEF Prints

LEMMA PrintsConcat ==
    ASSUME NEW S, NEW s, Prints(s, S), NEW T, NEW t, Prints(t, T), S \cap T = {}
    PROVE  Prints(s \o t, S \cup T)
<1>1. s \in Seq(S) /\ t \in Seq(T) /\ s \in Seq(S \cup T) /\ t \in Seq(S \cup T)
    BY SeqMonotonic DEF Prints
<1>2. PICK r : r = s \o t
    OBVIOUS
<1>3. Len(s) \in Nat /\ Len(t) \in Nat
    BY <1>1
<1>4. /\ r \in Seq(S \cup T) /\ Len(r) = Len(s) + Len(t)
      /\ \A i \in 1..Len(s) + Len(t) : r[i] = IF i <= Len(s) THEN s[i] ELSE t[i - Len(s)]
    BY <1>1, <1>2, ConcatProperties
<1>5. (\A i \in 1..Len(s) : s[i] \in S) /\ (\A i \in 1..Len(t) : t[i] \in T)
    BY <1>1, ElementOfSeq
<1>6. ASSUME NEW l \in S \cup T PROVE \E i \in 1..Len(r) : r[i] = l
  <2>1. CASE l \in S
    <3>1. PICK i \in 1..Len(s) : s[i] = l
        BY <2>1 DEF Prints
    <3> QED
        BY <1>3, <1>4, <3>1
  <2>2. CASE l \in T
    <3>1. PICK i \in 1..Len(t) : t[i] = l
        BY <2>2 DEF Prints
    <3>2. Len(s) + i \in 1..Len(r) /\ ~ (Len(s) + i <= Len(s)) /\ Len(s) + i - Len(s) = i
        BY <1>3, <1>4, <3>1
    <3> QED
        BY <1>4, <3>1, <3>2
  <2> QED
      BY <2>1, <2>2
<1>7. ASSUME NEW i \in 1..Len(r), NEW j \in 1..Len(r), r[i] = r[j] PROVE i = j
  <2>1. CASE i <= Len(s) /\ j <= Len(s)
    <3>1. i \in 1..Len(s) /\ j \in 1..Len(s) /\ s[i] = s[j]
        BY <1>3, <1>4, <1>7, <2>1
    <3> QED
        BY <3>1 DEF Prints
  <2>2. CASE ~ (i <= Len(s)) /\ ~ (j <= Len(s))
    <3>1. i - Len(s) \in 1..Len(t) /\ j - Len(s) \in 1..Len(t)
        BY <1>3, <1>4, <2>2
    <3>2. t[i - Len(s)] = t[j - Len(s)]
        BY <1>4, <1>7, <2>2
    <3>3. i - Len(s) = j - Len(s)
        BY <3>1, <3>2 DEF Prints
    <3> QED
        BY <1>3, <1>4, <3>3
  <2>3. CASE i <= Len(s) /\ ~ (j <= Len(s))
    <3>1. i \in 1..Len(s) /\ j - Len(s) \in 1..Len(t) /\ s[i] = t[j - Len(s)]
        BY <1>3, <1>4, <1>7, <2>3
    <3> QED
        BY <1>5, <3>1
  <2>4. CASE ~ (i <= Len(s)) /\ j <= Len(s)
    <3>1. j \in 1..Len(s) /\ i - Len(s) \in 1..Len(t) /\ s[j] = t[i - Len(s)]
        BY <1>3, <1>4, <1>7, <2>4
    <3> QED
        BY <1>5, <3>1
  <2> QED
      BY <2>1, <2>2, <2>3, <2>4
<1>8. Prints(r, S \cup T)
    BY <1>4, <1>6, <1>7 DEF Prints
<1> QED
    BY <1>2, <1>8

IsFlat(f, ss, n) == f = [i \in 1..n |-> IF i = 1 THEN ss[i] ELSE f[i - 1] \o ss[i]]

LEMMA FlatExists ==
    ASSUME NEW ss
    PROVE  \A n \in Nat : \E f : IsFlat(f, ss, n)
<1> DEFINE S == {n \in Nat : \E f : IsFlat(f, ss, n)}
<1>1. 0 \in S
  <2> DEFINE f == [i \in 1..0 |-> << >>]
  <2>1. IsFlat(f, ss, 0)
      BY DEF IsFlat
  <2> QED
      BY <2>1
<1>2. ASSUME NEW n \in Nat, n \in S PROVE n + 1 \in S
  <2>1. PICK g : IsFlat(g, ss, n)
      BY <1>2
  <2> DEFINE f == [i \in 1..n + 1 |->
                      IF i <= n THEN g[i] ELSE IF i = 1 THEN ss[i] ELSE g[i - 1] \o ss[i]]
  <2>2. ASSUME NEW i \in 1..n + 1
        PROVE  f[i] = IF i = 1 THEN ss[i] ELSE f[i - 1] \o ss[i]
    <3>1. i # 1 => f[i - 1] = g[i - 1]
        OBVIOUS
    <3>2. i <= n => g[i] = IF i = 1 THEN ss[i] ELSE g[i - 1] \o ss[i]
      <4>1. i <= n => i \in 1..n
          OBVIOUS
      <4> HIDE DEF f
      <4> QED
          BY Zenon, <2>1, <4>1 DEF IsFlat
    <3>3. f[i] = IF i = 1 THEN ss[i] ELSE g[i - 1] \o ss[i]
        BY <3>2
    <3> HIDE DEF f
    <3> QED
        BY <3>1, <3>3
  <2>3. f = [i \in 1..n + 1 |-> f[i]]
      OBVIOUS
  <2> HIDE DEF f
  <2>4. IsFlat(f, ss, n + 1)
      BY <2>2, <2>3 DEF IsFlat
  <2> QED
      BY <2>4
<1> HIDE DEF S
<1>3. Nat \subseteq S
    BY <1>1, <1>2, SetInduction
<1> QED
    BY <1>3 DEF S

\* What is in sequences that have nothing in common, one after the other.
LEMMA PrintsFlat ==
    ASSUME NEW ss, Len(ss) \in Nat, Len(ss) = 0 => ss = << >>,
           NEW SS, \A i \in 1..Len(ss) : Prints(ss[i], SS[i]),
           \A i, j \in 1..Len(ss) : i # j => SS[i] \cap SS[j] = {}
    PROVE  Prints(FlattenSeq(ss), UNION {SS[i] : i \in 1..Len(ss)})
<1>1. CASE Len(ss) = 0
  <2>1. FlattenSeq(ss) = << >> /\ UNION {SS[i] : i \in 1..Len(ss)} = {}
      BY <1>1 DEF FlattenSeq
  <2> QED
      BY <2>1, PrintsFew
<1>2. CASE Len(ss) # 0
  <2>1. FlattenSeq(ss) = (CHOOSE f : IsFlat(f, ss, Len(ss)))[Len(ss)]
      BY Zenon, <1>2 DEF FlattenSeq, IsFlat
  <2>2. PICK f : IsFlat(f, ss, Len(ss)) /\ FlattenSeq(ss) = f[Len(ss)]
      BY Zenon, <2>1, FlatExists
  <2> DEFINE S == {n \in Nat : n + 1 <= Len(ss) =>
                                  Prints(f[n + 1], UNION {SS[i] : i \in 1..n + 1})}
  <2>3. 0 \in S
    <3> SUFFICES ASSUME 0 + 1 <= Len(ss)
                 PROVE  Prints(f[0 + 1], UNION {SS[i] : i \in 1..0 + 1})
        OBVIOUS
    <3>1. 0 + 1 = 1 /\ 1 \in 1..Len(ss)
        BY <1>2
    <3>2. f[1] = ss[1]
        BY Zenon, <2>2, <3>1 DEF IsFlat
    <3>3. UNION {SS[i] : i \in 1..1} = SS[1]
        OBVIOUS
    <3>4. Prints(ss[1], SS[1])
        BY <3>1
    <3>5. Prints(f[1], UNION {SS[i] : i \in 1..1})
        BY <3>2, <3>3, <3>4
    <3> QED
        BY <3>1, <3>5
  <2>4. ASSUME NEW n \in Nat, n \in S PROVE n + 1 \in S
    <3> SUFFICES ASSUME n + 1 + 1 <= Len(ss)
                 PROVE  Prints(f[n + 1 + 1], UNION {SS[i] : i \in 1..n + 1 + 1})
        OBVIOUS
    <3>1. f[n + 2] = f[n + 1] \o ss[n + 2]
      <4>1. n + 2 \in 1..Len(ss) /\ n + 2 # 1 /\ (n + 2) - 1 = n + 1
          OBVIOUS
      <4>2. f[n + 2] = f[(n + 2) - 1] \o ss[n + 2]
          BY Zenon, <2>2, <4>1 DEF IsFlat
      <4> QED
          BY Zenon, <4>1, <4>2
    <3>2. Prints(f[n + 1], UNION {SS[i] : i \in 1..n + 1})
        BY <2>4
    <3>3. Prints(ss[n + 2], SS[n + 2])
        OBVIOUS
    <3>4. (UNION {SS[i] : i \in 1..n + 1}) \cap SS[n + 2] = {}
      <4>1. \A i \in 1..n + 1 : i \in 1..Len(ss) /\ n + 2 \in 1..Len(ss) /\ i # n + 2
          OBVIOUS
      <4> QED
          BY <4>1
    <3>5. UNION {SS[i] : i \in 1..n + 2} = (UNION {SS[i] : i \in 1..n + 1}) \cup SS[n + 2]
      <4>1. 1..n + 2 = (1..n + 1) \cup {n + 2}
          OBVIOUS
      <4> QED
          BY <4>1
    <3>6. Prints(f[n + 1] \o ss[n + 2], (UNION {SS[i] : i \in 1..n + 1}) \cup SS[n + 2])
        BY <3>2, <3>3, <3>4, PrintsConcat
    <3>7. n + 1 + 1 = n + 2
        OBVIOUS
    <3> QED
        BY <3>1, <3>5, <3>6, <3>7
  <2> HIDE DEF S
  <2>5. Nat \subseteq S
      BY <2>3, <2>4, SetInduction
  <2>6. Len(ss) - 1 \in S /\ Len(ss) - 1 + 1 = Len(ss)
      BY <1>2, <2>5
  <2>7. Prints(f[Len(ss)], UNION {SS[i] : i \in 1..Len(ss)})
      BY <2>6 DEF S
  <2> QED
      BY <2>2, <2>7
<1> QED
    BY <1>1, <1>2

Each(s, c) == [i \in DOMAIN s |-> c[s[i]]]
AllOf(C, S) == UNION {C[n] : n \in S}
Ones(L, S)  == {L[n] : n \in S}

\* What is said about each number of a list, one after the other.
LEMMA PrintsEach ==
    ASSUME NEW S, S \subseteq Int, NEW s, Lists(s, S),
           NEW c, NEW C, \A n \in S : Prints(c[n], C[n]),
           \A m, n \in S : m # n => C[m] \cap C[n] = {}
    PROVE  Prints(FlattenSeq(Each(s, c)), AllOf(C, S))
<1>1. /\ s \in Seq(S) /\ Len(s) \in Nat /\ DOMAIN s = 1..Len(s)
      /\ \A i \in 1..Len(s) : s[i] \in S /\ s[i] \in Int
  <2>1. s \in Seq(S)
      BY DEF Lists
  <2>2. \A i \in 1..Len(s) : s[i] \in S
      BY <2>1, ElementOfSeq
  <2>3. Len(s) \in Nat /\ DOMAIN s = 1..Len(s)
      BY <2>1
  <2>4. \A i \in 1..Len(s) : s[i] \in Int
      BY <2>2
  <2> QED
      BY <2>1, <2>2, <2>3, <2>4
<1> DEFINE ss == [i \in 1..Len(s) |-> c[s[i]]]
           SS == [i \in 1..Len(s) |-> C[s[i]]]
<1>2. Len(ss) = Len(s) /\ (Len(s) = 0 => ss = << >>)
    BY <1>1
<1>3. \A i \in 1..Len(s) : Prints(ss[i], SS[i])
    BY <1>1
<1>4. ASSUME NEW i \in 1..Len(s), NEW j \in 1..Len(s), i # j PROVE SS[i] \cap SS[j] = {}
  <2>1. s[i] # s[j]
    <3>1. i < j \/ j < i
        BY <1>4
    <3>2. s[i] < s[j] \/ s[j] < s[i]
        BY <3>1 DEF Lists
    <3> QED
        BY <1>1, <3>2
  <2> QED
      BY <1>1, <2>1
<1>5. UNION {SS[i] : i \in 1..Len(s)} = UNION {C[n] : n \in S}
  <2>1. \A i \in 1..Len(s) : SS[i] = C[s[i]] /\ s[i] \in S
      BY <1>1
  <2>2. \A n \in S : \E i \in 1..Len(s) : s[i] = n
      BY DEF Lists
  <2> HIDE DEF SS
  <2>3. ASSUME NEW i \in 1..Len(s) PROVE SS[i] \subseteq UNION {C[n] : n \in S}
      BY <2>1
  <2>4. ASSUME NEW n \in S PROVE C[n] \subseteq UNION {SS[i] : i \in 1..Len(s)}
    <3>1. PICK i \in 1..Len(s) : s[i] = n
        BY <2>2
    <3>2. SS[i] = C[n]
        BY <2>1, <3>1
    <3> QED
        BY <3>2
  <2>5. /\ UNION {SS[i] : i \in 1..Len(s)} \subseteq UNION {C[n] : n \in S}
        /\ UNION {C[n] : n \in S} \subseteq UNION {SS[i] : i \in 1..Len(s)}
    <3> DEFINE U == UNION {C[n] : n \in S}
               V == UNION {SS[i] : i \in 1..Len(s)}
    <3>1. (\A i \in 1..Len(s) : SS[i] \subseteq U) => V \subseteq U
      <4> HIDE DEF U
      <4> QED
          OBVIOUS
    <3>2. (\A n \in S : C[n] \subseteq V) => U \subseteq V
      <4> HIDE DEF V
      <4> QED
          OBVIOUS
    <3> QED
        BY <2>3, <2>4, <3>1, <3>2
  <2> QED
      BY <2>5
<1>6. [i \in DOMAIN s |-> c[s[i]]] = ss
    BY <1>1
<1> HIDE DEF ss, SS
<1>7. Prints(FlattenSeq(ss), UNION {SS[i] : i \in 1..Len(ss)})
  <2>1. /\ Len(ss) \in Nat /\ (Len(ss) = 0 => ss = << >>)
        /\ \A i \in 1..Len(ss) : Prints(ss[i], SS[i])
        /\ \A i, j \in 1..Len(ss) : i # j => SS[i] \cap SS[j] = {}
      BY <1>1, <1>2, <1>3, <1>4
  <2> QED
      BY SMTT(20), <2>1, PrintsFlat
<1> QED
    BY <1>2, <1>5, <1>6, <1>7 DEF Each, AllOf

\* One line about each number of a list.
LEMMA PrintsLines ==
    ASSUME NEW S, S \subseteq Int, NEW s, Lists(s, S), NEW L,
           \A m, n \in S : m # n => L[m] # L[n]
    PROVE  Prints(Each(s, L), Ones(L, S))
<1>1. s \in Seq(S) /\ Len(s) \in Nat /\ DOMAIN s = 1..Len(s)
    BY DEF Lists
<1>2. \A i \in 1..Len(s) : s[i] \in S /\ s[i] \in Int
  <2>1. \A i \in 1..Len(s) : s[i] \in S
      BY <1>1, ElementOfSeq
  <2> QED
      BY <2>1
<1> DEFINE t == [i \in 1..Len(s) |-> L[s[i]]]
           T == {L[n] : n \in S}
<1>3. t \in Seq(T) /\ Len(t) = Len(s)
  <2>1. \A i \in 1..Len(s) : L[s[i]] \in T
      BY <1>2
  <2> HIDE DEF T
  <2> QED
      BY <1>1, <2>1
<1>4. ASSUME NEW l \in T PROVE \E i \in 1..Len(t) : t[i] = l
  <2>1. PICK n \in S : l = L[n]
      OBVIOUS
  <2>2. PICK i \in 1..Len(s) : s[i] = n
      BY DEF Lists
  <2> QED
      BY <1>3, <2>1, <2>2
<1>5. ASSUME NEW i \in 1..Len(t), NEW j \in 1..Len(t), t[i] = t[j] PROVE i = j
  <2>1. i \in 1..Len(s) /\ j \in 1..Len(s) /\ L[s[i]] = L[s[j]]
      BY <1>3, <1>5
  <2>2. s[i] = s[j]
      BY <1>2, <2>1
  <2>3. ~ (i < j) /\ ~ (j < i)
      BY <1>2, <2>1, <2>2 DEF Lists
  <2> QED
      BY <2>1, <2>3
<1>6. [i \in DOMAIN s |-> L[s[i]]] = t
    BY <1>1
<1> HIDE DEF t, T
<1>7. Prints(t, T)
    BY <1>3, <1>4, <1>5 DEF Prints
<1> QED
    BY <1>6, <1>7 DEF T, Each, Ones

-----------------------------------------------------------------------------
(***************************************************************************)
(* CompareTrees.                                                           *)
(***************************************************************************)

Compared(w, older, newer, c) ==
    IF Has(older.dir[c])
    THEN w[c] \o compAtts(<<"dir", c>>, older.dir[c], newer.dir[c])
    ELSE <<Line("+", <<"dir", c>>, {})>>

NewSubs(older, newer, d) == {c \in SubdirsOf(d) : Has(newer.dir[c])}
OldSubs(older, newer, d) == {c \in SubdirsOf(d) : Has(older.dir[c]) /\ ~ Has(newer.dir[c])}

Walked(w, older, newer, d) ==
    LET news == byName(NewSubs(older, newer, d))
        left == byName(OldSubs(older, newer, d))
    IN  FlattenSeq([i \in DOMAIN news |-> Compared(w, older, newer, news[i])])
            \o [i \in DOMAIN left |-> Line("-", <<"dir", left[i]>>, {})]
            \o compFiles(older, newer, d)

WalkedFrom(w, older, newer, n) == w = [d \in n..LastDir |-> Walked(w, older, newer, d)]

LEMMA SubsAreNames ==
    ASSUME NEW S, NEW d, S \subseteq SubdirsOf(d)
    PROVE  /\ S \subseteq Int /\ Lists(byName(S), S)
           /\ DOMAIN byName(S) = 1..Len(byName(S))
           /\ \A i \in DOMAIN byName(S) : byName(S)[i] \in S
<1>1. S \subseteq 1..LastDir + LastFile /\ S \subseteq Int
    BY TreeAssumption DEF SubdirsOf, Subdirs
<1>2. PICK s : s = byName(S) /\ Lists(s, S)
    BY <1>1, ByName
<1>3. s \in Seq(S)
    BY <1>2 DEF Lists
<1>4. DOMAIN s = 1..Len(s)
    BY <1>3
<1>5. \A i \in 1..Len(s) : s[i] \in S
    BY <1>3, ElementOfSeq
<1> QED
    BY <1>1, <1>2, <1>4, <1>5

LEMMA FilesAreNames ==
    ASSUME NEW S, NEW d, S \subseteq FilesOf(d)
    PROVE  S \subseteq Int /\ Lists(byName(S), S)
<1>1. S \subseteq 1..LastDir + LastFile /\ S \subseteq Int
    BY TreeAssumption DEF FilesOf, Files
<1> QED
    BY <1>1, ByName

LEMMA WalkedAgree ==
    ASSUME NEW older, NEW newer, NEW d, NEW f, NEW g, \A c \in SubdirsOf(d) : f[c] = g[c]
    PROVE  Walked(f, older, newer, d) = Walked(g, older, newer, d)
<1> DEFINE news == byName(NewSubs(older, newer, d))
<1>1. \A i \in DOMAIN news : news[i] \in SubdirsOf(d)
  <2>1. NewSubs(older, newer, d) \subseteq SubdirsOf(d)
      BY DEF NewSubs
  <2> QED
      BY <2>1, SubsAreNames
<1> HIDE DEF news
<1>2. \A i \in DOMAIN news : Compared(f, older, newer, news[i]) = Compared(g, older, newer, news[i])
    BY Zenon, <1>1 DEF Compared
<1>3. [i \in DOMAIN news |-> Compared(f, older, newer, news[i])]
          = [i \in DOMAIN news |-> Compared(g, older, newer, news[i])]
    BY Zenon, <1>2
<1> QED
    BY Zenon, <1>3 DEF Walked, news

LEMMA WalkedExists ==
    ASSUME NEW older, NEW newer
    PROVE  \A n \in Nat : n <= LastDir => \E w : WalkedFrom(w, older, newer, LastDir - n)
<1> DEFINE W(f, d) == Walked(f, older, newer, d)
           S == {n \in Nat : n <= LastDir => \E w : WalkedFrom(w, older, newer, LastDir - n)}
<1>1. LastDir \in Nat /\ \A d \in Dirs : \A c \in SubdirsOf(d) : c > d /\ c <= LastDir
    BY TreeAssumption DEF Dirs, Subdirs, SubdirsOf
<1>2. 0 \in S
  <2> DEFINE f == [d \in LastDir..LastDir |-> W(<< >>, d)]
  <2>1. SubdirsOf(LastDir) = {}
    <3>1. ASSUME NEW c \in SubdirsOf(LastDir) PROVE FALSE
      <4>1. LastDir \in Dirs
          BY <1>1 DEF Dirs
      <4>2. c > LastDir /\ c <= LastDir /\ c \in Int
          BY <1>1, <4>1 DEF SubdirsOf, Subdirs
      <4> QED
          BY <4>2, <1>1
    <3> QED
        BY <3>1
  <2>2. ASSUME NEW d \in LastDir..LastDir PROVE W(f, d) = W(<< >>, d)
    <3>1. d = LastDir
        BY <1>1
    <3> HIDE DEF f
    <3>2. \A c \in SubdirsOf(d) : f[c] = << >>[c]
        BY <2>1, <3>1
    <3> QED
        BY <3>2, WalkedAgree
  <2>3. WalkedFrom(f, older, newer, LastDir)
    <3>1. [d \in LastDir..LastDir |-> W(f, d)] = [d \in LastDir..LastDir |-> W(<< >>, d)]
        BY Zenon, <2>2
    <3> QED
        BY Zenon, <3>1 DEF WalkedFrom
  <2>4. LastDir - 0 = LastDir
      BY <1>1
  <2> HIDE DEF f
  <2> QED
      BY <2>3, <2>4
<1>3. ASSUME NEW n \in Nat, n \in S PROVE n + 1 \in S
  <2> SUFFICES ASSUME n + 1 <= LastDir
               PROVE  \E w : WalkedFrom(w, older, newer, LastDir - (n + 1))
      OBVIOUS
  <2>1. PICK g : WalkedFrom(g, older, newer, LastDir - n)
      BY <1>1, <1>3
  <2> DEFINE k == LastDir - (n + 1)
             f == [d \in k..LastDir |-> IF d = k THEN W(g, d) ELSE g[d]]
  <2>2. k \in Dirs /\ k + 1 = LastDir - n
      BY <1>1 DEF Dirs
  <2>3. \A d \in k..LastDir : SubdirsOf(d) \subseteq k + 1..LastDir
    <3> SUFFICES ASSUME NEW d \in k..LastDir, NEW c \in SubdirsOf(d)
                 PROVE  c \in k + 1..LastDir
        OBVIOUS
    <3>1. d \in Dirs /\ d >= k
        BY <2>2, <1>1 DEF Dirs
    <3>2. c > d /\ c <= LastDir /\ c \in Int
        BY <3>1, <1>1 DEF SubdirsOf, Subdirs
    <3> QED
        BY <3>1, <3>2, <2>2, <1>1 DEF Dirs
  <2> HIDE DEF k
  <2>4. \A c \in k + 1..LastDir : f[c] = g[c]
      BY <2>2, <1>1 DEF Dirs
  <2>5. ASSUME NEW d \in k..LastDir PROVE W(f, d) = W(g, d)
    <3>1. \A c \in SubdirsOf(d) : f[c] = g[c]
        BY <2>3, <2>4
    <3> HIDE DEF f
    <3> QED
        BY <3>1, WalkedAgree
  <2>6. ASSUME NEW d \in k..LastDir PROVE f[d] = W(f, d)
    <3>1. CASE d = k
        BY Zenon, <3>1, <2>5
    <3>2. CASE d # k
      <4>1. d \in k + 1..LastDir
          BY <3>2, <2>2, <1>1 DEF Dirs
      <4>2. d \in LastDir - n..LastDir
          BY <4>1, <2>2
      <4>3. g[d] = W(g, d)
          BY Zenon, <2>1, <4>2 DEF WalkedFrom
      <4>4. f[d] = g[d]
          BY <2>4, <4>1
      <4> HIDE DEF f
      <4> QED
          BY Zenon, <2>5, <4>3, <4>4
    <3> QED
        BY <3>1, <3>2
  <2>7. WalkedFrom(f, older, newer, k)
    <3>1. f = [d \in k..LastDir |-> f[d]]
        BY Zenon
    <3>2. [d \in k..LastDir |-> f[d]] = [d \in k..LastDir |-> W(f, d)]
      <4> HIDE DEF f
      <4> QED
          BY Zenon, <2>6
    <3> HIDE DEF f
    <3> QED
        BY Zenon, <3>1, <3>2 DEF WalkedFrom
  <2> HIDE DEF f
  <2> QED
      BY <2>7 DEF k
<1> HIDE DEF S
<1>4. Nat \subseteq S
    BY <1>2, <1>3, SetInduction
<1> QED
    BY <1>4 DEF S

LEMMA CompareIsWalked ==
    ASSUME NEW older, NEW newer
    PROVE  \E w : /\ CompareTrees(older, newer) = w[0]
                  /\ \A d \in Dirs : w[d] = Walked(w, older, newer, d)
<1>1. CompareTrees(older, newer) = (CHOOSE w : WalkedFrom(w, older, newer, 0))[0]
    BY Zenon DEF CompareTrees, WalkedFrom, Walked, Compared, NewSubs, OldSubs, Dirs
<1>2. \E w : WalkedFrom(w, older, newer, 0)
  <2>1. LastDir \in Nat /\ LastDir <= LastDir /\ LastDir - LastDir = 0
      BY TreeAssumption
  <2> QED
      BY <2>1, WalkedExists
<1>3. PICK w : WalkedFrom(w, older, newer, 0) /\ CompareTrees(older, newer) = w[0]
    BY Zenon, <1>1, <1>2
<1> QED
    BY Zenon, <1>3 DEF WalkedFrom, Dirs

-----------------------------------------------------------------------------
(***************************************************************************)
(* What it prints.                                                         *)
(***************************************************************************)

Around(x) == IF x[1] = "dir" THEN Parent[x[2]] ELSE In[x[2]]

\* What there is to say about the name x.
Diff(older, newer, x) ==
    LET old1  == Atts(older, x)
        new1  == Atts(newer, x)
        wrong == Mismatch(old1, new1)
    IN  IF ~ Has(older.dir[Around(x)]) \/ ~ Has(newer.dir[Around(x)]) THEN {}
        ELSE IF Has(old1) /\ ~ Has(new1) THEN {Line("-", x, {})}
        ELSE IF ~ Has(old1) /\ Has(new1) THEN {Line("+", x, {})}
        ELSE IF Has(old1) /\ Has(new1) /\ wrong # {} THEN {Line("changed", x, wrong)}
        ELSE {}

Diffs(older, newer, X) == UNION {Diff(older, newer, x) : x \in X}

LEMMA DifferencesAre ==
    ASSUME NEW older, NEW newer
    PROVE  Differences(older, newer) = Diffs(older, newer, Names)
<1> DEFINE shared == {x \in Names : Has(DirAround(older, x)) /\ Has(DirAround(newer, x))}
           inOld == {x \in shared : Has(Atts(older, x))}
           inNew == {x \in shared : Has(Atts(newer, x))}
           Wrong(x) == Mismatch(Atts(older, x), Atts(newer, x))
<1>1. \A x \in Names : x \in shared <=> Has(older.dir[Around(x)]) /\ Has(newer.dir[Around(x)])
    BY DEF DirAround, Around
<1>2. ASSUME NEW l
      PROVE  l \in Differences(older, newer) <=> \E x \in Names : l \in Diff(older, newer, x)
  <2>1. l \in Differences(older, newer) <=>
            \/ \E x \in inNew \ inOld : l = Line("+", x, {})
            \/ \E x \in inOld \ inNew : l = Line("-", x, {})
            \/ \E x \in inOld \cap inNew : Wrong(x) # {} /\ l = Line("changed", x, Wrong(x))
      BY Zenon DEF Differences
  <2>2. ASSUME NEW x \in Names
        PROVE  l \in Diff(older, newer, x) <=>
                  \/ x \in inNew \ inOld /\ l = Line("+", x, {})
                  \/ x \in inOld \ inNew /\ l = Line("-", x, {})
                  \/ x \in inOld \cap inNew /\ Wrong(x) # {} /\ l = Line("changed", x, Wrong(x))
      BY <1>1 DEF Diff
  <2>3. inNew \subseteq Names /\ inOld \subseteq Names
      OBVIOUS
  <2> HIDE DEF shared, inOld, inNew, Wrong
  <2> QED
      BY Zenon, <2>1, <2>2, <2>3
<1>3. \A l : l \in Diffs(older, newer, Names) <=> \E x \in Names : l \in Diff(older, newer, x)
    BY Zenon DEF Diffs
<1>4. \A l : l \in Differences(older, newer) <=> l \in Diffs(older, newer, Names)
    BY <1>2, <1>3
<1> HIDE DEF shared, inOld, inNew, Wrong
<1>5. /\ Differences(older, newer) \subseteq Diffs(older, newer, Names)
      /\ Diffs(older, newer, Names) \subseteq Differences(older, newer)
    BY Zenon, <1>4
<1> QED
    BY <1>5

\* A line says which name it is about.
LEMMA DiffsApart ==
    ASSUME NEW older, NEW newer, NEW X, NEW Y, X \cap Y = {}
    PROVE  Diffs(older, newer, X) \cap Diffs(older, newer, Y) = {}
<1>1. \A x : \A l \in Diff(older, newer, x) : l.at = x
    BY DEF Diff, Line
<1>2. \A Z : \A l \in Diffs(older, newer, Z) : l.at \in Z
    BY <1>1 DEF Diffs
<1> QED
    BY <1>2

LEMMA DiffsUnion ==
    ASSUME NEW older, NEW newer
    PROVE  /\ \A X, Y : Diffs(older, newer, X \cup Y)
                            = Diffs(older, newer, X) \cup Diffs(older, newer, Y)
           /\ \A x : Diffs(older, newer, {x}) = Diff(older, newer, x)
           /\ \A X : (\A x \in X : Diff(older, newer, x) = {}) => Diffs(older, newer, X) = {}
<1>1. \A x : Diffs(older, newer, {x}) = Diff(older, newer, x)
    BY DEF Diffs
<1>2. \A X : (\A x \in X : Diff(older, newer, x) = {}) => Diffs(older, newer, X) = {}
    BY DEF Diffs
<1>3. ASSUME NEW X, NEW Y
      PROVE  Diffs(older, newer, X \cup Y) = Diffs(older, newer, X) \cup Diffs(older, newer, Y)
    BY DEF Diffs
<1> QED
    BY <1>1, <1>2, <1>3

-----------------------------------------------------------------------------
(***************************************************************************)
(* It prints each difference once, when both trees have the directory      *)
(* around each one that they have.                                         *)
(***************************************************************************)

\* A tree that has a directory has the one around it, and directory 0.
Closed(t) == /\ Has(t.dir[0])
             /\ \A c \in Subdirs : Has(t.dir[c]) => Has(t.dir[Parent[c]])

\* The names below d, without d; and those of c in its directory.
Under(d) == {x \in Names : Around(x) \in Below(d)}
Part(c)  == Under(c) \cup {<<"dir", c>>}

FileNames(d) == {<<"file", f>> : f \in FilesOf(d)}

LEMMA AttsPrinted ==
    ASSUME NEW older, NEW newer, NEW x,
           Has(older.dir[Around(x)]), Has(newer.dir[Around(x)]),
           Has(Atts(older, x)), Has(Atts(newer, x))
    PROVE  Prints(compAtts(x, Atts(older, x), Atts(newer, x)), Diff(older, newer, x))
<1> DEFINE wrong == Mismatch(Atts(older, x), Atts(newer, x))
<1>1. CASE wrong = {}
  <2>1. /\ compAtts(x, Atts(older, x), Atts(newer, x)) = << >>
        /\ Diff(older, newer, x) = {}
      BY Zenon, <1>1 DEF compAtts, Diff
  <2> QED
      BY <2>1, PrintsFew
<1>2. CASE wrong # {}
  <2>1. /\ compAtts(x, Atts(older, x), Atts(newer, x)) = <<Line("changed", x, wrong)>>
        /\ Diff(older, newer, x) = {Line("changed", x, wrong)}
      BY Zenon, <1>2 DEF compAtts, Diff
  <2> QED
      BY <2>1, PrintsFew
<1> QED
    BY <1>1, <1>2

LEMMA FilesPrinted ==
    ASSUME NEW older, NEW newer, NEW d \in Dirs, Has(older.dir[d]), Has(newer.dir[d])
    PROVE  Prints(compFiles(older, newer, d), Diffs(older, newer, FileNames(d)))
<1> DEFINE N == {f \in FilesOf(d) : Has(newer.file[f])}
           L == {f \in FilesOf(d) : Has(older.file[f]) /\ ~ Has(newer.file[f])}
           compared(f) == IF Has(older.file[f])
                          THEN compAtts(<<"file", f>>, older.file[f], newer.file[f])
                          ELSE <<Line("+", <<"file", f>>, {})>>
           D(f) == Diff(older, newer, <<"file", f>>)
           minus(f) == Line("-", <<"file", f>>, {})
<1>1. \A f \in FilesOf(d) : /\ Around(<<"file", f>>) = d
                            /\ Atts(older, <<"file", f>>) = older.file[f]
                            /\ Atts(newer, <<"file", f>>) = newer.file[f]
    BY DEF FilesOf, Around, Atts
<1>2. ASSUME NEW f \in N PROVE Prints(compared(f), D(f))
  <2>1. CASE Has(older.file[f])
    <3>1. Prints(compAtts(<<"file", f>>, older.file[f], newer.file[f]), D(f))
        BY <1>1, <2>1, AttsPrinted
    <3> QED
        BY <2>1, <3>1
  <2>2. CASE ~ Has(older.file[f])
    <3>1. D(f) = {Line("+", <<"file", f>>, {})}
        BY <1>1, <2>2 DEF Diff
    <3> QED
        BY <2>2, <3>1, PrintsFew
  <2> QED
      BY <2>1, <2>2
<1>3. \A f \in L : D(f) = {minus(f)}
    BY <1>1 DEF Diff
<1>4. \A f \in FilesOf(d) : f \notin N \cup L => D(f) = {}
    BY <1>1 DEF Diff
<1>5. \A f, g \in FilesOf(d) : f # g => D(f) \cap D(g) = {}
    BY DEF Diff, Line
<1>6. Diffs(older, newer, FileNames(d)) = (UNION {D(f) : f \in N}) \cup (UNION {D(f) : f \in L})
  <2>1. Diffs(older, newer, FileNames(d)) = UNION {D(f) : f \in FilesOf(d)}
      BY DEF Diffs, FileNames
  <2>2. N \subseteq FilesOf(d) /\ L \subseteq FilesOf(d)
      OBVIOUS
  <2> HIDE DEF N, L, D
  <2> QED
      BY <1>4, <2>1, <2>2
<1>7. (UNION {D(f) : f \in N}) \cap (UNION {D(f) : f \in L}) = {}
  <2>1. \A f \in N : \A g \in L : f \in FilesOf(d) /\ g \in FilesOf(d) /\ f # g
      OBVIOUS
  <2> HIDE DEF N, L, D
  <2> QED
      BY <1>5, <2>1
<1>8. UNION {D(f) : f \in L} = {minus(f) : f \in L}
  <2> HIDE DEF L, D, minus
  <2> QED
      BY <1>3
<1>9. /\ N \subseteq FilesOf(d) /\ L \subseteq FilesOf(d)
      /\ FilesOf(d) \subseteq 1..LastDir + LastFile
      /\ N \subseteq Int /\ L \subseteq Int
    BY TreeAssumption DEF FilesOf, Files
<1> DEFINE news == byName(N)
           left == byName(L)
<1>10. Lists(news, N) /\ Lists(left, L)
  <2> HIDE DEF N, L
  <2> QED
      BY <1>9, FilesAreNames
<1>11. \A i \in DOMAIN news : news[i] \in N
  <2> HIDE DEF N, news
  <2>1. news \in Seq(N)
      BY <1>10 DEF Lists
  <2> QED
      BY <2>1, ElementOfSeq
<1>12. \A i \in DOMAIN left : left[i] \in L
  <2> HIDE DEF L, left
  <2>1. left \in Seq(L)
      BY <1>10 DEF Lists
  <2> QED
      BY <2>1, ElementOfSeq
<1>13. Prints(FlattenSeq([i \in DOMAIN news |-> compared(news[i])]), UNION {D(f) : f \in N})
  <2> DEFINE c == [f \in N |-> compared(f)]
             C == [f \in N |-> D(f)]
  <2> HIDE DEF N, D, compared, news
  <2>1. \A f \in N : Prints(c[f], C[f])
      BY <1>2
  <2>2. \A f, g \in N : f # g => C[f] \cap C[g] = {}
      BY <1>5, <1>9
  <2>3. [i \in DOMAIN news |-> c[news[i]]] = [i \in DOMAIN news |-> compared(news[i])]
      BY Zenon, <1>11
  <2>4. UNION {C[f] : f \in N} = UNION {D(f) : f \in N}
      OBVIOUS
  <2> HIDE DEF c, C
  <2>5. Prints(FlattenSeq(Each(news, c)), AllOf(C, N))
    <3>1. N \subseteq Int /\ Lists(news, N)
        BY <1>9, <1>10
    <3> QED
        BY <2>1, <2>2, <3>1, PrintsEach
  <2> QED
      BY <2>3, <2>4, <2>5 DEF Each, AllOf
<1>14. Prints([i \in DOMAIN left |-> minus(left[i])], {minus(f) : f \in L})
  <2> DEFINE M == [f \in L |-> minus(f)]
  <2>1. \A f, g \in L : f # g => minus(f) # minus(g)
      BY DEF Line
  <2> HIDE DEF L, minus, left
  <2>2. \A f, g \in L : f # g => M[f] # M[g]
      BY <2>1
  <2>3. [i \in DOMAIN left |-> M[left[i]]] = [i \in DOMAIN left |-> minus(left[i])]
      BY Zenon, <1>12
  <2>4. {M[f] : f \in L} = {minus(f) : f \in L}
      OBVIOUS
  <2> HIDE DEF M
  <2>5. Prints(Each(left, M), Ones(M, L))
    <3>1. L \subseteq Int /\ Lists(left, L)
        BY <1>9, <1>10
    <3> QED
        BY <2>2, <3>1, PrintsLines
  <2> QED
      BY <2>3, <2>4, <2>5 DEF Each, Ones
<1>15. compFiles(older, newer, d)
           = FlattenSeq([i \in DOMAIN news |-> compared(news[i])])
                 \o [i \in DOMAIN left |-> minus(left[i])]
    BY Zenon DEF compFiles
<1> HIDE DEF N, L, compared, D, minus, news, left
<1> QED
    BY <1>6, <1>7, <1>8, <1>13, <1>14, <1>15, PrintsConcat

LEMMA UnderParts ==
    ASSUME NEW d \in Dirs
    PROVE  /\ Under(d) = (UNION {Part(c) : c \in SubdirsOf(d)}) \cup FileNames(d)
           /\ \A b, c \in SubdirsOf(d) : b # c => Part(b) \cap Part(c) = {}
           /\ \A c \in SubdirsOf(d) : Part(c) \cap FileNames(d) = {}
<1> DEFINE U == (UNION {Part(c) : c \in SubdirsOf(d)}) \cup FileNames(d)
<1>1. \A c \in SubdirsOf(d) : c \in Dirs /\ c \in Subdirs /\ Parent[c] = d /\ c > d /\ c # 0
    BY TreeAssumption DEF SubdirsOf, Subdirs, Dirs
<1>2. \A x \in Names : Around(x) \in Dirs
    BY TreeAssumption DEF Names, Around
<1>3. \A c \in SubdirsOf(d) : Way[c] = {c} \cup Way[d]
    BY <1>1, WayStep
<1>4. \A c \in SubdirsOf(d) : \A e \in Dirs : c \in Way[e] => d \in Way[e]
    BY <1>1, <1>3, WayFacts
<1>5. ASSUME NEW x \in Under(d) PROVE x \in U
  <2>1. x \in Names /\ Around(x) \in Dirs /\ d \in Way[Around(x)]
      BY DEF Under, Below
  <2>2. CASE Around(x) # d
    <3>1. PICK c \in SubdirsOf(d) : c \in Way[Around(x)]
        BY <2>1, <2>2, BelowSome
    <3>2. x \in Part(c)
        BY <2>1, <3>1 DEF Part, Under, Below
    <3> QED
        BY <3>2
  <2>3. CASE Around(x) = d
    <3>1. CASE \E c \in Subdirs : x = <<"dir", c>>
      <4>1. PICK c \in Subdirs : x = <<"dir", c>>
          BY <3>1
      <4>2. c \in SubdirsOf(d)
          BY <2>3, <4>1 DEF Around, SubdirsOf
      <4>3. x \in Part(c)
          BY <4>1 DEF Part
      <4> QED
          BY <4>2, <4>3
    <3>2. CASE \E f \in Files : x = <<"file", f>>
      <4>1. PICK f \in Files : x = <<"file", f>>
          BY <3>2
      <4>2. f \in FilesOf(d)
          BY <2>3, <4>1 DEF Around, FilesOf
      <4> QED
          BY <4>1, <4>2 DEF FileNames
    <3> QED
        BY <2>1, <3>1, <3>2 DEF Names
  <2> QED
      BY <2>2, <2>3
<1>6. ASSUME NEW x \in U PROVE x \in Under(d)
  <2>1. d \in Way[d]
      BY WayFacts
  <2>2. CASE x \in FileNames(d)
    <3>1. PICK f \in Files : x = <<"file", f>> /\ In[f] = d
        BY <2>2 DEF FileNames, FilesOf
    <3>2. x \in Names /\ Around(x) = d
        BY <3>1 DEF Names, Around
    <3> QED
        BY <2>1, <3>2 DEF Under, Below
  <2>3. ASSUME NEW c \in SubdirsOf(d), x \in Part(c) PROVE x \in Under(d)
    <3>1. CASE x = <<"dir", c>>
      <4>1. x \in Names /\ Around(x) = d
          BY <1>1, <3>1 DEF Names, Around
      <4> QED
          BY <2>1, <4>1 DEF Under, Below
    <3>2. CASE x \in Under(c)
      <4>1. x \in Names /\ Around(x) \in Dirs /\ c \in Way[Around(x)]
          BY <3>2 DEF Under, Below
      <4> QED
          BY <1>4, <4>1 DEF Under, Below
    <3> QED
        BY <2>3, <3>1, <3>2 DEF Part
  <2> QED
      BY <2>2, <2>3
<1>7. ASSUME NEW b \in SubdirsOf(d), NEW c \in SubdirsOf(d), NEW x, x \in Part(b), x \in Part(c)
      PROVE  b <= c
  <2>1. b \in Dirs /\ c \in Dirs /\ b \in Int /\ c \in Int /\ b > d /\ d \in Int
      BY <1>1, DirInts
  <2>2. \A e \in Way[d] : e \in Int /\ e <= d
      BY WayFacts, DirInts
  <2>3. b \notin Way[d] /\ c \notin Way[d]
      BY <1>1, <2>2, DirInts
  <2>4. CASE x = <<"dir", b>>
    <3>1. Around(x) = d
        BY <1>1, <2>4 DEF Around
    <3>2. x \notin Under(c)
        BY <2>3, <3>1 DEF Under, Below
    <3>3. <<"dir", b>> = <<"dir", c>>
        BY <1>7, <2>4, <3>2 DEF Part
    <3> QED
        BY <2>1, <3>3
  <2>5. CASE x # <<"dir", b>>
    <3>1. Around(x) \in Dirs /\ b \in Way[Around(x)]
        BY <1>7, <2>5 DEF Part, Under, Below
    <3>2. x # <<"dir", c>>
        BY <1>1, <2>3, <3>1 DEF Around
    <3>3. c \in Way[Around(x)]
        BY <1>7, <3>2 DEF Part, Under, Below
    <3>4. ~ c < b
      <4> SUFFICES ASSUME c < b PROVE FALSE
          OBVIOUS
      <4>1. c \in Way[b]
        <5>1. PICK e \in Dirs : b \in Way[e] /\ c \in Way[e]
            BY <3>1, <3>3
        <5>2. c <= b
            BY <2>1
        <5> QED
            BY <5>1, <5>2, WayFacts
      <4> QED
          BY <1>3, <2>1, <2>3, <4>1
    <3> QED
        BY <2>1, <3>4
  <2> QED
      BY <2>4, <2>5
<1>8. ASSUME NEW b \in SubdirsOf(d), NEW c \in SubdirsOf(d), b # c
      PROVE  Part(b) \cap Part(c) = {}
  <2>1. b \in Int /\ c \in Int
      BY <1>1, DirInts
  <2>2. ASSUME NEW x, x \in Part(b), x \in Part(c) PROVE FALSE
    <3>1. b <= c /\ c <= b
        BY <1>7, <2>2
    <3> QED
        BY <1>8, <2>1, <3>1
  <2> QED
      BY <2>2
<1>9. ASSUME NEW c \in SubdirsOf(d) PROVE Part(c) \cap FileNames(d) = {}
  <2>1. c \notin Way[d]
      BY <1>1, WayFacts, DirInts
  <2>2. \A x \in FileNames(d) : Around(x) = d /\ x # <<"dir", c>>
      BY DEF FileNames, FilesOf, Around
  <2> QED
      BY <2>1, <2>2 DEF Part, Under, Below
<1>10. Under(d) \subseteq U /\ U \subseteq Under(d)
    BY <1>5, <1>6
<1> HIDE DEF U
<1> QED
    BY <1>8, <1>9, <1>10 DEF U

LEMMA Unshared ==
    ASSUME NEW t, Closed(t), NEW c \in Dirs, ~ Has(t.dir[c])
    PROVE  \A e \in Below(c) : ~ Has(t.dir[e])
<1> DEFINE S == {e \in Dirs : c \in Way[e] => ~ Has(t.dir[e])}
<1>1. ASSUME NEW e \in Dirs, \A b \in Dirs : b < e => b \in S PROVE e \in S
  <2> SUFFICES ASSUME c \in Way[e], e # c PROVE ~ Has(t.dir[e])
      OBVIOUS
  <2>1. e # 0
      BY WayStep
  <2>2. e \in Subdirs /\ Parent[e] \in Dirs /\ Parent[e] < e
      BY <2>1, ParentBelow
  <2>3. c \in Way[Parent[e]]
      BY <2>1, WayStep
  <2>4. ~ Has(t.dir[Parent[e]])
      BY <1>1, <2>2, <2>3
  <2> QED
      BY <2>2, <2>4 DEF Closed
<1> HIDE DEF S
<1>2. Dirs \subseteq S
    BY <1>1, DirInduction
<1> QED
    BY <1>2 DEF S, Below

LEMMA NotUnder ==
    ASSUME NEW older, NEW newer, Closed(older), Closed(newer), NEW c \in Dirs,
           ~ Has(older.dir[c]) \/ ~ Has(newer.dir[c])
    PROVE  Diffs(older, newer, Under(c)) = {}
<1>1. \A x \in Under(c) : Around(x) \in Below(c)
    BY DEF Under
<1>2. \A x \in Under(c) : ~ Has(older.dir[Around(x)]) \/ ~ Has(newer.dir[Around(x)])
    BY <1>1, Unshared
<1>3. \A x \in Under(c) : Diff(older, newer, x) = {}
    BY <1>2 DEF Diff
<1> QED
    BY <1>3, DiffsUnion

LEMMA WalkPrints ==
    ASSUME NEW older, NEW newer, Closed(older), Closed(newer), NEW w, NEW d \in Dirs,
           Has(older.dir[d]), Has(newer.dir[d]),
           \A c \in SubdirsOf(d) : Has(older.dir[c]) /\ Has(newer.dir[c])
                                       => Prints(w[c], Diffs(older, newer, Under(c)))
    PROVE  Prints(Walked(w, older, newer, d), Diffs(older, newer, Under(d)))
<1> DEFINE N == NewSubs(older, newer, d)
           L == OldSubs(older, newer, d)
           D(X) == Diffs(older, newer, X)
           E(c) == Diff(older, newer, <<"dir", c>>)
           compared(c) == Compared(w, older, newer, c)
           minus(c) == Line("-", <<"dir", c>>, {})
           news == byName(N)
           left == byName(L)
<1>1. \A c \in SubdirsOf(d) : /\ c \in Dirs /\ c \in Subdirs
                              /\ Around(<<"dir", c>>) = d
                              /\ Atts(older, <<"dir", c>>) = older.dir[c]
                              /\ Atts(newer, <<"dir", c>>) = newer.dir[c]
    BY TreeAssumption DEF SubdirsOf, Subdirs, Dirs, Around, Atts
<1>2. \A c : D(Part(c)) = D(Under(c)) \cup E(c)
  <2>1. ASSUME NEW c PROVE D(Under(c) \cup {<<"dir", c>>}) = D(Under(c)) \cup D({<<"dir", c>>})
      BY DiffsUnion
  <2>2. ASSUME NEW c PROVE D({<<"dir", c>>}) = E(c)
      BY DEF Diffs
  <2> QED
      BY Zenon, <2>1, <2>2 DEF Part
<1>3. \A c \in SubdirsOf(d) : D(Under(c)) \cap E(c) = {}
  <2>1. \A c \in SubdirsOf(d) : <<"dir", c>> \notin Under(c)
    <3>1. \A c \in SubdirsOf(d) : c > d /\ d \in Dirs
        BY TreeAssumption DEF SubdirsOf, Subdirs, Dirs
    <3>2. \A c \in SubdirsOf(d) : c \notin Way[d]
        BY <3>1, <1>1, WayFacts, DirInts
    <3> QED
        BY <1>1, <3>2 DEF Under, Below
  <2>2. ASSUME NEW c \in SubdirsOf(d) PROVE D(Under(c)) \cap D({<<"dir", c>>}) = {}
      BY <2>1, DiffsApart
  <2> QED
      BY <2>2, DiffsUnion
<1>4. ASSUME NEW c \in N PROVE Prints(compared(c), D(Part(c)))
  <2>1. c \in SubdirsOf(d) /\ Has(newer.dir[c])
      BY DEF NewSubs
  <2>2. CASE Has(older.dir[c])
    <3>1. Prints(w[c], D(Under(c)))
        BY <2>1, <2>2
    <3>2. Prints(compAtts(<<"dir", c>>, older.dir[c], newer.dir[c]), E(c))
        BY <1>1, <2>1, <2>2, AttsPrinted
    <3>3. compared(c) = w[c] \o compAtts(<<"dir", c>>, older.dir[c], newer.dir[c])
        BY Zenon, <2>2 DEF Compared
    <3> HIDE DEF D, E, compared
    <3> QED
        BY <1>2, <1>3, <2>1, <3>1, <3>2, <3>3, PrintsConcat
  <2>3. CASE ~ Has(older.dir[c])
    <3>1. E(c) = {Line("+", <<"dir", c>>, {})}
        BY <1>1, <2>1, <2>3 DEF Diff
    <3>2. D(Under(c)) = {}
        BY <1>1, <2>1, <2>3, NotUnder
    <3>3. compared(c) = <<Line("+", <<"dir", c>>, {})>>
        BY Zenon, <2>3 DEF Compared
    <3> HIDE DEF D, E, compared
    <3>4. D(Part(c)) = {Line("+", <<"dir", c>>, {})}
        BY <1>2, <3>1, <3>2
    <3> QED
        BY <3>3, <3>4, PrintsFew
  <2> QED
      BY <2>2, <2>3
<1>5. \A c \in L : D(Part(c)) = {minus(c)}
  <2> SUFFICES ASSUME NEW c \in L PROVE D(Part(c)) = {minus(c)}
      OBVIOUS
  <2>1. c \in SubdirsOf(d) /\ Has(older.dir[c]) /\ ~ Has(newer.dir[c])
      BY DEF OldSubs
  <2>2. D(Under(c)) = {}
      BY <1>1, <2>1, NotUnder
  <2>3. E(c) = {minus(c)}
      BY <1>1, <2>1 DEF Diff
  <2> HIDE DEF D, E, minus
  <2> QED
      BY <1>2, <2>2, <2>3
<1>6. \A c \in SubdirsOf(d) : c \notin N /\ c \notin L => D(Part(c)) = {}
  <2> SUFFICES ASSUME NEW c \in SubdirsOf(d), c \notin N, c \notin L PROVE D(Part(c)) = {}
      OBVIOUS
  <2>1. ~ Has(older.dir[c]) /\ ~ Has(newer.dir[c])
      BY DEF NewSubs, OldSubs
  <2>2. D(Under(c)) = {}
      BY <1>1, <2>1, NotUnder
  <2>3. E(c) = {}
      BY <1>1, <2>1 DEF Diff
  <2> HIDE DEF D, E
  <2> QED
      BY <1>2, <2>2, <2>3
<1>7. \A b, c \in SubdirsOf(d) : b # c => D(Part(b)) \cap D(Part(c)) = {}
    BY UnderParts, DiffsApart
<1>8. N \subseteq SubdirsOf(d) /\ L \subseteq SubdirsOf(d) /\ \A c \in N : c \notin L
    BY DEF NewSubs, OldSubs
<1>9. /\ N \subseteq Int /\ Lists(news, N) /\ \A i \in DOMAIN news : news[i] \in N
      /\ L \subseteq Int /\ Lists(left, L) /\ \A i \in DOMAIN left : left[i] \in L
    BY <1>8, SubsAreNames
<1> DEFINE DN == UNION {D(Part(c)) : c \in N}
           DL == {minus(c) : c \in L}
           DF == D(FileNames(d))
<1>10. D(Under(d)) = DN \cup (DL \cup DF)
  <2> DEFINE DS == UNION {D(Part(c)) : c \in SubdirsOf(d)}
  <2>1. D(UNION {Part(c) : c \in SubdirsOf(d)}) = DS
      BY DEF Diffs
  <2>2. D(Under(d)) = DS \cup DF
    <3> DEFINE V == UNION {Part(c) : c \in SubdirsOf(d)}
    <3>1. Under(d) = V \cup FileNames(d)
        BY Zenon, UnderParts
    <3> HIDE DEF V, DS
    <3>2. D(V \cup FileNames(d)) = D(V) \cup D(FileNames(d))
        BY DEF Diffs
    <3> QED
        BY Zenon, <2>1, <3>1, <3>2 DEF V
  <2>3. DS = DN \cup DL
    <3> HIDE DEF D, minus, N, L
    <3>1. \A l : l \in DS <=> \E c \in SubdirsOf(d) : l \in D(Part(c))
        OBVIOUS
    <3>2. \A l : l \in DN <=> \E c \in N : l \in D(Part(c))
        OBVIOUS
    <3>3. \A l : l \in DL <=> \E c \in L : l \in D(Part(c))
        BY <1>5
    <3> HIDE DEF DS, DN, DL
    <3>4. \A l : l \in DS <=> l \in DN \/ l \in DL
        BY <1>6, <1>8, <3>1, <3>2, <3>3
    <3> QED
        BY <3>4
  <2> HIDE DEF D, DS, DN, DL, DF
  <2> QED
      BY <2>2, <2>3
<1>11. DN \cap (DL \cup DF) = {} /\ DL \cap DF = {}
  <2>1. \A c \in SubdirsOf(d) : D(Part(c)) \cap DF = {}
      BY UnderParts, DiffsApart
  <2> HIDE DEF D, minus, N, L, DF
  <2>2. \A l : l \in DN <=> \E c \in N : l \in D(Part(c))
      OBVIOUS
  <2>3. \A l : l \in DL <=> \E c \in L : l \in D(Part(c))
      BY <1>5
  <2> HIDE DEF DN, DL
  <2> QED
      BY <1>7, <1>8, <2>1, <2>2, <2>3
<1>12. Prints(FlattenSeq([i \in DOMAIN news |-> compared(news[i])]), DN)
  <2> DEFINE k == [c \in N |-> compared(c)]
             K == [c \in N |-> D(Part(c))]
  <2> HIDE DEF N, D, compared, news
  <2>1. \A c \in N : Prints(k[c], K[c])
      BY <1>4
  <2>2. \A b, c \in N : b # c => K[b] \cap K[c] = {}
      BY <1>7, <1>8
  <2>3. [i \in DOMAIN news |-> k[news[i]]] = [i \in DOMAIN news |-> compared(news[i])]
      BY Zenon, <1>9
  <2>4. UNION {K[c] : c \in N} = DN
      OBVIOUS
  <2> HIDE DEF k, K, DN
  <2>5. Prints(FlattenSeq(Each(news, k)), AllOf(K, N))
      BY <1>9, <2>1, <2>2, PrintsEach
  <2> QED
      BY <2>3, <2>4, <2>5 DEF Each, AllOf
<1>13. Prints([i \in DOMAIN left |-> minus(left[i])], DL)
  <2> DEFINE M == [c \in L |-> minus(c)]
  <2>1. \A b, c \in L : b # c => minus(b) # minus(c)
      BY DEF Line
  <2> HIDE DEF L, minus, left
  <2>2. \A b, c \in L : b # c => M[b] # M[c]
      BY <2>1
  <2>3. [i \in DOMAIN left |-> M[left[i]]] = [i \in DOMAIN left |-> minus(left[i])]
      BY Zenon, <1>9
  <2>4. {M[n] : n \in L} = DL
      OBVIOUS
  <2> HIDE DEF M, DL
  <2>5. Prints(Each(left, M), Ones(M, L))
    <3>1. L \subseteq Int /\ Lists(left, L)
        BY <1>9
    <3> HIDE DEF DL
    <3> QED
        BY <2>2, <3>1, PrintsLines
  <2> QED
      BY <2>3, <2>4, <2>5 DEF Each, Ones
<1>14. Prints(compFiles(older, newer, d), DF)
    BY FilesPrinted
<1> DEFINE listed == FlattenSeq([i \in DOMAIN news |-> compared(news[i])])
           lost   == [i \in DOMAIN left |-> minus(left[i])]
           below  == compFiles(older, newer, d)
<1>15. Walked(w, older, newer, d) = (listed \o lost) \o below
    BY Zenon DEF Walked
<1> HIDE DEF N, L, compared, D, minus, news, left, DN, DL, DF
<1>16. Prints(listed, DN) /\ Prints(lost, DL) /\ Prints(below, DF)
    BY <1>12, <1>13, <1>14
<1>17. Prints(Walked(w, older, newer, d), DN \cup DL \cup DF)
  <2> HIDE DEF listed, lost, below
  <2>1. Prints(listed \o lost, DN \cup DL)
      BY <1>11, <1>16, PrintsConcat
  <2>2. (DN \cup DL) \cap DF = {}
      BY <1>11
  <2>3. Prints((listed \o lost) \o below, (DN \cup DL) \cup DF)
      BY <1>16, <2>1, <2>2, PrintsConcat
  <2> QED
      BY <1>15, <2>3
<1>18. DN \cup DL \cup DF = D(Under(d))
    BY <1>10
<1> QED
    BY <1>17, <1>18 DEF D

\* CompareTrees prints each difference between two trees, and each once, for
\* trees of any shape and depth.
THEOREM ComparePrints ==
    ASSUME NEW older, NEW newer, Closed(older), Closed(newer)
    PROVE  Prints(CompareTrees(older, newer), Differences(older, newer))
<1>1. PICK w : /\ CompareTrees(older, newer) = w[0]
               /\ \A d \in Dirs : w[d] = Walked(w, older, newer, d)
    BY CompareIsWalked
<1> DEFINE Fine(d) == Has(older.dir[d]) /\ Has(newer.dir[d])
                          => Prints(w[d], Diffs(older, newer, Under(d)))
           S == {n \in Nat : \A d \in Dirs : d + n >= LastDir => Fine(d)}
<1>2. LastDir \in Nat /\ \A d \in Dirs : d \in Nat /\ d <= LastDir
    BY TreeAssumption DEF Dirs
<1>3. ASSUME NEW d \in Dirs, \A c \in SubdirsOf(d) : Fine(c) PROVE Fine(d)
  <2> SUFFICES ASSUME Has(older.dir[d]), Has(newer.dir[d])
               PROVE  Prints(w[d], Diffs(older, newer, Under(d)))
      OBVIOUS
  <2>1. Prints(Walked(w, older, newer, d), Diffs(older, newer, Under(d)))
      BY <1>3, WalkPrints
  <2> QED
      BY <1>1, <2>1
<1>4. \A d \in Dirs : \A c \in SubdirsOf(d) : c \in Dirs /\ c > d
    BY TreeAssumption DEF SubdirsOf, Subdirs, Dirs
<1> HIDE DEF Fine
<1>5. 0 \in S
  <2> SUFFICES ASSUME NEW d \in Dirs, d + 0 >= LastDir PROVE Fine(d)
      OBVIOUS
  <2>1. \A c \in SubdirsOf(d) : FALSE
      BY <1>2, <1>4
  <2> QED
      BY <1>3, <2>1
<1>6. ASSUME NEW n \in Nat, n \in S PROVE n + 1 \in S
  <2> SUFFICES ASSUME NEW d \in Dirs, d + (n + 1) >= LastDir PROVE Fine(d)
      OBVIOUS
  <2>1. \A c \in SubdirsOf(d) : c \in Dirs /\ c + n >= LastDir
      BY <1>2, <1>4
  <2> QED
      BY <1>3, <1>6, <2>1
<1> HIDE DEF S
<1>7. Nat \subseteq S
    BY <1>5, <1>6, SetInduction
<1>8. Fine(0)
    BY <1>2, <1>7, DirInts DEF S
<1>9. Under(0) = Names
  <2>1. \A x \in Names : Around(x) \in Dirs
      BY TreeAssumption DEF Names, Around
  <2> QED
      BY <2>1, ZeroOnWay DEF Under, Below
<1>10. Has(older.dir[0]) /\ Has(newer.dir[0])
    BY DEF Closed
<1> QED
    BY <1>1, <1>8, <1>9, <1>10, DifferencesAre DEF Fine
=============================================================================
