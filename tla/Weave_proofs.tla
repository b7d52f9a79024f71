---------------------------- MODULE Weave_proofs ----------------------------
(***************************************************************************)
(* Facts about the operators of Weave: how the reader's state is computed, *)
(* and what push, pop and updateKeep do under an entry that stays at the   *)
(* head of the open marks.                                                 *)
(***************************************************************************)
EXTENDS Weave, TLAPS, WellFoundedInduction, SequenceTheorems

-----------------------------------------------------------------------------
(***************************************************************************)
(* Induction over the natural numbers, for sets.                           *)
(***************************************************************************)

Less == {p \in Nat \X Nat : p[1] < p[2]}

\* The order of the natural numbers, as a set of pairs, is well founded.
LEMMA LessWellFounded == IsWellFoundedOn(Less, Nat)
<1>1. OpToRel(<, Nat) = Less
  BY Zenon DEF OpToRel, Less
<1> QED
  BY Zenon, <1>1, NatLessThanWellFounded

\* A set of natural numbers that is not empty has a least element.
LEMMA LeastElement ==
    ASSUME NEW T, T \subseteq Nat, T # {}
    PROVE  \E m \in T : \A k \in T : m <= k
<1>1. PICK x \in T : \A y \in T : ~ (<<y, x>> \in Less)
  BY Zenon, WFMin, LessWellFounded
<1>2. \A y \in Nat : y < x => <<y, x>> \in Less
  BY DEF Less
<1>3. ASSUME NEW y \in T PROVE x <= y
  <2>1. ~ (y < x)
    BY <1>1, <1>2
  <2> QED
    BY <2>1
<1> QED
  BY <1>3

\* A set that holds 0, and n + 1 whenever it holds n, holds every number.
LEMMA SetInduction ==
    ASSUME NEW S, 0 \in S, \A n \in Nat : n \in S => n + 1 \in S
    PROVE  Nat \subseteq S
<1> DEFINE T == Nat \ S
<1>1. SUFFICES ASSUME T # {} PROVE FALSE
  OBVIOUS
<1>2. PICK m \in T : \A k \in T : m <= k
  <2>1. T \subseteq Nat
    OBVIOUS
  <2> HIDE DEF T
  <2> QED
    BY <1>1, <2>1, LeastElement
<1>3. m # 0
  OBVIOUS
<1>4. m - 1 \in Nat /\ m - 1 \notin T
  BY <1>2, <1>3
<1> QED
  BY <1>4

-----------------------------------------------------------------------------
(***************************************************************************)
(* Reading, unfolded.                                                      *)
(***************************************************************************)

\* The only element of a set of one.
LEMMA TheOne == ASSUME NEW S, NEW x, S = {x} PROVE The(S) = x
  BY DEF The


IsReading(f, b, d) ==
    f = [i \in 0..Len(b) |->
            IF i = 0 THEN NewReader
            ELSE The({Read(s, b[i], d) : s \in {f[i - 1]}})]

LEMMA ReadingChosen ==
    ASSUME NEW b, NEW d
    PROVE  Reading(b, d) = CHOOSE f : IsReading(f, b, d)
  BY Zenon DEF Reading, IsReading

\* What Reading means: the reader's state after n records.
IsRun(f, b, d, n) ==
    f = [i \in 0..n |-> IF i = 0 THEN NewReader ELSE Read(f[i - 1], b[i], d)]

LEMMA ReadingIsRun ==
    ASSUME NEW f, NEW b, NEW d
    PROVE  IsReading(f, b, d) <=> IsRun(f, b, d, Len(b))
<1>1. ASSUME NEW i \in 0..Len(b)
      PROVE  The({Read(s, b[i], d) : s \in {f[i - 1]}}) = Read(f[i - 1], b[i], d)
  <2>1. {Read(s, b[i], d) : s \in {f[i - 1]}} = {Read(f[i - 1], b[i], d)}
    OBVIOUS
  <2> QED
    BY <2>1, TheOne
<1> QED
  BY <1>1 DEF IsReading, IsRun

\* A run of any length exists.
LEMMA RunExists ==
    ASSUME NEW b, NEW d
    PROVE  \A n \in Nat : \E f : IsRun(f, b, d, n)
<1> DEFINE S == {n \in Nat : \E f : IsRun(f, b, d, n)}
<1>1. 0 \in S
  <2> DEFINE f == [i \in 0..0 |-> NewReader]
  <2>1. IsRun(f, b, d, 0)
    BY DEF IsRun
  <2> QED
    BY <2>1
<1>2. ASSUME NEW n \in Nat, n \in S PROVE n + 1 \in S
  <2>1. PICK g : IsRun(g, b, d, n)
    BY <1>2
  <2> DEFINE f == [i \in 0..n + 1 |->
                      IF i <= n THEN g[i] ELSE Read(g[n], b[n + 1], d)]
  <2>2. ASSUME NEW i \in 0..n + 1
        PROVE  f[i] = IF i = 0 THEN NewReader ELSE Read(f[i - 1], b[i], d)
    <3>1. CASE i = n + 1
      BY <3>1
    <3>2. CASE i \in 0..n
      <4>1. g[i] = IF i = 0 THEN NewReader ELSE Read(g[i - 1], b[i], d)
        BY <2>1, <3>2 DEF IsRun
      <4>2. i # 0 => f[i - 1] = g[i - 1]
        BY <3>2
      <4> QED
        BY <3>2, <4>1, <4>2
    <3> QED
      BY <3>1, <3>2
  <2>3. IsRun(f, b, d, n + 1)
    BY <2>2 DEF IsRun
  <2> QED
    BY <2>3
<1> HIDE DEF S
<1>3. Nat \subseteq S
  BY <1>1, <1>2, SetInduction
<1> QED
  BY <1>3 DEF S

\* Reading is the run over the whole body.
LEMMA ReadingRuns ==
    ASSUME NEW b, NEW d, Len(b) \in Nat
    PROVE  IsRun(Reading(b, d), b, d, Len(b))
<1>1. \E f : IsReading(f, b, d)
  BY RunExists, ReadingIsRun
<1>2. IsReading(Reading(b, d), b, d)
  BY Zenon, <1>1, ReadingChosen
<1> QED
  BY <1>2, ReadingIsRun

LEMMA ReadingStart ==
    ASSUME NEW b, NEW d, Len(b) \in Nat
    PROVE  Reading(b, d)[0] = NewReader
  BY ReadingRuns DEF IsRun

\* One record further, the state is what Read makes of it.
LEMMA ReadingNext ==
    ASSUME NEW b, NEW d, Len(b) \in Nat, NEW i \in 1..Len(b)
    PROVE  Reading(b, d)[i] = Read(Reading(b, d)[i - 1], b[i], d)
  BY ReadingRuns DEF IsRun

\* The state after n records depends on these n records only.
LEMMA ReadingPrefix ==
    ASSUME NEW b, NEW c, NEW d, Len(b) \in Nat, Len(c) \in Nat,
           NEW n \in Nat, n <= Len(b), n <= Len(c),
           \A i \in 1..n : b[i] = c[i]
    PROVE  Reading(b, d)[n] = Reading(c, d)[n]
<1> DEFINE S == {k \in Nat : k <= n => Reading(b, d)[k] = Reading(c, d)[k]}
<1>1. 0 \in S
  BY ReadingStart
<1>2. ASSUME NEW k \in Nat, k \in S PROVE k + 1 \in S
  <2>1. SUFFICES ASSUME k + 1 <= n
                 PROVE  Reading(b, d)[k + 1] = Reading(c, d)[k + 1]
    OBVIOUS
  <2>2. k + 1 \in 1..Len(b) /\ k + 1 \in 1..Len(c) /\ k + 1 \in 1..n
    BY <2>1
  <2>3. Reading(b, d)[k + 1] = Read(Reading(b, d)[k], b[k + 1], d)
    BY <2>2, ReadingNext
  <2>4. Reading(c, d)[k + 1] = Read(Reading(c, d)[k], c[k + 1], d)
    BY <2>2, ReadingNext
  <2>5. Reading(b, d)[k] = Reading(c, d)[k]
    BY <1>2, <2>1
  <2> QED
    BY <2>2, <2>3, <2>4, <2>5
<1> HIDE DEF S
<1>3. Nat \subseteq S
  BY <1>1, <1>2, SetInduction
<1> QED
  BY <1>3 DEF S

LEMMA FinalEmpty == ASSUME NEW d PROVE Final(<< >>, d) = NewReader
  BY ReadingStart DEF Final

\* Reading one record more.
LEMMA FinalAppend ==
    ASSUME NEW R, NEW b \in Seq(R), NEW r \in R, NEW d
    PROVE  Final(Append(b, r), d) = Read(Final(b, d), r, d)
<1> DEFINE c == Append(b, r)
<1>1. Len(b) \in Nat /\ Len(c) = Len(b) + 1 /\ c[Len(c)] = r
  OBVIOUS
<1>2. \A i \in 1..Len(b) : b[i] = c[i]
  OBVIOUS
<1> HIDE DEF c
<1>3. Reading(c, d)[Len(b)] = Reading(b, d)[Len(b)]
  BY <1>1, <1>2, ReadingPrefix
<1>4. Reading(c, d)[Len(c)] = Read(Reading(c, d)[Len(c) - 1], c[Len(c)], d)
  BY <1>1, ReadingNext
<1> QED
  BY <1>1, <1>3, <1>4 DEF Final, c

-----------------------------------------------------------------------------
(***************************************************************************)
(* Sequences with an entry put in, taken out, or put before the others.    *)
(***************************************************************************)

LEMMA InsertAtElements ==
    ASSUME NEW R, NEW s \in Seq(R), NEW p \in 1..Len(s) + 1, NEW e \in R
    PROVE  /\ InsertAt(s, p, e) \in Seq(R)
           /\ Len(InsertAt(s, p, e)) = Len(s) + 1
           /\ \A i \in 1..Len(s) + 1 :
                 InsertAt(s, p, e)[i] = IF i < p THEN s[i]
                                        ELSE IF i = p THEN e ELSE s[i - 1]
<1> DEFINE u == SubSeq(s, 1, p - 1)
           v == SubSeq(s, p, Len(s))
           w == u \o <<e>>
<1>1. u \in Seq(R) /\ Len(u) = p - 1 /\ \A i \in 1..p - 1 : u[i] = s[i]
  BY SubSeqProperties
<1>2. /\ v \in Seq(R) /\ Len(v) = Len(s) - p + 1
      /\ \A i \in 1..Len(s) - p + 1 : v[i] = s[p + i - 1]
  BY SubSeqProperties
<1>3. InsertAt(s, p, e) = w \o v
  BY DEF InsertAt
<1> HIDE DEF u, v
<1>4. /\ w \in Seq(R) /\ Len(w) = p
      /\ \A i \in 1..p : w[i] = IF i < p THEN s[i] ELSE e
  BY <1>1
<1> HIDE DEF w
<1>5. /\ w \o v \in Seq(R)
      /\ Len(w \o v) = Len(s) + 1
      /\ \A i \in 1..Len(s) + 1 : (w \o v)[i] = IF i <= p THEN w[i] ELSE v[i - p]
  BY <1>2, <1>4, ConcatProperties
<1>6. ASSUME NEW i \in 1..Len(s) + 1
      PROVE  (w \o v)[i] = IF i < p THEN s[i] ELSE IF i = p THEN e ELSE s[i - 1]
  <2> i \in Int /\ p \in Int /\ Len(s) \in Nat
    OBVIOUS
  <2>1. CASE i <= p
    BY <1>4, <1>5, <2>1
  <2>2. CASE i > p
    <3>1. i - p \in 1..Len(s) - p + 1 /\ p + (i - p) - 1 = i - 1
      BY <2>2
    <3>2. v[i - p] = s[i - 1]
      BY <1>2, <3>1
    <3> QED
      BY <1>5, <2>2, <3>2
  <2>3. i <= p \/ i > p
    OBVIOUS
  <2> QED
    BY Zenon, <2>1, <2>2, <2>3
<1> QED
  BY <1>3, <1>5, <1>6

LEMMA RemoveAtElements ==
    ASSUME NEW R, NEW s \in Seq(R), NEW p \in 1..Len(s)
    PROVE  /\ RemoveAt(s, p) \in Seq(R)
           /\ Len(RemoveAt(s, p)) = Len(s) - 1
           /\ \A i \in 1..Len(s) - 1 :
                 RemoveAt(s, p)[i] = IF i < p THEN s[i] ELSE s[i + 1]
<1> DEFINE u == SubSeq(s, 1, p - 1)
           v == SubSeq(s, p + 1, Len(s))
<1>1. u \in Seq(R) /\ Len(u) = p - 1 /\ \A i \in 1..p - 1 : u[i] = s[i]
  BY SubSeqProperties
<1>2. /\ v \in Seq(R) /\ Len(v) = Len(s) - p
      /\ \A i \in 1..Len(s) - p : v[i] = s[p + i]
  BY SubSeqProperties
<1>3. RemoveAt(s, p) = u \o v
  BY DEF RemoveAt
<1> HIDE DEF u, v
<1>4. /\ u \o v \in Seq(R)
      /\ Len(u \o v) = Len(s) - 1
      /\ \A i \in 1..Len(s) - 1 :
            (u \o v)[i] = IF i <= p - 1 THEN u[i] ELSE v[i - (p - 1)]
  <2>1. Len(u) = p - 1 /\ Len(u) + Len(v) = Len(s) - 1
    BY <1>1, <1>2
  <2>2. /\ u \o v \in Seq(R)
        /\ Len(u \o v) = Len(u) + Len(v)
        /\ \A i \in 1..Len(u) + Len(v) :
              (u \o v)[i] = IF i <= Len(u) THEN u[i] ELSE v[i - Len(u)]
    BY <1>1, <1>2, ConcatProperties
  <2> QED
    BY <2>1, <2>2
<1>5. ASSUME NEW i \in 1..Len(s) - 1
      PROVE  (u \o v)[i] = IF i < p THEN s[i] ELSE s[i + 1]
  <2> i \in Int /\ p \in Int /\ Len(s) \in Nat
    OBVIOUS
  <2>1. CASE i < p
    BY <1>1, <1>4, <2>1
  <2>2. CASE i >= p
    <3>1. i - (p - 1) \in 1..Len(s) - p /\ p + (i - (p - 1)) = i + 1
      BY <2>2
    <3>2. v[i - (p - 1)] = s[i + 1]
      BY <1>2, <3>1
    <3> QED
      BY <1>4, <2>2, <3>2
  <2>3. i < p \/ i >= p
    OBVIOUS
  <2> QED
    BY Zenon, <2>1, <2>2, <2>3
<1> QED
  BY <1>3, <1>4, <1>5

LEMMA HeadedElements ==
    ASSUME NEW R, NEW s \in Seq(R), NEW e \in R
    PROVE  /\ <<e>> \o s \in Seq(R)
           /\ Len(<<e>> \o s) = Len(s) + 1
           /\ \A i \in 1..Len(s) + 1 :
                 (<<e>> \o s)[i] = IF i = 1 THEN e ELSE s[i - 1]
  OBVIOUS

-----------------------------------------------------------------------------
(***************************************************************************)
(* push and pop.                                                           *)
(***************************************************************************)

Entry == [delta : Nat, mode : Mode]

\* What the entries of a deltaState are.
LEMMA Entries ==
    ASSUME NEW ds \in DeltaState
    PROVE  /\ Len(ds) \in Nat
           /\ \A i \in 1..Len(ds) : /\ ds[i] \in Entry
                                    /\ ds[i].delta \in Nat
                                    /\ ds[i].mode \in Mode
<1>1. ds \in Seq(Entry)
  BY DEF DeltaState, Entry
<1>2. Len(ds) \in Nat /\ \A i \in 1..Len(ds) : ds[i] \in Entry
  BY <1>1, LenProperties, ElementOfSeq
<1> QED
  BY <1>2 DEF Entry

IsPlace(ds, k, p) == /\ p \in 1..Len(ds) + 1
                     /\ \A j \in p..Len(ds) : ds[j].delta < k
                     /\ p > 1 => ds[p - 1].delta >= k

\* There is exactly one place for a new entry.
LEMMA PlaceIsPlace ==
    ASSUME NEW ds \in DeltaState, NEW k \in Nat
    PROVE  /\ IsPlace(ds, k, Place(ds, k))
           /\ \A p : IsPlace(ds, k, p) => p = Place(ds, k)
<1> DEFINE T == {p \in 1..Len(ds) + 1 : \A j \in p..Len(ds) : ds[j].delta < k}
<1>1. T \subseteq Nat /\ Len(ds) + 1 \in T
  BY DEF DeltaState
<1>2. PICK p \in T : \A q \in T : p <= q
  <2> HIDE DEF T
  <2> QED
    BY <1>1, LeastElement
<1>3. p > 1 => ds[p - 1].delta >= k
  <2>1. SUFFICES ASSUME p > 1, ~ (ds[p - 1].delta >= k) PROVE FALSE
    OBVIOUS
  <2>2. p - 1 \in 1..Len(ds) /\ ds[p - 1].delta \in Nat
    BY <2>1, Entries
  <2>3. p - 1 \in T
    BY <2>1, <2>2
  <2> QED
    BY <1>2, <2>3, <1>1
<1>4. IsPlace(ds, k, p)
  BY <1>3 DEF IsPlace
<1>5. Place(ds, k) = CHOOSE q : IsPlace(ds, k, q)
  BY Zenon DEF Place, IsPlace
<1>6. IsPlace(ds, k, Place(ds, k))
  BY Zenon, <1>4, <1>5
<1>7. ASSUME NEW q, NEW r, IsPlace(ds, k, q), IsPlace(ds, k, r) PROVE ~ (q < r)
  <2>1. SUFFICES ASSUME q < r PROVE FALSE
    OBVIOUS
  <2>2. r - 1 \in q..Len(ds) /\ r > 1 /\ r - 1 \in 1..Len(ds)
    BY <1>7, <2>1 DEF IsPlace, DeltaState
  <2>3. ds[r - 1].delta \in Nat
    BY <2>2, Entries
  <2> QED
    BY <1>7, <2>2, <2>3 DEF IsPlace
<1>8. ASSUME NEW q, IsPlace(ds, k, q) PROVE q = Place(ds, k)
  <2>1. q \in Int /\ Place(ds, k) \in Int
    BY <1>6, <1>8 DEF IsPlace, DeltaState
  <2>2. ~ (q < Place(ds, k)) /\ ~ (Place(ds, k) < q)
    BY <1>6, <1>7, <1>8
  <2> QED
    BY <2>1, <2>2
<1> QED
  BY <1>6, <1>8

LEMMA PushElements ==
    ASSUME NEW ds \in DeltaState, NEW k \in Nat, NEW m \in Mode
    PROVE  LET p == Place(ds, k)
           IN  /\ p \in 1..Len(ds) + 1
               /\ Push(ds, k, m) \in DeltaState
               /\ Len(Push(ds, k, m)) = Len(ds) + 1
               /\ \A i \in 1..Len(ds) + 1 :
                     Push(ds, k, m)[i] = IF i < p THEN ds[i]
                                         ELSE IF i = p THEN [delta |-> k, mode |-> m]
                                         ELSE ds[i - 1]
<1> DEFINE p == Place(ds, k)
           x == [delta |-> k, mode |-> m]
<1>1. p \in 1..Len(ds) + 1
  BY PlaceIsPlace DEF IsPlace
<1>2. ds \in Seq(Entry) /\ x \in Entry /\ DeltaState = Seq(Entry)
  BY DEF DeltaState, Entry
<1>3. Push(ds, k, m) = InsertAt(ds, p, x)
  BY DEF Push
<1> HIDE DEF p, x
<1>4. /\ InsertAt(ds, p, x) \in Seq(Entry)
      /\ Len(InsertAt(ds, p, x)) = Len(ds) + 1
      /\ \A i \in 1..Len(ds) + 1 :
            InsertAt(ds, p, x)[i] = IF i < p THEN ds[i]
                                    ELSE IF i = p THEN x ELSE ds[i - 1]
  BY <1>1, <1>2, InsertAtElements
<1> QED
  BY <1>1, <1>2, <1>3, <1>4 DEF p, x

\* An entry of a delta newer than all others goes to the head.
LEMMA PushAtHead ==
    ASSUME NEW ds \in DeltaState, NEW k \in Nat, NEW m \in Mode,
           \A i \in 1..Len(ds) : ds[i].delta < k
    PROVE  Push(ds, k, m) = <<[delta |-> k, mode |-> m]>> \o ds
<1> DEFINE e == [delta |-> k, mode |-> m]
<1>1. ds \in Seq(Entry) /\ e \in Entry /\ DeltaState = Seq(Entry)
  BY DEF DeltaState, Entry
<1>2. Place(ds, k) = 1
  <2>1. IsPlace(ds, k, 1)
    BY DEF IsPlace, DeltaState
  <2> QED
    BY <2>1, PlaceIsPlace
<1> DEFINE s == Push(ds, k, m)
           t == <<e>> \o ds
<1>3. /\ s \in Seq(Entry) /\ Len(s) = Len(ds) + 1
      /\ \A i \in 1..Len(ds) + 1 : s[i] = IF i = 1 THEN e ELSE ds[i - 1]
  BY <1>1, <1>2, PushElements
<1>4. /\ t \in Seq(Entry) /\ Len(t) = Len(ds) + 1
      /\ \A i \in 1..Len(ds) + 1 : t[i] = IF i = 1 THEN e ELSE ds[i - 1]
  BY <1>1, HeadedElements
<1> HIDE DEF s, t
<1>5. s = t
  BY <1>3, <1>4, SeqEqual
<1> QED
  BY <1>5 DEF s, t

\* An entry of an older delta goes to its place under the head.
LEMMA PushUnderHead ==
    ASSUME NEW ds \in DeltaState, NEW e \in Entry, NEW k \in Nat, NEW m \in Mode,
           k < e.delta
    PROVE  Push(<<e>> \o ds, k, m) = <<e>> \o Push(ds, k, m)
<1> DEFINE x == [delta |-> k, mode |-> m]
           es == <<e>> \o ds
           p == Place(ds, k)
           s == Push(es, k, m)
           u == Push(ds, k, m)
           t == <<e>> \o u
<1>1. DeltaState = Seq(Entry) /\ x \in Entry
  BY DEF DeltaState, Entry
<1>2. /\ es \in Seq(Entry) /\ Len(es) = Len(ds) + 1
      /\ \A i \in 1..Len(ds) + 1 : es[i] = IF i = 1 THEN e ELSE ds[i - 1]
  BY <1>1, HeadedElements
<1>3. IsPlace(ds, k, p)
  BY PlaceIsPlace
<1>4. p \in 1..Len(ds) + 1 /\ Len(ds) \in Nat
  BY <1>1, <1>3 DEF IsPlace
<1> HIDE DEF es, p
<1>5. IsPlace(es, k, p + 1)
  <2>1. ASSUME NEW j \in p + 1..Len(es) PROVE es[j].delta < k
    <3>1. j - 1 \in p..Len(ds) /\ es[j] = ds[j - 1]
      BY <1>2, <1>4, <2>1
    <3> QED
      BY <1>3, <3>1 DEF IsPlace
  <2>2. es[p].delta >= k
    <3>1. CASE p = 1
      BY <1>2, <1>4, <3>1 DEF Entry
    <3>2. CASE p > 1
      <4>1. es[p] = ds[p - 1]
        BY <1>2, <1>4, <3>2
      <4> QED
        BY <1>3, <3>2, <4>1 DEF IsPlace
    <3> QED
      BY <1>4, <3>1, <3>2
  <2> QED
    BY <1>2, <1>4, <2>1, <2>2 DEF IsPlace
<1>6. Place(es, k) = p + 1
  BY <1>1, <1>2, <1>5, PlaceIsPlace
<1>7. /\ s \in Seq(Entry) /\ Len(s) = Len(ds) + 2
      /\ \A i \in 1..Len(ds) + 2 : s[i] = IF i < p + 1 THEN es[i]
                                          ELSE IF i = p + 1 THEN x ELSE es[i - 1]
  <2>1. es \in DeltaState
    BY <1>1, <1>2
  <2>2. /\ s \in DeltaState /\ Len(s) = Len(es) + 1
        /\ \A i \in 1..Len(es) + 1 : s[i] = IF i < Place(es, k) THEN es[i]
                                            ELSE IF i = Place(es, k) THEN x
                                            ELSE es[i - 1]
    BY <2>1, PushElements
  <2> HIDE DEF s, x
  <2> QED
    BY <1>1, <1>2, <1>4, <1>6, <2>2
<1>8. /\ u \in Seq(Entry) /\ Len(u) = Len(ds) + 1
      /\ \A i \in 1..Len(ds) + 1 : u[i] = IF i < p THEN ds[i]
                                          ELSE IF i = p THEN x ELSE ds[i - 1]
  BY <1>1, PushElements DEF p
<1> HIDE DEF s, u, x
<1>9. /\ t \in Seq(Entry) /\ Len(t) = Len(ds) + 2
      /\ \A i \in 1..Len(ds) + 2 : t[i] = IF i = 1 THEN e ELSE u[i - 1]
  BY <1>4, <1>8, HeadedElements
<1> HIDE DEF t
<1>10. ASSUME NEW i \in 1..Len(ds) + 2 PROVE s[i] = t[i]
  <2>1. CASE i = 1
    BY <1>2, <1>4, <1>7, <1>9, <2>1
  <2>2. CASE i > 1 /\ i < p + 1
    <3>1. i - 1 \in 1..Len(ds) + 1 /\ i \in 1..Len(ds) + 1
      BY <1>4, <2>2
    <3>2. s[i] = ds[i - 1]
      BY <1>2, <1>7, <2>2, <3>1
    <3>3. t[i] = u[i - 1] /\ i - 1 < p
      BY <1>4, <1>9, <2>2
    <3> QED
      BY <1>8, <3>1, <3>2, <3>3
  <2>3. CASE i = p + 1
    <3>1. i - 1 \in 1..Len(ds) + 1 /\ i # 1
      BY <1>4, <2>3
    <3> QED
      BY <1>4, <1>7, <1>8, <1>9, <2>3, <3>1
  <2>4. CASE i > p + 1
    <3>1. i - 1 \in 1..Len(ds) + 1 /\ i # 1 /\ i - 1 # 1
      BY <1>4, <2>4
    <3>2. s[i] = ds[i - 2]
      BY <1>2, <1>4, <1>7, <2>4, <3>1
    <3>3. u[i - 1] = ds[i - 2]
      BY <1>4, <1>8, <2>4, <3>1
    <3> QED
      BY <1>9, <3>1, <3>2, <3>3
  <2> QED
    BY <1>4, <2>1, <2>2, <2>3, <2>4
<1>11. s = t
  BY <1>4, <1>7, <1>9, <1>10, SeqEqual
<1> QED
  BY <1>11 DEF s, t, u, es

\* The head and what is under it.
LEMMA HeadedState ==
    ASSUME NEW ds \in DeltaState, NEW e \in Entry
    PROVE  /\ <<e>> \o ds \in DeltaState
           /\ Len(<<e>> \o ds) = Len(ds) + 1
           /\ (<<e>> \o ds)[1] = e
           /\ \A i \in 1..Len(ds) : (<<e>> \o ds)[i + 1] = ds[i]
           /\ \A i \in 2..Len(ds) + 1 : (<<e>> \o ds)[i] = ds[i - 1]
<1>1. ds \in Seq(Entry) /\ DeltaState = Seq(Entry)
  BY DEF DeltaState, Entry
<1>2. /\ <<e>> \o ds \in Seq(Entry)
      /\ Len(<<e>> \o ds) = Len(ds) + 1
      /\ \A i \in 1..Len(ds) + 1 :
            (<<e>> \o ds)[i] = IF i = 1 THEN e ELSE ds[i - 1]
  BY <1>1, HeadedElements
<1> QED
  BY <1>1, <1>2, Entries

LEMMA OpenUnderHead ==
    ASSUME NEW ds \in DeltaState, NEW e \in Entry, NEW k \in Nat
    PROVE  IsOpen(<<e>> \o ds, k) <=> (e.delta = k \/ IsOpen(ds, k))
<1> DEFINE es == <<e>> \o ds
<1>1. /\ Len(ds) \in Nat /\ Len(es) = Len(ds) + 1 /\ es[1] = e
      /\ \A i \in 1..Len(ds) : es[i + 1] = ds[i]
      /\ \A i \in 2..Len(ds) + 1 : es[i] = ds[i - 1]
  BY HeadedState, Entries
<1> HIDE DEF es
<1>2. ASSUME IsOpen(es, k), e.delta # k PROVE IsOpen(ds, k)
  <2>1. PICK i \in 1..Len(es) : es[i].delta = k
    BY <1>2 DEF IsOpen
  <2>2. i \in 2..Len(ds) + 1
    BY <1>1, <1>2, <2>1
  <2>3. i - 1 \in 1..Len(ds) /\ ds[i - 1].delta = k
    BY <1>1, <2>1, <2>2
  <2> QED
    BY <2>3 DEF IsOpen
<1>3. ASSUME e.delta = k PROVE IsOpen(es, k)
  <2>1. 1 \in 1..Len(es)
    BY <1>1
  <2> QED
    BY <1>1, <1>3, <2>1 DEF IsOpen
<1>4. ASSUME IsOpen(ds, k) PROVE IsOpen(es, k)
  <2>1. PICK i \in 1..Len(ds) : ds[i].delta = k
    BY <1>4 DEF IsOpen
  <2>2. i + 1 \in 1..Len(es) /\ es[i + 1].delta = k
    BY <1>1, <2>1
  <2> QED
    BY <2>2 DEF IsOpen
<1> QED
  BY <1>2, <1>3, <1>4 DEF es

\* updateKeep looks under a head that is stNext, and only then.
LEMMA KeepsUnderHead ==
    ASSUME NEW ds \in DeltaState, NEW e \in Entry
    PROVE  Keeps(<<e>> \o ds) <=>
              (e.mode = "stKeep" \/ (e.mode = "stNext" /\ Keeps(ds)))
<1> DEFINE es == <<e>> \o ds
<1>1. /\ Len(ds) \in Nat /\ Len(es) = Len(ds) + 1 /\ es[1] = e
      /\ \A i \in 1..Len(ds) : es[i + 1] = ds[i]
      /\ \A i \in 2..Len(ds) + 1 : es[i] = ds[i - 1]
  BY HeadedState, Entries
<1> HIDE DEF es
<1>2. ASSUME Keeps(es) PROVE e.mode = "stKeep" \/ (e.mode = "stNext" /\ Keeps(ds))
  <2>1. PICK i \in 1..Len(es) : /\ es[i].mode = "stKeep"
                                /\ \A j \in 1..i - 1 : es[j].mode = "stNext"
    BY <1>2 DEF Keeps
  <2>2. CASE i = 1
    BY <1>1, <2>1, <2>2
  <2>3. CASE i > 1
    <3>1. 1 \in 1..i - 1 /\ i - 1 \in 1..Len(ds) /\ i \in 2..Len(ds) + 1
      BY <1>1, <2>1, <2>3
    <3>2. e.mode = "stNext"
      BY <1>1, <2>1, <3>1
    <3>3. ds[i - 1].mode = "stKeep"
      BY <1>1, <2>1, <3>1
    <3>4. ASSUME NEW j \in 1..(i - 1) - 1 PROVE ds[j].mode = "stNext"
      <4>1. j + 1 \in 1..i - 1 /\ j \in 1..Len(ds)
        BY <3>1
      <4> QED
        BY <1>1, <2>1, <4>1
    <3> QED
      BY <3>1, <3>2, <3>3, <3>4 DEF Keeps
  <2> QED
    BY <2>1, <2>2, <2>3
<1>3. ASSUME e.mode = "stKeep" PROVE Keeps(es)
  <2>1. 1 \in 1..Len(es) /\ 1..1 - 1 = {}
    BY <1>1
  <2> QED
    BY <1>1, <1>3, <2>1 DEF Keeps
<1>4. ASSUME e.mode = "stNext", Keeps(ds) PROVE Keeps(es)
  <2>1. PICK i \in 1..Len(ds) : /\ ds[i].mode = "stKeep"
                                /\ \A j \in 1..i - 1 : ds[j].mode = "stNext"
    BY <1>4 DEF Keeps
  <2>2. i + 1 \in 1..Len(es) /\ es[i + 1].mode = "stKeep"
    BY <1>1, <2>1
  <2>3. ASSUME NEW j \in 1..(i + 1) - 1 PROVE es[j].mode = "stNext"
    <3>1. CASE j = 1
      BY <1>1, <1>4, <3>1
    <3>2. CASE j > 1
      <4>1. j - 1 \in 1..i - 1 /\ j \in 2..Len(ds) + 1
        BY <1>1, <2>1, <3>2
      <4> QED
        BY <1>1, <2>1, <4>1
    <3> QED
      BY <3>1, <3>2
  <2> QED
    BY <2>2, <2>3 DEF Keeps
<1> QED
  BY <1>2, <1>3, <1>4 DEF es

IsFirst(ds, k, i) == /\ i \in 1..Len(ds)
                     /\ ds[i].delta = k
                     /\ \A j \in 1..i - 1 : ds[j].delta # k

\* An open delta has exactly one first entry.
LEMMA FirstIsFirst ==
    ASSUME NEW ds \in DeltaState, NEW k \in Nat, IsOpen(ds, k)
    PROVE  /\ IsFirst(ds, k, FirstOf(ds, k))
           /\ \A i : IsFirst(ds, k, i) => i = FirstOf(ds, k)
<1> DEFINE T == {i \in 1..Len(ds) : ds[i].delta = k}
<1>1. T \subseteq Nat /\ T # {} /\ Len(ds) \in Nat
  BY Entries DEF IsOpen
<1>2. PICK i \in T : \A j \in T : i <= j
  <2> HIDE DEF T
  <2> QED
    BY <1>1, LeastElement
<1>3. IsFirst(ds, k, i)
  <2>1. ASSUME NEW j \in 1..i - 1, ds[j].delta = k PROVE FALSE
    <3>1. j \in T /\ j < i
      BY <1>1, <2>1
    <3> QED
      BY <1>1, <1>2, <3>1
  <2> QED
    BY <2>1 DEF IsFirst
<1>4. FirstOf(ds, k) = CHOOSE j : IsFirst(ds, k, j)
  BY Zenon DEF FirstOf, IsFirst
<1>5. IsFirst(ds, k, FirstOf(ds, k))
  BY Zenon, <1>3, <1>4
<1>6. ASSUME NEW j, IsFirst(ds, k, j) PROVE j = FirstOf(ds, k)
  <2> DEFINE f == FirstOf(ds, k)
  <2>1. j \in Nat /\ f \in Nat /\ j >= 1 /\ f >= 1
    BY <1>1, <1>5, <1>6 DEF IsFirst
  <2> HIDE DEF f
  <2>2. ~ (j < f)
    <3>1. SUFFICES ASSUME j < f PROVE FALSE
      OBVIOUS
    <3>2. j \in 1..f - 1
      BY <2>1, <3>1
    <3> QED
      BY <1>5, <1>6, <3>2 DEF IsFirst, f
  <2>3. ~ (f < j)
    <3>1. SUFFICES ASSUME f < j PROVE FALSE
      OBVIOUS
    <3>2. f \in 1..j - 1
      BY <2>1, <3>1
    <3> QED
      BY <1>5, <1>6, <3>2 DEF IsFirst, f
  <2>4. j = f
    BY <2>1, <2>2, <2>3
  <2> QED
    BY <2>4 DEF f
<1> QED
  BY <1>5, <1>6

\* pop of an open delta.
LEMMA PopElements ==
    ASSUME NEW ds \in DeltaState, NEW k \in Nat, IsOpen(ds, k)
    PROVE  LET p == FirstOf(ds, k)
           IN  /\ p \in 1..Len(ds)
               /\ Pop(ds, k) \in DeltaState
               /\ Len(Pop(ds, k)) = Len(ds) - 1
               /\ \A i \in 1..Len(ds) - 1 :
                     Pop(ds, k)[i] = IF i < p THEN ds[i] ELSE ds[i + 1]
<1> DEFINE p == FirstOf(ds, k)
<1>1. p \in 1..Len(ds)
  BY FirstIsFirst DEF IsFirst
<1>2. ds \in Seq(Entry) /\ DeltaState = Seq(Entry)
  BY DEF DeltaState, Entry
<1>3. Pop(ds, k) = RemoveAt(ds, p)
  BY DEF Pop
<1> HIDE DEF p
<1>4. /\ RemoveAt(ds, p) \in Seq(Entry)
      /\ Len(RemoveAt(ds, p)) = Len(ds) - 1
      /\ \A i \in 1..Len(ds) - 1 :
            RemoveAt(ds, p)[i] = IF i < p THEN ds[i] ELSE ds[i + 1]
  BY <1>1, <1>2, RemoveAtElements
<1> QED
  BY <1>1, <1>2, <1>3, <1>4 DEF p

LEMMA PopAtHead ==
    ASSUME NEW ds \in DeltaState, NEW e \in Entry
    PROVE  Pop(<<e>> \o ds, e.delta) = ds
<1> DEFINE es == <<e>> \o ds
           t == Pop(es, e.delta)
<1>1. /\ es \in DeltaState /\ Len(es) = Len(ds) + 1 /\ es[1] = e
      /\ \A i \in 1..Len(ds) : es[i + 1] = ds[i]
  BY HeadedState
<1>2. Len(ds) \in Nat /\ e.delta \in Nat /\ ds \in Seq(Entry) /\ DeltaState = Seq(Entry)
  BY Entries DEF Entry, DeltaState
<1>3. IsOpen(es, e.delta)
  BY <1>2, OpenUnderHead
<1> HIDE DEF es
<1>4. FirstOf(es, e.delta) = 1
  <2>1. IsFirst(es, e.delta, 1)
    BY <1>1, <1>2 DEF IsFirst
  <2> QED
    BY <1>1, <1>2, <1>3, <2>1, FirstIsFirst
<1>5. /\ t \in Seq(Entry) /\ Len(t) = Len(es) - 1
      /\ \A i \in 1..Len(es) - 1 : t[i] = IF i < 1 THEN es[i] ELSE es[i + 1]
  BY <1>1, <1>2, <1>3, <1>4, PopElements
<1> HIDE DEF t
<1>6. Len(t) = Len(ds) /\ \A i \in 1..Len(ds) : t[i] = ds[i]
  BY <1>1, <1>2, <1>5
<1>7. t = ds
  BY <1>2, <1>5, <1>6, SeqEqual
<1> QED
  BY <1>7 DEF t, es

LEMMA PopUnderHead ==
    ASSUME NEW ds \in DeltaState, NEW e \in Entry, NEW k \in Nat, e.delta # k
    PROVE  Pop(<<e>> \o ds, k) = <<e>> \o Pop(ds, k)
<1> DEFINE es == <<e>> \o ds
<1>1. /\ es \in DeltaState /\ Len(es) = Len(ds) + 1 /\ es[1] = e
      /\ \A i \in 1..Len(ds) : es[i + 1] = ds[i]
      /\ \A i \in 2..Len(ds) + 1 : es[i] = ds[i - 1]
  BY HeadedState
<1>2. Len(ds) \in Nat /\ DeltaState = Seq(Entry)
  BY Entries DEF Entry, DeltaState
<1>3. IsOpen(es, k) <=> IsOpen(ds, k)
  BY OpenUnderHead
<1>4. CASE ~ IsOpen(ds, k)
  BY <1>3, <1>4 DEF Pop, es
<1>5. CASE IsOpen(ds, k)
  <2> DEFINE p == FirstOf(ds, k)
             s == Pop(es, k)
             u == Pop(ds, k)
             t == <<e>> \o u
  <2> HIDE DEF es
  <2>1. IsFirst(ds, k, p)
    BY <1>5, FirstIsFirst
  <2>2. p \in 1..Len(ds)
    BY <2>1 DEF IsFirst
  <2> HIDE DEF p
  <2>3. IsFirst(es, k, p + 1)
    <3>1. p + 1 \in 1..Len(es) /\ es[p + 1].delta = k
      BY <1>1, <1>2, <2>1, <2>2 DEF IsFirst
    <3>2. ASSUME NEW j \in 1..(p + 1) - 1 PROVE es[j].delta # k
      <4>1. CASE j = 1
        BY <1>1, <4>1
      <4>2. CASE j > 1
        <5>1. j - 1 \in 1..p - 1 /\ j \in 2..Len(ds) + 1
          BY <1>2, <2>2, <4>2
        <5> QED
          BY <1>1, <2>1, <5>1 DEF IsFirst
      <4> QED
        BY <4>1, <4>2
    <3> QED
      BY <3>1, <3>2 DEF IsFirst
  <2>4. FirstOf(es, k) = p + 1
    BY <1>1, <1>3, <1>5, <2>3, FirstIsFirst
  <2>5. /\ s \in DeltaState /\ Len(s) = Len(es) - 1
        /\ \A i \in 1..Len(es) - 1 :
              s[i] = IF i < FirstOf(es, k) THEN es[i] ELSE es[i + 1]
    BY <1>1, <1>3, <1>5, PopElements
  <2>6. /\ u \in DeltaState /\ Len(u) = Len(ds) - 1
        /\ \A i \in 1..Len(ds) - 1 : u[i] = IF i < p THEN ds[i] ELSE ds[i + 1]
    BY <1>5, PopElements DEF p
  <2> HIDE DEF s, u
  <2>7. /\ t \in DeltaState /\ Len(t) = Len(u) + 1 /\ t[1] = e
        /\ \A i \in 2..Len(u) + 1 : t[i] = u[i - 1]
    BY <2>6, HeadedState
  <2> HIDE DEF t
  <2>8. ASSUME NEW i \in 1..Len(ds) PROVE s[i] = t[i]
    <3>1. CASE i = 1
      BY <1>1, <1>2, <2>2, <2>4, <2>5, <2>7, <3>1
    <3>2. CASE i > 1 /\ i < p + 1
      <4>1. s[i] = ds[i - 1]
        BY <1>1, <1>2, <2>2, <2>4, <2>5, <3>2
      <4>2. i - 1 \in 1..Len(ds) - 1 /\ i - 1 < p /\ t[i] = u[i - 1]
        BY <1>2, <2>2, <2>6, <2>7, <3>2
      <4> QED
        BY <2>6, <4>1, <4>2
    <3>3. CASE i >= p + 1
      <4>1. s[i] = es[i + 1] /\ es[i + 1] = ds[i]
        BY <1>1, <1>2, <2>2, <2>4, <2>5, <3>3
      <4>2. i - 1 \in 1..Len(ds) - 1 /\ ~ (i - 1 < p) /\ t[i] = u[i - 1]
        BY <1>2, <2>2, <2>6, <2>7, <3>3
      <4>3. u[i - 1] = ds[i]
        BY <2>6, <4>2
      <4> QED
        BY <4>1, <4>2, <4>3
    <3> QED
      BY <2>2, <3>1, <3>2, <3>3
  <2>9. Len(s) = Len(ds) /\ Len(t) = Len(ds)
    BY <1>1, <1>2, <2>5, <2>6, <2>7
  <2>10. s = t
    BY <1>2, <2>5, <2>7, <2>8, <2>9, SeqEqual
  <2> QED
    BY <2>10 DEF s, t, u, es
<1> QED
  BY <1>4, <1>5

-----------------------------------------------------------------------------
(***************************************************************************)
(* Control records and whole readers.                                      *)
(***************************************************************************)

\* All open marks are of deltas older than n.
Below(ds, n) == \A i \in 1..Len(ds) : ds[i].delta < n

ReaderState == [dstate : DeltaState, keeping : BOOLEAN, ok : BOOLEAN,
                got : Seq(Lines)]

LEMMA Modes ==
    ASSUME NEW k \in Nat, NEW d \in Nat
    PROVE  InsertMode(k, d) \in Mode /\ DeleteMode(k, d) \in Mode
  BY DEF InsertMode, DeleteMode, Mode

\* The records that are not text are marks.
LEMMA MarkRecord ==
    ASSUME NEW r \in Record, r.op # "P"
    PROVE  r.op \in {"I", "D", "E"} /\ r.delta \in Nat
  BY DEF Record

LEMMA TextRecord ==
    ASSUME NEW r \in Record, r.op = "P"
    PROVE  r.line \in Lines
  BY DEF Record

LEMMA PopTyped ==
    ASSUME NEW ds \in DeltaState, NEW k \in Nat
    PROVE  Pop(ds, k) \in DeltaState
<1>1. CASE IsOpen(ds, k)
  BY <1>1, PopElements
<1>2. CASE ~ IsOpen(ds, k)
  BY <1>2 DEF Pop
<1> QED
  BY <1>1, <1>2

LEMMA ControlCases ==
    ASSUME NEW ds, NEW r, NEW d
    PROVE  /\ r.op = "I" => Control(ds, r, d) = Push(ds, r.delta, InsertMode(r.delta, d))
           /\ r.op = "D" => Control(ds, r, d) = Push(ds, r.delta, DeleteMode(r.delta, d))
           /\ r.op = "E" => Control(ds, r, d) = Pop(ds, r.delta)
  BY DEF Control

LEMMA ControlTyped ==
    ASSUME NEW ds \in DeltaState, NEW r \in Record, r.op # "P", NEW d \in Nat
    PROVE  Control(ds, r, d) \in DeltaState
<1>1. r.op \in {"I", "D", "E"} /\ r.delta \in Nat
  BY MarkRecord
<1>2. CASE r.op = "I"
  BY <1>1, <1>2, Modes, PushElements DEF Control
<1>3. CASE r.op = "D"
  BY <1>1, <1>3, Modes, PushElements DEF Control
<1>4. CASE r.op = "E"
  BY <1>1, <1>4, PopTyped DEF Control
<1> QED
  BY <1>1, <1>2, <1>3, <1>4

LEMMA PushBelow ==
    ASSUME NEW ds \in DeltaState, NEW n \in Nat, Below(ds, n),
           NEW k \in Nat, k < n, NEW m \in Mode
    PROVE  Below(Push(ds, k, m), n)
<1> DEFINE s == Push(ds, k, m)
           p == Place(ds, k)
           x == [delta |-> k, mode |-> m]
<1>1. /\ p \in 1..Len(ds) + 1
      /\ Len(s) = Len(ds) + 1
      /\ \A i \in 1..Len(ds) + 1 : s[i] = IF i < p THEN ds[i]
                                          ELSE IF i = p THEN x ELSE ds[i - 1]
  BY PushElements
<1>2. Len(ds) \in Nat
  BY Entries
<1> HIDE DEF s, p
<1>3. ASSUME NEW i \in 1..Len(s) PROVE s[i].delta < n
  <2>1. CASE i < p
    <3>1. i \in 1..Len(ds) /\ s[i] = ds[i]
      BY <1>1, <1>2, <2>1
    <3> QED
      BY <3>1 DEF Below
  <2>2. CASE i = p
    BY <1>1, <2>2
  <2>3. CASE i > p
    <3>1. i - 1 \in 1..Len(ds) /\ s[i] = ds[i - 1]
      BY <1>1, <1>2, <2>3
    <3> QED
      BY <3>1 DEF Below
  <2> QED
    BY <1>1, <2>1, <2>2, <2>3
<1> QED
  BY <1>3 DEF Below, s

LEMMA PopBelow ==
    ASSUME NEW ds \in DeltaState, NEW n \in Nat, Below(ds, n), NEW k \in Nat
    PROVE  Below(Pop(ds, k), n)
<1>1. CASE ~ IsOpen(ds, k)
  BY <1>1 DEF Pop
<1>2. CASE IsOpen(ds, k)
  <2> DEFINE s == Pop(ds, k)
             p == FirstOf(ds, k)
  <2>1. /\ p \in 1..Len(ds)
        /\ Len(s) = Len(ds) - 1
        /\ \A i \in 1..Len(ds) - 1 : s[i] = IF i < p THEN ds[i] ELSE ds[i + 1]
    BY <1>2, PopElements
  <2>2. Len(ds) \in Nat
    BY Entries
  <2> HIDE DEF s, p
  <2>3. ASSUME NEW i \in 1..Len(s) PROVE s[i].delta < n
    <3>1. i \in 1..Len(ds) /\ i + 1 \in 1..Len(ds)
      BY <2>1, <2>2
    <3>2. s[i] = ds[i] \/ s[i] = ds[i + 1]
      BY <2>1, <2>2
    <3> QED
      BY <3>1, <3>2 DEF Below
  <2> QED
    BY <2>3 DEF Below, s
<1> QED
  BY <1>1, <1>2

LEMMA ControlBelow ==
    ASSUME NEW ds \in DeltaState, NEW n \in Nat, Below(ds, n),
           NEW r \in Record, r.op # "P", r.delta < n, NEW d \in Nat
    PROVE  Below(Control(ds, r, d), n)
<1>1. r.op \in {"I", "D", "E"} /\ r.delta \in Nat
  BY MarkRecord
<1>2. CASE r.op = "I"
  BY <1>1, <1>2, Modes, PushBelow DEF Control
<1>3. CASE r.op = "D"
  BY <1>1, <1>3, Modes, PushBelow DEF Control
<1>4. CASE r.op = "E"
  BY <1>1, <1>4, PopBelow DEF Control
<1> QED
  BY <1>1, <1>2, <1>3, <1>4

Headed(e, ds) == <<e>> \o ds

\* A mark of an older delta leaves the head alone, and does to the entries
\* under it what it does to them without the head.
LEMMA ControlUnderHead ==
    ASSUME NEW ds \in DeltaState, NEW e \in Entry,
           NEW d \in Nat, NEW r \in Record, r.op # "P", r.delta < e.delta
    PROVE  /\ Control(Headed(e, ds), r, d) = Headed(e, Control(ds, r, d))
           /\ Bad(Headed(e, ds), r) <=> Bad(ds, r)
<1> DEFINE es == <<e>> \o ds
           k == r.delta
<1>1. r.op \in {"I", "D", "E"} /\ k \in Nat /\ e.delta \in Nat /\ e.delta # k
  BY MarkRecord DEF Entry
<1>2. /\ InsertMode(k, d) \in Mode
      /\ DeleteMode(k, d) \in Mode
  BY <1>1, Modes
<1>3. /\ Push(es, k, InsertMode(k, d)) = <<e>> \o Push(ds, k, InsertMode(k, d))
      /\ Push(es, k, DeleteMode(k, d)) = <<e>> \o Push(ds, k, DeleteMode(k, d))
  BY <1>1, <1>2, PushUnderHead
<1>4. Pop(es, k) = <<e>> \o Pop(ds, k)
  BY <1>1, PopUnderHead
<1>5. Control(es, r, d) = <<e>> \o Control(ds, r, d)
  <2> HIDE DEF es
  <2>1. CASE r.op = "I"
    BY <2>1, <1>3, ControlCases
  <2>2. CASE r.op = "D"
    BY <2>2, <1>3, ControlCases
  <2>3. CASE r.op = "E"
    BY <2>3, <1>4, ControlCases
  <2> QED
    BY <1>1, <2>1, <2>2, <2>3
<1>6. Bad(es, r) <=> Bad(ds, r)
  BY <1>1, OpenUnderHead DEF Bad
<1> QED
  BY <1>5, <1>6 DEF Headed

\* A reader in the middle of a body whose deltas are all older than n.
Good(s, n) == /\ s \in ReaderState
              /\ s.keeping <=> Keeps(s.dstate)
              /\ Below(s.dstate, n)

LEMMA NewReaderGood == ASSUME NEW n \in Nat PROVE Good(NewReader, n)
<1>1. << >> \in DeltaState /\ << >> \in Seq(Lines)
  BY DEF DeltaState
<1>2. ~ Keeps(<< >>) /\ Below(<< >>, n)
  BY DEF Keeps, Below
<1> QED
  BY <1>1, <1>2 DEF Good, NewReader, ReaderState

LEMMA ReadGood ==
    ASSUME NEW n \in Nat, NEW s, Good(s, n), NEW d \in Nat,
           NEW r \in Record, r.op # "P" => r.delta < n
    PROVE  Good(Read(s, r, d), n)
<1>1. CASE r.op = "P"
  <2>1. r.line \in Lines /\ s \in ReaderState
    BY <1>1, TextRecord DEF Good
  <2>2. Append(s.got, r.line) \in Seq(Lines) /\ s.got \in Seq(Lines)
    BY <2>1 DEF ReaderState
  <2>3. Read(s, r, d) = [s EXCEPT !.got = IF s.keeping THEN Append(s.got, r.line)
                                                       ELSE s.got]
    BY <1>1 DEF Read
  <2>4. /\ Read(s, r, d) \in ReaderState
        /\ Read(s, r, d).dstate = s.dstate /\ Read(s, r, d).keeping = s.keeping
    BY <2>1, <2>2, <2>3 DEF ReaderState
  <2> QED
    BY <2>4 DEF Good
<1>2. CASE r.op # "P"
  <2> DEFINE ds == Control(s.dstate, r, d)
  <2>1. s \in ReaderState /\ s.dstate \in DeltaState /\ s.got \in Seq(Lines)
    BY DEF Good, ReaderState
  <2>2. ds \in DeltaState /\ Below(ds, n)
    BY <1>2, <2>1, ControlTyped, ControlBelow DEF Good
  <2>3. Read(s, r, d) = [dstate |-> ds, keeping |-> Keeps(ds),
                         ok |-> s.ok /\ ~ Bad(s.dstate, r), got |-> s.got]
    BY <1>2 DEF Read
  <2> HIDE DEF ds
  <2>4. Keeps(ds) \in BOOLEAN /\ (s.ok /\ ~ Bad(s.dstate, r)) \in BOOLEAN
    BY DEF Keeps
  <2>5. Read(s, r, d) \in ReaderState
    BY <2>1, <2>2, <2>3, <2>4 DEF ReaderState
  <2>6. Read(s, r, d).dstate = ds /\ (Read(s, r, d).keeping <=> Keeps(ds))
    BY <2>3
  <2> QED
    BY <2>2, <2>5, <2>6 DEF Good
<1> QED
  BY <1>1, <1>2

LEMMA ReadingGood ==
    ASSUME NEW n \in Nat, NEW d \in Nat, NEW b \in Seq(Record),
           \A i \in 1..Len(b) : b[i].op # "P" => b[i].delta < n
    PROVE  \A i \in 0..Len(b) : Good(Reading(b, d)[i], n)
<1> DEFINE S == {i \in Nat : i <= Len(b) => Good(Reading(b, d)[i], n)}
<1>1. Len(b) \in Nat
  OBVIOUS
<1>2. 0 \in S
  BY <1>1, NewReaderGood, ReadingStart
<1>3. ASSUME NEW i \in Nat, i \in S PROVE i + 1 \in S
  <2>1. SUFFICES ASSUME i + 1 <= Len(b) PROVE Good(Reading(b, d)[i + 1], n)
    OBVIOUS
  <2>2. i + 1 \in 1..Len(b) /\ Good(Reading(b, d)[i], n)
    BY <1>1, <1>3, <2>1
  <2>3. b[i + 1] \in Record /\ (b[i + 1].op # "P" => b[i + 1].delta < n)
    BY <2>2
  <2>4. Reading(b, d)[i + 1] = Read(Reading(b, d)[i], b[i + 1], d)
    BY <1>1, <2>2, ReadingNext
  <2> QED
    BY <2>2, <2>3, <2>4, ReadGood
<1> HIDE DEF S
<1>4. Nat \subseteq S
  BY <1>2, <1>3, SetInduction
<1> QED
  BY <1>1, <1>4 DEF S

-----------------------------------------------------------------------------
(***************************************************************************)
(* Two readers in step: o has the entries of s, under the marks in m.      *)
(***************************************************************************)

InStep(o, s, m) == /\ o.dstate = m \o s.dstate
                   /\ o.got = s.got
                   /\ o.ok = s.ok

\* A head that does not apply (stNext) does not come between the readers,
\* whatever the record.
LEMMA InStepUnderNext ==
    ASSUME NEW n \in Nat, NEW d \in Nat, NEW s, Good(s, n), NEW o, Good(o, n + 1),
           NEW e \in Entry, e.delta = n, e.mode = "stNext", InStep(o, s, <<e>>),
           NEW r \in Record, r.op # "P" => r.delta < n
    PROVE  InStep(Read(o, r, d), Read(s, r, d), <<e>>)
<1>1. s \in ReaderState /\ o \in ReaderState /\ s.dstate \in DeltaState
  BY DEF Good, ReaderState
<1>2. Keeps(o.dstate) <=> Keeps(s.dstate)
  BY <1>1, KeepsUnderHead DEF InStep
<1>3. o.keeping <=> s.keeping
  BY <1>2 DEF Good
<1>4. CASE r.op = "P"
  <2>1. /\ Read(o, r, d) = [o EXCEPT !.got = IF o.keeping THEN Append(o.got, r.line)
                                                          ELSE o.got]
        /\ Read(s, r, d) = [s EXCEPT !.got = IF s.keeping THEN Append(s.got, r.line)
                                                          ELSE s.got]
    BY <1>4 DEF Read
  <2> QED
    BY <1>1, <1>3, <2>1 DEF InStep, ReaderState
<1>5. CASE r.op # "P"
  <2>1. /\ Control(o.dstate, r, d) = <<e>> \o Control(s.dstate, r, d)
        /\ Bad(o.dstate, r) <=> Bad(s.dstate, r)
    <3> DEFINE ds == s.dstate
    <3>1. o.dstate = Headed(e, ds)
      BY DEF InStep, Headed
    <3>2. r.delta < e.delta /\ ds \in DeltaState
      BY <1>1, <1>5
    <3> HIDE DEF ds
    <3>3. /\ Control(Headed(e, ds), r, d) = Headed(e, Control(ds, r, d))
          /\ Bad(Headed(e, ds), r) <=> Bad(ds, r)
      BY <1>5, <3>2, ControlUnderHead
    <3> QED
      BY <3>1, <3>3 DEF ds, Headed
  <2>2. /\ Read(o, r, d).dstate = Control(o.dstate, r, d)
        /\ Read(o, r, d).got = o.got
        /\ Read(o, r, d).ok = (o.ok /\ ~ Bad(o.dstate, r))
        /\ Read(s, r, d).dstate = Control(s.dstate, r, d)
        /\ Read(s, r, d).got = s.got
        /\ Read(s, r, d).ok = (s.ok /\ ~ Bad(s.dstate, r))
    BY <1>5 DEF Read
  <2> QED
    BY <2>1, <2>2 DEF InStep
<1> QED
  BY <1>4, <1>5

\* Readers in the same state stay in the same state.
LEMMA InStepSame ==
    ASSUME NEW n \in Nat, NEW d \in Nat, NEW s, Good(s, n), NEW o, Good(o, n + 1),
           InStep(o, s, << >>),
           NEW r \in Record, r.op # "P" => r.delta < n
    PROVE  InStep(Read(o, r, d), Read(s, r, d), << >>)
<1>1. /\ s \in ReaderState /\ o \in ReaderState
      /\ s.dstate \in Seq(Entry) /\ DeltaState = Seq(Entry)
  BY DEF Good, ReaderState, DeltaState, Entry
<1>2. o.dstate = s.dstate
  BY <1>1, ConcatEmptySeq DEF InStep
<1>3. o.keeping <=> s.keeping
  BY <1>2 DEF Good
<1>4. o.keeping = s.keeping
  BY <1>1, <1>3 DEF ReaderState
<1>5. o = s
  BY <1>1, <1>2, <1>4 DEF InStep, ReaderState
<1>6. Good(Read(s, r, d), n)
  BY ReadGood
<1>7. Read(s, r, d).dstate \in Seq(Entry)
  BY <1>1, <1>6 DEF Good, ReaderState
<1> QED
  BY <1>5, <1>7, ConcatEmptySeq DEF InStep

\* An Insert or Delete mark of delta n is put into the body that o reads.
LEMMA InStepOpen ==
    ASSUME NEW n \in Nat, NEW d \in Nat, NEW s, Good(s, n), NEW o,
           InStep(o, s, << >>)
    PROVE  /\ InStep(Read(o, Insert(n), d), s,
                     <<[delta |-> n, mode |-> InsertMode(n, d)]>>)
           /\ InStep(Read(o, Delete(n), d), s,
                     <<[delta |-> n, mode |-> DeleteMode(n, d)]>>)
<1>1. /\ s.dstate \in DeltaState /\ s.dstate \in Seq(Entry)
      /\ \A i \in 1..Len(s.dstate) : s.dstate[i].delta < n
  BY DEF Good, ReaderState, DeltaState, Entry, Below
<1>2. o.dstate = s.dstate
  BY <1>1, ConcatEmptySeq DEF InStep
<1>3. InsertMode(n, d) \in Mode /\ DeleteMode(n, d) \in Mode
  BY Modes
<1>4. /\ Push(s.dstate, n, InsertMode(n, d))
            = <<[delta |-> n, mode |-> InsertMode(n, d)]>> \o s.dstate
      /\ Push(s.dstate, n, DeleteMode(n, d))
            = <<[delta |-> n, mode |-> DeleteMode(n, d)]>> \o s.dstate
  BY <1>1, <1>3, PushAtHead
<1>5. /\ Insert(n).op = "I" /\ Insert(n).delta = n
      /\ Delete(n).op = "D" /\ Delete(n).delta = n
  BY DEF Insert, Delete
<1>6. /\ Control(s.dstate, Insert(n), d) = Push(s.dstate, n, InsertMode(n, d))
      /\ Control(s.dstate, Delete(n), d) = Push(s.dstate, n, DeleteMode(n, d))
  BY <1>5, ControlCases
<1>7. ~ Bad(s.dstate, Insert(n)) /\ ~ Bad(s.dstate, Delete(n))
  BY <1>5 DEF Bad
<1>8. ASSUME NEW r \in {Insert(n), Delete(n)}
      PROVE  /\ Read(o, r, d).dstate = Control(s.dstate, r, d)
             /\ Read(o, r, d).got = o.got
             /\ Read(o, r, d).ok = (o.ok /\ ~ Bad(s.dstate, r))
  <2>1. r.op # "P"
    BY <1>5
  <2> QED
    BY <1>2, <2>1 DEF Read
<1>9. s.ok \in BOOLEAN /\ o.ok = s.ok /\ o.got = s.got
  BY DEF InStep, Good, ReaderState
<1> QED
  BY <1>4, <1>6, <1>7, <1>8, <1>9 DEF InStep

\* The mark is closed again.
LEMMA InStepClose ==
    ASSUME NEW n \in Nat, NEW d \in Nat, NEW s, Good(s, n), NEW o,
           NEW e \in Entry, e.delta = n, InStep(o, s, <<e>>)
    PROVE  InStep(Read(o, End(n), d), s, << >>)
<1>1. s.dstate \in DeltaState /\ s.dstate \in Seq(Entry)
  BY DEF Good, ReaderState, DeltaState, Entry
<1>2. o.dstate = <<e>> \o s.dstate
  BY DEF InStep
<1>3. Pop(o.dstate, n) = s.dstate
  BY <1>1, <1>2, PopAtHead
<1>4. IsOpen(o.dstate, n)
  BY <1>1, <1>2, OpenUnderHead
<1>5. End(n).op = "E" /\ End(n).delta = n
  BY DEF End
<1>6. Control(o.dstate, End(n), d) = s.dstate
  BY <1>3, <1>5, ControlCases
<1>7. ~ Bad(o.dstate, End(n))
  BY <1>4, <1>5 DEF Bad
<1>8. /\ Read(o, End(n), d).dstate = s.dstate
      /\ Read(o, End(n), d).got = o.got
      /\ Read(o, End(n), d).ok = (o.ok /\ ~ Bad(o.dstate, End(n)))
  BY <1>5, <1>6 DEF Read
<1>9. s.ok \in BOOLEAN /\ o.ok = s.ok /\ o.got = s.got
  BY DEF InStep, Good, ReaderState
<1>10. << >> \o s.dstate = s.dstate
  BY <1>1, ConcatEmptySeq
<1> QED
  BY <1>7, <1>8, <1>9, <1>10 DEF InStep

\* Lines under a mark that skips are not read.
LEMMA InStepSkip ==
    ASSUME NEW n \in Nat, NEW d \in Nat, NEW s, Good(s, n), NEW o, Good(o, n + 1),
           NEW e \in Entry, e.mode = "stSkip", InStep(o, s, <<e>>), NEW x \in Lines
    PROVE  InStep(Read(o, Plain(x), d), s, <<e>>)
<1>1. s.dstate \in DeltaState /\ o \in ReaderState
  BY DEF Good, ReaderState
<1>2. ~ Keeps(o.dstate)
  BY <1>1, KeepsUnderHead DEF InStep
<1>3. ~ o.keeping
  BY <1>2 DEF Good
<1>4. Read(o, Plain(x), d) = [o EXCEPT !.got = o.got]
  BY <1>3 DEF Read, Plain
<1> QED
  BY <1>1, <1>4 DEF InStep, ReaderState

-----------------------------------------------------------------------------
(***************************************************************************)
(* Open marks that are sorted, and bodies that keep them so.               *)
(***************************************************************************)

\* Newest first, and no delta twice.
Strict(ds) ==
    \A i, j \in 1..Len(ds) : i < j => ds[i].delta > ds[j].delta

\* The record opens a mark of a delta that has none, or closes one.
Fits(ds, r) == /\ r.op \in {"I", "D"} => ~ IsOpen(ds, r.delta)
               /\ r.op = "E" => IsOpen(ds, r.delta)

\* push keeps the order if the delta has no open mark.
LEMMA PushStrict ==
    ASSUME NEW ds \in DeltaState, Strict(ds), NEW k \in Nat, ~ IsOpen(ds, k),
           NEW m \in Mode
    PROVE  Strict(Push(ds, k, m))
<1> DEFINE s == Push(ds, k, m)
           p == Place(ds, k)
           x == [delta |-> k, mode |-> m]
<1>1. /\ p \in 1..Len(ds) + 1
      /\ Len(s) = Len(ds) + 1
      /\ \A i \in 1..Len(ds) + 1 : s[i] = IF i < p THEN ds[i]
                                          ELSE IF i = p THEN x ELSE ds[i - 1]
  BY PushElements
<1>2. Len(ds) \in Nat /\ \A i \in 1..Len(ds) : ds[i].delta \in Nat /\ ds[i].delta # k
  BY Entries DEF IsOpen
\* What is before the new entry is newer, what is after it older.
<1>3. ASSUME NEW i \in 1..Len(ds), i < p PROVE ds[i].delta > k
  <2>1. IsPlace(ds, k, p)
    BY PlaceIsPlace
  <2>2. p - 1 \in 1..Len(ds) /\ ds[p - 1].delta >= k
    BY <1>1, <1>2, <1>3, <2>1 DEF IsPlace
  <2>3. i = p - 1 \/ i < p - 1
    BY <1>1, <1>2, <1>3
  <2>4. ds[i].delta >= ds[p - 1].delta
    BY <1>2, <2>2, <2>3 DEF Strict
  <2> HIDE DEF p
  <2> QED
    BY <1>2, <2>2, <2>4
<1>4. ASSUME NEW i \in 1..Len(ds), i >= p PROVE ds[i].delta < k
  <2>1. IsPlace(ds, k, p)
    BY PlaceIsPlace
  <2>2. i \in p..Len(ds)
    BY <1>1, <1>2, <1>4
  <2> HIDE DEF p
  <2> QED
    BY <2>1, <2>2 DEF IsPlace
<1> HIDE DEF s, p
<1>5. ASSUME NEW i \in 1..Len(s), NEW j \in 1..Len(s), i < j
      PROVE  s[i].delta > s[j].delta
  <2>1. CASE i < p /\ j < p
    <3>1. i \in 1..Len(ds) /\ j \in 1..Len(ds) /\ s[i] = ds[i] /\ s[j] = ds[j]
      BY <1>1, <1>2, <2>1
    <3> QED
      BY <1>5, <3>1 DEF Strict
  <2>2. CASE i < p /\ j = p
    <3>1. i \in 1..Len(ds) /\ s[i] = ds[i] /\ s[j] = x
      BY <1>1, <1>2, <2>2
    <3> QED
      BY <1>3, <2>2, <3>1
  <2>3. CASE i < p /\ j > p
    <3>1. i \in 1..Len(ds) /\ j - 1 \in 1..Len(ds) /\ j - 1 >= p
          /\ s[i] = ds[i] /\ s[j] = ds[j - 1]
      BY <1>1, <1>2, <2>3
    <3>2. ds[i].delta > k /\ ds[j - 1].delta < k
      BY <1>3, <1>4, <2>3, <3>1
    <3> QED
      BY <1>2, <3>1, <3>2
  <2>4. CASE i = p
    <3>1. j - 1 \in 1..Len(ds) /\ j - 1 >= p /\ s[i] = x /\ s[j] = ds[j - 1]
      BY <1>1, <1>2, <1>5, <2>4
    <3> QED
      BY <1>4, <3>1
  <2>5. CASE i > p
    <3>1. /\ i - 1 \in 1..Len(ds) /\ j - 1 \in 1..Len(ds) /\ i - 1 < j - 1
          /\ s[i] = ds[i - 1] /\ s[j] = ds[j - 1]
      BY <1>1, <1>2, <1>5, <2>5
    <3> QED
      BY <3>1 DEF Strict
  <2> QED
    BY <1>1, <1>2, <1>5, <2>1, <2>2, <2>3, <2>4, <2>5
<1> QED
  BY <1>5 DEF Strict, s

\* pop keeps the order.
LEMMA PopStrict ==
    ASSUME NEW ds \in DeltaState, Strict(ds), NEW k \in Nat, IsOpen(ds, k)
    PROVE  Strict(Pop(ds, k))
<1> DEFINE s == Pop(ds, k)
           p == FirstOf(ds, k)
<1>1. /\ p \in 1..Len(ds)
      /\ Len(s) = Len(ds) - 1
      /\ \A i \in 1..Len(ds) - 1 : s[i] = IF i < p THEN ds[i] ELSE ds[i + 1]
  BY PopElements
<1>2. Len(ds) \in Nat
  BY Entries
<1> HIDE DEF s, p
<1>3. ASSUME NEW i \in 1..Len(s), NEW j \in 1..Len(s), i < j
      PROVE  s[i].delta > s[j].delta
  <2> DEFINE u == IF i < p THEN i ELSE i + 1
             v == IF j < p THEN j ELSE j + 1
  <2>1. u \in 1..Len(ds) /\ v \in 1..Len(ds) /\ u < v
    BY <1>1, <1>2, <1>3
  <2>2. s[i] = ds[u] /\ s[j] = ds[v]
    BY <1>1, <1>2
  <2> HIDE DEF u, v
  <2> QED
    BY <2>1, <2>2 DEF Strict
<1> QED
  BY <1>3 DEF Strict, s

LEMMA ControlStrict ==
    ASSUME NEW ds \in DeltaState, Strict(ds), NEW r \in Record, r.op # "P",
           Fits(ds, r), NEW d \in Nat
    PROVE  Strict(Control(ds, r, d)) /\ ~ Bad(ds, r)
<1>1. r.op \in {"I", "D", "E"} /\ r.delta \in Nat
  BY MarkRecord
<1>2. InsertMode(r.delta, d) \in Mode /\ DeleteMode(r.delta, d) \in Mode
  BY <1>1, Modes
<1>3. CASE r.op \in {"I", "D"}
  BY <1>1, <1>2, <1>3, PushStrict, ControlCases DEF Fits, Bad
<1>4. CASE r.op = "E"
  BY <1>1, <1>4, PopStrict, ControlCases DEF Fits, Bad
<1> QED
  BY <1>1, <1>3, <1>4

\* A line of text only changes what was read.
LEMMA ReadLine ==
    ASSUME NEW s \in ReaderState, NEW r \in Record, r.op = "P", NEW d
    PROVE  /\ Read(s, r, d) \in ReaderState
           /\ Read(s, r, d).dstate = s.dstate
           /\ Read(s, r, d).keeping = s.keeping
           /\ Read(s, r, d).ok = s.ok
           /\ Read(s, r, d).got = IF s.keeping THEN Append(s.got, r.line) ELSE s.got
<1> DEFINE g == IF s.keeping THEN Append(s.got, r.line) ELSE s.got
<1>1. r.line \in Lines /\ s.got \in Seq(Lines)
  BY TextRecord DEF ReaderState
<1>2. g \in Seq(Lines)
  BY <1>1
<1>3. Read(s, r, d) = [s EXCEPT !.got = g]
  BY DEF Read
<1> HIDE DEF g
<1>4. /\ [s EXCEPT !.got = g] \in ReaderState
      /\ [s EXCEPT !.got = g].dstate = s.dstate
      /\ [s EXCEPT !.got = g].keeping = s.keeping
      /\ [s EXCEPT !.got = g].ok = s.ok
      /\ [s EXCEPT !.got = g].got = g
  BY <1>2 DEF ReaderState
<1> QED
  BY <1>3, <1>4 DEF g

\* A mark changes everything else.
LEMMA ReadMark ==
    ASSUME NEW s \in ReaderState, NEW r \in Record, r.op # "P", NEW d \in Nat
    PROVE  /\ Read(s, r, d) \in ReaderState
           /\ Read(s, r, d).dstate = Control(s.dstate, r, d)
           /\ Read(s, r, d).keeping = Keeps(Control(s.dstate, r, d))
           /\ Read(s, r, d).ok = (s.ok /\ ~ Bad(s.dstate, r))
           /\ Read(s, r, d).got = s.got
<1> DEFINE ds == Control(s.dstate, r, d)
<1>1. s.dstate \in DeltaState /\ s.got \in Seq(Lines) /\ s.ok \in BOOLEAN
  BY DEF ReaderState
<1>2. ds \in DeltaState
  BY <1>1, ControlTyped
<1>3. Read(s, r, d) = [dstate |-> ds, keeping |-> Keeps(ds),
                       ok |-> s.ok /\ ~ Bad(s.dstate, r), got |-> s.got]
  BY DEF Read
<1> HIDE DEF ds
<1>4. Keeps(ds) \in BOOLEAN /\ (s.ok /\ ~ Bad(s.dstate, r)) \in BOOLEAN
  BY DEF Keeps
<1>5. Read(s, r, d) \in ReaderState
  BY <1>1, <1>2, <1>3, <1>4 DEF ReaderState
<1> QED
  BY <1>3, <1>5 DEF ds

\* The states of a reader have their type, and keep what the marks say.
LEMMA ReaderTyped ==
    ASSUME NEW b \in Seq(Record), NEW d \in Nat
    PROVE  \A i \in 0..Len(b) : /\ Reading(b, d)[i] \in ReaderState
                                /\ Reading(b, d)[i].dstate \in DeltaState
                                /\ Reading(b, d)[i].got \in Seq(Lines)
                                /\ Reading(b, d)[i].keeping
                                        = Keeps(Reading(b, d)[i].dstate)
<1> DEFINE Fine(s) == s \in ReaderState /\ s.keeping = Keeps(s.dstate)
           S == {i \in Nat : i <= Len(b) => Fine(Reading(b, d)[i])}
<1>1. Len(b) \in Nat
  OBVIOUS
<1>2. 0 \in S
  <2>1. << >> \in DeltaState /\ << >> \in Seq(Lines) /\ Keeps(<< >>) = FALSE
    BY DEF DeltaState, Keeps
  <2>2. Fine(NewReader)
    BY <2>1 DEF NewReader, ReaderState
  <2> QED
    BY <1>1, <2>2, ReadingStart
<1>3. ASSUME NEW i \in Nat, i \in S PROVE i + 1 \in S
  <2>1. SUFFICES ASSUME i + 1 <= Len(b) PROVE Fine(Reading(b, d)[i + 1])
    OBVIOUS
  <2> DEFINE s == Reading(b, d)[i]
             r == b[i + 1]
  <2>2. i + 1 \in 1..Len(b) /\ Fine(s)
    BY <1>1, <1>3, <2>1
  <2>3. r \in Record
    BY <2>2
  <2>4. Reading(b, d)[i + 1] = Read(s, r, d)
    BY <1>1, <2>2, ReadingNext
  <2> HIDE DEF s, r
  <2>5. CASE r.op = "P"
    BY <2>2, <2>3, <2>4, <2>5, ReadLine
  <2>6. CASE r.op # "P"
    BY <2>2, <2>3, <2>4, <2>6, ReadMark
  <2> QED
    BY <2>5, <2>6
<1> HIDE DEF S
<1>4. Nat \subseteq S
  BY <1>2, <1>3, SetInduction
<1>5. ASSUME NEW i \in 0..Len(b) PROVE Fine(Reading(b, d)[i])
  BY <1>1, <1>4 DEF S
<1> QED
  BY <1>5 DEF ReaderState

\* A body that no reader, for whatever delta, has trouble with.
Tidy(b) == \A d \in Nat : \A i \in 1..Len(b) : Fits(Reading(b, d)[i - 1].dstate, b[i])

\* Every reader of a tidy body has its marks in order, and does not panic.
LEMMA TidyReader ==
    ASSUME NEW b \in Seq(Record), Tidy(b), NEW d \in Nat
    PROVE  \A i \in 0..Len(b) : Strict(Reading(b, d)[i].dstate) /\ Reading(b, d)[i].ok
<1> DEFINE Fine(s) == Strict(s.dstate) /\ s.ok
           S == {i \in Nat : i <= Len(b) => Fine(Reading(b, d)[i])}
<1>1. Len(b) \in Nat
  OBVIOUS
<1>2. 0 \in S
  <2>1. Fine(NewReader)
    BY DEF NewReader, Strict
  <2> QED
    BY <1>1, <2>1, ReadingStart
<1>3. ASSUME NEW i \in Nat, i \in S PROVE i + 1 \in S
  <2>1. SUFFICES ASSUME i + 1 <= Len(b) PROVE Fine(Reading(b, d)[i + 1])
    OBVIOUS
  <2> DEFINE s == Reading(b, d)[i]
             r == b[i + 1]
  <2>2. i + 1 \in 1..Len(b) /\ i \in 0..Len(b) /\ Fine(s)
    BY <1>1, <1>3, <2>1
  <2>3. r \in Record
    BY <2>2
  <2>4. Reading(b, d)[i + 1] = Read(s, r, d)
    BY <1>1, <2>2, ReadingNext
  <2>5. Fits(s.dstate, r)
    <3>1. Fits(Reading(b, d)[(i + 1) - 1].dstate, b[i + 1])
      BY <2>2 DEF Tidy
    <3>2. (i + 1) - 1 = i
      BY <1>3
    <3> QED
      BY <3>1, <3>2
  <2>6. s \in ReaderState /\ s.dstate \in DeltaState
    BY <2>2, ReaderTyped
  <2> HIDE DEF s, r
  <2>7. CASE r.op = "P"
    BY <2>2, <2>3, <2>4, <2>6, <2>7, ReadLine
  <2>8. CASE r.op # "P"
    <3>1. Strict(Control(s.dstate, r, d)) /\ ~ Bad(s.dstate, r)
      BY <2>2, <2>3, <2>5, <2>6, <2>8, ControlStrict
    <3>2. /\ Read(s, r, d).dstate = Control(s.dstate, r, d)
          /\ Read(s, r, d).ok = (s.ok /\ ~ Bad(s.dstate, r))
      BY <2>3, <2>6, <2>8, ReadMark
    <3> QED
      BY Zenon, <2>2, <2>4, <3>1, <3>2
  <2> QED
    BY <2>7, <2>8
<1> HIDE DEF S
<1>4. Nat \subseteq S
  BY <1>2, <1>3, SetInduction
<1> QED
  BY <1>1, <1>4 DEF S

LEMMA TidyEmpty == Tidy(<< >>)
  BY DEF Tidy

\* A record that fits every reader keeps the body tidy.
LEMMA TidyAppend ==
    ASSUME NEW b \in Seq(Record), Tidy(b), NEW r \in Record,
           \A d \in Nat : Fits(Final(b, d).dstate, r)
    PROVE  Tidy(Append(b, r))
<1> DEFINE c == Append(b, r)
<1>1. /\ Len(b) \in Nat /\ Len(c) = Len(b) + 1 /\ c[Len(b) + 1] = r
      /\ \A i \in 1..Len(b) : c[i] = b[i]
  OBVIOUS
<1> HIDE DEF c
<1>2. ASSUME NEW d \in Nat, NEW i \in 1..Len(c)
      PROVE  Fits(Reading(c, d)[i - 1].dstate, c[i])
  <2>1. Reading(c, d)[i - 1] = Reading(b, d)[i - 1]
    <3> DEFINE n == i - 1
    <3>1. n \in Nat /\ n <= Len(b) /\ n <= Len(c) /\ \A j \in 1..n : b[j] = c[j]
      BY <1>1
    <3> HIDE DEF n
    <3>2. Reading(b, d)[n] = Reading(c, d)[n]
      BY <1>1, <3>1, ReadingPrefix
    <3> QED
      BY <3>2 DEF n
  <2>2. CASE i = Len(b) + 1
    <3>1. i - 1 = Len(b) /\ c[i] = r
      BY <1>1, <2>2
    <3> QED
      BY <2>1, <3>1 DEF Final
  <2>3. CASE i \in 1..Len(b)
    BY <1>1, <2>1, <2>3 DEF Tidy
  <2> QED
    BY <1>1, <2>2, <2>3
<1> QED
  BY <1>2 DEF Tidy, c

\* What has been read so far is the beginning of what will have been read.
LEMMA GotGrows ==
    ASSUME NEW b \in Seq(Record), NEW d \in Nat, NEW n \in 0..Len(b)
    PROVE  LET g == Reading(b, d)[n].got
           IN  /\ Len(g) <= Len(Extract(b, d))
               /\ \A i \in 1..Len(g) : Extract(b, d)[i] = g[i]
<1> DEFINE g(m) == Reading(b, d)[m].got
           Begins(m) == Len(g(n)) <= Len(g(m)) /\ \A i \in 1..Len(g(n)) : g(m)[i] = g(n)[i]
           S == {k \in Nat : n + k <= Len(b) => Begins(n + k)}
<1>1. Len(b) \in Nat /\ n \in Nat /\ \A m \in 0..Len(b) : g(m) \in Seq(Lines)
  BY ReaderTyped
<1>2. 0 \in S
  BY <1>1
<1>3. ASSUME NEW k \in Nat, k \in S PROVE k + 1 \in S
  <2> DEFINE m == n + k
             s == Reading(b, d)[m]
             r == b[m + 1]
  <2>1. SUFFICES ASSUME n + (k + 1) <= Len(b) PROVE Begins(n + (k + 1))
    OBVIOUS
  <2>2. /\ m + 1 \in 1..Len(b) /\ m \in 0..Len(b) /\ n + (k + 1) = m + 1
        /\ (m + 1) - 1 = m /\ r \in Record /\ Begins(m)
    BY <1>1, <1>3, <2>1
  <2>3. Reading(b, d)[m + 1] = Read(s, r, d)
    BY <1>1, <2>2, ReadingNext
  <2>4. s \in ReaderState /\ s.got = g(m)
    BY <2>2, ReaderTyped
  <2>5. \/ g(m + 1) = g(m)
        \/ \E x \in Lines : g(m + 1) = Append(g(m), x)
    <3> HIDE DEF m, r, s
    <3>1. CASE r.op = "P"
      <4>1. Read(s, r, d).got = IF s.keeping THEN Append(s.got, r.line) ELSE s.got
        BY <2>2, <2>4, <3>1, ReadLine
      <4>2. r.line \in Lines
        BY <2>2, <3>1, TextRecord
      <4> QED
        BY <2>3, <2>4, <4>1, <4>2
    <3>2. CASE r.op # "P"
      BY <2>2, <2>3, <2>4, <3>2, ReadMark
    <3> QED
      BY <3>1, <3>2
  <2>6. g(m) \in Seq(Lines) /\ g(n) \in Seq(Lines)
    BY <1>1, <2>2
  <2> HIDE DEF g, m
  <2>7. Begins(m + 1)
    BY <2>2, <2>5, <2>6
  <2> QED
    BY <2>2, <2>7
<1> HIDE DEF S, Begins, g
<1>4. Nat \subseteq S
  BY <1>2, <1>3, SetInduction
<1>5. Len(b) - n \in Nat /\ n + (Len(b) - n) = Len(b)
  BY <1>1
<1>6. Begins(Len(b))
  <2> DEFINE k == Len(b) - n
  <2>1. k \in S /\ n + k <= Len(b) /\ n + k = Len(b)
    BY <1>1, <1>4, <1>5
  <2> HIDE DEF k
  <2>2. Begins(n + k)
    BY <2>1 DEF S
  <2> QED
    BY <2>1, <2>2
<1> QED
  BY <1>6 DEF Begins, g, Extract, Final

-----------------------------------------------------------------------------
(***************************************************************************)
(* Two readers, one with one mark more, that the other has not seen.       *)
(***************************************************************************)

\* No mark, or one of delta n.
IsMark(m, n) == m = << >> \/ \E e \in Entry : e.delta = n /\ m = <<e>>

\* A record that may be in the body of deltas older than n.
Older(r, n) == r \in Record /\ (r.op # "P" => r.delta < n)

\* The marks that o has open are those of s, under the marks in m.
Over(o, s, m) == o.dstate = m \o s.dstate

\* A record of an older delta does the same under the mark as without it.
LEMMA ReadUnder ==
    ASSUME NEW n \in Nat, NEW d \in Nat, NEW s \in ReaderState, NEW o \in ReaderState,
           NEW m, IsMark(m, n), Over(o, s, m),
           NEW r, Older(r, n), Fits(s.dstate, r)
    PROVE  Fits(o.dstate, r) /\ Over(Read(o, r, d), Read(s, r, d), m)
<1> r \in Record /\ (r.op # "P" => r.delta < n)
  BY DEF Older
<1> USE DEF Over
<1>1. s.dstate \in DeltaState /\ s.dstate \in Seq(Entry)
  BY DEF ReaderState, DeltaState, Entry
<1>2. CASE m = << >>
  <2>1. o.dstate = s.dstate
    BY <1>1, <1>2, ConcatEmptySeq
  <2>2. Read(o, r, d).dstate = Read(s, r, d).dstate
    BY <2>1, ReadLine, ReadMark
  <2>3. Read(s, r, d).dstate \in Seq(Entry)
    <3>1. Read(s, r, d) \in ReaderState
      BY ReadLine, ReadMark
    <3> QED
      BY <3>1 DEF ReaderState, DeltaState, Entry
  <2> QED
    BY <1>2, <2>1, <2>2, <2>3, ConcatEmptySeq
<1>3. CASE \E e \in Entry : e.delta = n /\ m = <<e>>
  <2>1. PICK e \in Entry : e.delta = n /\ m = <<e>>
    BY <1>3
  <2>2. CASE r.op = "P"
    BY <2>2, ReadLine DEF Fits
  <2>3. CASE r.op # "P"
    <3> DEFINE ds == s.dstate
    <3>1. /\ o.dstate = Headed(e, ds) /\ ds \in DeltaState
          /\ r.delta < e.delta /\ r.delta \in Nat /\ e.delta # r.delta
      BY <1>1, <2>1, <2>3, MarkRecord DEF Headed
    <3> HIDE DEF ds
    <3>2. Control(Headed(e, ds), r, d) = Headed(e, Control(ds, r, d))
      BY <2>3, <3>1, ControlUnderHead
    <3>3. IsOpen(<<e>> \o ds, r.delta) <=> IsOpen(ds, r.delta)
      BY <3>1, OpenUnderHead
    <3>4. Fits(o.dstate, r)
      BY <3>1, <3>3 DEF Fits, Headed, ds
    <3>5. /\ Read(o, r, d).dstate = Control(o.dstate, r, d)
          /\ Read(s, r, d).dstate = Control(ds, r, d)
      BY <2>3, ReadMark DEF ds
    <3> QED
      BY <2>1, <3>1, <3>2, <3>4, <3>5 DEF Headed
  <2> QED
    BY <2>2, <2>3
<1> QED
  BY <1>2, <1>3 DEF IsMark

\* A mark of the new delta is opened over older ones.
LEMMA ReadOpen ==
    ASSUME NEW n \in Nat, NEW d \in Nat, NEW o \in ReaderState, Below(o.dstate, n)
    PROVE  /\ Fits(o.dstate, Insert(n)) /\ Fits(o.dstate, Delete(n))
           /\ Read(o, Insert(n), d).dstate
                 = <<[delta |-> n, mode |-> InsertMode(n, d)]>> \o o.dstate
           /\ Read(o, Delete(n), d).dstate
                 = <<[delta |-> n, mode |-> DeleteMode(n, d)]>> \o o.dstate
<1>1. /\ o.dstate \in DeltaState
      /\ \A i \in 1..Len(o.dstate) : /\ o.dstate[i].delta < n
                                      /\ o.dstate[i].delta \in Nat
  BY Entries DEF ReaderState, Below
<1>2. InsertMode(n, d) \in Mode /\ DeleteMode(n, d) \in Mode
  BY Modes
<1>3. /\ Push(o.dstate, n, InsertMode(n, d))
            = <<[delta |-> n, mode |-> InsertMode(n, d)]>> \o o.dstate
      /\ Push(o.dstate, n, DeleteMode(n, d))
            = <<[delta |-> n, mode |-> DeleteMode(n, d)]>> \o o.dstate
  BY <1>1, <1>2, PushAtHead
<1>4. /\ Insert(n).op = "I" /\ Insert(n).delta = n /\ Insert(n) \in Record
      /\ Delete(n).op = "D" /\ Delete(n).delta = n /\ Delete(n) \in Record
  BY DEF Insert, Delete, Record
<1>5. ~ IsOpen(o.dstate, n)
  BY <1>1 DEF IsOpen
<1>6. Fits(o.dstate, Insert(n)) /\ Fits(o.dstate, Delete(n))
  BY <1>4, <1>5 DEF Fits
<1>7. /\ Read(o, Insert(n), d).dstate = Push(o.dstate, n, InsertMode(n, d))
      /\ Read(o, Delete(n), d).dstate = Push(o.dstate, n, DeleteMode(n, d))
  BY <1>4, ReadMark, ControlCases
<1> QED
  BY <1>3, <1>6, <1>7

\* The mark is closed again.
LEMMA ReadClose ==
    ASSUME NEW n \in Nat, NEW d \in Nat, NEW o \in ReaderState, NEW ds \in DeltaState,
           NEW e \in Entry, e.delta = n, o.dstate = Headed(e, ds)
    PROVE  Fits(o.dstate, End(n)) /\ Read(o, End(n), d).dstate = ds
<1>1. Pop(o.dstate, n) = ds
  BY PopAtHead DEF Headed
<1>2. IsOpen(o.dstate, n)
  BY OpenUnderHead DEF Headed
<1>3. End(n).op = "E" /\ End(n).delta = n /\ End(n) \in Record
  BY DEF End, Record
<1>4. Read(o, End(n), d).dstate = Pop(o.dstate, n)
  <2>1. Control(o.dstate, End(n), d) = Pop(o.dstate, n)
    BY <1>3, ControlCases
  <2>2. End(n).op # "P"
    BY <1>3
  <2> QED
    BY <1>3, <2>1, <2>2, ReadMark
<1> QED
  BY <1>1, <1>2, <1>3, <1>4 DEF Fits

\* A line of text changes no mark.
LEMMA ReadPlain ==
    ASSUME NEW d \in Nat, NEW o \in ReaderState, NEW x \in Lines
    PROVE  /\ Fits(o.dstate, Plain(x)) /\ Read(o, Plain(x), d).dstate = o.dstate
           /\ Read(o, Plain(x), d).got = IF o.keeping THEN Append(o.got, x) ELSE o.got
<1>1. Plain(x).op = "P" /\ Plain(x).line = x /\ Plain(x) \in Record
  BY DEF Plain, Record
<1> QED
  BY <1>1, ReadLine DEF Fits
=============================================================================
