-------------------------- MODULE SureCodec_proofs --------------------------
(***************************************************************************)
(* What Encode writes and PushDecoder reads, for any trees, of any depth   *)
(* and with any names, and for any lines.                                  *)
(*                                                                         *)
(*   ReadsNode        a node that was written is read as it was            *)
(*   Types            Spec => []TypeOK                                     *)
(*   NothingIsAdded   Spec => []NothingElse                                *)
(*   IsReadBack       Spec => []ReadsBack                                  *)
(*   IsOnlyWhole      Spec => []OnlyWhole                                  *)
(***************************************************************************)
EXTENDS SureCodec, TLAPS, WellFoundedInduction, SequenceTheorems

-----------------------------------------------------------------------------
(***************************************************************************)
(* Induction over the natural numbers, for sets.                           *)
(***************************************************************************)

Less == {p \in Nat \X Nat : p[1] < p[2]}

LEMMA LessWellFounded == IsWellFoundedOn(Less, Nat)
<1>1. OpToRel(<, Nat) = Less
    BY Zenon DEF OpToRel, Less
<1> QED
    BY Zenon, <1>1, NatLessThanWellFounded

\* A set that holds 0, and n + 1 whenever it holds n, holds every number.
LEMMA SetInduction ==
    ASSUME NEW S, 0 \in S, \A n \in Nat : n \in S => n + 1 \in S
    PROVE  Nat \subseteq S
<1> DEFINE T == Nat \ S
<1> SUFFICES ASSUME T # {} PROVE FALSE
    OBVIOUS
<1>1. PICK m \in T : \A k \in T : ~ (<<k, m>> \in Less)
  <2>1. T \subseteq Nat
      OBVIOUS
  <2> HIDE DEF T
  <2> QED
      BY Zenon, <2>1, WFMin, LessWellFounded
<1>2. m # 0
    OBVIOUS
<1>3. m - 1 \in Nat /\ <<m - 1, m>> \in Less
    BY <1>2 DEF Less
<1> QED
    BY <1>1, <1>3

-----------------------------------------------------------------------------
(***************************************************************************)
(* Sequences in sequences.                                                 *)
(***************************************************************************)

\* s is in line from position i on.
At(line, i, s) ==
    \A k \in 1..Len(s) : i + k - 1 \in 1..Len(line) /\ line[i + k - 1] = s[k]

LEMMA AtSelf == ASSUME NEW S, NEW s \in Seq(S) PROVE At(s, 1, s)
BY DEF At

LEMMA AtConcat ==
    ASSUME NEW S, NEW line, NEW i \in Nat,
           NEW s \in Seq(S), NEW t \in Seq(S), At(line, i, s \o t)
    PROVE  At(line, i, s) /\ At(line, i + Len(s), t)
<1>1. Len(s) \in Nat /\ Len(t) \in Nat
    OBVIOUS
<1>2. /\ Len(s \o t) = Len(s) + Len(t)
      /\ \A k \in 1..Len(s) + Len(t) : (s \o t)[k] = IF k <= Len(s) THEN s[k] ELSE t[k - Len(s)]
    BY ConcatProperties
<1>3. ASSUME NEW k \in 1..Len(s) PROVE i + k - 1 \in 1..Len(line) /\ line[i + k - 1] = s[k]
  <2>1. k \in 1..Len(s) + Len(t) /\ k <= Len(s)
      BY <1>1
  <2> QED
      BY <1>2, <2>1 DEF At
<1>4. ASSUME NEW k \in 1..Len(t)
      PROVE  /\ i + Len(s) + k - 1 \in 1..Len(line)
             /\ line[i + Len(s) + k - 1] = t[k]
  <2>1. /\ Len(s) + k \in 1..Len(s) + Len(t) /\ ~ (Len(s) + k <= Len(s))
        /\ Len(s) + k - Len(s) = k /\ i + (Len(s) + k) - 1 = i + Len(s) + k - 1
      BY <1>1
  <2> QED
      BY <1>2, <2>1 DEF At
<1> QED
    BY <1>3, <1>4 DEF At

IsFlat(f, ss, n) == f = [i \in 1..n |-> IF i = 1 THEN ss[i] ELSE f[i - 1] \o ss[i]]

LEMMA FlatExists ==
    ASSUME NEW ss
    PROVE  \A n \in Nat : \E f : IsFlat(f, ss, n)
<1> DEFINE S == {n \in Nat : \E f : IsFlat(f, ss, n)}
<1>1. 0 \in S
  <2> DEFINE f == [i \in 1..0 |-> << >>]
  <2>1. IsFlat(f, ss, 0)
      BY DEF IsFlat
  <2> QED
      BY <2>1
<1>2. ASSUME NEW n \in Nat, n \in S PROVE n + 1 \in S
  <2>1. PICK g : IsFlat(g, ss, n)
      BY <1>2
  <2> DEFINE f == [i \in 1..n + 1 |->
                      IF i <= n THEN g[i] ELSE IF i = 1 THEN ss[i] ELSE g[i - 1] \o ss[i]]
  <2>2. ASSUME NEW i \in 1..n + 1
        PROVE  f[i] = IF i = 1 THEN ss[i] ELSE f[i - 1] \o ss[i]
    <3>1. i # 1 => f[i - 1] = g[i - 1]
        OBVIOUS
    <3>2. i <= n => g[i] = IF i = 1 THEN ss[i] ELSE g[i - 1] \o ss[i]
      <4>1. i <= n => i \in 1..n
          OBVIOUS
      <4> HIDE DEF f
      <4> QED
          BY Zenon, <2>1, <4>1 DEF IsFlat
    <3>3. f[i] = IF i = 1 THEN ss[i] ELSE g[i - 1] \o ss[i]
        BY <3>2
    <3> HIDE DEF f
    <3> QED
        BY <3>1, <3>3
  <2>3. f = [i \in 1..n + 1 |-> f[i]]
      OBVIOUS
  <2> HIDE DEF f
  <2>4. IsFlat(f, ss, n + 1)
      BY <2>2, <2>3 DEF IsFlat
  <2> QED
      BY <2>4
<1> HIDE DEF S
<1>3. Nat \subseteq S
    BY <1>1, <1>2, SetInduction
<1> QED
    BY <1>3 DEF S

\* FlattenSeq up to n is the same for sequences that are the same up to n, and
\* has the elements of these.
LEMMA FlatUpTo ==
    ASSUME NEW S, NEW ss \in Seq(Seq(S)), NEW tt \in Seq(Seq(S)),
           Len(ss) <= Len(tt), \A i \in 1..Len(ss) : ss[i] = tt[i],
           NEW f, IsFlat(f, ss, Len(ss)), NEW g, IsFlat(g, tt, Len(tt))
    PROVE  \A i \in 1..Len(ss) : f[i] = g[i] /\ f[i] \in Seq(S)
<1> DEFINE T == {n \in Nat : n + 1 <= Len(ss) => f[n + 1] = g[n + 1] /\ f[n + 1] \in Seq(S)}
<1>1. Len(ss) \in Nat /\ Len(tt) \in Nat
    OBVIOUS
<1>2. \A i \in 1..Len(ss) : ss[i] \in Seq(S) /\ i \in 1..Len(tt)
    BY <1>1, ElementOfSeq
<1>3. /\ \A i \in 1..Len(ss) : f[i] = IF i = 1 THEN ss[i] ELSE f[i - 1] \o ss[i]
      /\ \A i \in 1..Len(tt) : g[i] = IF i = 1 THEN tt[i] ELSE g[i - 1] \o tt[i]
    BY Zenon DEF IsFlat
<1>4. 0 \in T
  <2> SUFFICES ASSUME 1 <= Len(ss) PROVE f[1] = g[1] /\ f[1] \in Seq(S)
      OBVIOUS
  <2>1. 1 \in 1..Len(ss) /\ 1 \in 1..Len(tt)
      BY <1>1
  <2>2. f[1] = ss[1] /\ g[1] = tt[1]
      BY Zenon, <1>3, <2>1
  <2> QED
      BY <1>2, <2>1, <2>2
<1>5. ASSUME NEW n \in Nat, n \in T PROVE n + 1 \in T
  <2> SUFFICES ASSUME n + 1 + 1 <= Len(ss)
               PROVE  f[n + 2] = g[n + 2] /\ f[n + 2] \in Seq(S)
      OBVIOUS
  <2>1. f[n + 1] = g[n + 1] /\ f[n + 1] \in Seq(S)
      BY <1>1, <1>5
  <2>2. n + 2 \in 1..Len(ss) /\ n + 2 # 1 /\ (n + 2) - 1 = n + 1
      BY <1>1
  <2>3. f[n + 2] = f[n + 1] \o ss[n + 2] /\ g[n + 2] = g[n + 1] \o tt[n + 2]
      BY Zenon, <1>2, <1>3, <2>2
  <2>4. ss[n + 2] \in Seq(S) /\ ss[n + 2] = tt[n + 2]
      BY <1>2, <2>2
  <2> QED
      BY <2>1, <2>3, <2>4
<1> HIDE DEF T
<1>6. Nat \subseteq T
    BY <1>4, <1>5, SetInduction
<1>7. ASSUME NEW i \in 1..Len(ss) PROVE f[i] = g[i] /\ f[i] \in Seq(S)
  <2>1. i - 1 \in T /\ i - 1 + 1 = i /\ i <= Len(ss)
      BY <1>1, <1>6
  <2> QED
      BY <2>1 DEF T
<1> QED
    BY <1>7

LEMMA FlatIs ==
    ASSUME NEW ss, Len(ss) \in Nat \ {0}
    PROVE  \E f : IsFlat(f, ss, Len(ss)) /\ FlattenSeq(ss) = f[Len(ss)]
<1>1. FlattenSeq(ss) = (CHOOSE f : IsFlat(f, ss, Len(ss)))[Len(ss)]
    BY Zenon DEF FlattenSeq, IsFlat
<1> QED
    BY Zenon, <1>1, FlatExists

LEMMA FlatNone == FlattenSeq(<< >>) = << >>
BY DEF FlattenSeq

LEMMA FlatType ==
    ASSUME NEW S, NEW ss \in Seq(Seq(S))
    PROVE  FlattenSeq(ss) \in Seq(S)
<1>1. CASE Len(ss) = 0
  <2>1. ss = << >> /\ << >> \in Seq(S)
      BY <1>1
  <2> QED
      BY Zenon, <2>1, FlatNone
<1>2. CASE Len(ss) # 0
  <2>1. PICK f : IsFlat(f, ss, Len(ss)) /\ FlattenSeq(ss) = f[Len(ss)]
      BY <1>2, FlatIs
  <2> QED
      BY <1>2, <2>1, FlatUpTo
<1> QED
    BY <1>1, <1>2

LEMMA FlatAppend ==
    ASSUME NEW S, NEW ss \in Seq(Seq(S)), NEW s \in Seq(S)
    PROVE  FlattenSeq(Append(ss, s)) = FlattenSeq(ss) \o s
<1> DEFINE tt == Append(ss, s)
<1>1. /\ tt \in Seq(Seq(S)) /\ Len(tt) = Len(ss) + 1 /\ tt[Len(ss) + 1] = s
      /\ \A i \in 1..Len(ss) : ss[i] = tt[i]
      /\ Len(ss) \in Nat
    OBVIOUS
<1> HIDE DEF tt
<1>2. PICK g : IsFlat(g, tt, Len(tt)) /\ FlattenSeq(tt) = g[Len(tt)]
    BY <1>1, FlatIs
<1>3. \A i \in 1..Len(tt) : g[i] = IF i = 1 THEN tt[i] ELSE g[i - 1] \o tt[i]
    BY Zenon, <1>2 DEF IsFlat
<1>4. CASE Len(ss) = 0
  <2>1. ss = << >> /\ Len(tt) = 1
      BY <1>1, <1>4
  <2>2. FlattenSeq(tt) = s
      BY <1>1, <1>2, <1>3, <2>1
  <2>3. << >> \o s = s
      BY ConcatEmptySeq
  <2> QED
      BY <2>1, <2>2, <2>3, FlatNone DEF tt
<1>5. CASE Len(ss) # 0
  <2>1. PICK f : IsFlat(f, ss, Len(ss)) /\ FlattenSeq(ss) = f[Len(ss)]
      BY <1>1, <1>5, FlatIs
  <2>2. f[Len(ss)] = g[Len(ss)]
    <3>1. Len(ss) <= Len(tt) /\ Len(ss) \in 1..Len(ss)
        BY <1>1, <1>5
    <3>2. \A i \in 1..Len(ss) : f[i] = g[i]
      <4>1. ss \in Seq(Seq(S)) /\ tt \in Seq(Seq(S)) /\ Len(ss) <= Len(tt)
          BY <1>1, <3>1
      <4>2. \A i \in 1..Len(ss) : ss[i] = tt[i]
          BY <1>1
      <4>3. IsFlat(f, ss, Len(ss)) /\ IsFlat(g, tt, Len(tt))
          BY <1>2, <2>1
      <4> QED
          BY SMTT(20), <4>1, <4>2, <4>3, FlatUpTo
    <3> QED
        BY Zenon, <3>1, <3>2
  <2>3. Len(ss) + 1 \in 1..Len(tt) /\ Len(ss) + 1 # 1 /\ (Len(ss) + 1) - 1 = Len(ss)
      BY <1>1, <1>5
  <2>4. g[Len(ss) + 1] = g[Len(ss)] \o tt[Len(ss) + 1]
      BY Zenon, <1>3, <2>3
  <2> QED
      BY <1>1, <1>2, <2>1, <2>2, <2>4 DEF tt
<1> QED
    BY <1>1, <1>4, <1>5

LEMMA FlatCons ==
    ASSUME NEW S, NEW ss \in Seq(Seq(S)), NEW s \in Seq(S)
    PROVE  FlattenSeq(<<s>> \o ss) = s \o FlattenSeq(ss)
<1> DEFINE T == {n \in Nat : \A uu \in Seq(Seq(S)) :
                     Len(uu) = n => FlattenSeq(<<s>> \o uu) = s \o FlattenSeq(uu)}
<1>1. 0 \in T
  <2> SUFFICES ASSUME NEW uu \in Seq(Seq(S)), Len(uu) = 0
               PROVE  FlattenSeq(<<s>> \o uu) = s \o FlattenSeq(uu)
      OBVIOUS
  <2>1. uu = << >> /\ <<s>> \o uu = Append(<< >>, s)
      OBVIOUS
  <2>2. FlattenSeq(Append(<< >>, s)) = FlattenSeq(<< >>) \o s
    <3>1. << >> \in Seq(Seq(S))
        OBVIOUS
    <3> QED
        BY Zenon, <3>1, FlatAppend
  <2>3. << >> \o s = s /\ s \o << >> = s
      BY ConcatEmptySeq
  <2> QED
      BY <2>1, <2>2, <2>3, FlatNone
<1>2. ASSUME NEW n \in Nat, n \in T PROVE n + 1 \in T
  <2> SUFFICES ASSUME NEW vv \in Seq(Seq(S)), Len(vv) = n + 1
               PROVE  FlattenSeq(<<s>> \o vv) = s \o FlattenSeq(vv)
    <3>1. n + 1 \in Nat
        OBVIOUS
    <3> QED
        BY Zenon, <3>1
  <2>1. PICK uu \in Seq(Seq(S)), u \in Seq(S) : vv = Append(uu, u)
    <3>1. vv # << >>
        OBVIOUS
    <3> QED
        BY <3>1, SequenceEmptyOrAppend
  <2>2. Len(uu) = n
      BY <2>1
  <2>3. FlattenSeq(<<s>> \o uu) = s \o FlattenSeq(uu)
      BY <1>2, <2>2
  <2>4. <<s>> \o uu \in Seq(Seq(S)) /\ <<s>> \o vv = Append(<<s>> \o uu, u)
      BY <2>1
  <2>5. FlattenSeq(<<s>> \o vv) = FlattenSeq(<<s>> \o uu) \o u
      BY <2>4, FlatAppend
  <2>6. FlattenSeq(vv) = FlattenSeq(uu) \o u
      BY <2>1, FlatAppend
  <2>7. FlattenSeq(uu) \in Seq(S)
      BY FlatType
  <2>8. (s \o FlattenSeq(uu)) \o u = s \o (FlattenSeq(uu) \o u)
    <3>1. s \in Seq(S) /\ FlattenSeq(uu) \in Seq(S) /\ u \in Seq(S)
        BY <2>1, <2>7
    <3> QED
        BY SMTT(20), <3>1, ConcatAssociative
  <2> QED
      BY Zenon, <2>3, <2>5, <2>6, <2>8
<1> HIDE DEF T
<1>3. Nat \subseteq T
    BY <1>1, <1>2, SetInduction
<1> QED
  <2>1. Len(ss) \in T
      BY <1>3
  <2> QED
      BY <2>1 DEF T

-----------------------------------------------------------------------------
(***************************************************************************)
(* Escapes.                                                                *)
(***************************************************************************)

LEMMA SymbolFacts ==
    /\ Special \subseteq Symbols /\ Range(Hex) \subseteq Symbols /\ Words \subseteq Symbols
    /\ Digests \subseteq Symbols
    /\ \A w \in Words \cup Digests : w \notin Special
<1>1. \A w \in Words : w \notin Special
    BY Zenon DEF Words, Special, Space
<1>2. \A w \in Digests : w \notin Special
    BY Zenon, CodecAssumption
<1> QED
    BY Zenon, <1>1, <1>2, CodecAssumption

LEMMA HexFacts ==
    /\ \A c \in Special : /\ Hex[c] \in Range(Hex) /\ Hex[c] \in Symbols
                          /\ Hex[c] # Space /\ Hex[c] # "="
                          /\ Unhex(Hex[c]) = c
    /\ \A h \in Range(Hex) : Unhex(h) \in Special /\ h # Space
    /\ Space \in Special /\ "=" \in Special /\ "[" \in Special /\ "]" \in Special
    /\ Space # "=" /\ Space # "[" /\ Space # "]"
<1>1. DOMAIN Hex = Special
    BY Zenon DEF Hex
<1>2. /\ Space # "=" /\ Space # "[" /\ Space # "]" /\ Space # "\n"
      /\ Space # "20" /\ Space # "3d" /\ Space # "5b" /\ Space # "5d" /\ Space # "0a"
    BY Zenon DEF Space
<1>3. /\ Hex[Space] = "20" /\ Hex["="] = "3d" /\ Hex["["] = "5b" /\ Hex["]"] = "5d"
      /\ Hex["\n"] = "0a"
    BY <1>2 DEF Hex, Special
<1>4. \A c \in Special : Hex[c] # Space /\ Hex[c] # "="
    BY <1>2, <1>3 DEF Special
<1>5. \A c \in Special : Hex[c] \in Range(Hex)
    BY Zenon, <1>1 DEF Range
<1>6. \A c, d \in Special : Hex[c] = Hex[d] => c = d
    BY <1>3 DEF Special
<1>7. \A h \in Range(Hex) : \E c \in Special : h = Hex[c]
    BY Zenon, <1>1 DEF Range
<1>8. ASSUME NEW c \in Special PROVE Unhex(Hex[c]) = c
  <2>1. Unhex(Hex[c]) = CHOOSE d \in Special : Hex[d] = Hex[c]
      BY Zenon DEF Unhex
  <2> QED
      BY <1>6, <2>1
<1>9. Space \in Special /\ "=" \in Special /\ "[" \in Special /\ "]" \in Special
    BY Zenon DEF Special
<1> HIDE DEF Special
<1> QED
    BY <1>2, <1>4, <1>5, <1>7, <1>8, <1>9, SymbolFacts

Esc(c) == IF c \in Special THEN <<"=", Hex[c]>> ELSE <<c>>

LEMMA EscType ==
    ASSUME NEW c \in Symbols
    PROVE  /\ Esc(c) \in Seq(Symbols)
           /\ c \in Special => Len(Esc(c)) = 2 /\ Esc(c)[1] = "=" /\ Esc(c)[2] = Hex[c]
           /\ c \notin Special => Len(Esc(c)) = 1 /\ Esc(c)[1] = c /\ c # "=" /\ c # Space
<1>1. c \in Special => Hex[c] \in Symbols
    BY HexFacts
<1>2. "=" \in Special /\ Space \in Special /\ "=" \in Symbols
    BY HexFacts, SymbolFacts
<1> QED
    BY <1>1, <1>2 DEF Esc

LEMMA EscapeCons ==
    ASSUME NEW c \in Symbols, NEW t \in Seq(Symbols)
    PROVE  /\ escapeString(t) \in Seq(Symbols)
           /\ escapeString(<<c>> \o t) = Esc(c) \o escapeString(t)
<1> DEFINE Each(u) == [i \in 1..Len(u) |-> Esc(u[i])]
<1>1. \A u : escapeString(u) = FlattenSeq(Each(u))
    BY Zenon, HexFacts DEF escapeString, Esc
<1>2. Each(t) \in Seq(Seq(Symbols))
  <2>1. \A i \in 1..Len(t) : Esc(t[i]) \in Seq(Symbols)
      BY EscType, ElementOfSeq
  <2> QED
      BY <2>1
<1>3. Each(<<c>> \o t) = <<Esc(c)>> \o Each(t)
  <2>1. /\ <<c>> \o t \in Seq(Symbols) /\ Len(<<c>> \o t) = Len(t) + 1
        /\ (<<c>> \o t)[1] = c
        /\ \A i \in 2..Len(t) + 1 : (<<c>> \o t)[i] = t[i - 1]
      OBVIOUS
  <2>2. Each(<<c>> \o t) \in Seq(Seq(Symbols)) /\ Len(Each(<<c>> \o t)) = Len(t) + 1
    <3>1. \A i \in 1..Len(<<c>> \o t) : Esc((<<c>> \o t)[i]) \in Seq(Symbols)
        BY <2>1, EscType, ElementOfSeq
    <3> QED
        BY <2>1, <3>1
  <2>3. Esc(c) \in Seq(Symbols)
      BY EscType
  <2>4. /\ <<Esc(c)>> \o Each(t) \in Seq(Seq(Symbols))
        /\ Len(<<Esc(c)>> \o Each(t)) = Len(t) + 1
        /\ (<<Esc(c)>> \o Each(t))[1] = Esc(c)
        /\ \A i \in 2..Len(t) + 1 : (<<Esc(c)>> \o Each(t))[i] = Esc(t[i - 1])
    <3> DEFINE e == Esc(c)
               r == Each(t)
    <3>1. e \in Seq(Symbols) /\ r \in Seq(Seq(Symbols)) /\ Len(r) = Len(t)
        BY <1>2, <2>3
    <3>2. \A i \in 1..Len(t) : r[i] = Esc(t[i])
        OBVIOUS
    <3> HIDE DEF e, r
    <3>3. /\ <<e>> \o r \in Seq(Seq(Symbols)) /\ Len(<<e>> \o r) = Len(t) + 1
          /\ (<<e>> \o r)[1] = e
          /\ \A i \in 2..Len(t) + 1 : (<<e>> \o r)[i] = r[i - 1]
        BY <3>1
    <3>4. \A i \in 2..Len(t) + 1 : i - 1 \in 1..Len(t)
        OBVIOUS
    <3> QED
        BY <3>2, <3>3, <3>4 DEF e, r
  <2>5. \A i \in 1..Len(t) + 1 : Each(<<c>> \o t)[i] = (<<Esc(c)>> \o Each(t))[i]
    <3> TAKE i \in 1..Len(t) + 1
    <3>1. Each(<<c>> \o t)[i] = Esc((<<c>> \o t)[i])
        BY <2>1
    <3>2. i = 1 \/ i \in 2..Len(t) + 1
        OBVIOUS
    <3> QED
        BY <2>1, <2>4, <3>1, <3>2
  <2> HIDE DEF Each
  <2> QED
      BY <2>2, <2>4, <2>5, SeqEqual
<1> HIDE DEF Each
<1> QED
    BY <1>1, <1>2, <1>3, EscType, FlatCons, FlatType

LEMMA EscapeNone == escapeString(<< >>) = << >>
<1>1. escapeString(<< >>) = FlattenSeq(<< >>)
    BY DEF escapeString
<1> QED
    BY <1>1, FlatNone

\* A word without special characters is written as it is.
LEMMA EscapePlain ==
    ASSUME NEW w \in Symbols, w \notin Special
    PROVE  escapeString(<<w>>) = <<w>>
<1>1. <<w>> \o << >> = <<w>> /\ << >> \in Seq(Symbols)
    OBVIOUS
<1>2. escapeString(<<w>> \o << >>) = Esc(w) \o escapeString(<< >>)
    BY <1>1, EscapeCons
<1>3. Esc(w) = <<w>>
    BY DEF Esc
<1> QED
    BY <1>1, <1>2, <1>3, EscapeNone

\* The escaped text has no space, and a code after every escape.
LEMMA EscapeFacts ==
    ASSUME NEW t \in Seq(Symbols)
    PROVE  /\ escapeString(t) \in Seq(Symbols)
           /\ \A k \in 1..Len(escapeString(t)) :
                 /\ escapeString(t)[k] # Space
                 /\ escapeString(t)[k] = "=" => /\ k + 1 \in 1..Len(escapeString(t))
                                                /\ escapeString(t)[k + 1] \in Range(Hex)
<1> DEFINE Fine(e) == /\ e \in Seq(Symbols)
                      /\ \A k \in 1..Len(e) :
                            /\ e[k] # Space
                            /\ e[k] = "=" => k + 1 \in 1..Len(e) /\ e[k + 1] \in Range(Hex)
           T == {n \in Nat : \A u \in Seq(Symbols) : Len(u) = n => Fine(escapeString(u))}
<1>1. 0 \in T
  <2> SUFFICES ASSUME NEW u \in Seq(Symbols), Len(u) = 0 PROVE Fine(escapeString(u))
      OBVIOUS
  <2>1. u = << >>
      OBVIOUS
  <2>2. Fine(<< >>)
      OBVIOUS
  <2> HIDE DEF Fine
  <2> QED
      BY <2>1, <2>2, EscapeNone
<1>2. ASSUME NEW n \in Nat, n \in T PROVE n + 1 \in T
  <2> SUFFICES ASSUME NEW u \in Seq(Symbols), Len(u) = n + 1 PROVE Fine(escapeString(u))
    <3>1. n + 1 \in Nat
        OBVIOUS
    <3> QED
        BY Zenon, <3>1
  <2> DEFINE c == Head(u)
             v == Tail(u)
             a == Esc(c)
             b == escapeString(v)
  <2>1. c \in Symbols /\ v \in Seq(Symbols) /\ Len(v) = n /\ u = <<c>> \o v
      OBVIOUS
  <2>2. escapeString(u) = a \o b
      BY <2>1, EscapeCons
  <2>3. Fine(b)
      BY <1>2, <2>1
  <2>4. /\ a \in Seq(Symbols)
        /\ a[1] # Space
        /\ \/ Len(a) = 2 /\ a[1] = "=" /\ a[2] # Space /\ a[2] # "=" /\ a[2] \in Range(Hex)
           \/ Len(a) = 1 /\ a[1] # "="
    <3>1. /\ c \in Special => Hex[c] # Space /\ Hex[c] # "=" /\ Hex[c] \in Range(Hex)
          /\ Space # "="
        BY HexFacts
    <3> HIDE DEF c
    <3> QED
        BY <2>1, <3>1, EscType
  <2> HIDE DEF a, b, c, v
  <2>5. Fine(a \o b)
    <3>1. /\ a \o b \in Seq(Symbols) /\ Len(a \o b) = Len(a) + Len(b)
          /\ \A k \in 1..Len(a) + Len(b) :
                (a \o b)[k] = IF k <= Len(a) THEN a[k] ELSE b[k - Len(a)]
        BY <2>3, <2>4, ConcatProperties
    <3>2. Len(a) \in Nat /\ Len(b) \in Nat
        BY <2>3, <2>4
    <3>3. ASSUME NEW k \in 1..Len(a) + Len(b)
          PROVE  /\ (a \o b)[k] # Space
                 /\ (a \o b)[k] = "=" => /\ k + 1 \in 1..Len(a) + Len(b)
                                         /\ (a \o b)[k + 1] \in Range(Hex)
      <4>1. CASE k <= Len(a)
        <5>1. (a \o b)[k] = a[k]
            BY <3>1, <4>1
        <5>2. Len(a) = 2 /\ k = 1 => (a \o b)[k + 1] = a[2] /\ k + 1 \in 1..Len(a) + Len(b)
            BY <3>1, <3>2
        <5>3. CASE Len(a) = 2 /\ k = 1
            BY <2>4, <5>1, <5>2, <5>3
        <5>4. CASE a[k] # "=" /\ a[k] # Space
            BY <5>1, <5>4
        <5>5. Len(a) = 1 => k = 1
            BY <4>1
        <5>6. Len(a) = 2 => k = 1 \/ k = 2
            BY <4>1
        <5> QED
            BY <2>4, <5>3, <5>4, <5>5, <5>6
      <4>2. CASE ~ (k <= Len(a))
        <5>1. k - Len(a) \in 1..Len(b) /\ (a \o b)[k] = b[k - Len(a)]
            BY <3>1, <3>2, <4>2
        <5>2. /\ b[k - Len(a)] # Space
              /\ b[k - Len(a)] = "=" => /\ k - Len(a) + 1 \in 1..Len(b)
                                        /\ b[k - Len(a) + 1] \in Range(Hex)
            BY <2>3, <5>1
        <5>3. k - Len(a) + 1 \in 1..Len(b) =>
                 /\ k + 1 \in 1..Len(a) + Len(b)
                 /\ (a \o b)[k + 1] = b[k - Len(a) + 1]
          <6>1. ~ (k + 1 <= Len(a)) /\ k + 1 - Len(a) = k - Len(a) + 1
              BY <3>2, <4>2
          <6>2. k - Len(a) + 1 \in 1..Len(b) => k + 1 \in 1..Len(a) + Len(b)
              BY <3>2, <4>2
          <6> QED
              BY <3>1, <6>1, <6>2
        <5> QED
            BY <5>1, <5>2, <5>3
      <4> QED
          BY <4>1, <4>2
    <3> HIDE DEF Special
    <3> QED
        BY <3>1, <3>3
  <2> QED
      BY <2>2, <2>5
<1> HIDE DEF T
<1>3. Nat \subseteq T
    BY <1>1, <1>2, SetInduction
<1>4. Len(t) \in T
    BY <1>3
<1> HIDE DEF Fine
<1>5. Fine(escapeString(t))
    BY <1>4 DEF T
<1> QED
    BY <1>5 DEF Fine

-----------------------------------------------------------------------------
(***************************************************************************)
(* Words.                                                                  *)
(***************************************************************************)

LEMMA MinIs ==
    ASSUME NEW S, S \subseteq Nat, S # {}
    PROVE  Min(S) \in S /\ \A y \in S : Min(S) <= y
<1>1. PICK m \in S : \A k \in S : ~ (<<k, m>> \in Less)
    BY Zenon, WFMin, LessWellFounded
<1>2. ASSUME NEW y \in S PROVE m <= y
  <2>1. m \in Nat /\ y \in Nat
      OBVIOUS
  <2>2. y < m => <<y, m>> \in Less
      BY <2>1 DEF Less
  <2> QED
      BY <1>1, <2>1, <2>2
<1>3. Min(S) = CHOOSE x \in S : \A y \in S : x <= y
    BY DEF Min
<1> QED
    BY <1>2, <1>3

LEMMA EndFacts ==
    ASSUME NEW line \in Seq(Symbols), NEW i \in 1..Len(line) + 2, NEW e, e = EndOfWord(line, i)
    PROVE  /\ e \in 1..Len(line) + 1 /\ i \in 1..e + 1 /\ (i <= Len(line) => i <= e)
           /\ \A j \in i..e - 1 : j \in 1..Len(line) /\ line[j] # Space
           /\ e <= Len(line) => line[e] = Space
<1> DEFINE S == {j \in i..Len(line) : line[j] = Space} \cup {Len(line) + 1}
<1>1. S \subseteq Nat /\ S # {}
    OBVIOUS
<1>2. e = Min(S)
    BY DEF EndOfWord
<1>3. e \in S /\ \A y \in S : e <= y
    BY <1>1, <1>2, MinIs
<1> QED
    BY <1>3

IsWord(f, line, i, e) ==
    f = [j \in i..e + 1 |->
            IF j >= e THEN << >>
            ELSE IF line[j] = "=" THEN <<Unhex(line[j + 1])>> \o f[j + 2]
            ELSE <<line[j]>> \o f[j + 1]]

LEMMA WordExists ==
    ASSUME NEW line, NEW e \in Nat
    PROVE  \A n \in Nat : \E f : IsWord(f, line, e + 1 - n, e)
<1> DEFINE S == {n \in Nat : \E f : IsWord(f, line, e + 1 - n, e)}
<1>1. 0 \in S
  <2> DEFINE f == [j \in e + 1..e + 1 |-> << >>]
  <2>1. IsWord(f, line, e + 1, e)
      BY DEF IsWord
  <2>2. e + 1 - 0 = e + 1
      OBVIOUS
  <2> QED
      BY <2>1, <2>2
<1>2. ASSUME NEW n \in Nat, n \in S PROVE n + 1 \in S
  <2> DEFINE m == e + 1 - n
  <2>1. PICK g : IsWord(g, line, m, e)
      BY <1>2
  <2>2. m \in Int /\ m <= e + 1 /\ e + 1 - (n + 1) = m - 1
      OBVIOUS
  <2> HIDE DEF m
  <2> DEFINE body(h, j) == IF j >= e THEN << >>
                           ELSE IF line[j] = "=" THEN <<Unhex(line[j + 1])>> \o h[j + 2]
                           ELSE <<line[j]>> \o h[j + 1]
             f == [j \in m - 1..e + 1 |-> IF j >= m THEN g[j] ELSE body(g, j)]
  <2>3. ASSUME NEW j \in m - 1..e + 1 PROVE f[j] = body(f, j)
    <3>1. ~ (j >= e) => f[j + 1] = g[j + 1] /\ f[j + 2] = g[j + 2]
        BY <2>2
    <3>2. j >= m => g[j] = body(g, j)
      <4>1. j >= m => j \in m..e + 1
          BY <2>2
      <4> HIDE DEF f
      <4> QED
          BY Zenon, <2>1, <4>1 DEF IsWord
    <3>3. f[j] = body(g, j)
      <4> HIDE DEF body
      <4> QED
          BY <3>2
    <3>4. body(f, j) = body(g, j)
      <4> HIDE DEF f
      <4> QED
          BY <3>1
    <3> QED
        BY <3>3, <3>4
  <2>4. f = [j \in m - 1..e + 1 |-> f[j]]
      OBVIOUS
  <2> HIDE DEF f
  <2>5. IsWord(f, line, m - 1, e)
      BY <2>3, <2>4 DEF IsWord
  <2> QED
      BY <2>2, <2>5
<1> HIDE DEF S
<1>3. Nat \subseteq S
    BY <1>1, <1>2, SetInduction
<1> QED
    BY <1>3 DEF S

IsChars(f, line, i, e) ==
    \A j \in i..e + 1 : f[j] = IF j >= e THEN << >>
                               ELSE IF line[j] = "=" THEN <<Unhex(line[j + 1])>> \o f[j + 2]
                               ELSE <<line[j]>> \o f[j + 1]

LEMMA WordIs ==
    ASSUME NEW line, NEW e \in Nat, NEW i \in 1..e + 1
    PROVE  \E f : /\ Unescaped(line, i, e) = f[i]
                  /\ IsChars(f, line, i, e)
<1>1. Unescaped(line, i, e) = (CHOOSE f : IsWord(f, line, i, e))[i]
    BY Zenon DEF Unescaped, IsWord
<1>2. \E f : IsWord(f, line, i, e)
  <2>1. e + 1 - i \in Nat /\ e + 1 - (e + 1 - i) = i
      OBVIOUS
  <2> QED
      BY <2>1, WordExists
<1>3. PICK f : IsWord(f, line, i, e) /\ Unescaped(line, i, e) = f[i]
    BY Zenon, <1>1, <1>2
<1> QED
    BY Zenon, <1>3 DEF IsWord, IsChars

\* Any word is read as a text, and reading goes on after it.
LEMMA ScanType ==
    ASSUME NEW line \in Seq(Symbols), NEW i \in 1..Len(line) + 2
    PROVE  /\ scanName(line, i).text \in Seq(Symbols)
           /\ scanName(line, i).next \in 0..Len(line) + 2
           /\ scanName(line, i).next # 0 =>
                 /\ scanName(line, i).next >= i
                 /\ i <= Len(line) => scanName(line, i).next > i
<1> DEFINE e == EndOfWord(line, i)
<1>1. /\ e \in 1..Len(line) + 1 /\ i \in 1..e + 1 /\ (i <= Len(line) => i <= e)
      /\ \A j \in i..e - 1 : j \in 1..Len(line) /\ line[j] # Space
      /\ e <= Len(line) => line[e] = Space
    BY EndFacts
<1>2. CASE \E j \in i..e - 1 : BadEscape(line, j)
  <2>1. scanName(line, i) = [text |-> << >>, next |-> 0]
      BY <1>2 DEF scanName
  <2> QED
      BY <2>1
<1>3. CASE ~ \E j \in i..e - 1 : BadEscape(line, j)
  <2>1. scanName(line, i) = [text |-> Unescaped(line, i, e), next |-> e + 1]
      BY <1>3 DEF scanName
  <2> HIDE DEF e
  <2>2. e \in Nat /\ Len(line) \in Nat
      BY <1>1
  <2>3. PICK f : /\ Unescaped(line, i, e) = f[i]
                 /\ IsChars(f, line, i, e)
    <3>1. i \in 1..e + 1
        BY <1>1
    <3> QED
        BY Zenon, <2>2, <3>1, WordIs
  <2> DEFINE T == {n \in Nat : \A j \in i..e + 1 : j + n >= e + 1 => f[j] \in Seq(Symbols)}
  <2>4. 0 \in T
    <3> SUFFICES ASSUME NEW j \in i..e + 1, j + 0 >= e + 1 PROVE f[j] \in Seq(Symbols)
        OBVIOUS
    <3>1. j >= e
        BY <2>2
    <3>2. f[j] = << >>
        BY Zenon, <2>3, <3>1 DEF IsChars
    <3> QED
        BY <3>2
  <2>5. ASSUME NEW n \in Nat, n \in T PROVE n + 1 \in T
    <3> SUFFICES ASSUME NEW j \in i..e + 1, j + (n + 1) >= e + 1 PROVE f[j] \in Seq(Symbols)
        OBVIOUS
    <3>1. CASE j >= e
      <4>1. f[j] = << >>
          BY Zenon, <2>3, <3>1 DEF IsChars
      <4> QED
          BY <4>1
    <3>2. CASE ~ (j >= e) /\ line[j] = "="
      <4>1. j \in i..e - 1 /\ j + 2 \in i..e + 1 /\ j + 2 + n >= e + 1
          BY <1>1, <2>2, <3>2
      <4>2. f[j + 2] \in Seq(Symbols)
          BY <2>5, <4>1
      <4>3. line[j + 1] \in Range(Hex)
          BY <1>3, <3>2, <4>1 DEF BadEscape
      <4>4. Unhex(line[j + 1]) \in Symbols
          BY <4>3, HexFacts, SymbolFacts
      <4>5. f[j] = <<Unhex(line[j + 1])>> \o f[j + 2]
          BY <2>3, <3>2 DEF IsChars
      <4> QED
          BY <4>2, <4>4, <4>5
    <3>3. CASE ~ (j >= e) /\ line[j] # "="
      <4>1. j \in 1..Len(line) /\ j + 1 \in i..e + 1 /\ j + 1 + n >= e + 1
          BY <1>1, <2>2, <3>3
      <4>2. f[j + 1] \in Seq(Symbols)
          BY <2>5, <4>1
      <4>3. line[j] \in Symbols
          BY <4>1
      <4>4. f[j] = <<line[j]>> \o f[j + 1]
          BY <2>3, <3>3 DEF IsChars
      <4> QED
          BY <4>2, <4>3, <4>4
    <3> QED
        BY <3>1, <3>2, <3>3
  <2> HIDE DEF T
  <2>6. Nat \subseteq T
      BY <2>4, <2>5, SetInduction
  <2>7. f[i] \in Seq(Symbols)
    <3>1. e + 1 - i \in T /\ i \in i..e + 1 /\ i + (e + 1 - i) >= e + 1
        BY <1>1, <2>2, <2>6
    <3> QED
        BY <3>1 DEF T
  <2> QED
      BY <1>1, <2>1, <2>2, <2>3, <2>7
<1> QED
    BY <1>2, <1>3

\* An escaped text is read as the text, wherever it is in the line.
LEMMA ScanEscaped ==
    ASSUME NEW line \in Seq(Symbols), NEW i \in Nat \ {0}, NEW text \in Seq(Symbols),
           At(line, i, escapeString(text)),
           i + Len(escapeString(text)) \in 1..Len(line),
           line[i + Len(escapeString(text))] = Space
    PROVE  scanName(line, i) = [text |-> text, next |-> i + Len(escapeString(text)) + 1]
<1> DEFINE E == escapeString(text)
           e == i + Len(E)
<1>1. /\ E \in Seq(Symbols) /\ Len(E) \in Nat
      /\ \A k \in 1..Len(E) : /\ E[k] # Space
                              /\ E[k] = "=" => k + 1 \in 1..Len(E) /\ E[k + 1] \in Range(Hex)
    BY EscapeFacts
<1>2. At(line, i, E)
    OBVIOUS
<1>3. /\ e \in 1..Len(line) /\ line[e] = Space /\ i \in 1..e /\ i \in 1..Len(line) + 2
      /\ Len(line) \in Nat /\ e \in Nat
  <2>1. e \in 1..Len(line) /\ line[e] = Space
      OBVIOUS
  <2>2. Len(line) \in Nat
      OBVIOUS
  <2> HIDE DEF E
  <2> QED
      BY <1>1, <2>1, <2>2
<1> HIDE DEF E
<1>4. \A j \in i..e - 1 : /\ j - i + 1 \in 1..Len(E) /\ j \in 1..Len(line)
                          /\ line[j] = E[j - i + 1]
  <2> TAKE j \in i..e - 1
  <2>1. j - i + 1 \in 1..Len(E) /\ i + (j - i + 1) - 1 = j
      BY <1>1
  <2> QED
      BY <1>2, <2>1 DEF At
<1>5. EndOfWord(line, i) = e
  <2> DEFINE d == EndOfWord(line, i)
  <2>1. /\ d \in 1..Len(line) + 1 /\ i \in 1..d + 1 /\ (i <= Len(line) => i <= d)
        /\ \A j \in i..d - 1 : line[j] # Space
        /\ d <= Len(line) => line[d] = Space
      BY <1>3, EndFacts
  <2> HIDE DEF d
  <2>2. ~ (d < e)
    <3>1. d < e => d \in i..e - 1
        BY <1>3, <2>1
    <3>2. \A j \in i..e - 1 : line[j] # Space
        BY <1>1, <1>4
    <3> QED
        BY <1>3, <2>1, <3>1, <3>2
  <2>3. ~ (e < d)
    <3>1. e < d => e \in i..d - 1
        BY <1>3, <2>1
    <3> QED
        BY <1>3, <2>1, <3>1
  <2>4. d = e
      BY <1>3, <2>1, <2>2, <2>3
  <2> QED
      BY <2>4 DEF d
<1>6. ASSUME NEW j \in i..e - 1 PROVE ~ BadEscape(line, j)
  <2> SUFFICES ASSUME line[j] = "=" PROVE j # Len(line) /\ line[j + 1] \in Range(Hex)
      BY DEF BadEscape
  <2>1. j - i + 2 \in 1..Len(E) /\ E[j - i + 2] \in Range(Hex)
    <3>1. j - i + 1 \in 1..Len(E) /\ E[j - i + 1] = "="
        BY <1>4
    <3>2. j - i + 1 + 1 = j - i + 2
        BY <1>3
    <3> QED
        BY <1>1, <3>1, <3>2
  <2>2. j + 1 \in i..e - 1 /\ (j + 1) - i + 1 = j - i + 2
      BY <1>1, <1>3, <2>1
  <2>3. j + 1 \in 1..Len(line) /\ line[j + 1] = E[j - i + 2]
      BY <1>4, <2>2
  <2> QED
      BY <2>1, <2>3
<1>7. scanName(line, i) = [text |-> Unescaped(line, i, e), next |-> e + 1]
    BY <1>5, <1>6 DEF scanName
<1>8. PICK f : /\ Unescaped(line, i, e) = f[i]
               /\ IsChars(f, line, i, e)
  <2>1. i \in 1..e + 1 /\ e \in Nat
      BY <1>3
  <2> HIDE DEF e
  <2>2. \A d \in Nat : i \in 1..d + 1 =>
            \E f : /\ Unescaped(line, i, d) = f[i]
                  /\ IsChars(f, line, i, d)
      BY Zenon, WordIs
  <2> QED
      BY Zenon, <2>1, <2>2
<1> DEFINE T == {n \in Nat : \A u \in Seq(Symbols) : \A j \in i..e :
                     Len(u) = n /\ At(line, j, escapeString(u))
                                /\ j + Len(escapeString(u)) = e => f[j] = u}
<1>9. 0 \in T
  <2> SUFFICES ASSUME NEW u \in Seq(Symbols), NEW j \in i..e, Len(u) = 0,
                      j + Len(escapeString(u)) = e
               PROVE  f[j] = u
      OBVIOUS
  <2>1. u = << >>
      OBVIOUS
  <2>2. j = e
      BY <1>3, <2>1, EscapeNone
  <2>3. j \in i..e + 1 /\ j >= e
      BY <1>3, <2>2
  <2> QED
      BY <1>8, <2>1, <2>3 DEF IsChars
<1>10. ASSUME NEW n \in Nat, n \in T PROVE n + 1 \in T
  <2> SUFFICES ASSUME NEW u \in Seq(Symbols), NEW j \in i..e, Len(u) = n + 1,
                      At(line, j, escapeString(u)), j + Len(escapeString(u)) = e
               PROVE  f[j] = u
    <3>1. n + 1 \in Nat
        OBVIOUS
    <3> HIDE DEF e
    <3> QED
        BY Zenon, <3>1
  <2> DEFINE c == Head(u)
             v == Tail(u)
             a == Esc(c)
             b == escapeString(v)
  <2>1. c \in Symbols /\ v \in Seq(Symbols) /\ Len(v) = n /\ u = <<c>> \o v
      OBVIOUS
  <2>2. escapeString(u) = a \o b /\ b \in Seq(Symbols)
      BY <2>1, EscapeCons
  <2>3. /\ a \in Seq(Symbols)
        /\ c \in Special => Len(a) = 2 /\ a[1] = "=" /\ a[2] = Hex[c]
        /\ c \notin Special => Len(a) = 1 /\ a[1] = c /\ c # "="
    <3> HIDE DEF c
    <3> QED
        BY <2>1, EscType
  <2> HIDE DEF a, b, c, v
  <2>4. Len(escapeString(u)) = Len(a) + Len(b) /\ Len(a) \in Nat /\ Len(b) \in Nat
      BY <2>2, <2>3, ConcatProperties
  <2>5. At(line, j, a) /\ At(line, j + Len(a), b)
    <3>1. j \in Nat
        BY <1>3
    <3> QED
        BY <2>2, <2>3, <3>1, AtConcat
  <2>6. Len(a) \in {1, 2} /\ j + Len(a) \in i..e /\ j + Len(a) + Len(b) = e
      BY <1>3, <2>3, <2>4
  <2>7. f[j + Len(a)] = v
    <3> HIDE DEF e
    <3> QED
        BY <1>10, <2>1, <2>5, <2>6 DEF b
  <2>8. j \in i..e + 1 /\ ~ (j >= e)
    <3>1. j \in Int /\ e \in Int /\ i \in Int /\ Len(a) \in Int
        BY <1>3, <2>4
    <3> HIDE DEF e
    <3>2. j + Len(a) <= e /\ i <= j
        BY <2>4, <2>6, <3>1
    <3>3. \A l, x, y, z \in Int : l \in {1, 2} /\ x + l <= y /\ z <= x =>
                                      x \in z..y + 1 /\ ~ (x >= y)
        OBVIOUS
    <3> QED
        BY Zenon, <2>6, <3>1, <3>2, <3>3
  <2>9. line[j] = a[1] /\ (Len(a) = 2 => line[j + 1] = a[2])
    <3>1. j \in Int /\ Len(a) \in Int
        BY <1>3, <2>4
    <3>2. \A l, x \in Int : l \in {1, 2} =>
              1 \in 1..l /\ x + 1 - 1 = x /\ x + 2 - 1 = x + 1 /\ (l = 2 => 2 \in 1..l)
        OBVIOUS
    <3> HIDE DEF e
    <3>3. 1 \in 1..Len(a) /\ j + 1 - 1 = j /\ (Len(a) = 2 => 2 \in 1..Len(a)) /\ j + 2 - 1 = j + 1
        BY Zenon, <2>6, <3>1, <3>2
    <3> QED
        BY <2>5, <3>3 DEF At
  <2>10. CASE c \in Special
    <3>1. f[j] = <<Unhex(Hex[c])>> \o f[j + 2]
        BY <1>8, <2>3, <2>8, <2>9, <2>10 DEF IsChars
    <3>2. Unhex(Hex[c]) = c
        BY <2>10, HexFacts
    <3> QED
        BY <2>1, <2>3, <2>7, <2>10, <3>1, <3>2
  <2>11. CASE c \notin Special
    <3>1. f[j] = <<c>> \o f[j + 1]
        BY <1>8, <2>3, <2>8, <2>9, <2>11 DEF IsChars
    <3> QED
        BY <2>1, <2>3, <2>7, <2>11, <3>1
  <2> QED
      BY <2>10, <2>11
<1> HIDE DEF T
<1>11. Nat \subseteq T
    BY <1>9, <1>10, SetInduction
<1>12. f[i] = text
  <2>1. Len(text) \in T /\ i \in i..e /\ i + Len(E) = e
      BY <1>3, <1>11
  <2> HIDE DEF e
  <2> QED
      BY <1>2, <2>1 DEF T, E
<1> QED
    BY <1>7, <1>8, <1>12 DEF E

-----------------------------------------------------------------------------
(***************************************************************************)
(* Pairs.                                                                  *)
(***************************************************************************)

PairBody(f, line, i) ==
    IF i > Len(line) THEN NoPairs(FALSE)
    ELSE IF line[i] = "]" THEN NoPairs(TRUE)
    ELSE LET key   == scanName(line, i)
             value == scanName(line, key.next)
             rest  == f[value.next].all
         IN  IF key.next = 0 \/ value.next = 0 THEN NoPairs(FALSE)
             ELSE IF ~ f[value.next].ok THEN NoPairs(FALSE)
             ELSE [ok  |-> TRUE,
                   all |-> [k \in DOMAIN rest \cup {key.text} |->
                               IF k \in DOMAIN rest THEN rest[k] ELSE value.text]]

IsPairs(f, line, m) == f = [i \in m..Len(line) + 2 |-> PairBody(f, line, i)]

\* A pair is read from the positions after it.
LEMMA PairGoesOn ==
    ASSUME NEW line \in Seq(Symbols), NEW i \in 1..Len(line), NEW key, NEW value,
           key = scanName(line, i), value = scanName(line, key.next),
           ~ (key.next = 0 \/ value.next = 0)
    PROVE  value.next \in i + 1..Len(line) + 2
<1>1. Len(line) \in Nat /\ i \in 1..Len(line) + 2 /\ i <= Len(line)
    OBVIOUS
<1>2. key.next \in 0..Len(line) + 2 /\ key.next > i
    BY <1>1, ScanType
<1>3. key.next \in 1..Len(line) + 2
    BY <1>1, <1>2
<1>4. value.next \in 0..Len(line) + 2 /\ value.next >= key.next
    BY <1>3, ScanType
<1> QED
    BY <1>1, <1>2, <1>4

LEMMA PairBodySame ==
    ASSUME NEW line \in Seq(Symbols), NEW i \in 1..Len(line) + 2, NEW f, NEW g,
           \A j \in i + 1..Len(line) + 2 : f[j] = g[j]
    PROVE  PairBody(f, line, i) = PairBody(g, line, i)
<1>1. CASE i > Len(line) \/ line[i] = "]"
    BY Zenon, <1>1 DEF PairBody
<1>2. CASE ~ (i > Len(line)) /\ line[i] # "]"
  <2> DEFINE key   == scanName(line, i)
             value == scanName(line, key.next)
  <2>1. CASE key.next = 0 \/ value.next = 0
      BY Zenon, <1>2, <2>1 DEF PairBody
  <2>2. CASE ~ (key.next = 0 \/ value.next = 0)
    <3>1. i \in 1..Len(line)
        BY <1>2
    <3>2. value.next \in i + 1..Len(line) + 2
        BY <2>2, <3>1, PairGoesOn
    <3>3. f[value.next] = g[value.next]
        BY Zenon, <3>2
    <3> QED
        BY Zenon, <1>2, <2>2, <3>3 DEF PairBody
  <2> QED
      BY Zenon, <2>1, <2>2
<1> QED
    BY <1>1, <1>2

LEMMA PairsExist ==
    ASSUME NEW line \in Seq(Symbols)
    PROVE  \E f : IsPairs(f, line, 1)
<1> DEFINE L == Len(line)
           S == {n \in Nat : n <= L + 2 => \E f : IsPairs(f, line, L + 3 - n)}
<1>1. L \in Nat
    OBVIOUS
<1> HIDE DEF L
<1>2. 0 \in S
  <2> DEFINE f == [i \in L + 3..L + 2 |-> 0]
  <2>1. f = [i \in L + 3..L + 2 |-> PairBody(f, line, i)]
      BY <1>1
  <2>2. L + 3 - 0 = L + 3
      BY <1>1
  <2> HIDE DEF f
  <2> QED
      BY <2>1, <2>2 DEF IsPairs, L
<1>3. ASSUME NEW n \in Nat, n \in S PROVE n + 1 \in S
  <2> SUFFICES ASSUME n + 1 <= L + 2 PROVE \E f : IsPairs(f, line, L + 3 - (n + 1))
      OBVIOUS
  <2> DEFINE m == L + 3 - n
  <2>1. /\ m \in Nat /\ m - 1 \in 1..L + 2 /\ n <= L + 2 /\ L + 3 - (n + 1) = m - 1
      BY <1>1
  <2>2. PICK g : IsPairs(g, line, m)
      BY <1>3, <2>1
  <2> HIDE DEF m
  <2> DEFINE f == [j \in m - 1..L + 2 |-> IF j >= m THEN g[j] ELSE PairBody(g, line, j)]
  <2>3. \A j \in m..L + 2 : f[j] = g[j] /\ j \in m - 1..L + 2
      BY <1>1, <2>1
  <2>4. ASSUME NEW j \in m - 1..L + 2 PROVE f[j] = PairBody(f, line, j)
    <3>1. f[j] = PairBody(g, line, j)
      <4>1. j >= m => g[j] = PairBody(g, line, j)
        <5>1. j >= m => j \in m..L + 2
            BY <1>1, <2>1
        <5> HIDE DEF f
        <5> QED
            BY Zenon, <2>2, <5>1 DEF IsPairs, L
      <4> QED
          BY <4>1
    <3>2. j \in 1..L + 2 /\ \A k \in j + 1..L + 2 : k \in m..L + 2
        BY <1>1, <2>1
    <3>3. \A k \in j + 1..L + 2 : f[k] = g[k]
      <4> HIDE DEF f
      <4> QED
          BY Zenon, <2>3, <3>2
    <3> HIDE DEF f
    <3>4. PairBody(f, line, j) = PairBody(g, line, j)
        BY Zenon, <3>2, <3>3, PairBodySame DEF L
    <3> QED
        BY Zenon, <3>1, <3>4
  <2>5. f = [j \in m - 1..L + 2 |-> f[j]]
      OBVIOUS
  <2> HIDE DEF f
  <2>6. f = [j \in m - 1..L + 2 |-> PairBody(f, line, j)]
      BY <2>4, <2>5
  <2> QED
      BY Zenon, <2>1, <2>6 DEF IsPairs, L
<1> HIDE DEF S
<1>4. Nat \subseteq S
    BY <1>2, <1>3, SetInduction
<1>5. L + 2 \in S /\ L + 2 <= L + 2 /\ L + 3 - (L + 2) = 1
    BY <1>1, <1>4
<1> QED
    BY <1>5 DEF S

LEMMA PairsIs ==
    ASSUME NEW line \in Seq(Symbols)
    PROVE  \E f : /\ \A i : scanPairs(line, i) = f[i]
                  /\ \A i \in 1..Len(line) + 2 : f[i] = PairBody(f, line, i)
<1> DEFINE f == CHOOSE h : IsPairs(h, line, 1)
<1>1. \A i : scanPairs(line, i) = f[i]
    BY Zenon DEF scanPairs, IsPairs, PairBody
<1>2. IsPairs(f, line, 1)
    BY Zenon, PairsExist
<1> HIDE DEF f
<1>3. \A i \in 1..Len(line) + 2 : f[i] = PairBody(f, line, i)
    BY Zenon, <1>2 DEF IsPairs
<1> QED
    BY Zenon, <1>1, <1>3

LEMMA PairsEnd ==
    ASSUME NEW line \in Seq(Symbols), NEW i \in 1..Len(line), line[i] = "]"
    PROVE  scanPairs(line, i) = NoPairs(TRUE)
<1>1. PICK f : /\ \A j : scanPairs(line, j) = f[j]
               /\ \A j \in 1..Len(line) + 2 : f[j] = PairBody(f, line, j)
    BY Zenon, PairsIs
<1>2. i \in 1..Len(line) + 2 /\ ~ (i > Len(line))
    OBVIOUS
<1> QED
    BY Zenon, <1>1, <1>2 DEF PairBody

\* The pairs with one before them.
WithPair(all, key, text) ==
    [k \in DOMAIN all \cup {key} |-> IF k \in DOMAIN all THEN all[k] ELSE text]

NextKey(line, i)   == scanName(line, i)
NextValue(line, i) == scanName(line, NextKey(line, i).next)

LEMMA PairsNext ==
    ASSUME NEW line \in Seq(Symbols), NEW i \in 1..Len(line), line[i] # "]",
           NextKey(line, i).next # 0, NextValue(line, i).next # 0,
           scanPairs(line, NextValue(line, i).next).ok
    PROVE  scanPairs(line, i) =
               [ok |-> TRUE,
                all |-> WithPair(scanPairs(line, NextValue(line, i).next).all,
                                 NextKey(line, i).text, NextValue(line, i).text)]
<1>1. PICK f : /\ \A j : scanPairs(line, j) = f[j]
               /\ \A j \in 1..Len(line) + 2 : f[j] = PairBody(f, line, j)
    BY Zenon, PairsIs
<1>2. i \in 1..Len(line) + 2 /\ ~ (i > Len(line))
    OBVIOUS
<1>3. scanPairs(line, i) = PairBody(f, line, i)
    BY Zenon, <1>1, <1>2
<1> DEFINE n == NextValue(line, i).next
<1>4. PairBody(f, line, i) =
          [ok |-> TRUE, all |-> WithPair(f[n].all, NextKey(line, i).text, NextValue(line, i).text)]
  <2>1. f[n].ok
      BY Zenon, <1>1
  <2> QED
      BY Zenon, <1>2, <2>1 DEF PairBody, WithPair, NextKey, NextValue
<1> QED
    BY Zenon, <1>1, <1>3, <1>4

\* The values are texts.
LEMMA PairsType ==
    ASSUME NEW line \in Seq(Symbols), NEW start \in 1..Len(line) + 2
    PROVE  \A k \in DOMAIN scanPairs(line, start).all :
               scanPairs(line, start).all[k] \in Seq(Symbols)
<1> DEFINE L == Len(line)
<1>1. PICK f : /\ \A j : scanPairs(line, j) = f[j]
               /\ \A j \in 1..L + 2 : f[j] = PairBody(f, line, j)
    BY Zenon, PairsIs
<1> DEFINE Texts(all) == \A k \in DOMAIN all : all[k] \in Seq(Symbols)
           S == {n \in Nat : \A i \in 1..L + 2 : i + n >= L + 3 => Texts(f[i].all)}
<1>2. L \in Nat
    OBVIOUS
<1>3. \A ok : Texts(NoPairs(ok).all)
    BY DEF NoPairs
<1> HIDE DEF L, Texts
<1>4. 0 \in S
    BY <1>2
<1>5. ASSUME NEW n \in Nat, n \in S PROVE n + 1 \in S
  <2> SUFFICES ASSUME NEW i \in 1..L + 2, i + (n + 1) >= L + 3 PROVE Texts(f[i].all)
    <3>1. n + 1 \in Nat
        OBVIOUS
    <3> QED
        BY Zenon, <3>1
  <2> DEFINE key   == scanName(line, i)
             value == scanName(line, key.next)
             rest  == f[value.next].all
  <2>1. f[i] = PairBody(f, line, i)
      BY Zenon, <1>1
  <2>2. \/ \E ok : f[i] = NoPairs(ok)
        \/ /\ ~ (i > L) /\ ~ (key.next = 0 \/ value.next = 0)
           /\ f[i] = [ok  |-> TRUE,
                      all |-> [k \in DOMAIN rest \cup {key.text} |->
                                  IF k \in DOMAIN rest THEN rest[k] ELSE value.text]]
      BY Zenon, <2>1 DEF PairBody, L
  <2>3. CASE \E ok : f[i] = NoPairs(ok)
      BY Zenon, <1>3, <2>3
  <2>4. CASE /\ ~ (i > L) /\ ~ (key.next = 0 \/ value.next = 0)
             /\ f[i] = [ok  |-> TRUE,
                        all |-> [k \in DOMAIN rest \cup {key.text} |->
                                    IF k \in DOMAIN rest THEN rest[k] ELSE value.text]]
    <3>1. i \in 1..Len(line) /\ i \in 1..Len(line) + 2
        BY <1>2, <2>4 DEF L
    <3>2. value.next \in i + 1..L + 2
        BY Zenon, <2>4, <3>1, PairGoesOn DEF L
    <3>3. value.next \in 1..L + 2 /\ value.next + n >= L + 3
        BY <1>2, <3>2
    <3>4. Texts(rest)
        BY Zenon, <1>5, <3>3
    <3>5. key.next \in 1..Len(line) + 2
      <4>1. key.next \in 0..Len(line) + 2 /\ key.next # 0
          BY <2>4, <3>1, ScanType
      <4> QED
          BY <1>2, <4>1 DEF L
    <3>6. value.text \in Seq(Symbols)
        BY Zenon, <3>5, ScanType
    <3>7. f[i].all = [k \in DOMAIN rest \cup {key.text} |->
                         IF k \in DOMAIN rest THEN rest[k] ELSE value.text]
      <4> HIDE DEF rest, value, key
      <4> QED
          BY <2>4
    <3> HIDE DEF rest, value, key
    <3> QED
        BY Zenon, <3>4, <3>6, <3>7 DEF Texts
  <2> QED
      BY Zenon, <2>2, <2>3, <2>4
<1> HIDE DEF S
<1>6. Nat \subseteq S
    BY <1>4, <1>5, SetInduction
<1>7. L + 2 \in S /\ start + (L + 2) >= L + 3 /\ start \in 1..L + 2
    BY <1>2, <1>6 DEF L
<1>8. Texts(f[start].all)
    BY Zenon, <1>7 DEF S
<1> QED
    BY Zenon, <1>1, <1>8 DEF Texts

-----------------------------------------------------------------------------
(***************************************************************************)
(* What is written for a node is read as the node.                         *)
(***************************************************************************)

LEMMA AtOne ==
    ASSUME NEW line, NEW i \in Nat, NEW a, At(line, i, <<a>>)
    PROVE  i \in 1..Len(line) /\ line[i] = a
<1>1. 1 \in 1..Len(<<a>>) /\ <<a>>[1] = a /\ i + 1 - 1 = i
    OBVIOUS
<1> QED
    BY <1>1 DEF At

LEMMA AtTwo ==
    ASSUME NEW line, NEW i \in Nat, NEW a, NEW b, At(line, i, <<a, b>>)
    PROVE  /\ i \in 1..Len(line) /\ line[i] = a
           /\ i + 1 \in 1..Len(line) /\ line[i + 1] = b
<1>1. /\ 1 \in 1..Len(<<a, b>>) /\ <<a, b>>[1] = a /\ i + 1 - 1 = i
      /\ 2 \in 1..Len(<<a, b>>) /\ <<a, b>>[2] = b /\ i + 2 - 1 = i + 1
    OBVIOUS
<1> QED
    BY <1>1 DEF At

LEMMA PairType ==
    ASSUME NEW key \in Symbols, NEW value \in Seq(Symbols)
    PROVE  Pair(key, value) \in Seq(Symbols) /\ Len(Pair(key, value)) = Len(value) + 3
<1>1. Space \in Symbols
    BY HexFacts, SymbolFacts
<1>2. <<key, Space>> \in Seq(Symbols) /\ Len(<<key, Space>>) = 2
      /\ <<Space>> \in Seq(Symbols) /\ Len(<<Space>>) = 1
    BY <1>1
<1>3. <<key, Space>> \o value \in Seq(Symbols) /\ Len(<<key, Space>> \o value) = 2 + Len(value)
    BY <1>2
<1>4. /\ (<<key, Space>> \o value) \o <<Space>> \in Seq(Symbols)
      /\ Len((<<key, Space>> \o value) \o <<Space>>) = 2 + Len(value) + 1
    BY <1>2, <1>3
<1>5. 2 + Len(value) + 1 = Len(value) + 3
    OBVIOUS
<1> QED
    BY <1>4, <1>5 DEF Pair

LEMMA PairRead ==
    ASSUME NEW line \in Seq(Symbols), NEW i \in Nat \ {0}, NEW key \in Words,
           NEW text \in Seq(Symbols), At(line, i, Pair(key, escapeString(text))),
           scanPairs(line, i + Len(Pair(key, escapeString(text)))).ok
    PROVE  scanPairs(line, i) =
               [ok  |-> TRUE,
                all |-> WithPair(scanPairs(line, i + Len(Pair(key, escapeString(text)))).all,
                                 <<key>>, text)]
<1> DEFINE E == escapeString(text)
           n == i + Len(Pair(key, E))
<1>1. E \in Seq(Symbols) /\ Len(E) \in Nat
    BY EscapeFacts
<1>2. /\ key \in Symbols /\ key \notin Special /\ Space \in Symbols /\ key # "]"
      /\ <<key>> \in Seq(Symbols)
  <2>1. key \in Symbols /\ key \notin Special /\ Space \in Symbols /\ key # "]"
      BY HexFacts, SymbolFacts
  <2> QED
      BY <2>1
<1>3. n = i + 3 + Len(E) /\ n # 0
  <2>1. Len(Pair(key, E)) = Len(E) + 3
      BY <1>1, <1>2, PairType
  <2> HIDE DEF E
  <2> QED
      BY <1>1, <2>1 DEF E
<1>4. At(line, i, <<key, Space>>) /\ At(line, i + 2, E) /\ At(line, i + 2 + Len(E), <<Space>>)
  <2>1. /\ <<key, Space>> \in Seq(Symbols) /\ <<Space>> \in Seq(Symbols)
        /\ Len(<<key, Space>>) = 2
      BY <1>2
  <2> HIDE DEF E
  <2>2. <<key, Space>> \o E \in Seq(Symbols) /\ Len(<<key, Space>> \o E) = 2 + Len(E)
      BY <1>1, <2>1
  <2>3. i \in Nat /\ i + (2 + Len(E)) = i + 2 + Len(E)
      BY <1>1
  <2>4. At(line, i, (<<key, Space>> \o E) \o <<Space>>)
      BY Zenon DEF Pair, E
  <2>5. At(line, i, <<key, Space>> \o E) /\ At(line, i + Len(<<key, Space>> \o E), <<Space>>)
      BY Zenon, <2>1, <2>2, <2>3, <2>4, AtConcat
  <2>6. At(line, i, <<key, Space>>) /\ At(line, i + Len(<<key, Space>>), E)
      BY Zenon, <1>1, <2>1, <2>3, <2>5, AtConcat
  <2> QED
      BY Zenon, <2>1, <2>2, <2>3, <2>5, <2>6
<1>5. /\ i \in 1..Len(line) /\ line[i] = key
      /\ i + 1 \in 1..Len(line) /\ line[i + 1] = Space
  <2>1. i \in Nat
      OBVIOUS
  <2> QED
      BY Zenon, <1>4, <2>1, AtTwo
<1>6. i + 2 + Len(E) \in 1..Len(line) /\ line[i + 2 + Len(E)] = Space
  <2> HIDE DEF E
  <2>1. i + 2 + Len(E) \in Nat
      BY <1>1
  <2> QED
      BY Zenon, <1>4, <2>1, AtOne
<1>7. scanName(line, i) = [text |-> <<key>>, next |-> i + 2]
  <2>1. escapeString(<<key>>) = <<key>> /\ Len(<<key>>) = 1
      BY <1>2, EscapePlain
  <2>2. At(line, i, <<key>>)
      BY <1>5 DEF At
  <2>3. i + Len(<<key>>) = i + 1 /\ i + 1 + 1 = i + 2
      BY <2>1
  <2>4. /\ At(line, i, escapeString(<<key>>))
        /\ i + Len(escapeString(<<key>>)) \in 1..Len(line)
        /\ line[i + Len(escapeString(<<key>>))] = Space
      BY Zenon, <1>5, <2>1, <2>2, <2>3
  <2>5. scanName(line, i) = [text |-> <<key>>, next |-> i + Len(escapeString(<<key>>)) + 1]
      BY Zenon, <1>2, <2>4, ScanEscaped
  <2> QED
      BY Zenon, <2>1, <2>3, <2>5
<1>8. scanName(line, i + 2) = [text |-> text, next |-> n]
  <2>1. i + 2 \in Nat \ {0}
      OBVIOUS
  <2>2. scanName(line, i + 2) = [text |-> text, next |-> i + 2 + Len(E) + 1]
      BY Zenon, <1>4, <1>6, <2>1, ScanEscaped
  <2> HIDE DEF E
  <2>3. i + 2 + Len(E) + 1 = n
      BY <1>1, <1>3
  <2> QED
      BY Zenon, <2>2, <2>3
<1>9. /\ scanName(line, i).next = i + 2 /\ i + 2 # 0 /\ scanName(line, i).text = <<key>>
      /\ scanName(line, i + 2).next = n /\ scanName(line, i + 2).text = text
    BY <1>7, <1>8
<1> HIDE DEF E, n
<1>10. /\ line[i] # "]" /\ NextKey(line, i).next # 0 /\ NextKey(line, i).text = <<key>>
       /\ NextValue(line, i).next = n /\ NextValue(line, i).text = text
    BY Zenon, <1>2, <1>5, <1>9 DEF NextKey, NextValue
<1>11. scanPairs(line, i) =
           [ok |-> TRUE,
            all |-> WithPair(scanPairs(line, NextValue(line, i).next).all,
                             NextKey(line, i).text, NextValue(line, i).text)]
  <2>1. scanPairs(line, NextValue(line, i).next).ok /\ NextValue(line, i).next # 0
      BY Zenon, <1>3, <1>10 DEF n, E
  <2> QED
      BY Zenon, <1>5, <1>10, <2>1, PairsNext
<1> QED
    BY Zenon, <1>10, <1>11 DEF n, E

\* What the pairs of a node are decoded to.
LEMMA DecodeFacts ==
    ASSUME NEW all, <<"kind">> \in DOMAIN all
    PROVE  /\ all[<<"kind">>] = <<"dir">> => decodeAtts(all) = [kind |-> "dir"]
           /\ all[<<"kind">>] = <<"file">> /\ <<"sha1">> \notin DOMAIN all =>
                  decodeAtts(all) = [kind |-> "file", sha1 |-> << >>]
           /\ \A h \in Digests :
                  all[<<"kind">>] = <<"file">> /\ <<"sha1">> \in DOMAIN all
                      /\ all[<<"sha1">>] = <<h>> =>
                  decodeAtts(all) = [kind |-> "file", sha1 |-> <<h>>]
           /\ all[<<"kind">>] = <<"lnk">> /\ <<"targ">> \in DOMAIN all =>
                  decodeAtts(all) = [kind |-> "lnk", targ |-> all[<<"targ">>]]
<1> DEFINE get(key) == IF <<key>> \in DOMAIN all THEN all[<<key>>] ELSE << >>
           hash   == get("sha1")
           noHash == <<"sha1">> \notin DOMAIN all
           isHash == hash # << >> /\ hash[1] \in Digests
<1>1. <<"dir">> # <<"file">> /\ <<"dir">> # <<"lnk">> /\ <<"file">> # <<"lnk">>
    OBVIOUS
<1>2. get("kind") = all[<<"kind">>] /\ (noHash => ~ isHash)
    BY Zenon
<1>3. decodeAtts(all) =
        CASE get("kind") = <<"dir">> -> [kind |-> "dir"]
          [] get("kind") = <<"file">> /\ noHash -> [kind |-> "file", sha1 |-> << >>]
          [] get("kind") = <<"file">> /\ isHash -> [kind |-> "file", sha1 |-> <<hash[1]>>]
          [] get("kind") = <<"lnk">> -> [kind |-> "lnk", targ |-> get("targ")]
          [] OTHER -> NoAtts
    BY Zenon DEF decodeAtts
<1>4. /\ get("kind") = <<"dir">> => decodeAtts(all) = [kind |-> "dir"]
      /\ get("kind") = <<"file">> /\ noHash =>
             decodeAtts(all) = [kind |-> "file", sha1 |-> << >>]
      /\ get("kind") = <<"file">> /\ isHash /\ ~ noHash =>
             decodeAtts(all) = [kind |-> "file", sha1 |-> <<hash[1]>>]
      /\ get("kind") = <<"lnk">> => decodeAtts(all) = [kind |-> "lnk", targ |-> get("targ")]
  <2> HIDE DEF get, hash, noHash, isHash
  <2>1. get("kind") = <<"dir">> => decodeAtts(all) = [kind |-> "dir"]
      BY Zenon, <1>1, <1>2, <1>3
  <2>2. get("kind") = <<"file">> /\ noHash =>
            decodeAtts(all) = [kind |-> "file", sha1 |-> << >>]
      BY Zenon, <1>1, <1>2, <1>3
  <2>3. get("kind") = <<"file">> /\ isHash /\ ~ noHash =>
            decodeAtts(all) = [kind |-> "file", sha1 |-> <<hash[1]>>]
      BY Zenon, <1>1, <1>2, <1>3
  <2>4. get("kind") = <<"lnk">> =>
            decodeAtts(all) = [kind |-> "lnk", targ |-> get("targ")]
      BY Zenon, <1>1, <1>2, <1>3
  <2> QED
      BY Zenon, <2>1, <2>2, <2>3, <2>4
<1>5. ASSUME NEW h \in Digests, all[<<"kind">>] = <<"file">>, <<"sha1">> \in DOMAIN all,
             all[<<"sha1">>] = <<h>>
      PROVE  decodeAtts(all) = [kind |-> "file", sha1 |-> <<h>>]
  <2>1. hash = <<h>>
      BY Zenon, <1>5
  <2>2. <<h>> # << >> /\ <<h>>[1] = h
      OBVIOUS
  <2>3. isHash /\ ~ noHash /\ hash[1] = h
      BY Zenon, <1>5, <2>1, <2>2
  <2> HIDE DEF isHash, noHash, hash, get
  <2> QED
      BY Zenon, <1>2, <1>4, <1>5, <2>3
<1> QED
    BY Zenon, <1>2, <1>4, <1>5

\* Any pairs are decoded to attributes, or are an error.
LEMMA DecodeType ==
    ASSUME NEW all, \A k \in DOMAIN all : all[k] \in Seq(Symbols)
    PROVE  decodeAtts(all) \in Atts \cup {NoAtts}
<1> DEFINE get(key) == IF <<key>> \in DOMAIN all THEN all[<<key>>] ELSE << >>
           hash   == get("sha1")
           noHash == <<"sha1">> \notin DOMAIN all
           isHash == hash # << >> /\ hash[1] \in Digests
<1>1. decodeAtts(all) =
        CASE get("kind") = <<"dir">> -> [kind |-> "dir"]
          [] get("kind") = <<"file">> /\ noHash -> [kind |-> "file", sha1 |-> << >>]
          [] get("kind") = <<"file">> /\ isHash -> [kind |-> "file", sha1 |-> <<hash[1]>>]
          [] get("kind") = <<"lnk">> -> [kind |-> "lnk", targ |-> get("targ")]
          [] OTHER -> NoAtts
    BY Zenon DEF decodeAtts
<1>2. get("targ") \in Seq(Symbols)
  <2>1. << >> \in Seq(Symbols)
      OBVIOUS
  <2> QED
      BY Zenon, <2>1
<1> HIDE DEF get, noHash, hash
<1>3. \/ decodeAtts(all) = [kind |-> "dir"]
      \/ decodeAtts(all) = [kind |-> "file", sha1 |-> << >>]
      \/ isHash /\ decodeAtts(all) = [kind |-> "file", sha1 |-> <<hash[1]>>]
      \/ decodeAtts(all) = [kind |-> "lnk", targ |-> get("targ")]
      \/ decodeAtts(all) = NoAtts
  <2> HIDE DEF isHash
  <2> QED
      BY <1>1
<1>4. isHash => [kind |-> "file", sha1 |-> <<hash[1]>>] \in Atts
    BY DEF Atts
<1>5. /\ [kind |-> "dir"] \in Atts /\ [kind |-> "file", sha1 |-> << >>] \in Atts
      /\ [kind |-> "lnk", targ |-> get("targ")] \in Atts
    BY <1>2 DEF Atts
<1> QED
    BY Zenon, <1>3, <1>4, <1>5

LEMMA NodeType ==
    ASSUME NEW line \in Seq(Symbols)
    PROVE  /\ parseNameAtts(line).atts \in Atts \cup {NoAtts}
           /\ line # << >> => parseNameAtts(line).name \in Seq(Symbols)
<1> DEFINE name  == scanName(line, 2)
           here  == name.next \in 1..Len(line) /\ line[name.next] = "["
           pairs == scanPairs(line, name.next + 1)
<1>1. parseNameAtts(line) =
          [name |-> name.text,
           atts |-> IF here /\ pairs.ok THEN decodeAtts(pairs.all) ELSE NoAtts]
    BY Zenon DEF parseNameAtts
<1>2. here => decodeAtts(pairs.all) \in Atts \cup {NoAtts}
  <2>1. here => name.next + 1 \in 1..Len(line) + 2
      OBVIOUS
  <2> QED
      BY Zenon, <2>1, PairsType, DecodeType
<1>3. line # << >> => name.text \in Seq(Symbols)
  <2>1. line # << >> => 2 \in 1..Len(line) + 2
      OBVIOUS
  <2> QED
      BY Zenon, <2>1, ScanType
<1> HIDE DEF name, here, pairs
<1> QED
    BY <1>1, <1>2, <1>3

LEMMA ConcatFirst ==
    ASSUME NEW s \in Seq(Symbols), NEW t \in Seq(Symbols), 1 <= Len(s)
    PROVE  s \o t \in Seq(Symbols) /\ Len(s \o t) = Len(s) + Len(t) /\ (s \o t)[1] = s[1]
<1>1. 1 \in 1..Len(s) + Len(t)
    OBVIOUS
<1> QED
    BY <1>1, ConcatProperties

LEMMA WithPairIs ==
    ASSUME NEW all, NEW key, NEW text
    PROVE  /\ DOMAIN WithPair(all, key, text) = DOMAIN all \cup {key}
           /\ \A k \in DOMAIN all : WithPair(all, key, text)[k] = all[k]
           /\ key \notin DOMAIN all => WithPair(all, key, text)[key] = text
BY Zenon DEF WithPair

LEMMA KeysDiffer ==
    /\ <<"kind">> # <<"sha1">> /\ <<"kind">> # <<"targ">> /\ <<"sha1">> # <<"targ">>
OBVIOUS

\* The attributes that encodeAtts adds to the kind.
More(atts) ==
    CASE atts.kind = "file" /\ atts.sha1 # << >> -> Pair("sha1", atts.sha1)
      [] atts.kind = "lnk" -> Pair("targ", escapeString(atts.targ))
      [] OTHER -> << >>

LEMMA AttsCases ==
    ASSUME NEW atts \in Atts
    PROVE  \/ atts = [kind |-> "dir"] /\ More(atts) = << >>
           \/ atts = [kind |-> "file", sha1 |-> << >>] /\ More(atts) = << >>
           \/ \E h \in Digests : /\ atts = [kind |-> "file", sha1 |-> <<h>>]
                                 /\ More(atts) = Pair("sha1", escapeString(<<h>>))
           \/ \E text \in Seq(Symbols) : /\ atts = [kind |-> "lnk", targ |-> text]
                                         /\ More(atts) = Pair("targ", escapeString(text))
<1>1. CASE atts \in [kind : {"dir"}]
  <2>1. atts = [kind |-> "dir"]
      BY <1>1
  <2>2. atts.kind # "file" /\ atts.kind # "lnk"
      BY <2>1
  <2>3. More(atts) = << >>
      BY Zenon, <2>2 DEF More
  <2> QED
      BY <2>1, <2>3
<1>2. CASE atts \in [kind : {"file"}, sha1 : {<< >>} \cup {<<h>> : h \in Digests}]
  <2>1. atts.kind = "file" /\ atts.kind # "lnk"
      BY <1>2
  <2>2. CASE atts.sha1 = << >>
    <3>1. More(atts) = << >>
        BY Zenon, <2>1, <2>2 DEF More
    <3>2. atts = [kind |-> "file", sha1 |-> << >>]
        BY <1>2, <2>2
    <3> QED
        BY <3>1, <3>2
  <2>3. CASE atts.sha1 # << >>
    <3>1. atts.sha1 \in {<<h>> : h \in Digests}
        BY <1>2, <2>3
    <3>2. PICK h \in Digests : atts.sha1 = <<h>>
        BY <3>1
    <3>3. atts = [kind |-> "file", sha1 |-> <<h>>]
        BY <1>2, <3>2
    <3>4. More(atts) = Pair("sha1", <<h>>)
        BY Zenon, <2>1, <2>3, <3>2 DEF More
    <3>5. escapeString(<<h>>) = <<h>>
        BY SymbolFacts, EscapePlain
    <3> QED
        BY Zenon, <3>3, <3>4, <3>5
  <2> QED
      BY <2>2, <2>3
<1>3. CASE atts \in [kind : {"lnk"}, targ : Seq(Symbols)]
  <2>1. atts.kind = "lnk" /\ atts.kind # "file" /\ atts.targ \in Seq(Symbols)
      BY <1>3
  <2>2. More(atts) = Pair("targ", escapeString(atts.targ))
      BY Zenon, <2>1 DEF More
  <2>3. atts = [kind |-> "lnk", targ |-> atts.targ]
      BY <1>3
  <2> QED
      BY Zenon, <2>1, <2>2, <2>3
<1> QED
    BY Zenon, <1>1, <1>2, <1>3 DEF Atts

\* The attributes are a pair of the kind and at most one more.
LEMMA EncodeAttsIs ==
    ASSUME NEW atts \in Atts
    PROVE  /\ atts.kind \in Words
           /\ encodeAtts(atts) = Pair("kind", escapeString(<<atts.kind>>)) \o More(atts)
           /\ Pair("kind", escapeString(<<atts.kind>>)) \in Seq(Symbols)
           /\ More(atts) \in Seq(Symbols)
<1>1. atts.kind \in Words /\ "kind" \in Words /\ "sha1" \in Words /\ "targ" \in Words
    BY DEF Atts, Words
<1>2. escapeString(<<atts.kind>>) = <<atts.kind>>
    BY <1>1, SymbolFacts, EscapePlain
<1>3. <<atts.kind>> \in Seq(Symbols) /\ \A h \in Digests : <<h>> \in Seq(Symbols)
    BY <1>1, SymbolFacts
<1>4. "kind" \in Symbols /\ "sha1" \in Symbols /\ "targ" \in Symbols
    BY Zenon, <1>1, SymbolFacts
<1>5. More(atts) \in Seq(Symbols)
  <2>1. << >> \in Seq(Symbols)
      OBVIOUS
  <2> QED
      BY Zenon, <1>3, <1>4, <2>1, AttsCases, PairType, EscapeFacts
<1>6. encodeAtts(atts) = Pair("kind", <<atts.kind>>) \o More(atts)
    BY Zenon DEF encodeAtts, More
<1>7. Pair("kind", <<atts.kind>>) \in Seq(Symbols)
    BY Zenon, <1>3, <1>4, PairType
<1> QED
    BY Zenon, <1>1, <1>2, <1>5, <1>6, <1>7

LEMMA AttsRead ==
    ASSUME NEW line \in Seq(Symbols), NEW i \in Nat \ {0}, NEW atts \in Atts,
           At(line, i, encodeAtts(atts)),
           i + Len(encodeAtts(atts)) \in 1..Len(line),
           line[i + Len(encodeAtts(atts))] = "]"
    PROVE  scanPairs(line, i).ok /\ decodeAtts(scanPairs(line, i).all) = atts
<1> DEFINE First == Pair("kind", escapeString(<<atts.kind>>))
           Second == More(atts)
           m == i + Len(First)
           n == m + Len(Second)
<1>1. /\ First \in Seq(Symbols) /\ Second \in Seq(Symbols) /\ atts.kind \in Words
      /\ encodeAtts(atts) = First \o Second
    BY Zenon, EncodeAttsIs
<1>2. "kind" \in Words /\ "sha1" \in Words /\ "targ" \in Words
    BY DEF Words
<1>3. <<atts.kind>> \in Seq(Symbols)
    BY <1>1, SymbolFacts
<1> HIDE DEF First, Second
<1>4. /\ Len(First) \in Nat /\ Len(Second) \in Nat /\ m \in Nat \ {0} /\ i \in Nat
      /\ i + Len(encodeAtts(atts)) = n
    BY <1>1
<1>5. At(line, i, First) /\ At(line, m, Second) /\ n \in 1..Len(line) /\ line[n] = "]"
  <2>1. At(line, i, First \o Second)
      BY Zenon, <1>1
  <2> QED
      BY Zenon, <1>1, <1>4, <2>1, AtConcat
<1> HIDE DEF m, n
<1>6. scanPairs(line, n).ok /\ scanPairs(line, n).all = << >>
  <2>1. scanPairs(line, n) = NoPairs(TRUE)
      BY Zenon, <1>5, PairsEnd
  <2> QED
      BY <2>1 DEF NoPairs
<1>7. Second = << >> => m = n
    BY <1>4 DEF n
<1>8. ASSUME scanPairs(line, m).ok, <<"kind">> \notin DOMAIN scanPairs(line, m).all
      PROVE  /\ scanPairs(line, i).ok
             /\ DOMAIN scanPairs(line, i).all = DOMAIN scanPairs(line, m).all \cup {<<"kind">>}
             /\ \A k \in DOMAIN scanPairs(line, m).all :
                    scanPairs(line, i).all[k] = scanPairs(line, m).all[k]
             /\ scanPairs(line, i).all[<<"kind">>] = <<atts.kind>>
  <2>1. scanPairs(line, i) =
            [ok |-> TRUE, all |-> WithPair(scanPairs(line, m).all, <<"kind">>, <<atts.kind>>)]
    <3>1. /\ At(line, i, Pair("kind", escapeString(<<atts.kind>>)))
          /\ scanPairs(line, i + Len(Pair("kind", escapeString(<<atts.kind>>)))).ok
        BY Zenon, <1>5, <1>8 DEF First, m
    <3>2. scanPairs(line, i) =
              [ok  |-> TRUE,
               all |-> WithPair(
                           scanPairs(line, i + Len(Pair("kind", escapeString(<<atts.kind>>)))).all,
                           <<"kind">>, <<atts.kind>>)]
        BY Zenon, <1>2, <1>3, <3>1, PairRead
    <3> QED
        BY Zenon, <3>2 DEF First, m
  <2>2. /\ scanPairs(line, i).ok
        /\ scanPairs(line, i).all = WithPair(scanPairs(line, m).all, <<"kind">>, <<atts.kind>>)
      BY <2>1
  <2> DEFINE old == scanPairs(line, m).all
             new == WithPair(old, <<"kind">>, <<atts.kind>>)
  <2>3. /\ DOMAIN new = DOMAIN old \cup {<<"kind">>}
        /\ \A k \in DOMAIN old : new[k] = old[k]
        /\ <<"kind">> \notin DOMAIN old => new[<<"kind">>] = <<atts.kind>>
      BY Zenon, WithPairIs
  <2> HIDE DEF new
  <2> QED
      BY Zenon, <1>8, <2>2, <2>3 DEF new
<1>9. ASSUME NEW key \in Words, NEW text \in Seq(Symbols), Second = Pair(key, escapeString(text))
      PROVE  /\ scanPairs(line, m).ok
             /\ DOMAIN scanPairs(line, m).all = {<<key>>}
             /\ scanPairs(line, m).all[<<key>>] = text
  <2>1. scanPairs(line, m) =
            [ok |-> TRUE, all |-> WithPair(scanPairs(line, n).all, <<key>>, text)]
      BY Zenon, <1>4, <1>5, <1>6, <1>9, PairRead DEF n
  <2>2. /\ scanPairs(line, m).ok
        /\ scanPairs(line, m).all = WithPair(<< >>, <<key>>, text)
      BY <1>6, <2>1
  <2>3. DOMAIN << >> = {}
      OBVIOUS
  <2> DEFINE new == WithPair(<< >>, <<key>>, text)
  <2>4. /\ DOMAIN new = DOMAIN << >> \cup {<<key>>}
        /\ <<key>> \notin DOMAIN << >> => new[<<key>>] = text
      BY Zenon, WithPairIs
  <2> HIDE DEF new
  <2>5. DOMAIN new = {<<key>>} /\ new[<<key>>] = text
      BY <2>3, <2>4
  <2> QED
      BY Zenon, <2>2, <2>5 DEF new
<1>10. CASE atts = [kind |-> "dir"] /\ Second = << >>
  <2>1. atts.kind = "dir"
      BY <1>10
  <2>2. scanPairs(line, m).ok /\ DOMAIN scanPairs(line, m).all = {}
      BY <1>6, <1>7, <1>10
  <2>3. /\ scanPairs(line, i).ok /\ <<"kind">> \in DOMAIN scanPairs(line, i).all
        /\ scanPairs(line, i).all[<<"kind">>] = <<"dir">>
      BY Zenon, <1>8, <2>1, <2>2
  <2> QED
      BY Zenon, <1>10, <2>3, DecodeFacts
<1>11. CASE atts = [kind |-> "file", sha1 |-> << >>] /\ Second = << >>
  <2>1. atts.kind = "file"
      BY <1>11
  <2>2. scanPairs(line, m).ok /\ DOMAIN scanPairs(line, m).all = {}
      BY <1>6, <1>7, <1>11
  <2>3. /\ scanPairs(line, i).ok /\ DOMAIN scanPairs(line, i).all = {<<"kind">>}
        /\ scanPairs(line, i).all[<<"kind">>] = <<"file">>
      BY Zenon, <1>8, <2>1, <2>2
  <2>4. <<"kind">> \in DOMAIN scanPairs(line, i).all /\ <<"sha1">> \notin DOMAIN scanPairs(line, i).all
      BY Zenon, <2>3, KeysDiffer
  <2> QED
      BY Zenon, <1>11, <2>3, <2>4, DecodeFacts
<1>12. ASSUME NEW h \in Digests, atts = [kind |-> "file", sha1 |-> <<h>>],
              Second = Pair("sha1", escapeString(<<h>>))
       PROVE  scanPairs(line, i).ok /\ decodeAtts(scanPairs(line, i).all) = atts
  <2>1. atts.kind = "file"
      BY <1>12
  <2>2. <<h>> \in Seq(Symbols)
      BY SymbolFacts
  <2>3. /\ scanPairs(line, m).ok /\ DOMAIN scanPairs(line, m).all = {<<"sha1">>}
        /\ scanPairs(line, m).all[<<"sha1">>] = <<h>>
      BY Zenon, <1>2, <1>9, <1>12, <2>2
  <2>4. /\ scanPairs(line, i).ok /\ <<"kind">> \in DOMAIN scanPairs(line, i).all
        /\ <<"sha1">> \in DOMAIN scanPairs(line, i).all
        /\ scanPairs(line, i).all[<<"kind">>] = <<"file">>
        /\ scanPairs(line, i).all[<<"sha1">>] = <<h>>
      BY Zenon, <1>8, <2>1, <2>3, KeysDiffer
  <2> QED
      BY Zenon, <1>12, <2>4, DecodeFacts
<1>13. ASSUME NEW text \in Seq(Symbols), atts = [kind |-> "lnk", targ |-> text],
              Second = Pair("targ", escapeString(text))
       PROVE  scanPairs(line, i).ok /\ decodeAtts(scanPairs(line, i).all) = atts
  <2>1. atts.kind = "lnk"
      BY <1>13
  <2>2. /\ scanPairs(line, m).ok /\ DOMAIN scanPairs(line, m).all = {<<"targ">>}
        /\ scanPairs(line, m).all[<<"targ">>] = text
      BY Zenon, <1>2, <1>9, <1>13
  <2>3. /\ scanPairs(line, i).ok /\ <<"kind">> \in DOMAIN scanPairs(line, i).all
        /\ <<"targ">> \in DOMAIN scanPairs(line, i).all
        /\ scanPairs(line, i).all[<<"kind">>] = <<"lnk">>
        /\ scanPairs(line, i).all[<<"targ">>] = text
      BY Zenon, <1>8, <2>1, <2>2, KeysDiffer
  <2> QED
      BY Zenon, <1>13, <2>3, DecodeFacts
<1> QED
    BY Zenon, <1>10, <1>11, <1>12, <1>13, AttsCases DEF Second

\* A node is read as it was written.
THEOREM ReadsNode ==
    ASSUME NEW op \in Symbols, NEW node, node.name \in Seq(Symbols), node.atts \in Atts
    PROVE  /\ outNode(op, node) \in Seq(Symbols)
           /\ outNode(op, node) # << >> /\ outNode(op, node)[1] = op
           /\ parseNameAtts(outNode(op, node)) = [name |-> node.name, atts |-> node.atts]
<1> DEFINE line == outNode(op, node)
           E == escapeString(node.name)
           A == encodeAtts(node.atts)
<1>1. E \in Seq(Symbols) /\ A \in Seq(Symbols)
  <2>1. E \in Seq(Symbols)
      BY EscapeFacts
  <2>2. /\ A = Pair("kind", escapeString(<<node.atts.kind>>)) \o More(node.atts)
        /\ Pair("kind", escapeString(<<node.atts.kind>>)) \in Seq(Symbols)
        /\ More(node.atts) \in Seq(Symbols)
      BY Zenon, EncodeAttsIs
  <2> QED
      BY Zenon, <2>1, <2>2, ConcatProperties
<1>2. Space \in Symbols /\ "[" \in Symbols /\ "]" \in Symbols
    BY HexFacts, SymbolFacts
<1>3. line = (((<<op>> \o E) \o <<Space, "[">>) \o A) \o <<"]">>
    BY Zenon DEF outNode
<1> HIDE DEF E, A, line
<1>4. /\ <<op>> \in Seq(Symbols) /\ <<Space, "[">> \in Seq(Symbols) /\ <<"]">> \in Seq(Symbols)
      /\ Len(<<op>>) = 1 /\ Len(<<Space, "[">>) = 2 /\ Len(<<"]">>) = 1
      /\ Len(E) \in Nat /\ Len(A) \in Nat
    BY <1>1, <1>2
<1> DEFINE X1 == <<op>> \o E
           X2 == X1 \o <<Space, "[">>
           X3 == X2 \o A
<1>5. /\ X1 \in Seq(Symbols) /\ Len(X1) = 1 + Len(E) /\ X1[1] = op
    BY <1>1, <1>4
<1> HIDE DEF X1
<1>6. X2 \in Seq(Symbols) /\ Len(X2) = 1 + Len(E) + 2 /\ X2[1] = op
    BY <1>4, <1>5
<1> HIDE DEF X2
<1>7. X3 \in Seq(Symbols) /\ Len(X3) = 1 + Len(E) + 2 + Len(A) /\ X3[1] = op
  <2>1. 1 <= Len(X2)
      BY <1>4, <1>6
  <2> QED
      BY Zenon, <1>1, <1>6, <2>1, ConcatFirst
<1> HIDE DEF X3
<1>8. /\ line \in Seq(Symbols) /\ Len(line) = 1 + Len(E) + 2 + Len(A) + 1 /\ line[1] = op
      /\ line # << >>
  <2>1. line = X3 \o <<"]">>
      BY Zenon, <1>3 DEF X1, X2, X3
  <2>2. 1 <= Len(X3)
      BY <1>4, <1>7
  <2>3. line \in Seq(Symbols) /\ Len(line) = Len(X3) + Len(<<"]">>) /\ line[1] = X3[1]
      BY Zenon, <1>4, <1>7, <2>1, <2>2, ConcatFirst
  <2>4. line # << >>
      BY <1>4, <2>2, <2>3
  <2> QED
      BY Zenon, <1>4, <1>7, <2>3, <2>4
<1>9. /\ At(line, 1 + 1, E) /\ At(line, 1 + (1 + Len(E)), <<Space, "[">>)
      /\ At(line, 1 + (1 + Len(E) + 2), A) /\ At(line, 1 + (1 + Len(E) + 2 + Len(A)), <<"]">>)
  <2>1. At(line, 1, X3 \o <<"]">>) /\ 1 \in Nat
    <3>1. At(line, 1, line)
        BY Zenon, <1>8, AtSelf
    <3> QED
        BY Zenon, <1>3, <3>1 DEF X1, X2, X3
  <2>2. At(line, 1, X3) /\ At(line, 1 + Len(X3), <<"]">>)
      BY Zenon, <1>4, <1>7, <2>1, AtConcat
  <2>3. At(line, 1, X2) /\ At(line, 1 + Len(X2), A)
      BY Zenon, <1>1, <1>6, <2>1, <2>2, AtConcat DEF X3
  <2>4. At(line, 1, X1) /\ At(line, 1 + Len(X1), <<Space, "[">>)
      BY Zenon, <1>4, <1>5, <2>1, <2>3, AtConcat DEF X2
  <2>5. At(line, 1 + Len(<<op>>), E)
      BY Zenon, <1>1, <1>4, <2>1, <2>4, AtConcat DEF X1
  <2> QED
      BY Zenon, <1>4, <1>5, <1>6, <1>7, <2>2, <2>3, <2>4, <2>5
<1> DEFINE s == 2 + Len(E)
           z == s + 2 + Len(A)
<1>10. /\ 1 + 1 = 2 /\ 1 + (1 + Len(E)) = s /\ 1 + (1 + Len(E) + 2) = s + 2
       /\ 1 + (1 + Len(E) + 2 + Len(A)) = z /\ s \in Nat /\ z \in Nat /\ s + 2 \in Nat \ {0}
       /\ s + 1 + 1 = s + 2
    BY <1>4
<1>11. At(line, 2, E) /\ At(line, s, <<Space, "[">>) /\ At(line, s + 2, A) /\ At(line, z, <<"]">>)
    BY Zenon, <1>9, <1>10
<1> HIDE DEF s, z
<1>12. /\ s \in 1..Len(line) /\ line[s] = Space
       /\ s + 1 \in 1..Len(line) /\ line[s + 1] = "["
  <2>1. \A j \in Nat : At(line, j, <<Space, "[">>) =>
                          /\ j \in 1..Len(line) /\ line[j] = Space
                          /\ j + 1 \in 1..Len(line) /\ line[j + 1] = "["
      BY Zenon, AtTwo
  <2> QED
      BY Zenon, <1>10, <1>11, <2>1
<1>13. z \in 1..Len(line) /\ line[z] = "]"
    BY Zenon, <1>10, <1>11, AtOne
<1>14. scanName(line, 2) = [text |-> node.name, next |-> s + 1]
  <2>1. 2 \in Nat \ {0}
      OBVIOUS
  <2>2. /\ At(line, 2, escapeString(node.name))
        /\ 2 + Len(escapeString(node.name)) \in 1..Len(line)
        /\ line[2 + Len(escapeString(node.name))] = Space
      BY Zenon, <1>11, <1>12 DEF s, E
  <2>3. scanName(line, 2) = [text |-> node.name, next |-> 2 + Len(escapeString(node.name)) + 1]
      BY Zenon, <1>8, <2>1, <2>2, ScanEscaped
  <2> QED
      BY Zenon, <2>3 DEF s, E
<1>15. scanPairs(line, s + 2).ok /\ decodeAtts(scanPairs(line, s + 2).all) = node.atts
  <2>1. /\ At(line, s + 2, encodeAtts(node.atts))
        /\ s + 2 + Len(encodeAtts(node.atts)) \in 1..Len(line)
        /\ line[s + 2 + Len(encodeAtts(node.atts))] = "]"
      BY Zenon, <1>11, <1>13 DEF z, A
  <2> QED
      BY Zenon, <1>8, <1>10, <2>1, AttsRead
<1>16. parseNameAtts(line) = [name |-> node.name, atts |-> node.atts]
  <2>1. scanName(line, 2).next = s + 1 /\ scanName(line, 2).text = node.name
      BY <1>14
  <2>2. scanName(line, 2).next + 1 = s + 2
      BY Zenon, <1>10, <2>1
  <2> QED
      BY Zenon, <1>12, <1>15, <2>1, <2>2 DEF parseNameAtts
<1> QED
    BY Zenon, <1>8, <1>16 DEF line

-----------------------------------------------------------------------------
(***************************************************************************)
(* Trees, level by level.                                                  *)
(***************************************************************************)

Level(S) == [name : Seq(Symbols), atts : Atts, children : Seq(S), files : Seq(FileType)]

IsTower(f, n) == f = [k \in 0..n |-> IF k = 0 THEN {} ELSE Level(f[k - 1])]

LEMMA TowerExists == \A n \in Nat : \E f : IsTower(f, n)
<1> DEFINE S == {n \in Nat : \E f : IsTower(f, n)}
<1>1. 0 \in S
  <2> DEFINE f == [k \in 0..0 |-> {}]
  <2>1. IsTower(f, 0)
      BY DEF IsTower
  <2> QED
      BY <2>1
<1>2. ASSUME NEW n \in Nat, n \in S PROVE n + 1 \in S
  <2>1. PICK g : IsTower(g, n)
      BY <1>2
  <2> DEFINE f == [k \in 0..n + 1 |-> IF k <= n THEN g[k] ELSE Level(g[k - 1])]
  <2>2. ASSUME NEW k \in 0..n + 1 PROVE f[k] = IF k = 0 THEN {} ELSE Level(f[k - 1])
    <3>1. k # 0 => f[k - 1] = g[k - 1]
        OBVIOUS
    <3>2. k <= n => g[k] = IF k = 0 THEN {} ELSE Level(g[k - 1])
      <4>1. k <= n => k \in 0..n
          OBVIOUS
      <4> HIDE DEF f
      <4> QED
          BY Zenon, <2>1, <4>1 DEF IsTower
    <3>3. f[k] = IF k <= n THEN g[k] ELSE Level(g[k - 1])
        OBVIOUS
    <3>4. ~ (k <= n) => k # 0
        OBVIOUS
    <3> HIDE DEF f
    <3> QED
        BY Zenon, <3>1, <3>2, <3>3, <3>4
  <2>3. f = [k \in 0..n + 1 |-> f[k]]
      OBVIOUS
  <2> HIDE DEF f
  <2>4. f = [k \in 0..n + 1 |-> IF k = 0 THEN {} ELSE Level(f[k - 1])]
      BY <2>2, <2>3
  <2>5. IsTower(f, n + 1)
      BY Zenon, <2>4 DEF IsTower
  <2> QED
      BY <2>5
<1> HIDE DEF S
<1>3. Nat \subseteq S
    BY <1>1, <1>2, SetInduction
<1> QED
    BY <1>3 DEF S

LEMMA TowerSame ==
    ASSUME NEW m \in Nat, NEW n \in Nat, m <= n,
           NEW f, IsTower(f, m), NEW g, IsTower(g, n)
    PROVE  f[m] = g[m]
<1> DEFINE S == {k \in Nat : k <= m => f[k] = g[k]}
<1>0. /\ \A k \in 0..m : f[k] = IF k = 0 THEN {} ELSE Level(f[k - 1])
      /\ \A k \in 0..n : g[k] = IF k = 0 THEN {} ELSE Level(g[k - 1])
    BY Zenon DEF IsTower
<1>1. 0 \in S
  <2>1. 0 \in 0..m /\ 0 \in 0..n
      OBVIOUS
  <2>2. f[0] = {} /\ g[0] = {}
      BY Zenon, <2>1 DEF IsTower
  <2> QED
      BY <2>2
<1>2. ASSUME NEW k \in Nat, k \in S PROVE k + 1 \in S
  <2> SUFFICES ASSUME k + 1 <= m PROVE f[k + 1] = g[k + 1]
      OBVIOUS
  <2>1. f[k] = g[k]
      BY <1>2
  <2>2. k + 1 \in 0..m /\ k + 1 \in 0..n /\ k + 1 # 0 /\ k + 1 - 1 = k
      OBVIOUS
  <2>3. f[k + 1] = Level(f[k]) /\ g[k + 1] = Level(g[k])
    <3>1. f[k + 1] = Level(f[k + 1 - 1]) /\ g[k + 1] = Level(g[k + 1 - 1])
        BY <1>0, <2>2
    <3> QED
        BY Zenon, <2>2, <3>1
  <2> QED
      BY Zenon, <2>1, <2>3
<1> HIDE DEF S
<1>3. Nat \subseteq S
    BY <1>1, <1>2, SetInduction
<1> QED
    BY <1>3 DEF S

LEMMA TreesStep ==
    /\ TreesTo[0] = {}
    /\ \A n \in Nat : TreesTo[n + 1] = Level(TreesTo[n])
<1> DEFINE Rec(g) == g = [n \in Nat |-> IF n = 0 THEN {} ELSE Level(g[n - 1])]
           Top(n) == CHOOSE f : IsTower(f, n)
           h == [n \in Nat |-> Top(n)[n]]
<1>1. \A n \in Nat : IsTower(Top(n), n)
    BY Zenon, TowerExists
<1> HIDE DEF Top
<1>2. ASSUME NEW n \in Nat PROVE h[n] = IF n = 0 THEN {} ELSE Level(h[n - 1])
  <2>1. n \in 0..n /\ (n # 0 => n - 1 \in Nat /\ n - 1 <= n)
      OBVIOUS
  <2>2. Top(n)[n] = IF n = 0 THEN {} ELSE Level(Top(n)[n - 1])
      BY Zenon, <1>1, <2>1 DEF IsTower
  <2>3. n # 0 => Top(n - 1)[n - 1] = Top(n)[n - 1]
      BY Zenon, <1>1, <2>1, TowerSame
  <2>4. h[n] = Top(n)[n] /\ (n # 0 => h[n - 1] = Top(n - 1)[n - 1])
      BY Zenon, <2>1
  <2> HIDE DEF h
  <2> QED
      BY Zenon, <2>2, <2>3, <2>4
<1>3. h = [n \in Nat |-> h[n]]
    BY Zenon
<1> HIDE DEF h
<1>4. Rec(h)
    BY <1>2, <1>3
<1>5. TreesTo = CHOOSE g : Rec(g)
    BY Zenon DEF TreesTo, Level
<1>6. Rec(TreesTo)
  <2> HIDE DEF Rec
  <2> QED
      BY Zenon, <1>4, <1>5
<1>7. \A n \in Nat : TreesTo[n] = IF n = 0 THEN {} ELSE Level(TreesTo[n - 1])
    BY Zenon, <1>6
<1>8. 0 \in Nat /\ \A n \in Nat : n + 1 \in Nat /\ n + 1 # 0 /\ n + 1 - 1 = n
    OBVIOUS
<1>9. TreesTo[0] = {}
    BY Zenon, <1>7, <1>8
<1>10. ASSUME NEW n \in Nat PROVE TreesTo[n + 1] = Level(TreesTo[n])
  <2>1. TreesTo[n + 1] = Level(TreesTo[n + 1 - 1])
      BY <1>7, <1>8
  <2> QED
      BY Zenon, <1>8, <2>1
<1> QED
    BY Zenon, <1>9, <1>10

LEMMA SeqGrows == ASSUME NEW S, NEW T, S \subseteq T PROVE Seq(S) \subseteq Seq(T)
OBVIOUS

LEMMA LevelGrows ==
    ASSUME NEW S, NEW T, S \subseteq T
    PROVE  Level(S) \subseteq Level(T)
<1>1. Seq(S) \subseteq Seq(T)
    BY SeqGrows
<1> QED
    BY <1>1 DEF Level

LEMMA TreesGrow ==
    ASSUME NEW m \in Nat, NEW n \in Nat, m <= n
    PROVE  TreesTo[m] \subseteq TreesTo[n]
<1> DEFINE S == {k \in Nat : TreesTo[k] \subseteq TreesTo[k + 1]}
           T == {k \in Nat : TreesTo[m] \subseteq TreesTo[m + k]}
<1>1. 0 \in S
  <2>1. 0 \in Nat /\ TreesTo[0] = {}
      BY TreesStep
  <2> QED
      BY Zenon, <2>1
<1>2. ASSUME NEW k \in Nat, k \in S PROVE k + 1 \in S
  <2>1. k + 1 \in Nat
      OBVIOUS
  <2>2. TreesTo[k + 1] = Level(TreesTo[k]) /\ TreesTo[k + 1 + 1] = Level(TreesTo[k + 1])
      BY Zenon, <2>1, TreesStep
  <2>3. TreesTo[k] \subseteq TreesTo[k + 1]
      BY <1>2
  <2>4. TreesTo[k + 1] \subseteq TreesTo[k + 1 + 1]
      BY <2>2, <2>3, LevelGrows
  <2> QED
      BY Zenon, <2>1, <2>4
<1>3. Nat \subseteq S
  <2> HIDE DEF S
  <2> QED
      BY <1>1, <1>2, SetInduction
<1>4. 0 \in T
  <2>1. m + 0 = m
      OBVIOUS
  <2> QED
      BY <2>1
<1>5. ASSUME NEW k \in Nat, k \in T PROVE k + 1 \in T
  <2>1. k + 1 \in Nat /\ m + k \in Nat /\ m + (k + 1) = (m + k) + 1
      OBVIOUS
  <2>2. TreesTo[m + k] \subseteq TreesTo[(m + k) + 1]
      BY Zenon, <1>3, <2>1
  <2> QED
      BY Zenon, <1>5, <2>1, <2>2
<1>6. Nat \subseteq T
  <2> HIDE DEF T
  <2> QED
      BY <1>4, <1>5, SetInduction
<1>7. n - m \in Nat /\ m + (n - m) = n
    OBVIOUS
<1> QED
    BY Zenon, <1>6, <1>7

\* The fields of a tree.
LEMMA TreeFields ==
    ASSUME NEW n \in Nat, NEW t \in TreesTo[n]
    PROVE  /\ n # 0 /\ n - 1 \in Nat /\ TreesTo[n] = Level(TreesTo[n - 1])
           /\ t = [name |-> t.name, atts |-> t.atts, children |-> t.children, files |-> t.files]
           /\ t.name \in Seq(Symbols) /\ t.atts \in Atts
           /\ t.children \in Seq(TreesTo[n - 1]) /\ t.children \in Seq(TreesTo[n])
           /\ t.files \in Seq(FileType)
<1>1. n # 0
    BY TreesStep
<1>2. n - 1 \in Nat /\ n - 1 + 1 = n /\ n - 1 <= n
    BY <1>1
<1>3. TreesTo[n] = Level(TreesTo[n - 1]) /\ TreesTo[n - 1] \subseteq TreesTo[n]
    BY Zenon, <1>2, TreesStep, TreesGrow
<1>4. t \in Level(TreesTo[n - 1]) /\ Seq(TreesTo[n - 1]) \subseteq Seq(TreesTo[n])
    BY Zenon, <1>3, SeqGrows
<1> DEFINE S == Seq(TreesTo[n - 1])
<1> HIDE DEF S
<1>5. t \in [name : Seq(Symbols), atts : Atts, children : S, files : Seq(FileType)]
    BY Zenon, <1>4 DEF Level, S
<1>6. /\ t = [name |-> t.name, atts |-> t.atts, children |-> t.children, files |-> t.files]
      /\ t.name \in Seq(Symbols) /\ t.atts \in Atts /\ t.children \in S
      /\ t.files \in Seq(FileType)
    BY <1>5
<1> QED
    BY Zenon, <1>1, <1>2, <1>3, <1>4, <1>6 DEF S

-----------------------------------------------------------------------------
(***************************************************************************)
(* The lines of a tree.                                                    *)
(***************************************************************************)

WalkLines(g, t) ==
    <<outNode("d", t)>>
        \o FlattenSeq([i \in 1..Len(t.children) |-> g[t.children[i]]])
        \o <<<<"-">>>>
        \o [i \in 1..Len(t.files) |-> outNode("f", t.files[i])]
        \o <<<<"u">>>>

WalkRow(g, n) == [t \in TreesTo[n] |-> WalkLines(g, t)]

IsWalk(f, n) == f = [k \in 0..n |-> WalkRow(f[k - 1], k)]

LEMMA WalkRowNone == ASSUME NEW g, NEW h PROVE WalkRow(g, 0) = WalkRow(h, 0)
<1>1. TreesTo[0] = {}
    BY TreesStep
<1>2. \A t \in TreesTo[0] : WalkLines(g, t) = WalkLines(h, t)
    BY Zenon, <1>1
<1> QED
    BY Zenon, <1>2 DEF WalkRow

LEMMA WalkExists == \A n \in Nat : \E f : IsWalk(f, n)
<1> DEFINE S == {n \in Nat : \E f : IsWalk(f, n)}
<1>1. 0 \in S
  <2> DEFINE f == [k \in 0..0 |-> WalkRow(0, 0)]
  <2>1. \A k \in 0..0 : f[k] = WalkRow(0, 0) /\ k = 0
      OBVIOUS
  <2>2. f = [k \in 0..0 |-> f[k]]
      OBVIOUS
  <2> HIDE DEF f
  <2>3. \A k \in 0..0 : f[k] = WalkRow(f[k - 1], k)
      BY Zenon, <2>1, WalkRowNone
  <2>4. f = [k \in 0..0 |-> WalkRow(f[k - 1], k)]
      BY <2>2, <2>3
  <2>5. IsWalk(f, 0)
      BY Zenon, <2>4 DEF IsWalk
  <2> QED
      BY <2>5
<1>2. ASSUME NEW n \in Nat, n \in S PROVE n + 1 \in S
  <2>1. PICK g : IsWalk(g, n)
      BY <1>2
  <2> DEFINE f == [k \in 0..n + 1 |-> IF k <= n THEN g[k] ELSE WalkRow(g[k - 1], k)]
  <2>2. ASSUME NEW k \in 0..n + 1 PROVE f[k] = WalkRow(f[k - 1], k)
    <3>1. k # 0 => f[k - 1] = g[k - 1]
        OBVIOUS
    <3>2. k <= n => g[k] = WalkRow(g[k - 1], k)
      <4>1. k <= n => k \in 0..n
          OBVIOUS
      <4> HIDE DEF f
      <4> QED
          BY Zenon, <2>1, <4>1 DEF IsWalk
    <3>3. f[k] = IF k <= n THEN g[k] ELSE WalkRow(g[k - 1], k)
        OBVIOUS
    <3> HIDE DEF f
    <3>4. CASE k = 0
      <4>1. WalkRow(g[k - 1], k) = WalkRow(f[k - 1], k)
          BY Zenon, <3>4, WalkRowNone
      <4> QED
          BY Zenon, <3>2, <3>3, <4>1
    <3>5. CASE k # 0
        BY Zenon, <3>1, <3>2, <3>3, <3>5
    <3> QED
        BY Zenon, <3>4, <3>5
  <2>3. f = [k \in 0..n + 1 |-> f[k]]
      OBVIOUS
  <2> HIDE DEF f
  <2>4. f = [k \in 0..n + 1 |-> WalkRow(f[k - 1], k)]
      BY <2>2, <2>3
  <2>5. IsWalk(f, n + 1)
      BY Zenon, <2>4 DEF IsWalk
  <2> QED
      BY <2>5
<1> HIDE DEF S
<1>3. Nat \subseteq S
    BY <1>1, <1>2, SetInduction
<1> QED
    BY <1>3 DEF S

LEMMA WalkSame ==
    ASSUME NEW m \in Nat, NEW n \in Nat, m <= n,
           NEW f, IsWalk(f, m), NEW g, IsWalk(g, n)
    PROVE  f[m] = g[m]
<1> DEFINE S == {k \in Nat : k <= m => f[k] = g[k]}
<1>0. /\ \A k \in 0..m : f[k] = WalkRow(f[k - 1], k)
      /\ \A k \in 0..n : g[k] = WalkRow(g[k - 1], k)
    BY Zenon DEF IsWalk
<1>1. 0 \in S
  <2>1. 0 \in 0..m /\ 0 \in 0..n
      OBVIOUS
  <2>2. f[0] = g[0]
      BY Zenon, <1>0, <2>1, WalkRowNone
  <2> QED
      BY <2>2
<1>2. ASSUME NEW k \in Nat, k \in S PROVE k + 1 \in S
  <2> SUFFICES ASSUME k + 1 <= m PROVE f[k + 1] = g[k + 1]
      OBVIOUS
  <2>1. f[k] = g[k]
      BY <1>2
  <2>2. k + 1 \in 0..m /\ k + 1 \in 0..n /\ k + 1 # 0 /\ k + 1 - 1 = k
      OBVIOUS
  <2>3. f[k + 1] = WalkRow(f[k], k + 1) /\ g[k + 1] = WalkRow(g[k], k + 1)
      BY <1>0, <2>2
  <2> QED
      BY Zenon, <2>1, <2>3
<1> HIDE DEF S
<1>3. Nat \subseteq S
    BY <1>1, <1>2, SetInduction
<1> QED
    BY <1>3 DEF S

LEMMA WalkStep == \A n \in Nat : outWalk[n] = WalkRow(outWalk[n - 1], n)
<1> DEFINE Rec(g) == g = [n \in Nat |-> WalkRow(g[n - 1], n)]
           Top(n) == CHOOSE f : IsWalk(f, n)
           h == [n \in Nat |-> Top(n)[n]]
<1>1. \A n \in Nat : IsWalk(Top(n), n)
    BY Zenon, WalkExists
<1> HIDE DEF Top
<1>2. ASSUME NEW n \in Nat PROVE h[n] = WalkRow(h[n - 1], n)
  <2>1. n \in 0..n /\ (n # 0 => n - 1 \in Nat /\ n - 1 <= n)
      OBVIOUS
  <2>2. Top(n)[n] = WalkRow(Top(n)[n - 1], n)
      BY Zenon, <1>1, <2>1 DEF IsWalk
  <2>3. n # 0 => Top(n - 1)[n - 1] = Top(n)[n - 1]
      BY Zenon, <1>1, <2>1, WalkSame
  <2>4. h[n] = Top(n)[n] /\ (n # 0 => h[n - 1] = Top(n - 1)[n - 1])
      BY Zenon, <2>1
  <2> HIDE DEF h
  <2>5. CASE n = 0
      BY Zenon, <2>2, <2>4, <2>5, WalkRowNone
  <2>6. CASE n # 0
      BY Zenon, <2>2, <2>3, <2>4, <2>6
  <2> QED
      BY Zenon, <2>5, <2>6
<1>3. h = [n \in Nat |-> h[n]]
    BY Zenon
<1> HIDE DEF h
<1>4. Rec(h)
    BY <1>2, <1>3
<1>5. outWalk = CHOOSE g : Rec(g)
    BY Zenon DEF outWalk, WalkRow, WalkLines
<1>6. Rec(outWalk)
  <2> HIDE DEF Rec
  <2> QED
      BY Zenon, <1>4, <1>5
<1> QED
    BY Zenon, <1>6

LEMMA FileFields ==
    ASSUME NEW f \in FileType
    PROVE  /\ f.name \in Seq(Symbols) /\ f.atts \in Atts
           /\ f = [name |-> f.name, atts |-> f.atts]
BY DEF FileType

LEMMA Signs == /\ <<"-">> \in Seq(Symbols) /\ <<"u">> \in Seq(Symbols)
               /\ "d" \in Symbols /\ "f" \in Symbols
<1>1. "-" \in Symbols /\ "u" \in Symbols /\ "d" \in Symbols /\ "f" \in Symbols
  <2>1. "-" \in Words /\ "u" \in Words /\ "d" \in Words /\ "f" \in Words
      BY DEF Words
  <2> QED
      BY Zenon, <2>1, SymbolFacts
<1> QED
    BY <1>1

Text == Seq(Symbols)

\* The lines of files.
FileLines(files) == [i \in 1..Len(files) |-> outNode("f", files[i])]

LEMMA FileLinesType ==
    ASSUME NEW files \in Seq(FileType)
    PROVE  FileLines(files) \in Seq(Text) /\ Len(FileLines(files)) = Len(files)
<1>1. \A i \in 1..Len(files) : outNode("f", files[i]) \in Text
  <2> TAKE i \in 1..Len(files)
  <2>1. files[i] \in FileType
      BY ElementOfSeq
  <2> QED
      BY Zenon, <2>1, FileFields, Signs, ReadsNode DEF Text
<1> QED
    BY <1>1 DEF FileLines

\* The lines of a tree are texts, and the same however deep the trees may be.
LEMMA WalkFacts ==
    \A n \in Nat : \A t \in TreesTo[n] :
        outWalk[n][t] \in Seq(Text) /\ outWalk[n + 1][t] = outWalk[n][t]
<1> DEFINE Fine(n) == \A t \in TreesTo[n] :
                          outWalk[n][t] \in Seq(Text) /\ outWalk[n + 1][t] = outWalk[n][t]
           S == {n \in Nat : Fine(n)}
<1>1. 0 \in S
  <2>1. TreesTo[0] = {}
      BY TreesStep
  <2> QED
      BY <2>1
<1>2. ASSUME NEW n \in Nat, n \in S PROVE n + 1 \in S
  <2> DEFINE m == n + 1
  <2>1. m \in Nat /\ m - 1 = n /\ m + 1 - 1 = m /\ m + 1 \in Nat /\ m <= m + 1
      OBVIOUS
  <2>2. Fine(n)
      BY <1>2
  <2> HIDE DEF m
  <2> SUFFICES ASSUME NEW t \in TreesTo[m]
               PROVE  outWalk[m][t] \in Seq(Text) /\ outWalk[m + 1][t] = outWalk[m][t]
      BY <2>1 DEF m
  <2>3. t \in TreesTo[m + 1]
      BY Zenon, <2>1, TreesGrow
  <2>4. outWalk[m] = WalkRow(outWalk[n], m) /\ outWalk[m + 1] = WalkRow(outWalk[m], m + 1)
      BY <2>1, WalkStep
  <2>5. outWalk[m][t] = WalkLines(outWalk[n], t) /\ outWalk[m + 1][t] = WalkLines(outWalk[m], t)
      BY Zenon, <2>3, <2>4 DEF WalkRow
  <2>6. t.children \in Seq(TreesTo[n]) /\ t.files \in Seq(FileType)
        /\ t.name \in Seq(Symbols) /\ t.atts \in Atts
      BY Zenon, <2>1, TreeFields
  <2> DEFINE len == Len(t.children)
             a == [i \in 1..len |-> outWalk[n][t.children[i]]]
             b == [i \in 1..len |-> outWalk[m][t.children[i]]]
  <2>7. ASSUME NEW i \in 1..len
        PROVE  /\ outWalk[n][t.children[i]] \in Seq(Text)
               /\ outWalk[m][t.children[i]] = outWalk[n][t.children[i]]
    <3>1. t.children[i] \in TreesTo[n]
        BY <2>6, ElementOfSeq
    <3> QED
        BY Zenon, <2>2, <3>1 DEF m
  <2>8. a = b
      BY Zenon, <2>7
  <2>9. a \in Seq(Seq(Text))
    <3>1. len \in Nat
        BY <2>6
    <3> HIDE DEF len
    <3> QED
        BY <2>7, <3>1
  <2>10. outWalk[m][t] = outWalk[m + 1][t]
      BY Zenon, <2>5, <2>8 DEF WalkLines
  <2>11. outWalk[m][t] \in Seq(Text)
    <3>1. FlattenSeq(a) \in Seq(Text)
        BY <2>9, FlatType
    <3>2. outNode("d", t) \in Text
        BY Zenon, <2>6, Signs, ReadsNode DEF Text
    <3>3. <<outNode("d", t)>> \in Seq(Text) /\ <<<<"-">>>> \in Seq(Text) /\ <<<<"u">>>> \in Seq(Text)
        BY <3>2, Signs DEF Text
    <3>4. FileLines(t.files) \in Seq(Text)
        BY Zenon, <2>6, FileLinesType
    <3>5. outWalk[m][t] = <<outNode("d", t)>> \o FlattenSeq(a) \o <<<<"-">>>>
                              \o FileLines(t.files) \o <<<<"u">>>>
        BY Zenon, <2>5 DEF WalkLines, FileLines
    <3> DEFINE x == FlattenSeq(a)
               y == FileLines(t.files)
               z == <<outNode("d", t)>>
    <3> HIDE DEF x, y, z
    <3>6. z \o x \o <<<<"-">>>> \o y \o <<<<"u">>>> \in Seq(Text)
        BY <3>1, <3>3, <3>4 DEF x, y, z
    <3> QED
        BY Zenon, <3>5, <3>6 DEF x, y, z
  <2> QED
      BY Zenon, <2>10, <2>11
<1> HIDE DEF S
<1>3. Nat \subseteq S
    BY <1>1, <1>2, SetInduction
<1> QED
    BY <1>3 DEF S

\* The lines of a tree, whatever the bound.
Walk(t) == outWalk[MaxLines][t]

Dirs == TreesTo[MaxLines]

LEMMA WalkIs ==
    ASSUME NEW t \in Dirs
    PROVE  /\ t.name \in Seq(Symbols) /\ t.atts \in Atts
           /\ t.children \in Seq(Dirs) /\ t.files \in Seq(FileType)
           /\ Walk(t) \in Seq(Text)
           /\ Walk(t) = <<outNode("d", t)>>
                           \o FlattenSeq([i \in 1..Len(t.children) |-> Walk(t.children[i])])
                           \o <<<<"-">>>> \o FileLines(t.files) \o <<<<"u">>>>
<1> DEFINE n == MaxLines
<1>1. n \in Nat
    BY Zenon, CodecAssumption
<1>2. /\ n # 0 /\ n - 1 \in Nat /\ n - 1 + 1 = n
      /\ t.name \in Seq(Symbols) /\ t.atts \in Atts
      /\ t.children \in Seq(TreesTo[n - 1]) /\ t.children \in Seq(TreesTo[n])
      /\ t.files \in Seq(FileType)
  <2>1. /\ n # 0 /\ n - 1 \in Nat
        /\ t.name \in Seq(Symbols) /\ t.atts \in Atts
        /\ t.children \in Seq(TreesTo[n - 1]) /\ t.children \in Seq(TreesTo[n])
        /\ t.files \in Seq(FileType)
      BY Zenon, <1>1, TreeFields DEF Dirs
  <2>2. n - 1 + 1 = n
      BY <1>1
  <2> QED
      BY Zenon, <2>1, <2>2
<1>3. outWalk[n] = WalkRow(outWalk[n - 1], n)
    BY Zenon, <1>1, WalkStep
<1>4. outWalk[n][t] = WalkLines(outWalk[n - 1], t)
    BY Zenon, <1>3 DEF WalkRow, Dirs
<1>5. ASSUME NEW i \in 1..Len(t.children)
      PROVE  outWalk[n - 1][t.children[i]] = outWalk[n][t.children[i]]
  <2>1. t.children[i] \in TreesTo[n - 1]
      BY <1>2, ElementOfSeq
  <2>2. outWalk[n - 1 + 1][t.children[i]] = outWalk[n - 1][t.children[i]]
      BY Zenon, <1>2, <2>1, WalkFacts
  <2> QED
      BY Zenon, <1>2, <2>2
<1>6. [i \in 1..Len(t.children) |-> outWalk[n - 1][t.children[i]]]
        = [i \in 1..Len(t.children) |-> Walk(t.children[i])]
    BY Zenon, <1>5 DEF Walk
<1>7. Walk(t) \in Seq(Text)
    BY Zenon, <1>1, WalkFacts DEF Walk, Dirs
<1>8. Walk(t) = <<outNode("d", t)>>
                    \o FlattenSeq([i \in 1..Len(t.children) |-> Walk(t.children[i])])
                    \o <<<<"-">>>> \o FileLines(t.files) \o <<<<"u">>>>
    BY Zenon, <1>4, <1>6 DEF WalkLines, FileLines, Walk
<1> QED
    BY Zenon, <1>2, <1>7, <1>8 DEF Dirs

-----------------------------------------------------------------------------
(***************************************************************************)
(* The open directories.                                                   *)
(***************************************************************************)

LEMMA FrontLast ==
    ASSUME NEW S, NEW s \in Seq(S), NEW x \in S
    PROVE  /\ Front(Append(s, x)) = s /\ Last(Append(s, x)) = x
           /\ Append(s, x) # << >> /\ Append(s, x) \in Seq(S)
           /\ Len(Append(s, x)) = Len(s) + 1
<1>1. /\ Len(Append(s, x)) = Len(s) + 1 /\ Append(s, x)[Len(s) + 1] = x
      /\ Append(s, x) \in Seq(S) /\ Append(s, x) # << >>
    OBVIOUS
<1>2. Last(Append(s, x)) = x
    BY <1>1 DEF Last
<1>3. Front(Append(s, x)) = s
    BY DEF Front
<1> QED
    BY <1>1, <1>2, <1>3

\* A directory that has just been opened.
NewDir(node) == [name |-> node.name, atts |-> node.atts, children |-> << >>, files |-> << >>]

IsDir(d) == d = [name |-> d.name, atts |-> d.atts, children |-> d.children, files |-> d.files]

LEMMA WithIs ==
    ASSUME NEW d, IsDir(d), NEW c
    PROVE  /\ WithChild(d, c) = [name |-> d.name, atts |-> d.atts,
                                 children |-> Append(d.children, c), files |-> d.files]
           /\ WithFile(d, c) = [name |-> d.name, atts |-> d.atts,
                                children |-> d.children, files |-> Append(d.files, c)]
<1> DEFINE a == d.name
           b == d.atts
           x == d.children
           y == d.files
<1>1. d = [name |-> a, atts |-> b, children |-> x, files |-> y]
    BY Zenon DEF IsDir
<1> HIDE DEF a, b, x, y
<1>2. WithChild(d, c) = [name |-> a, atts |-> b, children |-> Append(x, c), files |-> y]
  <2> DEFINE e == Append(x, c)
  <2>1. WithChild(d, c) = [d EXCEPT !.children = e]
      BY Zenon DEF WithChild, x
  <2> HIDE DEF e
  <2>2. [d EXCEPT !.children = e] = [name |-> a, atts |-> b, children |-> e, files |-> y]
      BY <1>1
  <2> QED
      BY Zenon, <2>1, <2>2 DEF e
<1>3. WithFile(d, c) = [name |-> a, atts |-> b, children |-> x, files |-> Append(y, c)]
  <2> DEFINE e == Append(y, c)
  <2>1. WithFile(d, c) = [d EXCEPT !.files = e]
      BY Zenon DEF WithFile, y
  <2> HIDE DEF e
  <2>2. [d EXCEPT !.files = e] = [name |-> a, atts |-> b, children |-> x, files |-> e]
      BY <1>1
  <2> QED
      BY Zenon, <2>1, <2>2 DEF e
<1> QED
    BY Zenon, <1>2, <1>3 DEF a, b, x, y

LEMMA NewDirType ==
    ASSUME NEW n \in Nat, NEW node, node.name \in Seq(Symbols), node.atts \in Atts
    PROVE  NewDir(node) \in TreesTo[n + 1]
<1>1. TreesTo[n + 1] = Level(TreesTo[n])
    BY Zenon, TreesStep
<1> DEFINE S == Seq(TreesTo[n])
<1>2. << >> \in S /\ << >> \in Seq(FileType)
    OBVIOUS
<1> HIDE DEF S
<1>3. NewDir(node) \in [name : Seq(Symbols), atts : Atts, children : S, files : Seq(FileType)]
    BY <1>2 DEF NewDir
<1> QED
    BY Zenon, <1>1, <1>3 DEF Level, S

LEMMA WithType ==
    ASSUME NEW n \in Nat, NEW d \in TreesTo[n]
    PROVE  /\ IsDir(d)
           /\ \A c \in TreesTo[n] : WithChild(d, c) \in TreesTo[n + 1]
           /\ \A f \in FileType : WithFile(d, f) \in TreesTo[n]
<1>1. /\ TreesTo[n] = Level(TreesTo[n - 1]) /\ IsDir(d)
      /\ d.name \in Seq(Symbols) /\ d.atts \in Atts
      /\ d.children \in Seq(TreesTo[n - 1]) /\ d.children \in Seq(TreesTo[n])
      /\ d.files \in Seq(FileType)
    BY Zenon, TreeFields DEF IsDir
<1>2. TreesTo[n + 1] = Level(TreesTo[n])
    BY Zenon, TreesStep
<1>3. ASSUME NEW c \in TreesTo[n] PROVE WithChild(d, c) \in TreesTo[n + 1]
  <2> DEFINE S == Seq(TreesTo[n])
             e == Append(d.children, c)
  <2>1. e \in S
      BY <1>1
  <2> HIDE DEF S, e
  <2>2. WithChild(d, c) = [name |-> d.name, atts |-> d.atts, children |-> e, files |-> d.files]
      BY Zenon, <1>1, WithIs DEF e
  <2>3. WithChild(d, c) \in [name : Seq(Symbols), atts : Atts, children : S,
                             files : Seq(FileType)]
      BY <1>1, <2>1, <2>2
  <2> QED
      BY Zenon, <1>2, <2>3 DEF Level, S
<1>4. ASSUME NEW f \in FileType PROVE WithFile(d, f) \in TreesTo[n]
  <2> DEFINE S == Seq(TreesTo[n - 1])
             e == Append(d.files, f)
  <2>1. e \in Seq(FileType) /\ d.children \in S
      BY <1>1
  <2> HIDE DEF S, e
  <2>2. WithFile(d, f) = [name |-> d.name, atts |-> d.atts, children |-> d.children, files |-> e]
      BY Zenon, <1>1, WithIs DEF e
  <2>3. WithFile(d, f) \in [name : Seq(Symbols), atts : Atts, children : S,
                            files : Seq(FileType)]
      BY <1>1, <2>1, <2>2
  <2> QED
      BY Zenon, <1>1, <2>3 DEF Level, S
<1> QED
    BY Zenon, <1>1, <1>3, <1>4

\* A line that opens a directory or is a file is a node.
LEMMA NodeIs ==
    ASSUME NEW line \in Lines, line # << >>, Node[line].atts # NoAtts
    PROVE  /\ line \in Seq(Symbols) /\ Node[line] = parseNameAtts(line)
           /\ Node[line] = [name |-> Node[line].name, atts |-> Node[line].atts]
           /\ Node[line].name \in Seq(Symbols) /\ Node[line].atts \in Atts
           /\ Node[line] \in FileType
<1>1. line \in Seq(Symbols)
    BY CodecAssumption
<1>2. Node[line] = parseNameAtts(line)
    BY Zenon DEF Node
<1>3. Node[line].name \in Seq(Symbols) /\ Node[line].atts \in Atts
    BY <1>1, <1>2, NodeType
<1>4. Node[line] = [name |-> Node[line].name, atts |-> Node[line].atts]
  <2> DEFINE a == scanName(line, 2).text
             b == IF /\ scanName(line, 2).next \in 1..Len(line)
                     /\ line[scanName(line, 2).next] = "["
                     /\ scanPairs(line, scanName(line, 2).next + 1).ok
                  THEN decodeAtts(scanPairs(line, scanName(line, 2).next + 1).all)
                  ELSE NoAtts
  <2>1. Node[line] = [name |-> a, atts |-> b]
      BY Zenon, <1>2 DEF parseNameAtts
  <2> HIDE DEF a, b
  <2> QED
      BY <2>1
<1>5. Node[line] \in FileType
    BY Zenon, <1>3, <1>4 DEF FileType
<1> QED
    BY Zenon, <1>1, <1>2, <1>3, <1>4, <1>5

\* The actions that take a directory from the stack, on its parts.
LEMMA OnLast ==
    ASSUME NEW S, tree \in Seq(S), tree # << >>
    PROVE  \E stk \in Seq(S), d \in S :
               /\ tree = Append(stk, d) /\ Front(tree) = stk /\ Last(tree) = d
               /\ Len(tree) = Len(stk) + 1 /\ Len(stk) \in Nat
<1>1. PICK stk \in Seq(S), d \in S : tree = Append(stk, d)
    BY SequenceEmptyOrAppend
<1>2. Front(tree) = stk /\ Last(tree) = d /\ Len(tree) = Len(stk) + 1
    BY <1>1, FrontLast
<1>3. Len(stk) \in Nat
    OBVIOUS
<1> QED
    BY Zenon, <1>1, <1>2, <1>3

LEMMA UpIs ==
    ASSUME NEW S, tree \in Seq(S), NEW line, up(line)
    PROVE  \/ \E d \in S : /\ tree = <<d>>
                           /\ add' = "nothing" /\ tree' = << >> /\ result' = <<d>>
           \/ \E stk \in Seq(S), p \in S, d \in S :
                  /\ tree = Append(Append(stk, p), d)
                  /\ add' = "addDirs" /\ result' = result
                  /\ tree' = Append(stk, WithChild(p, d))
<1>1. PICK front \in Seq(S), d \in S :
          /\ tree = Append(front, d) /\ Front(tree) = front /\ Last(tree) = d
          /\ Len(tree) = Len(front) + 1 /\ Len(front) \in Nat
    BY Zenon, OnLast DEF up
<1>2. CASE front = << >>
  <2>1. Len(tree) = 1 /\ tree = <<d>>
      BY <1>1, <1>2
  <2> QED
      BY Zenon, <2>1 DEF up
<1>3. CASE front # << >>
  <2>1. PICK stk \in Seq(S), p \in S : front = Append(stk, p)
      BY <1>3, SequenceEmptyOrAppend
  <2>2. Front(front) = stk /\ Last(front) = p /\ Len(front) = Len(stk) + 1 /\ Len(stk) \in Nat
      BY <2>1, FrontLast
  <2>3. Len(tree) # 1
      BY <1>1, <2>2
  <2>4. /\ add' = "addDirs" /\ result' = result
        /\ tree' = Append(Front(Parent), WithChild(Last(Parent), Last(tree)))
      BY Zenon, <2>3 DEF up
  <2> QED
      BY Zenon, <1>1, <2>1, <2>2, <2>4 DEF Parent
<1> QED
    BY Zenon, <1>2, <1>3

-----------------------------------------------------------------------------
(***************************************************************************)
(* Types.                                                                  *)
(***************************************************************************)

Typed ==
    /\ add \in {"needAsure", "needHyphens", "addDirs", "addFiles", "nothing",
                "failed", "panic"}
    /\ pushed \in Seq(Lines) /\ Len(pushed) <= MaxLines
    /\ tree \in Seq(TreesTo[Len(pushed)])
    /\ result = << >> \/ (Len(result) = 1 /\ result \in Seq(TreesTo[Len(pushed)]))

LEMMA TypedInit == Init => Typed
<1> SUFFICES ASSUME Init PROVE Typed
    OBVIOUS
<1>1. Len(pushed) = 0 /\ 0 <= MaxLines /\ pushed \in Seq(Lines)
    BY CodecAssumption DEF Init
<1>2. \A S : tree \in Seq(S)
    BY DEF Init
<1> QED
    BY <1>1, <1>2 DEF Init, Typed

LEMMA TypedStep ==
    ASSUME Typed, NEW line \in Lines, Push(line)
    PROVE  Typed'
<1> DEFINE n == Len(pushed)
<1>1. /\ n \in Nat /\ pushed' = Append(pushed, line) /\ Len(pushed') = n + 1
      /\ pushed' \in Seq(Lines) /\ n + 1 <= MaxLines /\ n <= n + 1
    BY CodecAssumption DEF Typed, Push
<1>2. TreesTo[n] \subseteq TreesTo[n + 1]
  <2>1. n + 1 \in Nat
      BY <1>1
  <2> QED
      BY Zenon, <1>1, <2>1, TreesGrow
<1>3. /\ tree \in Seq(TreesTo[n + 1])
      /\ result = << >> \/ (Len(result) = 1 /\ result \in Seq(TreesTo[n + 1]))
    BY Zenon, <1>2, SeqGrows DEF Typed
<1> SUFFICES
        /\ add' \in {"needAsure", "needHyphens", "addDirs", "addFiles", "nothing",
                     "failed", "panic"}
        /\ tree' \in Seq(TreesTo[n + 1])
        /\ result' = << >> \/ (Len(result') = 1 /\ result' \in Seq(TreesTo[n + 1]))
    BY <1>1 DEF Typed
<1>4. CASE needAsure(line) \/ needHyphens(line) \/ endDirs(line) \/ Panic(line) \/ Reject(line)
  <2>1. tree' = tree /\ result' = result
      BY Zenon, <1>4 DEF needAsure, needHyphens, endDirs, Panic, Reject
  <2>2. add' \in {"needHyphens", "addDirs", "addFiles", "panic", "failed"}
      BY Zenon, <1>4 DEF needAsure, needHyphens, endDirs, Panic, Reject
  <2> QED
      BY Zenon, <1>3, <2>1, <2>2
<1>5. CASE addDir(line)
  <2>1. line # << >> /\ Node[line].atts # NoAtts
      BY Zenon, <1>5 DEF addDir, Opens
  <2>2. NewDir(Node[line]) \in TreesTo[n + 1]
      BY Zenon, <1>1, <2>1, NodeIs, NewDirType
  <2>3. tree' = Append(tree, NewDir(Node[line])) /\ add' = add /\ result' = result
      BY Zenon, <1>5 DEF addDir, NewDir
  <2>4. tree' \in Seq(TreesTo[n + 1])
    <3> DEFINE T == TreesTo[n + 1]
               e == NewDir(Node[line])
    <3>1. tree \in Seq(T) /\ e \in T
        BY Zenon, <1>3, <2>2
    <3> HIDE DEF T, e
    <3>2. Append(tree, e) \in Seq(T)
        BY <3>1
    <3> QED
        BY Zenon, <2>3, <3>2 DEF T, e
  <2> QED
      BY Zenon, <1>3, <2>3, <2>4 DEF Typed
<1>6. CASE addFile(line)
  <2>1. line # << >> /\ Node[line].atts # NoAtts /\ tree # << >>
      BY Zenon, <1>6 DEF addFile, IsFile
  <2>2. Node[line] \in FileType
      BY Zenon, <2>1, NodeIs
  <2>3. PICK stk \in Seq(TreesTo[n]), d \in TreesTo[n] :
            tree = Append(stk, d) /\ Front(tree) = stk /\ Last(tree) = d
      BY Zenon, <2>1, OnLast DEF Typed
  <2>4. tree' = Append(stk, WithFile(d, Node[line])) /\ add' = add /\ result' = result
      BY Zenon, <1>6, <2>3 DEF addFile, Parent
  <2>5. WithFile(d, Node[line]) \in TreesTo[n]
      BY Zenon, <1>1, <2>2, WithType
  <2>6. tree' \in Seq(TreesTo[n + 1])
    <3>1. stk \in Seq(TreesTo[n + 1]) /\ WithFile(d, Node[line]) \in TreesTo[n + 1]
        BY Zenon, <1>2, <2>5, SeqGrows
    <3> DEFINE T == TreesTo[n + 1]
               e == WithFile(d, Node[line])
    <3> HIDE DEF T, e
    <3>2. stk \in Seq(T) /\ e \in T
        BY Zenon, <3>1 DEF T, e
    <3>3. Append(stk, e) \in Seq(T)
        BY <3>2
    <3> QED
        BY Zenon, <2>4, <3>3 DEF T, e
  <2> QED
      BY Zenon, <1>3, <2>4, <2>6 DEF Typed
<1>7. CASE up(line)
  <2>1. tree \in Seq(TreesTo[n])
      BY Zenon DEF Typed
  <2>2. CASE \E d \in TreesTo[n] : /\ tree = <<d>>
                                   /\ add' = "nothing" /\ tree' = << >> /\ result' = <<d>>
    <3>1. PICK d \in TreesTo[n] : add' = "nothing" /\ tree' = << >> /\ result' = <<d>>
        BY Zenon, <2>2
    <3>2. d \in TreesTo[n + 1]
        BY Zenon, <1>2
    <3> DEFINE T == TreesTo[n + 1]
    <3> HIDE DEF T
    <3>3. d \in T
        BY Zenon, <3>2 DEF T
    <3>4. << >> \in Seq(T) /\ <<d>> \in Seq(T) /\ Len(<<d>>) = 1
        BY <3>3
    <3> QED
        BY Zenon, <3>1, <3>4 DEF T
  <2>3. CASE \E stk \in Seq(TreesTo[n]), p \in TreesTo[n], d \in TreesTo[n] :
                 /\ tree = Append(Append(stk, p), d)
                 /\ add' = "addDirs" /\ result' = result
                 /\ tree' = Append(stk, WithChild(p, d))
    <3>1. PICK stk \in Seq(TreesTo[n]), p \in TreesTo[n], d \in TreesTo[n] :
                 /\ add' = "addDirs" /\ result' = result
                 /\ tree' = Append(stk, WithChild(p, d))
        BY Zenon, <2>3
    <3>2. WithChild(p, d) \in TreesTo[n + 1]
        BY Zenon, <1>1, WithType
    <3>3. stk \in Seq(TreesTo[n + 1])
        BY Zenon, <1>2, SeqGrows
    <3> HIDE DEF n
    <3> QED
        BY <1>3, <3>1, <3>2, <3>3
  <2> QED
      BY Zenon, <1>7, <2>1, <2>2, <2>3, UpIs
<1> QED
    BY Zenon, <1>4, <1>5, <1>6, <1>7 DEF Push

LEMMA TypedStutter == Typed /\ UNCHANGED vars => Typed'
BY DEF Typed, vars

LEMMA IsTyped == Spec => []Typed
<1>1. Init => Typed
    BY TypedInit
<1>2. Typed /\ [Next]_vars => Typed'
    BY Zenon, TypedStep, TypedStutter DEF Next
<1> QED
    BY <1>1, <1>2, PTL DEF Spec

\* The directories are trees of at most MaxLines levels.
LEMMA TypedDirs ==
    Typed => tree \in Seq(Dirs) /\ (result = << >> \/ (Len(result) = 1 /\ result \in Seq(Dirs)))
<1> SUFFICES ASSUME Typed
             PROVE  tree \in Seq(Dirs) /\ (result = << >> \/ (Len(result) = 1 /\ result \in Seq(Dirs)))
    OBVIOUS
<1>1. Len(pushed) \in Nat /\ MaxLines \in Nat /\ Len(pushed) <= MaxLines
    BY CodecAssumption DEF Typed
<1>2. TreesTo[Len(pushed)] \subseteq Dirs
    BY Zenon, <1>1, TreesGrow DEF Dirs
<1> QED
    BY Zenon, <1>2, SeqGrows DEF Typed

\* Every variable has its type: what the lines build is a tree, of a depth that is
\* bounded by the number of lines.
THEOREM Types == Spec => []TypeOK
<1>1. Typed => TypeOK
    BY Zenon, TypedDirs DEF Typed, TypeOK, Dirs
<1> QED
    BY <1>1, IsTyped, PTL

-----------------------------------------------------------------------------
(***************************************************************************)
(* The lines of what has been read.                                        *)
(***************************************************************************)

LEMMA MapAppend ==
    ASSUME NEW S, NEW T, NEW g, \A y \in S : g[y] \in T, NEW s \in Seq(S), NEW x \in S
    PROVE  /\ [i \in 1..Len(s) |-> g[s[i]]] \in Seq(T)
           /\ [i \in 1..Len(Append(s, x)) |-> g[Append(s, x)[i]]]
                = Append([i \in 1..Len(s) |-> g[s[i]]], g[x])
<1> DEFINE n == Len(s)
           a == Append(s, x)
           u == [i \in 1..Len(a) |-> g[a[i]]]
           v == [i \in 1..n |-> g[s[i]]]
<1>1. n \in Nat /\ Len(a) = n + 1 /\ a \in Seq(S) /\ a[n + 1] = x /\ \A i \in 1..n : a[i] = s[i]
    OBVIOUS
<1>2. \A i \in 1..n : s[i] \in S
    BY ElementOfSeq
<1> HIDE DEF n, a
<1>3. v \in Seq(T) /\ Len(v) = n /\ \A i \in 1..n : v[i] = g[s[i]]
    BY <1>1, <1>2
<1>4. Len(u) = n + 1 /\ \A i \in 1..n + 1 : u[i] = g[a[i]]
    BY <1>1
<1>5. ASSUME NEW i \in 1..n + 1 PROVE g[a[i]] \in T
  <2>1. CASE i = n + 1
      BY <1>1, <2>1
  <2>2. CASE i # n + 1
    <3>1. i \in 1..n
        BY <1>1, <2>2
    <3> QED
        BY <1>1, <1>2, <3>1
  <2> QED
      BY <2>1, <2>2
<1>6. u \in Seq(T)
    BY <1>1, <1>5
<1> HIDE DEF u, v
<1>7. g[x] \in T
    OBVIOUS
<1> DEFINE w == g[x]
<1>8. w \in T
    BY <1>7
<1> HIDE DEF w
<1>9. /\ Append(v, w) \in Seq(T) /\ Len(Append(v, w)) = n + 1
      /\ Append(v, w)[n + 1] = w /\ \A i \in 1..n : Append(v, w)[i] = v[i]
    BY <1>1, <1>3, <1>8
<1>10. ASSUME NEW i \in 1..n + 1 PROVE u[i] = Append(v, w)[i]
  <2>1. CASE i = n + 1
      BY Zenon, <1>1, <1>4, <1>9, <2>1 DEF w
  <2>2. CASE i # n + 1
    <3>1. i \in 1..n
        BY <1>1, <2>2
    <3> QED
        BY <1>1, <1>3, <1>4, <1>9, <3>1
  <2> QED
      BY <2>1, <2>2
<1>11. u = Append(v, w)
    BY <1>4, <1>6, <1>9, <1>10, SeqEqual
<1> QED
    BY Zenon, <1>3, <1>11 DEF u, v, w, n, a

ChildLines(ts) == FlattenSeq([i \in 1..Len(ts) |-> Walk(ts[i])])

Opened(d) == <<outNode("d", d)>> \o ChildLines(d.children)

OpenLines(stk) == FlattenSeq([i \in 1..Len(stk) |-> Opened(stk[i])])

LEMMA NoLines ==
    ChildLines(<< >>) = << >> /\ OpenLines(<< >>) = << >> /\ FileLines(<< >>) = << >>
<1>1. /\ [i \in 1..Len(<< >>) |-> Walk(<< >>[i])] = << >>
      /\ [i \in 1..Len(<< >>) |-> Opened(<< >>[i])] = << >>
      /\ [i \in 1..Len(<< >>) |-> outNode("f", << >>[i])] = << >>
    OBVIOUS
<1> QED
    BY Zenon, <1>1, FlatNone DEF ChildLines, OpenLines, FileLines

LEMMA ChildLinesFacts ==
    ASSUME NEW ts \in Seq(Dirs)
    PROVE  /\ ChildLines(ts) \in Seq(Text)
           /\ \A c \in Dirs : ChildLines(Append(ts, c)) = ChildLines(ts) \o Walk(c)
<1> DEFINE g == outWalk[MaxLines]
           T == Seq(Text)
<1>1. \A y \in Dirs : g[y] \in T
    BY Zenon, WalkIs DEF Walk
<1> HIDE DEF g
<1>2. [i \in 1..Len(ts) |-> g[ts[i]]] \in Seq(T)
  <2>1. \A i \in 1..Len(ts) : g[ts[i]] \in T
      BY <1>1, ElementOfSeq
  <2> HIDE DEF T
  <2> QED
      BY <2>1
<1>3. ChildLines(ts) = FlattenSeq([i \in 1..Len(ts) |-> g[ts[i]]])
    BY Zenon DEF ChildLines, Walk, g
<1>4. ChildLines(ts) \in Seq(Text)
    BY <1>2, <1>3, FlatType
<1>5. ASSUME NEW c \in Dirs PROVE ChildLines(Append(ts, c)) = ChildLines(ts) \o Walk(c)
  <2>1. [i \in 1..Len(Append(ts, c)) |-> g[Append(ts, c)[i]]]
          = Append([i \in 1..Len(ts) |-> g[ts[i]]], g[c])
      BY <1>1, MapAppend
  <2>2. ChildLines(Append(ts, c)) = FlattenSeq(Append([i \in 1..Len(ts) |-> g[ts[i]]], g[c]))
      BY Zenon, <2>1 DEF ChildLines, Walk, g
  <2>3. FlattenSeq(Append([i \in 1..Len(ts) |-> g[ts[i]]], g[c]))
          = FlattenSeq([i \in 1..Len(ts) |-> g[ts[i]]]) \o g[c]
      BY Zenon, <1>1, <1>2, FlatAppend
  <2> QED
      BY Zenon, <1>3, <2>2, <2>3 DEF Walk, g
<1> QED
    BY Zenon, <1>4, <1>5

LEMMA OpenedType ==
    ASSUME NEW d \in Dirs
    PROVE  Opened(d) \in Seq(Text) /\ outNode("d", d) \in Text /\ <<outNode("d", d)>> \in Seq(Text)
<1>1. outNode("d", d) \in Text
    BY Zenon, WalkIs, Signs, ReadsNode DEF Text
<1>2. <<outNode("d", d)>> \in Seq(Text)
    BY <1>1
<1>3. ChildLines(d.children) \in Seq(Text)
    BY Zenon, WalkIs, ChildLinesFacts
<1> QED
    BY Zenon, <1>1, <1>2, <1>3, ConcatProperties DEF Opened

LEMMA OpenLinesFacts ==
    ASSUME NEW stk \in Seq(Dirs)
    PROVE  /\ OpenLines(stk) \in Seq(Text)
           /\ \A d \in Dirs : OpenLines(Append(stk, d)) = OpenLines(stk) \o Opened(d)
<1> DEFINE g == [d \in Dirs |-> Opened(d)]
           T == Seq(Text)
<1>1. \A y \in Dirs : g[y] = Opened(y) /\ g[y] \in T
    BY Zenon, OpenedType
<1> HIDE DEF g
<1>2. ASSUME NEW ss \in Seq(Dirs)
      PROVE  /\ [i \in 1..Len(ss) |-> g[ss[i]]] \in Seq(T)
             /\ OpenLines(ss) = FlattenSeq([i \in 1..Len(ss) |-> g[ss[i]]])
  <2>1. \A i \in 1..Len(ss) : ss[i] \in Dirs
      BY ElementOfSeq
  <2>2. \A i \in 1..Len(ss) : g[ss[i]] = Opened(ss[i]) /\ g[ss[i]] \in T
      BY Zenon, <1>1, <2>1
  <2>3. [i \in 1..Len(ss) |-> g[ss[i]]] = [i \in 1..Len(ss) |-> Opened(ss[i])]
      BY Zenon, <2>2
  <2> HIDE DEF T
  <2>4. [i \in 1..Len(ss) |-> g[ss[i]]] \in Seq(T)
      BY <2>2
  <2> QED
      BY Zenon, <2>3, <2>4 DEF OpenLines
<1>3. OpenLines(stk) \in Seq(Text)
    BY <1>2, FlatType
<1>4. ASSUME NEW d \in Dirs PROVE OpenLines(Append(stk, d)) = OpenLines(stk) \o Opened(d)
  <2>1. [i \in 1..Len(Append(stk, d)) |-> g[Append(stk, d)[i]]]
          = Append([i \in 1..Len(stk) |-> g[stk[i]]], g[d])
      BY <1>1, MapAppend
  <2>2. Append(stk, d) \in Seq(Dirs)
      OBVIOUS
  <2>3. OpenLines(Append(stk, d)) = FlattenSeq(Append([i \in 1..Len(stk) |-> g[stk[i]]], g[d]))
      BY Zenon, <1>2, <2>1, <2>2
  <2>4. FlattenSeq(Append([i \in 1..Len(stk) |-> g[stk[i]]], g[d]))
          = FlattenSeq([i \in 1..Len(stk) |-> g[stk[i]]]) \o g[d]
      BY Zenon, <1>1, <1>2, FlatAppend
  <2> QED
      BY Zenon, <1>1, <1>2, <2>3, <2>4
<1> QED
    BY Zenon, <1>3, <1>4

LEMMA FileLinesAppend ==
    ASSUME NEW files \in Seq(FileType), NEW f \in FileType
    PROVE  /\ outNode("f", f) \in Text
           /\ FileLines(Append(files, f)) = Append(FileLines(files), outNode("f", f))
           /\ FileLines(Append(files, f)) = FileLines(files) \o <<outNode("f", f)>>
<1> DEFINE g == [h \in FileType |-> outNode("f", h)]
<1>1. \A y \in FileType : g[y] = outNode("f", y) /\ g[y] \in Text
    BY Zenon, FileFields, Signs, ReadsNode DEF Text
<1> HIDE DEF g
<1>2. ASSUME NEW ss \in Seq(FileType) PROVE FileLines(ss) = [i \in 1..Len(ss) |-> g[ss[i]]]
  <2>1. \A i \in 1..Len(ss) : ss[i] \in FileType
      BY ElementOfSeq
  <2>2. \A i \in 1..Len(ss) : g[ss[i]] = outNode("f", ss[i])
      BY Zenon, <1>1, <2>1
  <2> QED
      BY Zenon, <2>2 DEF FileLines
<1>3. [i \in 1..Len(Append(files, f)) |-> g[Append(files, f)[i]]]
        = Append([i \in 1..Len(files) |-> g[files[i]]], g[f])
    BY <1>1, MapAppend
<1>4. Append(files, f) \in Seq(FileType)
    OBVIOUS
<1>5. FileLines(Append(files, f)) = Append(FileLines(files), outNode("f", f))
    BY Zenon, <1>1, <1>2, <1>3, <1>4
<1>6. Append(FileLines(files), outNode("f", f)) = FileLines(files) \o <<outNode("f", f)>>
  <2> DEFINE x == FileLines(files)
             y == outNode("f", f)
  <2>1. x \in Seq(Text) /\ y \in Text
      BY Zenon, <1>1, FileLinesType
  <2> HIDE DEF x, y
  <2>2. Append(x, y) = x \o <<y>>
      BY <2>1
  <2> QED
      BY Zenon, <2>2 DEF x, y
<1> QED
    BY Zenon, <1>1, <1>5, <1>6

\* A node is written by its name and its attributes.
LEMMA SameNode ==
    ASSUME NEW op, NEW d, NEW e, d.name = e.name, d.atts = e.atts
    PROVE  outNode(op, d) = outNode(op, e)
BY Zenon DEF outNode

LEMMA OpenedWith ==
    ASSUME NEW d \in Dirs
    PROVE  /\ \A c \in Dirs : Opened(WithChild(d, c)) = Opened(d) \o Walk(c)
           /\ \A f : Opened(WithFile(d, f)) = Opened(d)
           /\ \A c : WithChild(d, c).files = d.files
           /\ \A f : WithFile(d, f).files = Append(d.files, f)
<1>1. IsDir(d)
    BY CodecAssumption, WithType DEF Dirs
<1>2. \A c : /\ WithChild(d, c).name = d.name /\ WithChild(d, c).atts = d.atts
             /\ WithChild(d, c).children = Append(d.children, c)
             /\ WithChild(d, c).files = d.files
    BY <1>1, WithIs
<1>3. \A f : /\ WithFile(d, f).name = d.name /\ WithFile(d, f).atts = d.atts
             /\ WithFile(d, f).children = d.children
             /\ WithFile(d, f).files = Append(d.files, f)
    BY <1>1, WithIs
<1>4. /\ d.children \in Seq(Dirs) /\ ChildLines(d.children) \in Seq(Text)
      /\ <<outNode("d", d)>> \in Seq(Text)
    BY Zenon, WalkIs, ChildLinesFacts, OpenedType
<1>5. ASSUME NEW c \in Dirs PROVE Opened(WithChild(d, c)) = Opened(d) \o Walk(c)
  <2>1. outNode("d", WithChild(d, c)) = outNode("d", d)
      BY Zenon, <1>2, SameNode
  <2>2. ChildLines(WithChild(d, c).children) = ChildLines(d.children) \o Walk(c)
      BY Zenon, <1>2, <1>4, ChildLinesFacts
  <2>3. Opened(WithChild(d, c)) = <<outNode("d", d)>> \o (ChildLines(d.children) \o Walk(c))
      BY Zenon, <2>1, <2>2 DEF Opened
  <2>4. Walk(c) \in Seq(Text)
      BY Zenon, WalkIs
  <2> DEFINE x == <<outNode("d", d)>>
             y == ChildLines(d.children)
             z == Walk(c)
  <2>5. x \in Seq(Text) /\ y \in Seq(Text) /\ z \in Seq(Text)
      BY Zenon, <1>4, <2>4
  <2> HIDE DEF x, y, z
  <2>6. x \o (y \o z) = (x \o y) \o z
      BY <2>5, ConcatAssociative
  <2> QED
      BY Zenon, <2>3, <2>6 DEF x, y, z, Opened
<1>6. ASSUME NEW f PROVE Opened(WithFile(d, f)) = Opened(d)
  <2>1. outNode("d", WithFile(d, f)) = outNode("d", d)
      BY Zenon, <1>3, SameNode
  <2> QED
      BY Zenon, <1>3, <2>1 DEF Opened
<1> QED
    BY Zenon, <1>2, <1>3, <1>5, <1>6

\* The lines of a whole directory.
LEMMA WalkOpened ==
    ASSUME NEW d \in Dirs
    PROVE  Walk(d) = ((Opened(d) \o <<<<"-">>>>) \o FileLines(d.files)) \o <<<<"u">>>>
BY Zenon, WalkIs DEF Opened, ChildLines

-----------------------------------------------------------------------------
(***************************************************************************)
(* What was pushed says what is in the tree.                               *)
(***************************************************************************)

LEMMA TextJoin ==
    ASSUME NEW x \in Seq(Text), NEW y \in Seq(Text)
    PROVE  x \o y \in Seq(Text)
OBVIOUS

LEMMA TextAssoc ==
    ASSUME NEW x \in Seq(Text), NEW y \in Seq(Text), NEW z \in Seq(Text)
    PROVE  x \o (y \o z) = (x \o y) \o z
BY ConcatAssociative

LEMMA TextEmpty ==
    ASSUME NEW x \in Seq(Text) PROVE x \o << >> = x
OBVIOUS

Says(e, p) == Len(e) = Len(p) /\ \A i \in 1..Len(e) : SameSense(e[i], p[i])

LEMMA SaysMore ==
    ASSUME NEW e \in Seq(Text), NEW S, NEW p \in Seq(S), Says(e, p),
           NEW l \in Text, NEW q \in S, SameSense(l, q)
    PROVE  Says(e \o <<l>>, Append(p, q))
<1> DEFINE n == Len(e)
           e2 == e \o <<l>>
           p2 == Append(p, q)
<1>1. n \in Nat /\ Len(p) = n /\ \A i \in 1..n : SameSense(e[i], p[i])
    BY DEF Says
<1>2. Len(e2) = n + 1 /\ e2[n + 1] = l /\ \A i \in 1..n : e2[i] = e[i]
    OBVIOUS
<1>3. Len(p2) = n + 1 /\ p2[n + 1] = q /\ \A i \in 1..n : p2[i] = p[i]
    BY <1>1
<1> HIDE DEF n, e2, p2
<1>4. ASSUME NEW i \in 1..n + 1 PROVE SameSense(e2[i], p2[i])
  <2>1. CASE i = n + 1
      BY Zenon, <1>2, <1>3, <2>1
  <2>2. CASE i # n + 1
    <3>1. i \in 1..n
        BY <1>1, <2>2
    <3>2. SameSense(e[i], p[i]) /\ e2[i] = e[i] /\ p2[i] = p[i]
        BY Zenon, <1>1, <1>2, <1>3, <3>1
    <3> QED
        BY Zenon, <3>2
  <2> QED
      BY <2>1, <2>2
<1>5. Says(e2, p2)
    BY Zenon, <1>2, <1>3, <1>4 DEF Says
<1> QED
    BY Zenon, <1>5 DEF e2, p2

LEMMA HeaderType ==
    /\ Header \in Seq(Text) /\ Header = <<Header[1], Header[2]>>
    /\ <<Header[1]>> \in Seq(Text) /\ <<Header[1]>> \o <<Header[2]>> = Header
    /\ Header[1] \in Text /\ Header[2] \in Text
<1>1. "asure-2.0" \in Symbols /\ "-" \in Symbols /\ "----" \in Symbols
  <2>1. "asure-2.0" \in Words /\ "-" \in Words /\ "----" \in Words
      BY DEF Words
  <2> QED
      BY Zenon, <2>1, SymbolFacts
<1>2. <<"asure-2.0">> \in Text /\ <<"-", "----">> \in Text
    BY <1>1 DEF Text
<1>3. Header[1] = <<"asure-2.0">> /\ Header[2] = <<"-", "----">>
      /\ Header = <<Header[1], Header[2]>>
    BY DEF Header
<1> DEFINE a == Header[1]
           b == Header[2]
<1>4. a \in Text /\ b \in Text /\ Header = <<a, b>>
    BY Zenon, <1>2, <1>3
<1> HIDE DEF a, b
<1>5. <<a, b>> \in Seq(Text) /\ <<a>> \in Seq(Text) /\ <<b>> \in Seq(Text)
    BY <1>4
<1>6. Append(<<a>>, b) = <<a, b>>
  <2> DEFINE p == Append(<<a>>, b)
             q == <<a, b>>
  <2>1. p \in Seq(Text) /\ Len(p) = 2 /\ p[1] = a /\ p[2] = b
      BY <1>4, <1>5
  <2>2. q \in Seq(Text) /\ Len(q) = 2 /\ q[1] = a /\ q[2] = b
      BY <1>4
  <2> HIDE DEF p, q
  <2>3. \A i \in 1..Len(p) : p[i] = q[i]
      BY <2>1, <2>2
  <2> QED
      BY <2>1, <2>2, <2>3, SeqEqual DEF p, q
<1>7. Append(<<a>>, b) = <<a>> \o <<b>>
    BY <1>4, <1>5, AppendIsConcat
<1> QED
    BY Zenon, <1>4, <1>5, <1>6, <1>7 DEF a, b

\* The lines of the directories that are open, and of a directory that has
\* come to its files.
OpenText(stk) == Header \o OpenLines(stk)

FilesText(stk) == (OpenText(stk) \o <<<<"-">>>>) \o FileLines(Last(stk).files)

NoFilesTo(stk, n) == \A j \in 1..n : stk[j].files = << >>

Written ==
    /\ add = "needAsure"   => pushed = << >> /\ tree = << >> /\ result = << >>
    /\ add = "needHyphens" => Says(<<Header[1]>>, pushed) /\ tree = << >> /\ result = << >>
    /\ add = "addDirs"     => /\ result = << >> /\ NoFilesTo(tree, Len(tree))
                              /\ Says(OpenText(tree), pushed)
    /\ add = "addFiles"    => /\ result = << >>
                              /\ tree # << >> => /\ NoFilesTo(tree, Len(tree) - 1)
                                                 /\ Says(FilesText(tree), pushed)
    /\ add = "nothing"     => Says(Encode(result[1]), pushed)
    /\ add = "panic"       => result = << >>

LEMMA WrittenInit == Init => Written
BY DEF Init, Written

LEMMA OpenTextType ==
    ASSUME NEW stk \in Seq(Dirs) PROVE OpenText(stk) \in Seq(Text)
BY Zenon, OpenLinesFacts, HeaderType, ConcatProperties DEF OpenText

LEMMA OpenTextAppend ==
    ASSUME NEW stk \in Seq(Dirs), NEW d \in Dirs
    PROVE  OpenText(Append(stk, d)) = OpenText(stk) \o Opened(d)
<1> DEFINE x == Header
           y == OpenLines(stk)
           z == Opened(d)
<1>1. x \in Seq(Text) /\ y \in Seq(Text) /\ z \in Seq(Text)
    BY Zenon, HeaderType, OpenLinesFacts, OpenedType
<1>2. OpenLines(Append(stk, d)) = y \o z
    BY Zenon, OpenLinesFacts
<1> HIDE DEF x, y, z
<1>3. x \o (y \o z) = (x \o y) \o z
    BY Zenon, <1>1, TextAssoc
<1> QED
    BY Zenon, <1>2, <1>3 DEF OpenText, x, y, z

LEMMA FilesTextIs ==
    ASSUME NEW stk \in Seq(Dirs), NEW d \in Dirs
    PROVE  /\ FilesText(Append(stk, d))
                = ((OpenText(stk) \o Opened(d)) \o <<<<"-">>>>) \o FileLines(d.files)
           /\ FilesText(Append(stk, d)) \in Seq(Text)
<1>1. Last(Append(stk, d)) = d
    BY FrontLast
<1>2. FilesText(Append(stk, d))
                = ((OpenText(stk) \o Opened(d)) \o <<<<"-">>>>) \o FileLines(d.files)
    BY Zenon, <1>1, OpenTextAppend DEF FilesText
<1> DEFINE x == OpenText(stk)
           y == Opened(d)
           m == <<<<"-">>>>
           z == FileLines(d.files)
<1>3. m \in Seq(Text)
    BY Signs DEF Text
<1>4. x \in Seq(Text) /\ y \in Seq(Text) /\ z \in Seq(Text)
    BY Zenon, OpenTextType, OpenedType, WalkIs, FileLinesType
<1> HIDE DEF x, y, z, m
<1>5. ((x \o y) \o m) \o z \in Seq(Text)
    BY Zenon, <1>3, <1>4, TextJoin
<1> QED
    BY Zenon, <1>2, <1>5 DEF x, y, z, m

\* A directory that ends is written after the directories around it.
LEMMA EndOfDir ==
    ASSUME NEW stk \in Seq(Dirs), NEW d \in Dirs
    PROVE  FilesText(Append(stk, d)) \o <<<<"u">>>> = OpenText(stk) \o Walk(d)
<1> DEFINE x == OpenText(stk)
           y == Opened(d)
           m == <<<<"-">>>>
           z == FileLines(d.files)
           u == <<<<"u">>>>
<1>1. m \in Seq(Text) /\ u \in Seq(Text)
    BY Signs DEF Text
<1>2. x \in Seq(Text) /\ y \in Seq(Text) /\ z \in Seq(Text)
    BY Zenon, OpenTextType, OpenedType, WalkIs, FileLinesType
<1>3. FilesText(Append(stk, d)) = ((x \o y) \o m) \o z
    BY Zenon, FilesTextIs
<1>4. Walk(d) = ((y \o m) \o z) \o u
    BY Zenon, WalkOpened
<1> HIDE DEF x, y, z, m, u
<1> DEFINE p == y \o m
           q == p \o z
<1>5. p \in Seq(Text)
    BY Zenon, <1>1, <1>2, TextJoin
<1>6. q \in Seq(Text)
    BY Zenon, <1>2, <1>5, TextJoin
<1>7. x \in Seq(Text)
    BY <1>2
<1>8. x \o p = (x \o y) \o m
    BY Zenon, <1>1, <1>2, TextAssoc
<1> HIDE DEF p
<1>9. x \o q = (x \o p) \o z
    BY Zenon, <1>2, <1>5, TextAssoc
<1>10. u \in Seq(Text)
    BY <1>1
<1> HIDE DEF q
<1>11. x \o (q \o u) = (x \o q) \o u
    BY Zenon, <1>6, <1>7, <1>10, TextAssoc
<1> QED
    BY Zenon, <1>3, <1>4, <1>8, <1>9, <1>11 DEF p, q, x, u

LEMMA EndOfChild ==
    ASSUME NEW stk \in Seq(Dirs), NEW p \in Dirs, NEW d \in Dirs, WithChild(p, d) \in Dirs
    PROVE  OpenText(Append(stk, p)) \o Walk(d) = OpenText(Append(stk, WithChild(p, d)))
<1> DEFINE x == OpenText(stk)
           y == Opened(p)
           z == Walk(d)
<1>1. x \in Seq(Text) /\ y \in Seq(Text) /\ z \in Seq(Text)
    BY Zenon, OpenTextType, OpenedType, WalkIs
<1>2. OpenText(Append(stk, p)) = x \o y
    BY Zenon, OpenTextAppend
<1>3. OpenText(Append(stk, WithChild(p, d))) = x \o (y \o z)
    BY Zenon, OpenTextAppend, OpenedWith
<1> HIDE DEF x, y, z
<1>4. x \o (y \o z) = (x \o y) \o z
    BY Zenon, <1>1, TextAssoc
<1> QED
    BY Zenon, <1>2, <1>3, <1>4 DEF z

LEMMA TypedDirsNext == Typed' => tree' \in Seq(Dirs)
<1> SUFFICES ASSUME Typed' PROVE tree' \in Seq(Dirs)
    OBVIOUS
<1>1. Len(pushed') \in Nat /\ MaxLines \in Nat /\ Len(pushed') <= MaxLines
    BY CodecAssumption DEF Typed
<1>2. TreesTo[Len(pushed')] \subseteq Dirs
    BY Zenon, <1>1, TreesGrow DEF Dirs
<1> QED
    BY Zenon, <1>2, SeqGrows DEF Typed

LEMMA WrittenStep ==
    ASSUME Typed, Written, NEW line \in Lines, Push(line)
    PROVE  Written'
<1>1. /\ pushed \in Seq(Lines) /\ pushed' = Append(pushed, line)
      /\ tree \in Seq(Dirs) /\ (result = << >> \/ (Len(result) = 1 /\ result \in Seq(Dirs)))
      /\ tree' \in Seq(Dirs)
  <2>1. tree \in Seq(Dirs) /\ (result = << >> \/ (Len(result) = 1 /\ result \in Seq(Dirs)))
      BY Zenon, TypedDirs
  <2>2. tree' \in Seq(Dirs)
      BY Zenon, TypedStep, TypedDirsNext
  <2> QED
      BY Zenon, <2>1, <2>2 DEF Typed, Push
<1>2. /\ "needAsure" # "needHyphens" /\ "needAsure" # "addDirs" /\ "needAsure" # "addFiles"
      /\ "needAsure" # "nothing" /\ "needAsure" # "panic" /\ "needAsure" # "failed"
    OBVIOUS
<1>3. CASE needAsure(line)
  <2>1. add' = "needHyphens" /\ tree' = tree /\ result' = result /\ line = Header[1]
        /\ pushed = << >> /\ tree = << >> /\ result = << >>
      BY <1>3 DEF needAsure, Written
  <2>2. Says(<<Header[1]>>, <<line>>)
      BY <2>1 DEF Says, SameSense
  <2>3. Says(<<Header[1]>>, pushed')
      BY <1>1, <2>1, <2>2
  <2> QED
      BY <2>1, <2>3 DEF Written
<1>4. CASE needHyphens(line)
  <2>1. add' = "addDirs" /\ tree' = tree /\ result' = result /\ line = Header[2]
        /\ Says(<<Header[1]>>, pushed) /\ tree = << >> /\ result = << >>
      BY <1>4 DEF needHyphens, Written
  <2>2. SameSense(Header[2], line)
      BY <2>1 DEF SameSense
  <2>3. Says(<<Header[1]>> \o <<Header[2]>>, pushed')
      BY Zenon, <1>1, <2>1, <2>2, HeaderType, SaysMore
  <2>4. OpenText(tree') = Header
      BY Zenon, <2>1, NoLines, HeaderType, TextEmpty DEF OpenText
  <2>5. Says(OpenText(tree'), pushed')
      BY Zenon, <2>3, <2>4, HeaderType
  <2>6. NoFilesTo(tree', Len(tree'))
      BY <2>1 DEF NoFilesTo
  <2> QED
      BY <2>1, <2>5, <2>6 DEF Written
<1>5. CASE addDir(line)
  <2> DEFINE d == NewDir(Node[line])
  <2>1. /\ add' = "addDirs" /\ tree' = Append(tree, d) /\ result' = result
        /\ line # << >> /\ line[1] = "d" /\ Node[line].atts # NoAtts
        /\ result = << >> /\ NoFilesTo(tree, Len(tree)) /\ Says(OpenText(tree), pushed)
      BY Zenon, <1>5 DEF addDir, Opens, NewDir, Written
  <2>2. /\ Node[line] = parseNameAtts(line) /\ Node[line].name \in Seq(Symbols)
        /\ Node[line].atts \in Atts
        /\ Node[line] = [name |-> Node[line].name, atts |-> Node[line].atts]
      BY Zenon, <2>1, NodeIs
  <2>3. /\ d.name = Node[line].name /\ d.atts = Node[line].atts
        /\ d.children = << >> /\ d.files = << >>
      BY DEF NewDir
  <2> HIDE DEF d
  <2>4. d \in Dirs
    <3>1. tree' # << >> /\ Len(tree') = Len(tree) + 1 /\ tree'[Len(tree) + 1] = d
          /\ Len(tree) + 1 \in 1..Len(tree')
        BY <1>1, <2>1
    <3> QED
        BY <1>1, <3>1, ElementOfSeq
  <2>5. SameSense(outNode("d", d), line)
    <3>1. /\ outNode("d", d) # << >> /\ outNode("d", d)[1] = "d"
          /\ parseNameAtts(outNode("d", d)) = [name |-> d.name, atts |-> d.atts]
        BY Zenon, <2>2, <2>3, Signs, ReadsNode
    <3> QED
        BY Zenon, <2>1, <2>2, <2>3, <3>1 DEF SameSense
  <2>6. OpenText(tree') = OpenText(tree) \o <<outNode("d", d)>>
    <3>1. <<outNode("d", d)>> \o << >> = <<outNode("d", d)>>
        BY OpenedType, <2>4, ConcatEmptySeq
    <3>2. Opened(d) = <<outNode("d", d)>>
        BY Zenon, <2>3, <3>1, NoLines DEF Opened
    <3> QED
        BY Zenon, <1>1, <2>1, <2>4, <3>2, OpenTextAppend
  <2>7. Says(OpenText(tree'), pushed')
      BY Zenon, <1>1, <2>1, <2>4, <2>5, <2>6, OpenedType, OpenTextType, SaysMore
  <2>8. NoFilesTo(tree', Len(tree'))
      BY <1>1, <2>1, <2>3 DEF NoFilesTo
  <2> QED
      BY <2>1, <2>7, <2>8 DEF Written
<1>6. CASE endDirs(line)
  <2>1. /\ add' = "addFiles" /\ tree' = tree /\ result' = result
        /\ line # << >> /\ line[1] = "-"
        /\ result = << >> /\ NoFilesTo(tree, Len(tree)) /\ Says(OpenText(tree), pushed)
      BY Zenon, <1>6 DEF endDirs, EndsDirs, Written
  <2>2. ASSUME tree # << >>
        PROVE  NoFilesTo(tree, Len(tree) - 1) /\ Says(FilesText(tree), pushed')
    <3>1. PICK stk \in Seq(Dirs), d \in Dirs :
              tree = Append(stk, d) /\ Len(tree) = Len(stk) + 1 /\ Len(stk) \in Nat
        BY Zenon, <1>1, <2>2, OnLast
    <3>2. NoFilesTo(tree, Len(tree) - 1) /\ tree[Len(tree)] = d /\ d.files = << >>
        BY <1>1, <2>1, <3>1 DEF NoFilesTo
    <3>3. SameSense(<<"-">>, line)
      <4>1. <<"-">> # << >> /\ <<"-">>[1] = "-" /\ "-" \notin {"d", "f"}
          OBVIOUS
      <4> QED
          BY Zenon, <2>1, <4>1 DEF SameSense
    <3>4. Says(OpenText(tree) \o <<<<"-">>>>, pushed')
      <4>1. <<"-">> \in Text
          BY Signs DEF Text
      <4> QED
          BY Zenon, <1>1, <2>1, <3>3, <4>1, OpenTextType, SaysMore
    <3>5. FilesText(tree) = OpenText(tree) \o <<<<"-">>>>
      <4>1. FilesText(tree) = (OpenText(tree) \o <<<<"-">>>>) \o << >>
        <5>1. Last(tree) = d
            BY <3>1, FrontLast
        <5> QED
            BY Zenon, <3>2, <5>1, NoLines DEF FilesText
      <4> DEFINE x == OpenText(tree)
                 m == <<<<"-">>>>
      <4>2. m \in Seq(Text)
          BY Signs DEF Text
      <4>3. x \in Seq(Text)
          BY Zenon, <1>1, OpenTextType
      <4> HIDE DEF x, m
      <4>4. (x \o m) \o << >> = x \o m
          BY <4>2, <4>3
      <4> QED
          BY Zenon, <4>1, <4>4 DEF x, m
    <3> QED
        BY Zenon, <3>2, <3>4, <3>5
  <2>3. tree' # << >> => NoFilesTo(tree', Len(tree') - 1) /\ Says(FilesText(tree'), pushed')
      BY Zenon, <2>1, <2>2
  <2> QED
      BY <2>1, <2>3 DEF Written
<1>7. CASE addFile(line)
  <2> DEFINE f == Node[line]
  <2>1. /\ add' = "addFiles" /\ tree' = Append(Front(tree), WithFile(Last(tree), f))
        /\ result' = result /\ tree # << >>
        /\ line # << >> /\ line[1] = "f" /\ Node[line].atts # NoAtts
        /\ result = << >> /\ NoFilesTo(tree, Len(tree) - 1) /\ Says(FilesText(tree), pushed)
      BY Zenon, <1>7 DEF addFile, IsFile, Parent, Written
  <2>2. /\ f = parseNameAtts(line) /\ f.name \in Seq(Symbols) /\ f.atts \in Atts
        /\ f = [name |-> f.name, atts |-> f.atts] /\ f \in FileType
      BY Zenon, <2>1, NodeIs
  <2> HIDE DEF f
  <2>3. PICK stk \in Seq(Dirs), d \in Dirs :
            /\ tree = Append(stk, d) /\ Front(tree) = stk /\ Last(tree) = d
            /\ Len(tree) = Len(stk) + 1 /\ Len(stk) \in Nat
      BY Zenon, <1>1, <2>1, OnLast
  <2> DEFINE e == WithFile(d, f)
  <2>4. tree' = Append(stk, e)
      BY Zenon, <2>1, <2>3
  <2>5. e \in Dirs /\ Opened(e) = Opened(d) /\ e.files = Append(d.files, f)
    <3>1. WithFile(d, f) \in Dirs
        BY CodecAssumption, <2>2, WithType DEF Dirs
    <3> QED
        BY Zenon, <3>1, OpenedWith
  <2> HIDE DEF e
  <2>6. SameSense(outNode("f", f), line)
    <3>1. /\ outNode("f", f) # << >> /\ outNode("f", f)[1] = "f"
          /\ parseNameAtts(outNode("f", f)) = [name |-> f.name, atts |-> f.atts]
        BY Zenon, <2>2, Signs, ReadsNode
    <3> QED
        BY Zenon, <2>1, <2>2, <3>1 DEF SameSense
  <2>7. FilesText(tree') = FilesText(tree) \o <<outNode("f", f)>>
    <3> DEFINE x == (OpenText(stk) \o Opened(d)) \o <<<<"-">>>>
               y == FileLines(d.files)
               z == <<outNode("f", f)>>
    <3>1. FilesText(tree) = x \o y
        BY Zenon, <2>3, FilesTextIs
    <3>2. FileLines(e.files) = y \o z /\ outNode("f", f) \in Text
        BY Zenon, <2>2, <2>5, WalkIs, FileLinesAppend
    <3>3. FilesText(tree') = x \o (y \o z)
        BY Zenon, <2>4, <2>5, <3>2, FilesTextIs
    <3>4. y \in Seq(Text) /\ OpenText(stk) \in Seq(Text) /\ Opened(d) \in Seq(Text)
        BY Zenon, WalkIs, FileLinesType, OpenTextType, OpenedType
    <3>5. <<<<"-">>>> \in Seq(Text) /\ z \in Seq(Text)
        BY <3>2, Signs DEF Text
    <3>6. x \in Seq(Text)
        BY Zenon, <3>4, <3>5, TextJoin
    <3> HIDE DEF x, y, z
    <3>7. x \o (y \o z) = (x \o y) \o z
        BY Zenon, <3>4, <3>5, <3>6, TextAssoc
    <3> QED
        BY Zenon, <3>1, <3>3, <3>7 DEF z
  <2>8. Says(FilesText(tree'), pushed')
    <3>1. FilesText(tree) \in Seq(Text) /\ outNode("f", f) \in Text
        BY Zenon, <2>2, <2>3, WalkIs, FilesTextIs, FileLinesAppend
    <3> QED
        BY Zenon, <1>1, <2>1, <2>6, <2>7, <3>1, SaysMore
  <2>9. NoFilesTo(tree', Len(tree') - 1)
    <3>1. \A j \in 1..Len(stk) : tree[j] = stk[j] /\ tree'[j] = stk[j]
        BY <2>3, <2>4
    <3>2. Len(tree') - 1 = Len(stk) /\ Len(tree) - 1 = Len(stk)
        BY <2>3, <2>4
    <3> QED
        BY Zenon, <2>1, <3>1, <3>2 DEF NoFilesTo
  <2> QED
      BY <2>1, <2>8, <2>9 DEF Written
<1>8. CASE up(line)
  <2>1. /\ add = "addFiles" /\ line # << >> /\ line[1] = "u" /\ tree # << >>
        /\ result = << >> /\ NoFilesTo(tree, Len(tree) - 1) /\ Says(FilesText(tree), pushed)
      BY Zenon, <1>8 DEF up, IsUp, Written
  <2>2. PICK front \in Seq(Dirs), last \in Dirs : tree = Append(front, last)
      BY Zenon, <1>1, <2>1, OnLast
  <2>3. Says(FilesText(tree) \o <<<<"u">>>>, pushed')
    <3>1. SameSense(<<"u">>, line)
      <4>1. <<"u">> # << >> /\ <<"u">>[1] = "u" /\ "u" \notin {"d", "f"}
          OBVIOUS
      <4> QED
          BY Zenon, <2>1, <4>1 DEF SameSense
    <3>2. <<"u">> \in Text
        BY Signs DEF Text
    <3>3. FilesText(tree) \in Seq(Text)
        BY Zenon, <2>2, FilesTextIs
    <3> QED
        BY Zenon, <1>1, <2>1, <3>1, <3>2, <3>3, SaysMore
  <2>4. CASE \E d \in Dirs : /\ tree = <<d>>
                             /\ add' = "nothing" /\ tree' = << >> /\ result' = <<d>>
    <3>1. PICK d \in Dirs : tree = <<d>> /\ add' = "nothing" /\ tree' = << >> /\ result' = <<d>>
        BY Zenon, <2>4
    <3>2. << >> \in Seq(Dirs) /\ tree = Append(<< >>, d) /\ result'[1] = d
        BY <3>1
    <3>3. OpenText(<< >>) = Header
        BY Zenon, NoLines, HeaderType, TextEmpty DEF OpenText
    <3>4. FilesText(tree) \o <<<<"u">>>> = Encode(d)
        BY Zenon, <3>2, <3>3, EndOfDir DEF Encode, Walk
    <3>5. Says(Encode(result'[1]), pushed')
        BY Zenon, <2>3, <3>2, <3>4
    <3> QED
        BY <3>1, <3>5 DEF Written
  <2>5. CASE \E stk \in Seq(Dirs), p \in Dirs, d \in Dirs :
                 /\ tree = Append(Append(stk, p), d)
                 /\ add' = "addDirs" /\ result' = result
                 /\ tree' = Append(stk, WithChild(p, d))
    <3>1. PICK stk \in Seq(Dirs), p \in Dirs, d \in Dirs :
                 /\ tree = Append(Append(stk, p), d)
                 /\ add' = "addDirs" /\ result' = result
                 /\ tree' = Append(stk, WithChild(p, d))
        BY Zenon, <2>5
    <3>2. WithChild(p, d) \in Dirs
      <4>1. Len(tree') = Len(stk) + 1 /\ Len(tree') \in 1..Len(tree')
            /\ tree'[Len(tree')] = WithChild(p, d)
          BY <3>1
      <4> QED
          BY <1>1, <4>1, ElementOfSeq
    <3>3. FilesText(tree) \o <<<<"u">>>> = OpenText(tree')
      <4>1. Append(stk, p) \in Seq(Dirs)
          BY FrontLast
      <4>2. FilesText(tree) \o <<<<"u">>>> = OpenText(Append(stk, p)) \o Walk(d)
          BY Zenon, <3>1, <4>1, EndOfDir
      <4> QED
          BY Zenon, <3>1, <3>2, <4>2, EndOfChild
    <3>4. NoFilesTo(tree', Len(tree'))
      <4>1. WithChild(p, d).files = p.files
          BY Zenon, OpenedWith
      <4>2. /\ Len(tree) - 1 = Len(stk) + 1 /\ Len(tree') = Len(stk) + 1 /\ Len(stk) \in Nat
            /\ tree[Len(stk) + 1] = p /\ tree'[Len(stk) + 1] = WithChild(p, d)
            /\ \A j \in 1..Len(stk) : tree[j] = stk[j] /\ tree'[j] = stk[j]
          BY <3>1
      <4>3. ASSUME NEW j \in 1..Len(stk) + 1 PROVE tree'[j].files = << >>
        <5>1. tree[j].files = << >>
            BY Zenon, <2>1, <4>2 DEF NoFilesTo
        <5>2. j \in 1..Len(stk) \/ j = Len(stk) + 1
            BY <4>2
        <5> QED
            BY Zenon, <4>1, <4>2, <5>1, <5>2
      <4> QED
          BY Zenon, <4>2, <4>3 DEF NoFilesTo
    <3>5. Says(OpenText(tree'), pushed')
        BY Zenon, <2>3, <3>3
    <3> QED
        BY <2>1, <3>1, <3>4, <3>5 DEF Written
  <2> QED
      BY Zenon, <1>1, <1>8, <2>4, <2>5, UpIs
<1>9. CASE Panic(line)
  <2>1. add' = "panic" /\ result' = << >>
      BY <1>9 DEF Panic, Written
  <2> QED
      BY <2>1 DEF Written
<1>10. CASE Reject(line)
  <2>1. add' = "failed"
      BY <1>10 DEF Reject
  <2> QED
      BY <2>1 DEF Written
<1> QED
    BY Zenon, <1>3, <1>4, <1>5, <1>6, <1>7, <1>8, <1>9, <1>10 DEF Push

LEMMA IsWritten == Spec => []Written
<1>1. Init => Written
    BY WrittenInit
<1>2. Typed /\ Written /\ [Next]_vars => Written'
  <2>1. Written /\ UNCHANGED vars => Written'
      BY Zenon DEF vars, Written
  <2> QED
      BY Zenon, <2>1, WrittenStep DEF Next
<1> QED
    BY <1>1, <1>2, IsTyped, PTL DEF Spec

\* Whatever lines were pushed, the encoding of the tree that comes of them says
\* the same, line by line.
THEOREM NothingIsAdded == Spec => []NothingElse
<1>1. ASSUME Typed, Written PROVE NothingElse
  <2> SUFFICES ASSUME Complete
               PROVE  /\ Len(Encode(result[1])) = Len(pushed)
                      /\ \A i \in 1..Len(Encode(result[1])) :
                             SameSense(Encode(result[1])[i], pushed[i])
      BY Zenon DEF NothingElse
  <2>1. add = "nothing"
    <3>1. add # "failed" /\ result # << >> /\ tree = << >>
        BY Zenon DEF Complete
    <3> QED
        BY <1>1, <3>1 DEF Typed, Written
  <2>2. Says(Encode(result[1]), pushed)
      BY <1>1, <2>1 DEF Written
  <2> QED
      BY Zenon, <2>2 DEF Says
<1> QED
    BY <1>1, IsTyped, IsWritten, PTL

-----------------------------------------------------------------------------
(***************************************************************************)
(* What an encoding leads to.                                              *)
(***************************************************************************)

LEMMA SeqInduction ==
    ASSUME NEW S, NEW P, << >> \in P,
           \A s \in Seq(S) : \A x \in S : s \in P => Append(s, x) \in P
    PROVE  Seq(S) \subseteq P
<1> DEFINE T == {n \in Nat : \A s \in Seq(S) : Len(s) = n => s \in P}
<1>1. 0 \in T
  <2>1. \A s \in Seq(S) : Len(s) = 0 => s = << >>
      OBVIOUS
  <2> QED
      BY Zenon, <2>1
<1>2. ASSUME NEW n \in Nat, n \in T PROVE n + 1 \in T
  <2>1. n + 1 \in Nat
      OBVIOUS
  <2>2. ASSUME NEW s \in Seq(S), Len(s) = n + 1 PROVE s \in P
    <3>1. s # << >>
        BY <2>2
    <3>2. PICK q \in Seq(S), x \in S : s = Append(q, x)
        BY Zenon, <2>2, <3>1, SequenceEmptyOrAppend
    <3>3. Len(q) = n
        BY <2>2, <3>2
    <3> QED
        BY Zenon, <1>2, <3>2, <3>3
  <2> QED
      BY Zenon, <2>1, <2>2
<1> HIDE DEF T
<1>3. Nat \subseteq T
    BY <1>1, <1>2, SetInduction
<1>4. \A s \in Seq(S) : Len(s) \in Nat
    OBVIOUS
<1> QED
    BY Zenon, <1>3, <1>4 DEF T

Open(a, stk) == [add |-> a, tree |-> stk, result |-> << >>]

Done(t) == [add |-> "nothing", tree |-> << >>, result |-> <<t>>]

\* A line of an encoding, and the states before and after it.
Leads(a, line, b) ==
    \/ a = Open("needAsure", << >>) /\ line = Header[1] /\ b = Open("needHyphens", << >>)
    \/ a = Open("needHyphens", << >>) /\ line = Header[2] /\ b = Open("addDirs", << >>)
    \/ \E S : \E stk \in Seq(S), d \in FileType :
           /\ a = Open("addDirs", stk) /\ line = outNode("d", d)
           /\ b = Open("addDirs", Append(stk, NewDir(d)))
    \/ \E S : \E stk \in Seq(S) :
           a = Open("addDirs", stk) /\ line = <<"-">> /\ b = Open("addFiles", stk)
    \/ \E S : \E stk \in Seq(S), d \in S, f \in FileType :
           /\ a = Open("addFiles", Append(stk, d)) /\ line = outNode("f", f)
           /\ b = Open("addFiles", Append(stk, WithFile(d, f)))
    \/ \E S : \E stk \in Seq(S), p \in S, d \in S :
           /\ a = Open("addFiles", Append(Append(stk, p), d)) /\ line = <<"u">>
           /\ b = Open("addDirs", Append(stk, WithChild(p, d)))
    \/ \E d : a = Open("addFiles", <<d>>) /\ line = <<"u">> /\ b = Done(d)

IsRun(f, a, lines, b) ==
    /\ f[0] = a /\ f[Len(lines)] = b
    /\ \A i \in 1..Len(lines) : Leads(f[i - 1], lines[i], f[i])

Reads(a, lines, b) == \E f : IsRun(f, a, lines, b)

LEMMA ReadsNone == ASSUME NEW a PROVE Reads(a, << >>, a)
<1> DEFINE f == [i \in {0} |-> a]
<1>1. f[0] = a /\ Len(<< >>) = 0 /\ \A i \in 1..Len(<< >>) : FALSE
    OBVIOUS
<1> HIDE DEF f
<1>2. IsRun(f, a, << >>, a)
    BY Zenon, <1>1 DEF IsRun
<1> QED
    BY Zenon, <1>2 DEF Reads

LEMMA ReadsOne ==
    ASSUME NEW a, NEW line, NEW b, Leads(a, line, b)
    PROVE  Reads(a, <<line>>, b)
<1> DEFINE f == [i \in 0..1 |-> IF i = 0 THEN a ELSE b]
           q == <<line>>
<1>1. f[0] = a /\ f[1] = b /\ Len(q) = 1 /\ q[1] = line /\ 1 - 1 = 0 /\ 1..1 = {1}
    OBVIOUS
<1> HIDE DEF f, q
<1>2. \A i \in 1..Len(q) : i = 1
    BY <1>1
<1>3. \A i \in 1..Len(q) : Leads(f[i - 1], q[i], f[i])
    BY Zenon, <1>1, <1>2
<1>4. IsRun(f, a, q, b)
    BY Zenon, <1>1, <1>3 DEF IsRun
<1> QED
    BY Zenon, <1>4 DEF Reads, q

LEMMA ReadsThen ==
    ASSUME NEW x \in Seq(Text), NEW y \in Seq(Text), NEW a, NEW b, NEW c,
           Reads(a, x, b), Reads(b, y, c)
    PROVE  Reads(a, x \o y, c)
<1>1. PICK f : IsRun(f, a, x, b)
    BY Zenon DEF Reads
<1>2. PICK g : IsRun(g, b, y, c)
    BY Zenon DEF Reads
<1> DEFINE m == Len(x)
           n == Len(y)
           z == x \o y
           h == [i \in 0..m + n |-> IF i <= m THEN f[i] ELSE g[i - m]]
<1>3. /\ m \in Nat /\ n \in Nat /\ Len(z) = m + n
      /\ \A i \in 1..m : z[i] = x[i]
      /\ \A i \in 1..n : z[m + i] = y[i]
    OBVIOUS
<1>4. /\ f[0] = a /\ f[m] = b /\ \A i \in 1..m : Leads(f[i - 1], x[i], f[i])
      /\ g[0] = b /\ g[n] = c /\ \A i \in 1..n : Leads(g[i - 1], y[i], g[i])
    BY Zenon, <1>1, <1>2 DEF IsRun
<1> HIDE DEF m, n, z
<1>5. \A i \in 0..m : h[i] = f[i]
    BY <1>3
<1>6. \A l \in 0..m + n : \A k : ~ (l <= m) /\ l - m = k => h[l] = g[k]
    OBVIOUS
<1> HIDE DEF h
<1>7. ASSUME NEW i \in 1..Len(z) PROVE Leads(h[i - 1], z[i], h[i])
  <2>1. CASE i <= m
    <3>1. i \in 1..m /\ i - 1 \in 0..m /\ i \in 0..m
        BY <1>3, <2>1
    <3> QED
        BY Zenon, <1>3, <1>4, <1>5, <3>1
  <2>2. CASE ~ (i <= m)
    <3> DEFINE j == i - m
               p == i - 1
               q == j - 1
    <3>1. /\ j \in 1..n /\ i \in 0..m + n /\ i = m + j /\ i - m = j
          /\ p \in 0..m + n /\ p - m = q /\ (~ (p <= m) \/ (p = m /\ q = 0))
        BY <1>3, <2>2
    <3>2. m \in 0..m
        BY <1>3
    <3> HIDE DEF p, q, j
    <3>3. h[p] = g[q] /\ h[i] = g[j] /\ z[i] = y[j]
        BY Zenon, <1>3, <1>4, <1>5, <1>6, <2>2, <3>1, <3>2
    <3>4. Leads(g[j - 1], y[j], g[j])
        BY Zenon, <1>4, <3>1
    <3> QED
        BY Zenon, <3>3, <3>4 DEF p, q
  <2> QED
      BY <2>1, <2>2
<1>8. h[0] = a /\ h[Len(z)] = c
  <2>1. 0 \in 0..m /\ m \in 0..m /\ m + n \in 0..m + n /\ m + n - m = n
        /\ (~ (m + n <= m) \/ (m + n = m /\ n = 0))
      BY <1>3
  <2>2. h[0] = a
      BY Zenon, <1>4, <1>5, <2>1
  <2>3. h[m + n] = c
    <3>1. CASE n = 0
      <4>1. m + n = m /\ g[0] = c
          BY <1>3, <1>4, <3>1
      <4> QED
          BY Zenon, <1>4, <1>5, <2>1, <4>1
    <3>2. CASE n # 0
      <4> DEFINE p == m + n
      <4>1. p \in 0..m + n /\ p - m = n /\ ~ (p <= m)
          BY <1>3, <3>2
      <4> HIDE DEF p
      <4>2. h[p] = g[n]
          BY Zenon, <1>6, <4>1
      <4> QED
          BY Zenon, <1>4, <4>2 DEF p
    <3> QED
        BY <3>1, <3>2
  <2> QED
      BY Zenon, <1>3, <2>2, <2>3
<1>9. IsRun(h, a, z, c)
    BY Zenon, <1>7, <1>8 DEF IsRun
<1> QED
    BY Zenon, <1>9 DEF Reads, z

\* A directory as far as it is open: its first children and files.
Part(t, cs, fs) == [name |-> t.name, atts |-> t.atts, children |-> cs, files |-> fs]

LEMMA PartMore ==
    \A t, cs, fs, c :
        /\ WithChild(Part(t, cs, fs), c) = Part(t, Append(cs, c), fs)
        /\ WithFile(Part(t, cs, fs), c) = Part(t, cs, Append(fs, c))
<1> TAKE t, cs, fs, c
<1> DEFINE d == Part(t, cs, fs)
<1>1. d.name = t.name /\ d.atts = t.atts /\ d.children = cs /\ d.files = fs
    BY DEF Part
<1>2. IsDir(d)
    BY DEF Part, IsDir
<1> HIDE DEF d
<1>3. WithChild(d, c) = Part(t, Append(cs, c), fs) /\ WithFile(d, c) = Part(t, cs, Append(fs, c))
    BY Zenon, <1>1, <1>2, WithIs DEF Part
<1> QED
    BY Zenon, <1>3 DEF d

\* Any two things can be together in a stack.
LEMMA Stacks ==
    ASSUME NEW S, NEW stk \in Seq(S), NEW p, NEW d
    PROVE  \E T : stk \in Seq(T) /\ Append(stk, p) \in Seq(T) /\ p \in T /\ d \in T
<1> DEFINE T == S \cup {p, d}
<1>1. S \subseteq T /\ p \in T /\ d \in T
    OBVIOUS
<1> HIDE DEF T
<1>2. stk \in Seq(T)
    BY Zenon, <1>1, SeqGrows
<1>3. Append(stk, p) \in Seq(T)
    BY <1>1, <1>2
<1> QED
    BY Zenon, <1>1, <1>2, <1>3

\* What the lines of a directory lead to, whatever directories are around it.
Inside(t) ==
    \A S : \A stk \in Seq(S) :
        Reads(Open("addDirs", stk),
              (Opened(t) \o <<<<"-">>>>) \o FileLines(t.files),
              Open("addFiles", Append(stk, t)))

ReadsChild(t) ==
    \A S : \A stk \in Seq(S) : \A p :
        Reads(Open("addDirs", Append(stk, p)), Walk(t),
              Open("addDirs", Append(stk, WithChild(p, t))))

ReadsRoot(t) == Reads(Open("addDirs", << >>), Walk(t), Done(t))

\* The parts of Walk are text.
LEMMA PartsType ==
    ASSUME NEW t \in Dirs
    PROVE  /\ Opened(t) \in Seq(Text) /\ <<<<"-">>>> \in Seq(Text)
           /\ FileLines(t.files) \in Seq(Text) /\ <<<<"u">>>> \in Seq(Text)
           /\ Opened(t) \o <<<<"-">>>> \in Seq(Text)
           /\ (Opened(t) \o <<<<"-">>>>) \o FileLines(t.files) \in Seq(Text)
<1>1. <<<<"-">>>> \in Seq(Text) /\ <<<<"u">>>> \in Seq(Text)
    BY Signs DEF Text
<1>2. Opened(t) \in Seq(Text) /\ FileLines(t.files) \in Seq(Text)
    BY Zenon, OpenedType, WalkIs, FileLinesType
<1> QED
    BY Zenon, <1>1, <1>2, TextJoin

LEMMA InsideUp ==
    ASSUME NEW t \in Dirs, Inside(t)
    PROVE  ReadsChild(t) /\ ReadsRoot(t)
<1> DEFINE w == (Opened(t) \o <<<<"-">>>>) \o FileLines(t.files)
           u == <<<<"u">>>>
<1>1. Walk(t) = w \o u
    BY Zenon, WalkOpened
<1>2. w \in Seq(Text) /\ u \in Seq(Text)
    BY Zenon, PartsType
<1>3. \A S : \A stk \in Seq(S) : Reads(Open("addDirs", stk), w, Open("addFiles", Append(stk, t)))
    BY Zenon DEF Inside
<1> HIDE DEF w
<1>4. ASSUME NEW S, NEW stk \in Seq(S), NEW p
      PROVE  Reads(Open("addDirs", Append(stk, p)), Walk(t),
                   Open("addDirs", Append(stk, WithChild(p, t))))
  <2>1. PICK T : stk \in Seq(T) /\ Append(stk, p) \in Seq(T) /\ p \in T /\ t \in T
      BY Zenon, Stacks
  <2>2. Reads(Open("addDirs", Append(stk, p)), w, Open("addFiles", Append(Append(stk, p), t)))
      BY Zenon, <1>3, <2>1
  <2>3. Leads(Open("addFiles", Append(Append(stk, p), t)), <<"u">>,
              Open("addDirs", Append(stk, WithChild(p, t))))
      BY Zenon, <2>1 DEF Leads
  <2>4. Reads(Open("addFiles", Append(Append(stk, p), t)), u,
              Open("addDirs", Append(stk, WithChild(p, t))))
      BY Zenon, <2>3, ReadsOne
  <2> QED
      BY Zenon, <1>1, <1>2, <2>2, <2>4, ReadsThen
<1>5. ReadsRoot(t)
  <2>1. << >> \in Seq({t}) /\ Append(<< >>, t) = <<t>>
      OBVIOUS
  <2>2. Reads(Open("addDirs", << >>), w, Open("addFiles", <<t>>))
      BY Zenon, <1>3, <2>1
  <2>3. Leads(Open("addFiles", <<t>>), <<"u">>, Done(t))
      BY Zenon DEF Leads
  <2>4. Reads(Open("addFiles", <<t>>), u, Done(t))
      BY Zenon, <2>3, ReadsOne
  <2> QED
      BY Zenon, <1>1, <1>2, <2>2, <2>4, ReadsThen DEF ReadsRoot
<1> QED
    BY Zenon, <1>4, <1>5 DEF ReadsChild

\* The lines of the children, if the lines of each lead to it.
LEMMA ReadsChildren ==
    ASSUME NEW D, D \subseteq Dirs, \A c \in D : ReadsChild(c),
           NEW t, NEW S, NEW stk \in Seq(S), NEW ts \in Seq(D)
    PROVE  Reads(Open("addDirs", Append(stk, Part(t, << >>, << >>))), ChildLines(ts),
                 Open("addDirs", Append(stk, Part(t, ts, << >>))))
<1> DEFINE a == Open("addDirs", Append(stk, Part(t, << >>, << >>)))
           P == {cs \in Seq(D) : Reads(a, ChildLines(cs),
                                       Open("addDirs", Append(stk, Part(t, cs, << >>))))}
<1>1. << >> \in P
  <2>1. << >> \in Seq(D)
      OBVIOUS
  <2>2. ChildLines(<< >>) = << >>
      BY Zenon, NoLines
  <2> QED
      BY Zenon, <2>1, <2>2, ReadsNone
<1>2. ASSUME NEW cs \in Seq(D), NEW c \in D, cs \in P PROVE Append(cs, c) \in P
  <2>1. Append(cs, c) \in Seq(D)
      OBVIOUS
  <2> DEFINE b == Open("addDirs", Append(stk, Part(t, cs, << >>)))
             e == Open("addDirs", Append(stk, Part(t, Append(cs, c), << >>)))
  <2>2. Reads(a, ChildLines(cs), b)
      BY <1>2
  <2>3. Reads(b, Walk(c), e)
    <3>1. ReadsChild(c)
        BY Zenon
    <3>2. WithChild(Part(t, cs, << >>), c) = Part(t, Append(cs, c), << >>)
        BY PartMore
    <3> QED
        BY Zenon, <3>1, <3>2 DEF ReadsChild
  <2>4. cs \in Seq(Dirs) /\ c \in Dirs
      BY Zenon, SeqGrows
  <2>5. /\ ChildLines(cs) \in Seq(Text) /\ Walk(c) \in Seq(Text)
        /\ ChildLines(Append(cs, c)) = ChildLines(cs) \o Walk(c)
      BY Zenon, <2>4, ChildLinesFacts, WalkIs
  <2> HIDE DEF a, b, e
  <2>6. Reads(a, ChildLines(Append(cs, c)), e)
      BY Zenon, <2>2, <2>3, <2>5, ReadsThen
  <2> QED
      BY Zenon, <2>1, <2>6 DEF e
<1> HIDE DEF P
<1>3. Seq(D) \subseteq P
    BY Zenon, <1>1, <1>2, SeqInduction
<1> QED
    BY Zenon, <1>3 DEF P

\* The lines of the files.
LEMMA ReadsFiles ==
    ASSUME NEW t, NEW cs, NEW S, NEW stk \in Seq(S), NEW files \in Seq(FileType)
    PROVE  Reads(Open("addFiles", Append(stk, Part(t, cs, << >>))), FileLines(files),
                 Open("addFiles", Append(stk, Part(t, cs, files))))
<1> DEFINE a == Open("addFiles", Append(stk, Part(t, cs, << >>)))
           P == {fs \in Seq(FileType) : Reads(a, FileLines(fs),
                                       Open("addFiles", Append(stk, Part(t, cs, fs))))}
<1>1. << >> \in P
  <2>1. << >> \in Seq(FileType)
      OBVIOUS
  <2>2. FileLines(<< >>) = << >>
      BY Zenon, NoLines
  <2> QED
      BY Zenon, <2>1, <2>2, ReadsNone
<1>2. ASSUME NEW fs \in Seq(FileType), NEW f \in FileType, fs \in P
      PROVE  Append(fs, f) \in P
  <2>1. Append(fs, f) \in Seq(FileType)
      OBVIOUS
  <2> DEFINE b == Open("addFiles", Append(stk, Part(t, cs, fs)))
             e == Open("addFiles", Append(stk, Part(t, cs, Append(fs, f))))
  <2>2. Reads(a, FileLines(fs), b)
      BY <1>2
  <2>3. Reads(b, <<outNode("f", f)>>, e)
    <3>1. PICK T : stk \in Seq(T) /\ Part(t, cs, fs) \in T
        BY Zenon, Stacks
    <3>2. WithFile(Part(t, cs, fs), f) = Part(t, cs, Append(fs, f))
        BY PartMore
    <3>3. Leads(b, outNode("f", f), e)
        BY Zenon, <3>1, <3>2 DEF Leads
    <3> QED
        BY Zenon, <3>3, ReadsOne
  <2>4. /\ FileLines(fs) \in Seq(Text) /\ outNode("f", f) \in Text
        /\ FileLines(Append(fs, f)) = FileLines(fs) \o <<outNode("f", f)>>
      BY Zenon, FileLinesType, FileLinesAppend
  <2>5. <<outNode("f", f)>> \in Seq(Text)
      BY <2>4
  <2> HIDE DEF a, b, e
  <2>6. Reads(a, FileLines(Append(fs, f)), e)
      BY Zenon, <2>2, <2>3, <2>4, <2>5, ReadsThen
  <2> QED
      BY Zenon, <2>1, <2>6 DEF e
<1> HIDE DEF P
<1>3. Seq(FileType) \subseteq P
    BY Zenon, <1>1, <1>2, SeqInduction
<1> QED
    BY Zenon, <1>3 DEF P

\* A directory, if the lines of each of its children lead to that child.
LEMMA ReadsDir ==
    ASSUME NEW t \in Dirs, IsDir(t), NEW D, D \subseteq Dirs, \A c \in D : ReadsChild(c),
           t.children \in Seq(D)
    PROVE  Inside(t)
<1> SUFFICES ASSUME NEW S, NEW stk \in Seq(S)
             PROVE  Reads(Open("addDirs", stk),
                          (Opened(t) \o <<<<"-">>>>) \o FileLines(t.files),
                          Open("addFiles", Append(stk, t)))
    BY Zenon DEF Inside
<1>1. /\ t.name \in Seq(Symbols) /\ t.atts \in Atts /\ t.files \in Seq(FileType)
      /\ t = Part(t, t.children, t.files)
    BY Zenon, WalkIs DEF IsDir, Part
<1> DEFINE d == <<outNode("d", t)>>
           cl == ChildLines(t.children)
           m == <<<<"-">>>>
           fl == FileLines(t.files)
           s0 == Open("addDirs", stk)
           s1 == Open("addDirs", Append(stk, Part(t, << >>, << >>)))
           s2 == Open("addDirs", Append(stk, Part(t, t.children, << >>)))
           s3 == Open("addFiles", Append(stk, Part(t, t.children, << >>)))
           s4 == Open("addFiles", Append(stk, t))
<1>2. Opened(t) = d \o cl
    BY Zenon DEF Opened
<1>3. d \in Seq(Text) /\ cl \in Seq(Text) /\ m \in Seq(Text) /\ fl \in Seq(Text)
  <2>1. t.children \in Seq(Dirs)
      BY Zenon, WalkIs
  <2> QED
      BY Zenon, <2>1, OpenedType, ChildLinesFacts, PartsType
<1>4. Reads(s0, d, s1)
  <2>1. [name |-> t.name, atts |-> t.atts] \in FileType
      BY <1>1 DEF FileType
  <2> DEFINE f == [name |-> t.name, atts |-> t.atts]
  <2>2. f.name = t.name /\ f.atts = t.atts
      OBVIOUS
  <2>3. NewDir(f) = Part(t, << >>, << >>)
      BY Zenon, <2>2 DEF NewDir, Part
  <2>4. outNode("d", f) = outNode("d", t)
      BY Zenon, <2>2, SameNode
  <2> HIDE DEF f
  <2>5. Leads(s0, outNode("d", t), s1)
      BY Zenon, <2>1, <2>3, <2>4 DEF Leads, f
  <2> QED
      BY Zenon, <2>5, ReadsOne
<1>5. Reads(s1, cl, s2)
    BY Zenon, ReadsChildren
<1>6. Reads(s2, m, s3)
  <2>1. PICK T : Append(stk, Part(t, t.children, << >>)) \in Seq(T)
      BY Zenon, Stacks
  <2>2. Leads(s2, <<"-">>, s3)
      BY Zenon, <2>1 DEF Leads
  <2> QED
      BY Zenon, <2>2, ReadsOne
<1>7. Reads(s3, fl, s4)
    BY Zenon, <1>1, ReadsFiles
<1>8. d \o cl \in Seq(Text) /\ (d \o cl) \o m \in Seq(Text)
    BY Zenon, <1>3, TextJoin
<1> HIDE DEF d, cl, m, fl, s0, s1, s2, s3, s4
<1>9. Reads(s0, d \o cl, s2)
    BY Zenon, <1>3, <1>4, <1>5, ReadsThen
<1>10. Reads(s0, (d \o cl) \o m, s3)
    BY Zenon, <1>3, <1>6, <1>8, <1>9, ReadsThen
<1>11. Reads(s0, ((d \o cl) \o m) \o fl, s4)
    BY Zenon, <1>3, <1>7, <1>8, <1>10, ReadsThen
<1> QED
    BY Zenon, <1>2, <1>11 DEF m, fl, s0, s4

LEMMA ReadsLevel ==
    ASSUME NEW n \in Nat, n + 1 <= MaxLines, \A c \in TreesTo[n] : ReadsChild(c),
           NEW t \in TreesTo[n + 1]
    PROVE  ReadsChild(t) /\ ReadsRoot(t)
<1> DEFINE k == n + 1
<1>1. k \in Nat /\ k <= MaxLines /\ n <= MaxLines /\ k - 1 = n /\ MaxLines \in Nat
    BY CodecAssumption
<1>2. t \in TreesTo[k]
    OBVIOUS
<1> HIDE DEF k
<1>3. TreesTo[n] \subseteq Dirs /\ TreesTo[k] \subseteq Dirs
    BY Zenon, <1>1, TreesGrow DEF Dirs
<1>4. t \in Dirs
    BY Zenon, <1>2, <1>3
<1>5. t.children \in Seq(TreesTo[n])
    BY Zenon, <1>1, <1>2, TreeFields
<1>6. IsDir(t)
    BY Zenon, <1>1, <1>2, TreeFields DEF IsDir
<1>7. Inside(t)
    BY Zenon, <1>3, <1>4, <1>5, <1>6, ReadsDir
<1> QED
    BY Zenon, <1>4, <1>7, InsideUp

LEMMA ReadsTree == \A t \in Dirs : ReadsRoot(t)
<1> DEFINE T == {n \in Nat : n <= MaxLines =>
                                \A t \in TreesTo[n] : ReadsChild(t) /\ ReadsRoot(t)}
<1>1. 0 \in T
    BY Zenon, TreesStep
<1>2. ASSUME NEW n \in Nat, n \in T PROVE n + 1 \in T
  <2>1. n + 1 \in Nat /\ (n + 1 <= MaxLines => n <= MaxLines)
      BY CodecAssumption
  <2>2. ASSUME n + 1 <= MaxLines, NEW t \in TreesTo[n + 1]
        PROVE  ReadsChild(t) /\ ReadsRoot(t)
    <3>1. \A c \in TreesTo[n] : ReadsChild(c)
        BY Zenon, <1>2, <2>1, <2>2
    <3> QED
        BY Zenon, <2>2, <3>1, ReadsLevel
  <2> QED
      BY Zenon, <2>1, <2>2
<1> HIDE DEF T
<1>3. Nat \subseteq T
    BY Zenon, <1>1, <1>2, SetInduction
<1>4. MaxLines \in T /\ MaxLines <= MaxLines
    BY <1>3, CodecAssumption
<1> QED
    BY Zenon, <1>4 DEF T, Dirs

LEMMA ReadsEncoding ==
    ASSUME NEW t \in Dirs
    PROVE  Reads(Open("needAsure", << >>), Encode(t), Done(t)) /\ Encode(t) \in Seq(Text)
<1>1. Header \in Seq(Text) /\ Walk(t) \in Seq(Text)
    BY Zenon, HeaderType, WalkIs
<1>2. Reads(Open("needAsure", << >>), Header, Open("addDirs", << >>))
  <2> DEFINE a == <<Header[1]>>
             b == <<Header[2]>>
  <2>1. a \in Seq(Text) /\ b \in Seq(Text) /\ a \o b = Header
    <3>1. a \in Seq(Text) /\ a \o b = Header
        BY Zenon, HeaderType
    <3>2. Header[2] \in Text
        BY Zenon, HeaderType
    <3>3. b \in Seq(Text)
        BY <3>2
    <3> QED
        BY Zenon, <3>1, <3>3
  <2>2. /\ Leads(Open("needAsure", << >>), Header[1], Open("needHyphens", << >>))
        /\ Leads(Open("needHyphens", << >>), Header[2], Open("addDirs", << >>))
      BY Zenon DEF Leads
  <2>3. /\ Reads(Open("needAsure", << >>), a, Open("needHyphens", << >>))
        /\ Reads(Open("needHyphens", << >>), b, Open("addDirs", << >>))
      BY Zenon, <2>2, ReadsOne
  <2> HIDE DEF a, b
  <2>4. Reads(Open("needAsure", << >>), a \o b, Open("addDirs", << >>))
      BY Zenon, <2>1, <2>3, ReadsThen
  <2> QED
      BY Zenon, <2>1, <2>4
<1>3. Reads(Open("addDirs", << >>), Walk(t), Done(t))
    BY Zenon, ReadsTree DEF ReadsRoot
<1>4. Encode(t) = Header \o Walk(t)
    BY Zenon DEF Encode, Walk
<1>5. Reads(Open("needAsure", << >>), Header \o Walk(t), Done(t))
    BY Zenon, <1>1, <1>2, <1>3, ReadsThen
<1> QED
    BY Zenon, <1>1, <1>4, <1>5, TextJoin

-----------------------------------------------------------------------------
(***************************************************************************)
(* What PushDecoder does with a line of an encoding.                       *)
(***************************************************************************)

State == [add |-> add, tree |-> tree, result |-> result]

LEMMA StateIs ==
    /\ \A a, stk : State = Open(a, stk) => add = a /\ tree = stk /\ result = << >>
    /\ \A a, stk : add' = a /\ tree' = stk /\ result' = << >> => State' = Open(a, stk)
    /\ \A t : State = Done(t) => add = "nothing" /\ tree = << >> /\ result = <<t>>
    /\ \A t : add' = "nothing" /\ tree' = << >> /\ result' = <<t>> => State' = Done(t)
BY DEF State, Open, Done

LEMMA Guards ==
    ASSUME NEW line
    PROVE  /\ needAsure(line) => add = "needAsure" /\ line = Header[1]
           /\ needHyphens(line) => add = "needHyphens" /\ line = Header[2]
           /\ addDir(line) => add = "addDirs" /\ Opens(line)
           /\ endDirs(line) => add = "addDirs" /\ EndsDirs(line)
           /\ addFile(line) => add = "addFiles" /\ IsFile(line)
           /\ up(line) => add = "addFiles" /\ IsUp(line)
           /\ Panic(line) => add = "addFiles" /\ tree = << >>
           /\ Reject(line) => \/ add = "needAsure" /\ line # Header[1]
                              \/ add = "needHyphens" /\ line # Header[2]
                              \/ add = "addDirs" /\ ~ Opens(line) /\ ~ EndsDirs(line)
                              \/ add = "addFiles" /\ ~ IsUp(line) /\ ~ IsFile(line)
                              \/ add = "nothing"
BY Zenon DEF needAsure, needHyphens, addDir, endDirs, addFile, up, Panic, Reject

\* The action that takes a line is the one of the method that is due.
LEMMA Due ==
    ASSUME NEW line, Push(line)
    PROVE  /\ add = "needAsure" /\ line = Header[1] => needAsure(line)
           /\ add = "needHyphens" /\ line = Header[2] => needHyphens(line)
           /\ add = "addDirs" /\ Opens(line) /\ ~ EndsDirs(line) => addDir(line)
           /\ add = "addDirs" /\ EndsDirs(line) /\ ~ Opens(line) => endDirs(line)
           /\ add = "addFiles" /\ tree # << >> /\ IsFile(line) /\ ~ IsUp(line) => addFile(line)
           /\ add = "addFiles" /\ tree # << >> /\ IsUp(line) /\ ~ IsFile(line) => up(line)
<1>1. \/ needAsure(line) \/ needHyphens(line) \/ addDir(line) \/ endDirs(line)
      \/ addFile(line) \/ up(line) \/ Panic(line) \/ Reject(line)
    BY Zenon DEF Push
<1> QED
    BY <1>1, Guards

LEMMA LineKinds ==
    /\ EndsDirs(<<"-">>) /\ ~ Opens(<<"-">>)
    /\ IsUp(<<"u">>) /\ ~ IsFile(<<"u">>)
<1>1. /\ <<"-">> # << >> /\ <<"-">>[1] = "-" /\ "-" # "d"
      /\ <<"u">> # << >> /\ <<"u">>[1] = "u" /\ "u" # "f"
    OBVIOUS
<1> QED
    BY Zenon, <1>1 DEF EndsDirs, Opens, IsUp, IsFile

LEMMA NodeLines ==
    ASSUME NEW d \in FileType, NEW op \in {"d", "f"}, outNode(op, d) \in Lines
    PROVE  /\ Node[outNode(op, d)].name = d.name /\ Node[outNode(op, d)].atts = d.atts
           /\ Node[outNode(op, d)] = d
           /\ op = "d" => Opens(outNode(op, d)) /\ ~ EndsDirs(outNode(op, d))
           /\ op = "f" => IsFile(outNode(op, d)) /\ ~ IsUp(outNode(op, d))
<1> DEFINE line == outNode(op, d)
<1>1. /\ d.name \in Seq(Symbols) /\ d.atts \in Atts /\ d = [name |-> d.name, atts |-> d.atts]
    BY Zenon, FileFields
<1>2. op \in Symbols
    BY Zenon, Signs
<1>3. /\ line # << >> /\ line[1] = op
      /\ parseNameAtts(line) = [name |-> d.name, atts |-> d.atts]
    BY Zenon, <1>1, <1>2, ReadsNode
<1>4. Node[line] = d
    BY Zenon, <1>1, <1>3 DEF Node
<1>5. d.atts # NoAtts
    BY <1>1 DEF Atts, NoAtts
<1>6. "d" # "f" /\ "d" # "-" /\ "f" # "u"
    OBVIOUS
<1> HIDE DEF line
<1>7. /\ op = "d" => Opens(line) /\ ~ EndsDirs(line)
      /\ op = "f" => IsFile(line) /\ ~ IsUp(line)
    BY Zenon, <1>3, <1>4, <1>5, <1>6 DEF Opens, EndsDirs, IsFile, IsUp
<1> QED
    BY Zenon, <1>4, <1>7 DEF line

\* A line of an encoding leads to one state.
LEMMA Takes ==
    ASSUME NEW line \in Lines, Push(line), NEW b, Leads(State, line, b)
    PROVE  State' = b
<1>1. CASE State = Open("needAsure", << >>) /\ line = Header[1] /\ b = Open("needHyphens", << >>)
  <2>1. add = "needAsure" /\ tree = << >> /\ result = << >>
      BY Zenon, <1>1, StateIs
  <2>2. needAsure(line)
      BY Zenon, <1>1, <2>1, Due
  <2>3. add' = "needHyphens" /\ tree' = << >> /\ result' = << >>
      BY <2>1, <2>2 DEF needAsure
  <2> QED
      BY Zenon, <1>1, <2>3, StateIs
<1>2. CASE State = Open("needHyphens", << >>) /\ line = Header[2] /\ b = Open("addDirs", << >>)
  <2>1. add = "needHyphens" /\ tree = << >> /\ result = << >>
      BY Zenon, <1>2, StateIs
  <2>2. needHyphens(line)
      BY Zenon, <1>2, <2>1, Due
  <2>3. add' = "addDirs" /\ tree' = << >> /\ result' = << >>
      BY <2>1, <2>2 DEF needHyphens
  <2> QED
      BY Zenon, <1>2, <2>3, StateIs
<1>3. ASSUME NEW S, NEW stk \in Seq(S), NEW d \in FileType,
             State = Open("addDirs", stk), line = outNode("d", d),
             b = Open("addDirs", Append(stk, NewDir(d)))
      PROVE  State' = b
  <2>1. add = "addDirs" /\ tree = stk /\ result = << >>
      BY Zenon, <1>3, StateIs
  <2>2. Opens(line) /\ ~ EndsDirs(line) /\ Node[line].name = d.name /\ Node[line].atts = d.atts
    <3>1. "d" \in {"d", "f"}
        OBVIOUS
    <3> QED
        BY Zenon, <1>3, <3>1, NodeLines
  <2>3. addDir(line)
      BY Zenon, <2>1, <2>2, Due
  <2>4. add' = "addDirs" /\ tree' = Append(stk, NewDir(d)) /\ result' = << >>
      BY Zenon, <2>1, <2>2, <2>3 DEF addDir, NewDir
  <2> QED
      BY Zenon, <1>3, <2>4, StateIs
<1>4. ASSUME NEW S, NEW stk \in Seq(S),
             State = Open("addDirs", stk), line = <<"-">>, b = Open("addFiles", stk)
      PROVE  State' = b
  <2>1. add = "addDirs" /\ tree = stk /\ result = << >>
      BY Zenon, <1>4, StateIs
  <2>2. endDirs(line)
      BY Zenon, <1>4, <2>1, LineKinds, Due
  <2>3. add' = "addFiles" /\ tree' = stk /\ result' = << >>
      BY <2>1, <2>2 DEF endDirs
  <2> QED
      BY Zenon, <1>4, <2>3, StateIs
<1>5. ASSUME NEW S, NEW stk \in Seq(S), NEW d \in S, NEW f \in FileType,
             State = Open("addFiles", Append(stk, d)), line = outNode("f", f),
             b = Open("addFiles", Append(stk, WithFile(d, f)))
      PROVE  State' = b
  <2>1. add = "addFiles" /\ tree = Append(stk, d) /\ result = << >>
      BY Zenon, <1>5, StateIs
  <2>2. IsFile(line) /\ ~ IsUp(line) /\ Node[line] = f
    <3>1. "f" \in {"d", "f"}
        OBVIOUS
    <3> QED
        BY Zenon, <1>5, <3>1, NodeLines
  <2>3. Front(tree) = stk /\ Last(tree) = d /\ tree # << >>
      BY Zenon, <2>1, FrontLast
  <2>4. addFile(line)
      BY Zenon, <2>1, <2>2, <2>3, Due
  <2>5. add' = "addFiles" /\ tree' = Append(stk, WithFile(d, f)) /\ result' = << >>
      BY Zenon, <2>1, <2>2, <2>3, <2>4 DEF addFile, Parent
  <2> QED
      BY Zenon, <1>5, <2>5, StateIs
<1>6. ASSUME NEW S, NEW stk \in Seq(S), NEW p \in S, NEW d \in S,
             State = Open("addFiles", Append(Append(stk, p), d)), line = <<"u">>,
             b = Open("addDirs", Append(stk, WithChild(p, d)))
      PROVE  State' = b
  <2>1. add = "addFiles" /\ tree = Append(Append(stk, p), d) /\ result = << >>
      BY Zenon, <1>6, StateIs
  <2>2. /\ Append(stk, p) \in Seq(S) /\ Front(Append(stk, p)) = stk /\ Last(Append(stk, p)) = p
      BY Zenon, FrontLast
  <2>3. Front(tree) = Append(stk, p) /\ Last(tree) = d /\ tree # << >>
      BY Zenon, <2>1, <2>2, FrontLast
  <2>4. Len(tree) # 1
      BY <2>1
  <2>5. up(line)
      BY Zenon, <1>6, <2>1, <2>3, LineKinds, Due
  <2>6. add' = "addDirs" /\ tree' = Append(stk, WithChild(p, d)) /\ result' = << >>
      BY Zenon, <2>1, <2>2, <2>3, <2>4, <2>5 DEF up, Parent
  <2> QED
      BY Zenon, <1>6, <2>6, StateIs
<1>7. ASSUME NEW d, State = Open("addFiles", <<d>>), line = <<"u">>, b = Done(d)
      PROVE  State' = b
  <2>1. add = "addFiles" /\ tree = <<d>> /\ result = << >>
      BY Zenon, <1>7, StateIs
  <2>2. Len(tree) = 1 /\ tree # << >>
      BY <2>1
  <2>3. up(line)
      BY Zenon, <1>7, <2>1, <2>2, LineKinds, Due
  <2>4. add' = "nothing" /\ tree' = << >> /\ result' = <<d>>
      BY Zenon, <2>1, <2>2, <2>3 DEF up
  <2> QED
      BY Zenon, <1>7, <2>4, StateIs
<1> QED
    BY Zenon, <1>1, <1>2, <1>3, <1>4, <1>5, <1>6, <1>7 DEF Leads

\* A state from which a line leads on is no error and no end.
LEMMA Goes ==
    ASSUME NEW line, NEW b, Leads(State, line, b)
    PROVE  result = << >> /\ add \notin {"failed", "panic"}
<1>1. PICK stk : \/ State = Open("needAsure", stk) \/ State = Open("needHyphens", stk)
                  \/ State = Open("addDirs", stk) \/ State = Open("addFiles", stk)
    BY Zenon DEF Leads
<1>2. /\ add \in {"needAsure", "needHyphens", "addDirs", "addFiles"}
      /\ result = << >>
    BY Zenon, <1>1, StateIs
<1> QED
    BY <1>2

-----------------------------------------------------------------------------
(***************************************************************************)
(* The lines that were pushed as the start of an encoding.                 *)
(***************************************************************************)

LEMMA PrefixIs ==
    ASSUME NEW s \in Seq(Text), NEW t \in Seq(Text)
    PROVE  /\ IsPrefix(s, t) <=> Len(s) <= Len(t) /\ \A i \in 1..Len(s) : s[i] = t[i]
           /\ IsStrictPrefix(s, t) => IsPrefix(s, t) /\ Len(s) + 1 \in 1..Len(t)
           /\ IsPrefix(t, t)
<1>1. Len(s) \in Nat /\ Len(t) \in Nat
    OBVIOUS
<1>2. ASSUME Len(s) <= Len(t)
      PROVE  SubSeq(s, 1, Len(s)) = SubSeq(t, 1, Len(s)) <=> \A i \in 1..Len(s) : s[i] = t[i]
  <2> DEFINE p == SubSeq(s, 1, Len(s))
             q == SubSeq(t, 1, Len(s))
  <2>1. /\ p \in Seq(Text) /\ Len(p) = Len(s) /\ \A i \in 1..Len(s) : p[i] = s[i]
      BY <1>1
  <2>2. /\ q \in Seq(Text) /\ Len(q) = Len(s) /\ \A i \in 1..Len(s) : q[i] = t[i]
      BY <1>1, <1>2
  <2> HIDE DEF p, q
  <2>3. ASSUME \A i \in 1..Len(s) : s[i] = t[i] PROVE p = q
    <3>1. \A i \in 1..Len(p) : p[i] = q[i]
        BY Zenon, <2>1, <2>2, <2>3
    <3>2. Len(p) = Len(q)
        BY Zenon, <2>1, <2>2
    <3> QED
        BY Zenon, <2>1, <2>2, <3>1, <3>2, SeqEqual
  <2>4. ASSUME p = q PROVE \A i \in 1..Len(s) : s[i] = t[i]
      BY Zenon, <2>1, <2>2, <2>4
  <2>5. p = q <=> \A i \in 1..Len(s) : s[i] = t[i]
      BY <2>3, <2>4
  <2> QED
      BY Zenon, <2>5 DEF p, q
<1>3. IsPrefix(s, t) <=> Len(s) <= Len(t) /\ \A i \in 1..Len(s) : s[i] = t[i]
    BY Zenon, <1>2 DEF IsPrefix
<1>4. ASSUME IsStrictPrefix(s, t) PROVE IsPrefix(s, t) /\ Len(s) + 1 \in 1..Len(t)
  <2>1. IsPrefix(s, t) /\ s # t
      BY Zenon, <1>4 DEF IsStrictPrefix
  <2>2. Len(s) <= Len(t) /\ \A i \in 1..Len(s) : s[i] = t[i]
      BY Zenon, <1>3, <2>1
  <2>3. Len(s) # Len(t)
      BY Zenon, <2>1, <2>2, SeqEqual
  <2> QED
      BY <1>1, <2>1, <2>2, <2>3
<1>5. IsPrefix(t, t)
    BY <1>1 DEF IsPrefix
<1> QED
    BY Zenon, <1>3, <1>4, <1>5

LEMMA PrefixAppend ==
    ASSUME NEW s \in Seq(Text), NEW l \in Text, NEW t \in Seq(Text), IsPrefix(Append(s, l), t)
    PROVE  IsPrefix(s, t) /\ Len(s) + 1 \in 1..Len(t) /\ t[Len(s) + 1] = l
<1> DEFINE p == Append(s, l)
<1>1. /\ p \in Seq(Text) /\ Len(p) = Len(s) + 1 /\ Len(s) \in Nat /\ p[Len(s) + 1] = l
      /\ \A i \in 1..Len(s) : p[i] = s[i]
    OBVIOUS
<1> HIDE DEF p
<1>2. Len(p) <= Len(t) /\ \A i \in 1..Len(p) : p[i] = t[i]
    BY Zenon, <1>1, PrefixIs DEF p
<1>3. Len(s) <= Len(t) /\ \A i \in 1..Len(s) : i \in 1..Len(p)
    BY <1>1, <1>2
<1>4. \A i \in 1..Len(s) : s[i] = t[i]
    BY Zenon, <1>1, <1>2, <1>3
<1>5. IsPrefix(s, t)
    BY Zenon, <1>3, <1>4, PrefixIs
<1> QED
    BY <1>1, <1>2, <1>5

\* The state after the first lines of an encoding is the one that they lead to.
Follows ==
    \A t \in Trees : \A f :
        IsRun(f, Open("needAsure", << >>), Encode(t), Done(t)) =>
            (IsPrefix(pushed, Encode(t)) => State = f[Len(pushed)])

LEMMA TreesAre == \A t \in Trees : t \in Dirs
BY CodecAssumption DEF Dirs

LEMMA LinesAre == \A line \in Lines : line \in Text
BY CodecAssumption DEF Text

LEMMA FollowsInit == Init => Follows
<1> SUFFICES ASSUME Init, NEW t \in Trees, NEW f,
                    IsRun(f, Open("needAsure", << >>), Encode(t), Done(t))
             PROVE  State = f[Len(pushed)]
    BY Zenon DEF Follows
<1>1. Len(pushed) = 0 /\ State = Open("needAsure", << >>)
    BY DEF Init, State, Open
<1>2. f[0] = Open("needAsure", << >>)
    BY Zenon DEF IsRun
<1> QED
    BY Zenon, <1>1, <1>2

LEMMA FollowsStep ==
    ASSUME Typed, Follows, NEW line \in Lines, Push(line)
    PROVE  Follows'
<1> SUFFICES ASSUME NEW t \in Trees, NEW f,
                    IsRun(f, Open("needAsure", << >>), Encode(t), Done(t)),
                    IsPrefix(pushed', Encode(t))
             PROVE  State' = f[Len(pushed')]
    BY Zenon DEF Follows
<1> DEFINE n == Len(pushed)
           e == Encode(t)
<1>1. pushed' = Append(pushed, line) /\ pushed \in Seq(Text) /\ line \in Text /\ e \in Seq(Text)
  <2>1. pushed \in Seq(Lines) /\ pushed' = Append(pushed, line)
      BY Zenon DEF Typed, Push
  <2>2. Lines \subseteq Text
      BY Zenon, LinesAre
  <2>3. pushed \in Seq(Text) /\ line \in Text
      BY Zenon, <2>1, <2>2, SeqGrows
  <2>4. e \in Seq(Text)
      BY Zenon, TreesAre, ReadsEncoding
  <2> QED
      BY Zenon, <2>1, <2>3, <2>4
<1>2. n \in Nat /\ Len(pushed') = n + 1 /\ n + 1 - 1 = n
    BY <1>1
<1>3. IsPrefix(pushed, e) /\ n + 1 \in 1..Len(e) /\ e[n + 1] = line
    BY Zenon, <1>1, PrefixAppend
<1>4. State = f[n]
    BY Zenon, <1>3 DEF Follows
<1>5. \A i \in 1..Len(e) : Leads(f[i - 1], e[i], f[i])
    BY Zenon DEF IsRun
<1> HIDE DEF n, e
<1>6. Leads(f[n], line, f[n + 1])
  <2> DEFINE k == n + 1
  <2>1. k = n + 1
      OBVIOUS
  <2> HIDE DEF k
  <2>2. k - 1 = n
      BY <1>2, <2>1
  <2>3. k \in 1..Len(e) /\ e[k] = line
      BY Zenon, <1>3, <2>1
  <2>4. Leads(f[k - 1], e[k], f[k])
      BY Zenon, <1>5, <2>3
  <2> QED
      BY Zenon, <2>1, <2>2, <2>3, <2>4
<1>7. State' = f[n + 1]
    BY Zenon, <1>4, <1>6, Takes
<1> QED
    BY Zenon, <1>2, <1>7

LEMMA IsFollowed == Spec => []Follows
<1>1. Init => Follows
    BY FollowsInit
<1>2. Typed /\ Follows /\ [Next]_vars => Follows'
  <2>1. Follows /\ UNCHANGED vars => Follows'
      BY Zenon DEF vars, Follows, State
  <2> QED
      BY Zenon, <2>1, FollowsStep DEF Next
<1> QED
    BY <1>1, <1>2, IsTyped, PTL DEF Spec

\* For a tree there is a run of its encoding, which the state is in.
LEMMA Within ==
    ASSUME Typed, Follows, NEW t \in Trees
    PROVE  /\ pushed \in Seq(Text) /\ Encode(t) \in Seq(Text)
           /\ IsPrefix(pushed, Encode(t)) =>
                  \E f : /\ IsRun(f, Open("needAsure", << >>), Encode(t), Done(t))
                         /\ State = f[Len(pushed)]
<1>1. PICK f : IsRun(f, Open("needAsure", << >>), Encode(t), Done(t))
    BY Zenon, TreesAre, ReadsEncoding DEF Reads
<1>2. Encode(t) \in Seq(Text)
    BY Zenon, TreesAre, ReadsEncoding
<1>3. Lines \subseteq Text
    BY Zenon, LinesAre
<1>4. pushed \in Seq(Text)
    BY Zenon, <1>3, SeqGrows DEF Typed
<1> QED
    BY Zenon, <1>1, <1>2, <1>4 DEF Follows

\* A tree that was encoded is read back.
THEOREM IsReadBack == Spec => []ReadsBack
<1>1. ASSUME Typed, Follows PROVE ReadsBack
  <2>1. ASSUME NEW t \in Trees, pushed = Encode(t) PROVE Complete /\ result = <<t>>
    <3>1. IsPrefix(pushed, Encode(t))
        BY Zenon, <1>1, <2>1, Within, PrefixIs
    <3>2. PICK f : IsRun(f, Open("needAsure", << >>), Encode(t), Done(t)) /\ State = f[Len(pushed)]
        BY Zenon, <1>1, <3>1, Within
    <3>3. State = Done(t)
        BY Zenon, <2>1, <3>2 DEF IsRun
    <3>4. add = "nothing" /\ tree = << >> /\ result = <<t>>
        BY Zenon, <3>3, StateIs
    <3> QED
        BY <3>4 DEF Complete
  <2>2. ASSUME NEW e \in Encodings, pushed = e.lines PROVE Complete /\ result = <<e.tree>>
    <3>1. PICK t \in Trees : e = [tree |-> t, lines |-> Encode(t)]
        BY Zenon DEF Encodings
    <3>2. e.tree = t /\ e.lines = Encode(t)
        BY <3>1
    <3> QED
        BY Zenon, <2>1, <2>2, <3>2
  <2> QED
      BY Zenon, <2>2 DEF ReadsBack
<1> QED
    BY <1>1, IsTyped, IsFollowed, PTL

\* The start of an encoding is no tree and no error.
THEOREM IsOnlyWhole == Spec => []OnlyWhole
<1>1. ASSUME Typed, Follows PROVE OnlyWhole
  <2>1. ASSUME NEW t \in Trees, IsStrictPrefix(pushed, Encode(t))
        PROVE  ~ Complete /\ add \notin {"failed", "panic"}
    <3> DEFINE n == Len(pushed)
               k == n + 1
               e == Encode(t)
    <3>1. IsPrefix(pushed, e) /\ k \in 1..Len(e)
        BY Zenon, <1>1, <2>1, Within, PrefixIs
    <3>2. PICK f : IsRun(f, Open("needAsure", << >>), e, Done(t)) /\ State = f[n]
        BY Zenon, <1>1, <3>1, Within
    <3>3. k - 1 = n
        BY <1>1, Within
    <3>4. \A i \in 1..Len(e) : Leads(f[i - 1], e[i], f[i])
        BY Zenon, <3>2 DEF IsRun
    <3> HIDE DEF n, k, e
    <3>5. Leads(State, e[k], f[k])
        BY Zenon, <3>1, <3>2, <3>3, <3>4
    <3>6. result = << >> /\ add \notin {"failed", "panic"}
        BY Zenon, <3>5, Goes
    <3> QED
        BY Zenon, <3>6 DEF Complete
  <2>2. ASSUME NEW e \in Encodings, IsStrictPrefix(pushed, e.lines)
        PROVE  ~ Complete /\ add \notin {"failed", "panic"}
    <3>1. PICK t \in Trees : e = [tree |-> t, lines |-> Encode(t)]
        BY Zenon DEF Encodings
    <3>2. e.lines = Encode(t)
        BY <3>1
    <3> QED
        BY Zenon, <2>1, <2>2, <3>2
  <2> QED
      BY Zenon, <2>2 DEF OnlyWhole
<1> QED
    BY <1>1, IsTyped, IsFollowed, PTL

=============================================================================
