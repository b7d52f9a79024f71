--------------------------- MODULE SureStore_proofs ---------------------------
(***************************************************************************)
(* Theorems about SureStore.                                               *)
(***************************************************************************)
EXTENDS SureStore, SequenceTheorems, TLAPS

-----------------------------------------------------------------------------
(***************************************************************************)
(* Names and files.                                                        *)
(***************************************************************************)

Slots == {"text", "prior", "new"}

\* Names that TempFile gives.
Temps == {"tmp", "tmp.gz"} \X Nat

LEMMA NameFacts ==
    /\ Main \in Name /\ Bak \in Name /\ Main # Bak /\ NoName \notin Name
    /\ Temps \subseteq Name /\ Main \notin Temps /\ Bak \notin Temps /\ NoName \notin Temps
BY DEF Main, Bak, Name, NoName, Temps

LEMMA TempNames ==
    ASSUME NEW n \in Nat, NEW gz \in BOOLEAN
    PROVE  TempName(n, gz) \in Temps
BY DEF TempName, Temps

LEMMA WithDir ==
    ASSUME NEW n, NEW f, dir' = With(n, f)
    PROVE  /\ DOMAIN dir' = DOMAIN dir \cup {n} /\ dir'[n] = f
           /\ \A x \in DOMAIN dir : x # n => dir'[x] = dir[x]
BY DEF With

LEMMA WithoutDir ==
    ASSUME NEW n, dir' = Without(n)
    PROVE  /\ DOMAIN dir' = DOMAIN dir \ {n}
           /\ \A x \in DOMAIN dir : x # n => dir'[x] = dir[x]
BY DEF Without

LEMMA RenamedDir ==
    ASSUME NEW a, NEW b, a # b, Exists(a), dir' = Renamed(a, b)
    PROVE  /\ DOMAIN dir' = (DOMAIN dir \ {a}) \cup {b} /\ dir'[b] = dir[a]
           /\ \A x \in DOMAIN dir : x # a /\ x # b => dir'[x] = dir[x]
BY DEF Renamed, Exists

-----------------------------------------------------------------------------
(***************************************************************************)
(* The inductive invariant.                                                *)
(***************************************************************************)

\* The scanner still has to do with the file of slot k.
Uses(s, k) == /\ held[s][k] # NoName
              /\ pc[s] = "removePrior" => k # "new"
              /\ pc[s] = "removeText"  => k = "text"

\* Which temporary files a scanner has made.
Shape(s) ==
    /\ pc[s] \in {"idle", "look", "first", "text"} => \A k \in Slots : held[s][k] = NoName
    /\ pc[s] = "writeFirst" => /\ held[s].new # NoName
                               /\ held[s].text = NoName /\ held[s].prior = NoName
    /\ pc[s] \in {"encode", "prior"} => /\ held[s].text # NoName
                                        /\ held[s].prior = NoName /\ held[s].new = NoName
    /\ pc[s] \in {"extract", "open", "new"} =>
           held[s].text # NoName /\ held[s].prior # NoName /\ held[s].new = NoName
    /\ pc[s] \in {"copy", "removePrior", "removeText"} => \A k \in Slots : held[s][k] # NoName
    /\ pc[s] \in {"backUp", "swap"} =>
           held[s].new # NoName /\ (held[s].text = NoName <=> held[s].prior = NoName)

\* They are there, and they are different files.
Temporary(s) ==
    /\ \A k \in Slots : Uses(s, k) => held[s][k] \in Temps /\ held[s][k] \in DOMAIN dir
    /\ \A k, l \in Slots : Uses(s, k) /\ Uses(s, l) /\ held[s][k] = held[s][l] => k = l

\* A file that may become the main file.
Proper(f) == Len(f.revs) > 0 /\ (~ TailFails => f.whole)

\* What is in them, and what the scanner knows of the weave.
Contents(s) ==
    /\ pc[s] # "idle" => id[s] \in 1..MaxWrites
    /\ pc[s] \in {"text", "encode", "prior", "extract", "open", "new", "copy"} => base[s] > 0
    /\ pc[s] \in {"prior", "extract", "open", "new", "copy"} =>
           dir[held[s].text].revs = <<id[s]>>
    /\ pc[s] \in {"new", "copy"} => Len(old[s]) > 0
    /\ pc[s] \in {"backUp", "swap"} => Proper(dir[held[s].new])

Mine(s) == Shape(s) /\ Temporary(s) /\ Contents(s)

Apart(s, t) == \A k, l \in Slots : Uses(s, k) /\ Uses(t, l) => held[s][k] # held[t][l]

DirOK == /\ \A n \in {Main, Bak} : Exists(n) => Proper(dir[n])
         /\ rpc = "read" => Len(header) > 0

Inv == /\ TypeOK /\ DirOK
       /\ \A s \in Scanners : Mine(s)
       /\ \A s, t \in Scanners : s # t => Apart(s, t)

\* What every step of scanner s leaves alone.
Elsewhere(s) ==
    \A t \in Scanners : t # s =>
        /\ pc'[t] = pc[t] /\ id'[t] = id[t] /\ base'[t] = base[t]
        /\ held'[t] = held[t] /\ old'[t] = old[t]

\* Only the files that s uses, the main file and the backup change.
OthersFiles(s) ==
    \A x \in DOMAIN dir :
        x \notin {Main, Bak} /\ (\A k \in Slots : Uses(s, k) => x # held[s][k])
        => x \in DOMAIN dir' /\ dir'[x] = dir[x]

\* s uses files that it used before and new ones.
NewNames(s) ==
    \A k \in Slots : Uses(s, k)' =>
        held'[s][k] \notin DOMAIN dir \/ (Uses(s, k) /\ held'[s][k] = held[s][k])

LEMMA OthersKeep ==
    ASSUME Inv, NEW s \in Scanners, NEW t \in Scanners, t # s,
           Elsewhere(s), OthersFiles(s)
    PROVE  /\ Mine(t)'
           /\ \A k \in Slots : (Uses(t, k)' <=> Uses(t, k)) /\ held'[t][k] = held[t][k]
<1>1. /\ pc'[t] = pc[t] /\ id'[t] = id[t] /\ base'[t] = base[t]
      /\ held'[t] = held[t] /\ old'[t] = old[t]
    BY DEF Elsewhere
<1>2. \A k \in Slots : Uses(t, k)' <=> Uses(t, k)
    BY <1>1 DEF Uses
<1>3. ASSUME NEW k \in Slots, Uses(t, k)
      PROVE  held[t][k] \in DOMAIN dir' /\ dir'[held[t][k]] = dir[held[t][k]]
  <2>1. held[t][k] \in Temps /\ held[t][k] \in DOMAIN dir
      BY <1>3 DEF Inv, Mine, Temporary
  <2>2. \A l \in Slots : Uses(s, l) => held[t][k] # held[s][l]
      BY <1>3 DEF Inv, Apart
  <2> QED
      BY <2>1, <2>2, NameFacts DEF OthersFiles
<1>4. Shape(t)'
    BY <1>1 DEF Inv, Mine, Shape
<1>5. Temporary(t)'
    BY <1>1, <1>2, <1>3 DEF Inv, Mine, Temporary
<1>6. Contents(t)'
  <2>1. Contents(t) /\ Shape(t)
      BY DEF Inv, Mine
  <2>2. pc[t] \in {"prior", "extract", "open", "new", "copy"} => Uses(t, "text")
      BY <2>1 DEF Shape, Uses, Slots
  <2>3. pc[t] \in {"backUp", "swap"} => Uses(t, "new")
      BY <2>1 DEF Shape, Uses, Slots
  <2>4. \A k \in Slots : Uses(t, k) => dir'[held[t][k]] = dir[held[t][k]]
      BY <1>3
  <2> QED
      BY <1>1, <2>1, <2>2, <2>3, <2>4 DEF Contents, Slots
<1> QED
    BY <1>1, <1>2, <1>4, <1>5, <1>6 DEF Mine

LEMMA StepKeeps ==
    ASSUME Inv, NEW s \in Scanners, Elsewhere(s), OthersFiles(s), NewNames(s),
           TypeOK', DirOK', Mine(s)'
    PROVE  Inv'
<1>1. \A t \in Scanners : Mine(t)'
    BY OthersKeep
<1>2. ASSUME NEW t \in Scanners, t # s
      PROVE  Apart(s, t)' /\ Apart(t, s)'
  <2>1. \A k \in Slots : (Uses(t, k)' <=> Uses(t, k)) /\ held'[t][k] = held[t][k]
      BY <1>2, OthersKeep
  <2>2. ASSUME NEW k \in Slots, NEW l \in Slots, Uses(s, k)', Uses(t, l)'
        PROVE  held'[s][k] # held'[t][l]
    <3>1. Uses(t, l) /\ held'[t][l] = held[t][l]
        BY <2>1, <2>2
    <3>2. held[t][l] \in DOMAIN dir
        BY <3>1 DEF Inv, Mine, Temporary
    <3>3. Uses(s, k) => held[s][k] # held[t][l]
        BY <1>2, <3>1 DEF Inv, Apart
    <3> QED
        BY <2>2, <3>1, <3>2, <3>3 DEF NewNames
  <2> QED
      BY <2>2 DEF Apart
<1>3. ASSUME NEW t \in Scanners, NEW u \in Scanners, t # s, u # s, t # u
      PROVE  Apart(t, u)'
  <2>1. \A k \in Slots : /\ (Uses(t, k)' <=> Uses(t, k)) /\ held'[t][k] = held[t][k]
                         /\ (Uses(u, k)' <=> Uses(u, k)) /\ held'[u][k] = held[u][k]
      BY <1>3, OthersKeep
  <2>2. Apart(t, u)
      BY <1>3 DEF Inv
  <2> QED
      BY <2>1, <2>2 DEF Apart
<1>4. \A t, u \in Scanners : t # u => Apart(t, u)'
    BY <1>2, <1>3
<1> QED
    BY <1>1, <1>4 DEF Inv

-----------------------------------------------------------------------------
(***************************************************************************)
(* The steps of a scanner.                                                 *)
(***************************************************************************)

DirTyped == DOMAIN dir \subseteq Name /\ \A n \in DOMAIN dir : dir[n] \in File

LEMMA WithTyped ==
    ASSUME DirTyped, NEW n \in Name, NEW f \in File, dir' = With(n, f)
    PROVE  DirTyped'
<1>1. /\ DOMAIN dir' = DOMAIN dir \cup {n} /\ dir'[n] = f
      /\ \A x \in DOMAIN dir : x # n => dir'[x] = dir[x]
    BY DEF With
<1> QED
    BY <1>1 DEF DirTyped

LEMMA RenamedTyped ==
    ASSUME DirTyped, NEW a, NEW b \in Name, a # b, dir' = Renamed(a, b)
    PROVE  DirTyped'
<1>1. CASE Exists(a)
  <2>1. /\ DOMAIN dir' = (DOMAIN dir \ {a}) \cup {b} /\ dir'[b] = dir[a] /\ a \in DOMAIN dir
        /\ \A x \in DOMAIN dir : x # a /\ x # b => dir'[x] = dir[x]
      BY <1>1 DEF Renamed, Exists
  <2> QED
      BY <2>1 DEF DirTyped
<1>2. CASE ~ Exists(a)
    BY <1>2 DEF Renamed, DirTyped
<1> QED
    BY <1>1, <1>2

LEMMA WithoutTyped ==
    ASSUME DirTyped, NEW n, dir' = Without(n)
    PROVE  DirTyped'
BY WithoutDir DEF DirTyped

\* held with n for slot k of scanner s.
HeldSet(h, s, k, n) == [h EXCEPT ![s][k] = n]

LEMMA HeldWith ==
    ASSUME NEW h \in [Scanners -> Held], NEW s \in Scanners, NEW k \in Slots, NEW n \in Name
    PROVE  /\ HeldSet(h, s, k, n) \in [Scanners -> Held]
           /\ HeldSet(h, s, k, n)[s][k] = n
           /\ \A l \in Slots : l # k => HeldSet(h, s, k, n)[s][l] = h[s][l]
           /\ \A t \in Scanners : t # s => HeldSet(h, s, k, n)[t] = h[t]
<1> USE DEF HeldSet
<1>1. CASE k = "text"
    BY <1>1 DEF Held, Slots
<1>2. CASE k = "prior"
    BY <1>2 DEF Held, Slots
<1>3. CASE k = "new"
    BY <1>3 DEF Held, Slots
<1> QED
    BY <1>1, <1>2, <1>3 DEF Slots

LEMMA BeginKeeps ==
    ASSUME Inv, NEW s \in Scanners, Begin(s)
    PROVE  Inv'
<1>1. /\ pc[s] = "idle" /\ written < MaxWrites /\ written' = written + 1
      /\ id' = [id EXCEPT ![s] = written + 1]
      /\ overlap' = (overlap \/ \E t \in Scanners : pc[t] # "idle")
      /\ pc' = [pc EXCEPT ![s] = "look"]
      /\ UNCHANGED <<dir, base, held, try, old, rpc, header, got, committed, crashes,
                     careless, stopped>>
    BY DEF Begin, Goto, reader
<1>2. TypeOK'
  <2>1. written + 1 \in 1..MaxWrites
      BY <1>1, BoundsAssumption DEF Inv, TypeOK
  <2>2. overlap' \in BOOLEAN /\ written' \in 0..MaxWrites
      BY <1>1, <2>1
  <2>3. pc' \in [Scanners -> PC] /\ id' \in [Scanners -> Nat]
      BY <1>1, <2>1 DEF Inv, TypeOK, PC
  <2> QED
      BY <1>1, <2>2, <2>3 DEF Inv, TypeOK
<1>3. pc'[s] = "look" /\ id'[s] \in 1..MaxWrites
    BY <1>1, BoundsAssumption DEF Inv, TypeOK
<1>4. Mine(s)'
    BY <1>1, <1>3 DEF Inv, Mine, Shape, Temporary, Contents, Uses
<1>5. Elsewhere(s) /\ OthersFiles(s) /\ NewNames(s)
    BY <1>1, <1>3 DEF Inv, TypeOK, Elsewhere, OthersFiles, NewNames, Uses
<1>6. DirOK'
    BY <1>1 DEF Inv, DirOK, Exists
<1> QED
    BY <1>2, <1>4, <1>5, <1>6, StepKeeps

LEMMA LookKeeps ==
    ASSUME Inv, NEW s \in Scanners, Look(s)
    PROVE  Inv'
<1>1. /\ pc[s] = "look"
      /\ UNCHANGED <<dir, id, held, try, old, rpc, header, got, written, committed,
                     crashes, overlap, stopped>>
    BY DEF Look, reader
<1>2. PICK b, l : /\ base' = [base EXCEPT ![s] = b] /\ pc' = [pc EXCEPT ![s] = l]
                  /\ \/ l = "text" /\ b \in Nat /\ b > 0
                     \/ l = "first" /\ b \in Nat
                  /\ careless' \in BOOLEAN
  <2>1. CASE Exists(Main)
    <3>1. Len(dir[Main].revs) \in Nat /\ Len(dir[Main].revs) > 0
        BY <2>1 DEF Inv, TypeOK, DirOK, Proper, Exists, File
    <3> QED
        BY <2>1, <3>1 DEF Look, Goto, Inv, TypeOK
  <2>2. CASE ~ Exists(Main)
    <3>1. base' = [base EXCEPT ![s] = base[s]] /\ base[s] \in Nat
        BY <2>2 DEF Look, Inv, TypeOK
    <3> QED
        BY <2>2, <3>1 DEF Look, Goto, Inv, TypeOK
  <2> QED
      BY <2>1, <2>2
<1>3. pc'[s] \in {"text", "first"} /\ (pc'[s] = "text" => base'[s] > 0)
    BY <1>2 DEF Inv, TypeOK
<1>4. TypeOK'
  <2>1. pc' \in [Scanners -> PC] /\ base' \in [Scanners -> Nat] /\ careless' \in BOOLEAN
      BY <1>2 DEF Inv, TypeOK, PC
  <2> QED
      BY <1>1, <2>1 DEF Inv, TypeOK
<1>5. Mine(s)'
    BY <1>1, <1>3 DEF Inv, Mine, Shape, Temporary, Contents, Uses
<1>6. Elsewhere(s) /\ OthersFiles(s) /\ NewNames(s)
    BY <1>1, <1>2, <1>3 DEF Inv, TypeOK, Elsewhere, OthersFiles, NewNames, Uses
<1>7. DirOK'
    BY <1>1 DEF Inv, DirOK, Exists
<1> QED
    BY <1>4, <1>5, <1>6, <1>7, StepKeeps

\* What is left when a scanner gives up or is done.
LEMMA ForgetTypes ==
    ASSUME Inv, NEW s \in Scanners, Goto(s, "idle"), Forget(s)
    PROVE  /\ pc' \in [Scanners -> PC] /\ id' \in [Scanners -> Nat]
           /\ base' \in [Scanners -> Nat] /\ held' \in [Scanners -> Held]
           /\ try' \in [Scanners -> Nat] /\ old' \in [Scanners -> Seq(Nat)]
           /\ pc'[s] = "idle" /\ \A k \in Slots : held'[s][k] = NoName
           /\ Elsewhere(s) /\ NewNames(s) /\ Mine(s)'
<1> DEFINE none == [text |-> NoName, prior |-> NoName, new |-> NoName]
<1>1. none \in Held /\ \A k \in Slots : none[k] = NoName
    BY DEF Held, Slots
<1>2. /\ pc' = [pc EXCEPT ![s] = "idle"] /\ id' = [id EXCEPT ![s] = 0]
      /\ base' = [base EXCEPT ![s] = 0] /\ held' = [held EXCEPT ![s] = none]
      /\ try' = [try EXCEPT ![s] = 0] /\ old' = [old EXCEPT ![s] = << >>]
    BY DEF Goto, Forget
<1> HIDE DEF none
<1>3. /\ pc' \in [Scanners -> PC] /\ id' \in [Scanners -> Nat]
      /\ base' \in [Scanners -> Nat] /\ held' \in [Scanners -> Held]
      /\ try' \in [Scanners -> Nat] /\ old' \in [Scanners -> Seq(Nat)]
      /\ pc'[s] = "idle" /\ held'[s] = none
    BY <1>1, <1>2 DEF Inv, TypeOK, PC
<1>4. Elsewhere(s)
    BY <1>2 DEF Inv, TypeOK, Elsewhere
<1>5. NewNames(s) /\ Mine(s)'
    BY <1>1, <1>3 DEF NewNames, Uses, Mine, Shape, Temporary, Contents, Slots
<1> QED
    BY <1>1, <1>3, <1>4, <1>5

LEMMA GiveUpKeeps ==
    ASSUME Inv, NEW s \in Scanners, Fail(s) \/ Crash(s)
    PROVE  Inv'
<1>1. /\ Goto(s, "idle") /\ Forget(s) /\ crashes' \in 0..MaxCrashes
      /\ UNCHANGED <<dir, rpc, header, got, written, committed, overlap, careless>>
    BY BoundsAssumption DEF Fail, Crash, reader, Inv, TypeOK
<1>2. stopped' \in BOOLEAN
    BY DEF Fail, Crash, Stop, Inv, TypeOK
<1>3. TypeOK'
    BY <1>1, <1>2, ForgetTypes DEF Inv, TypeOK
<1>4. OthersFiles(s) /\ DirOK'
    BY <1>1 DEF Inv, DirOK, Exists, OthersFiles
<1> QED
    BY <1>1, <1>3, <1>4, ForgetTypes, StepKeeps

\* The steps of TempFile: where they are, which slot they fill, what is next.
Creations == {<<"first", "new", "writeFirst">>, <<"text", "text", "encode">>,
              <<"prior", "prior", "extract">>, <<"new", "new", "copy">>}

LEMMA CreateKeeps ==
    ASSUME Inv, NEW s \in Scanners, NEW gz \in BOOLEAN, NEW slot, NEW next,
           <<pc[s], slot, next>> \in Creations, TempFile(s, gz, slot, next)
    PROVE  Inv'
<1> DEFINE name == TempName(try[s], gz)
<1>1. /\ slot \in Slots /\ next \in PC
      /\ pc[s] # "idle" /\ pc[s] # "removePrior" /\ pc[s] # "removeText"
      /\ next # "idle" /\ next # "removePrior" /\ next # "removeText"
      /\ UNCHANGED <<id, base, old, rpc, header, got, written, committed, crashes,
                     overlap, careless, stopped>>
    BY DEF Creations, Slots, PC, TempFile, reader, history
<1>2. name \in Temps /\ name \in Name /\ name # Main /\ name # Bak /\ name # NoName
    BY TempNames, NameFacts DEF Inv, TypeOK
<1> HIDE DEF name
<1>3. CASE Exists(name)
  <2>1. try' = [try EXCEPT ![s] = try[s] + 1] /\ UNCHANGED <<dir, pc, held>>
      BY <1>3 DEF TempFile, name
  <2>2. TypeOK'
      BY SMTT(20), <1>1, <2>1 DEF Inv, TypeOK
  <2>3. Mine(s)' /\ DirOK'
      BY <1>1, <2>1 DEF Inv, Mine, Shape, Temporary, Contents, Uses, DirOK, Exists
  <2>4. Elsewhere(s) /\ OthersFiles(s) /\ NewNames(s)
      BY <1>1, <2>1 DEF Elsewhere, OthersFiles, NewNames, Uses
  <2> QED
      BY <2>2, <2>3, <2>4, StepKeeps
<1>4. CASE ~ Exists(name)
  <2>1. /\ dir' = With(name, Torn(<< >>)) /\ held' = [held EXCEPT ![s][slot] = name]
        /\ try' = [try EXCEPT ![s] = 0] /\ pc' = [pc EXCEPT ![s] = next]
      BY <1>4 DEF TempFile, name, Goto
  <2>2. /\ DOMAIN dir' = DOMAIN dir \cup {name}
        /\ \A x \in DOMAIN dir : dir'[x] = dir[x]
        /\ name \notin DOMAIN dir
      BY <1>4, <2>1, WithDir DEF Exists
  <2>3. /\ held' \in [Scanners -> Held] /\ held'[s][slot] = name
        /\ \A k \in Slots : k # slot => held'[s][k] = held[s][k]
        /\ \A t \in Scanners : t # s => held'[t] = held[t]
    <3>1. held \in [Scanners -> Held] /\ held' = HeldSet(held, s, slot, name)
        BY <2>1 DEF Inv, TypeOK, HeldSet
    <3> QED
        BY <1>1, <1>2, <3>1, HeldWith
  <2>4. /\ pc' \in [Scanners -> PC] /\ pc'[s] = next
        /\ \A t \in Scanners : t # s => pc'[t] = pc[t]
      BY <1>1, <2>1 DEF Inv, TypeOK
  <2>5. TypeOK'
    <3>1. Torn(<< >>) \in File
        BY DEF Torn, File
    <3>2. DirTyped'
        BY <1>2, <2>1, <3>1, WithTyped DEF Inv, TypeOK, DirTyped
    <3>3. try' \in [Scanners -> Nat]
        BY <2>1 DEF Inv, TypeOK
    <3> QED
        BY <1>1, <2>3, <2>4, <3>2, <3>3 DEF Inv, TypeOK, DirTyped
  <2>6. Elsewhere(s) /\ OthersFiles(s)
      BY <1>1, <2>2, <2>3, <2>4 DEF Elsewhere, OthersFiles
  <2>7. \A k \in Slots : Uses(s, k)' <=> k = slot \/ Uses(s, k)
      BY <1>1, <1>2, <2>3, <2>4 DEF Uses
  <2>8. NewNames(s)
      BY <2>2, <2>3, <2>7 DEF NewNames
  <2>9. Shape(s)'
      BY <1>2, <2>3, <2>4 DEF Creations, Inv, Mine, Shape, Slots
  <2>10. Temporary(s)'
    <3>1. Temporary(s)
        BY DEF Inv, Mine
    <3>2. ASSUME NEW k \in Slots, Uses(s, k)'
          PROVE  held'[s][k] \in Temps /\ held'[s][k] \in DOMAIN dir'
        BY <1>2, <2>2, <2>3, <2>7, <3>1, <3>2 DEF Temporary
    <3>3. ASSUME NEW k \in Slots, NEW l \in Slots, Uses(s, k)', Uses(s, l)',
                 held'[s][k] = held'[s][l]
          PROVE  k = l
      <4>1. \A j \in Slots : j # slot /\ Uses(s, j)' =>
                held'[s][j] = held[s][j] /\ held[s][j] \in DOMAIN dir /\ Uses(s, j)
          BY <2>3, <2>7, <3>1 DEF Temporary
      <4> QED
          BY <2>2, <2>3, <3>1, <3>3, <4>1 DEF Temporary
    <3> QED
        BY <3>2, <3>3 DEF Temporary
  <2>11. Contents(s)'
    <3>1. Contents(s) /\ Temporary(s) /\ Shape(s)
        BY DEF Inv, Mine
    <3>2. pc[s] \in {"prior", "new"} => Uses(s, "text")
        BY <3>1 DEF Shape, Uses
    <3>3. pc[s] \in {"prior", "new"} => /\ held'[s].text = held[s].text
                                        /\ held[s].text \in DOMAIN dir
        BY <2>3, <3>1, <3>2 DEF Creations, Temporary, Slots
    <3> QED
        BY <1>1, <2>2, <2>4, <3>1, <3>3 DEF Creations, Contents
  <2>12. DirOK'
      BY <1>1, <1>2, <2>2 DEF Inv, DirOK, Exists
  <2> QED
      BY <2>5, <2>6, <2>8, <2>9, <2>10, <2>11, <2>12, StepKeeps DEF Mine
<1> QED
    BY <1>3, <1>4

\* Between its start and the first of its removals.
Working == PC \ {"idle", "removePrior", "removeText"}

\* A scanner writes one of its files.
Fill(s, k, f, next) == /\ dir' = With(held[s][k], f)
                       /\ Goto(s, next)
                       /\ UNCHANGED <<scanner, reader, history>>

LEMMA FillFacts ==
    ASSUME Inv, NEW s \in Scanners, NEW k \in Slots, Uses(s, k), NEW f \in File,
           NEW next \in Working, pc[s] \in Working, Fill(s, k, f, next)
    PROVE  /\ TypeOK' /\ DirOK' /\ Elsewhere(s) /\ OthersFiles(s) /\ NewNames(s)
           /\ Temporary(s)' /\ pc'[s] = next
           /\ dir'[held[s][k]] = f
           /\ \A l \in Slots : l # k /\ Uses(s, l) => dir'[held[s][l]] = dir[held[s][l]]
           /\ UNCHANGED <<id, base, held, old>>
<1>0. /\ dir' = With(held[s][k], f) /\ pc' = [pc EXCEPT ![s] = next] /\ next \in PC
      /\ UNCHANGED <<id, base, held, try, old, rpc, header, got, written, committed,
                     crashes, overlap, careless, stopped>>
      /\ next \notin {"idle", "removePrior", "removeText"}
      /\ pc[s] \notin {"idle", "removePrior", "removeText"}
    BY DEF Fill, Goto, scanner, reader, history, Working
<1>1. /\ Temporary(s) /\ held[s][k] \in Temps /\ held[s][k] \in DOMAIN dir
    BY DEF Inv, Mine, Temporary
<1>2. held[s][k] \in Name /\ held[s][k] # Main /\ held[s][k] # Bak
    BY <1>1, NameFacts
<1>3. /\ DOMAIN dir' = DOMAIN dir /\ dir'[held[s][k]] = f
      /\ \A x \in DOMAIN dir : x # held[s][k] => dir'[x] = dir[x]
    BY <1>0, <1>1 DEF With
<1>4. /\ pc' \in [Scanners -> PC] /\ pc'[s] = next
      /\ \A t \in Scanners : t # s => pc'[t] = pc[t]
    BY <1>0 DEF Inv, TypeOK
<1>5. TypeOK'
  <2>1. DirTyped'
      BY <1>0, <1>2, WithTyped DEF Inv, TypeOK, DirTyped
  <2> QED
      BY <1>0, <1>4, <2>1 DEF Inv, TypeOK, DirTyped
<1>6. DirOK'
    BY <1>0, <1>2, <1>3 DEF Inv, DirOK, Exists
<1>7. \A l \in Slots : Uses(s, l)' <=> Uses(s, l)
    BY <1>0, <1>4 DEF Uses
<1>8. Elsewhere(s) /\ OthersFiles(s) /\ NewNames(s)
    BY <1>0, <1>3, <1>4, <1>7 DEF Elsewhere, OthersFiles, NewNames
<1>9. Temporary(s)'
    BY <1>0, <1>1, <1>3, <1>7 DEF Temporary
<1>10. \A l \in Slots : l # k /\ Uses(s, l) => dir'[held[s][l]] = dir[held[s][l]]
    BY <1>1, <1>3 DEF Temporary
<1> QED
    BY <1>0, <1>3, <1>4, <1>5, <1>6, <1>8, <1>9, <1>10

LEMMA WriteFirstKeeps ==
    ASSUME Inv, NEW s \in Scanners, WriteFirst(s)
    PROVE  Inv'
<1> DEFINE f == Whole(<<id[s]>>)
<1>1. pc[s] = "writeFirst" /\ Fill(s, "new", f, "backUp")
    BY DEF WriteFirst, Fill
<1>2. f \in File /\ Proper(f)
    BY DEF Inv, TypeOK, File, Whole, Proper
<1>3. Uses(s, "new") /\ Shape(s) /\ Contents(s)
    BY <1>1 DEF Inv, Mine, Shape, Uses
<1>4. "new" \in Slots /\ "backUp" \in Working /\ pc[s] \in Working
    BY <1>1 DEF Slots, Working, PC
<1> HIDE DEF f
<1>5. /\ TypeOK' /\ DirOK' /\ Elsewhere(s) /\ OthersFiles(s) /\ NewNames(s)
      /\ Temporary(s)' /\ pc'[s] = "backUp" /\ dir'[held[s]["new"]] = f
      /\ UNCHANGED <<id, base, held, old>>
    BY <1>1, <1>2, <1>3, <1>4, FillFacts
<1>6. Mine(s)'
    BY <1>1, <1>2, <1>3, <1>5 DEF Mine, Shape, Contents
<1> QED
    BY <1>5, <1>6, StepKeeps

LEMMA WriteTextKeeps ==
    ASSUME Inv, NEW s \in Scanners, WriteText(s)
    PROVE  Inv'
<1> DEFINE f == Whole(<<id[s]>>)
<1>1. pc[s] = "encode" /\ Fill(s, "text", f, "prior")
    BY DEF WriteText, Fill
<1>2. f \in File /\ f.revs = <<id[s]>>
    BY DEF Inv, TypeOK, File, Whole
<1>3. Uses(s, "text") /\ Shape(s) /\ Contents(s)
    BY <1>1 DEF Inv, Mine, Shape, Uses
<1>4. "text" \in Slots /\ "prior" \in Working /\ pc[s] \in Working
    BY <1>1 DEF Slots, Working, PC
<1> HIDE DEF f
<1>5. /\ TypeOK' /\ DirOK' /\ Elsewhere(s) /\ OthersFiles(s) /\ NewNames(s)
      /\ Temporary(s)' /\ pc'[s] = "prior" /\ dir'[held[s]["text"]] = f
      /\ UNCHANGED <<id, base, held, old>>
    BY <1>1, <1>2, <1>3, <1>4, FillFacts
<1>6. Mine(s)'
    BY <1>1, <1>2, <1>3, <1>5 DEF Mine, Shape, Contents
<1> QED
    BY <1>5, <1>6, StepKeeps

LEMMA AtTypes ==
    ASSUME NEW revs \in Seq(Nat), Len(revs) > 0, NEW k \in Nat, k > 0
    PROVE  At(revs, k) \in Nat
<1>1. Len(revs) \in 1..Len(revs) /\ (k <= Len(revs) => k \in 1..Len(revs))
    OBVIOUS
<1> QED
    BY <1>1, ElementOfSeq DEF At

LEMMA ExtractKeeps ==
    ASSUME Inv, NEW s \in Scanners, Extract(s)
    PROVE  Inv'
<1> DEFINE x == At(dir[Main].revs, base[s])
           f == Whole(<<x>>)
<1>1. pc[s] = "extract" /\ Exists(Main) /\ Fill(s, "prior", f, "open")
    BY DEF Extract, Fill
<1>2. Uses(s, "prior") /\ Uses(s, "text") /\ Shape(s) /\ Contents(s)
    BY <1>1 DEF Inv, Mine, Shape, Uses, Slots
<1>3. x \in Nat
  <2>1. dir[Main].revs \in Seq(Nat) /\ Len(dir[Main].revs) > 0
      BY <1>1 DEF Inv, TypeOK, DirOK, Exists, File, Proper
  <2>2. base[s] \in Nat /\ base[s] > 0
      BY <1>1, <1>2 DEF Inv, TypeOK, Contents
  <2> QED
      BY <2>1, <2>2, AtTypes
<1> HIDE DEF x
<1>4. f \in File
    BY <1>3 DEF File, Whole
<1> HIDE DEF f
<1>5. "prior" \in Slots /\ "text" \in Slots /\ "open" \in Working /\ pc[s] \in Working
    BY <1>1 DEF Slots, Working, PC
<1>6. /\ TypeOK' /\ DirOK' /\ Elsewhere(s) /\ OthersFiles(s) /\ NewNames(s)
      /\ Temporary(s)' /\ pc'[s] = "open" /\ dir'[held[s]["text"]] = dir[held[s]["text"]]
      /\ UNCHANGED <<id, base, held, old>>
    BY <1>1, <1>2, <1>4, <1>5, FillFacts
<1>7. Mine(s)'
    BY <1>1, <1>2, <1>6 DEF Mine, Shape, Contents
<1> QED
    BY <1>6, <1>7, StepKeeps

LEMMA CopyKeeps ==
    ASSUME Inv, NEW s \in Scanners, Copy(s)
    PROVE  Inv'
<1>1. pc[s] = "copy"
    BY DEF Copy
<1>2. Uses(s, "new") /\ Shape(s) /\ Contents(s)
    BY <1>1 DEF Inv, Mine, Shape, Uses, Slots
<1>3. NewText(s) \subseteq Nat
  <2>1. id[s] \in Nat /\ dir[held[s].text].revs = <<id[s]>>
      BY <1>1, <1>2 DEF Contents, Inv, TypeOK
  <2>2. dir[held[s].text].revs[1] \in Nat
      BY <2>1
  <2> QED
      BY <2>2 DEF NewText, Garbled
<1>4. \E f \in File : Proper(f) /\ Fill(s, "new", f, "backUp")
  <2>1. PICK t \in Nat : \/ Fill(s, "new", Whole(Append(old[s], t)), "backUp")
                         \/ TailFails /\ Fill(s, "new", Torn(Append(old[s], t)), "backUp")
      BY <1>3 DEF Copy, Fill
  <2>2. Append(old[s], t) \in Seq(Nat) /\ Len(Append(old[s], t)) > 0
      BY DEF Inv, TypeOK
  <2>3. PICK revs \in Seq(Nat) : revs = Append(old[s], t) /\ Len(revs) > 0
      BY <2>2
  <2>4. /\ Whole(revs) \in File /\ Proper(Whole(revs))
        /\ Torn(revs) \in File /\ (TailFails => Proper(Torn(revs)))
      BY <2>3 DEF Whole, Torn, File, Proper
  <2> QED
      BY <2>1, <2>3, <2>4
<1>5. PICK f \in File : Proper(f) /\ Fill(s, "new", f, "backUp")
    BY <1>4
<1>6. "new" \in Slots /\ "backUp" \in Working /\ pc[s] \in Working
    BY <1>1 DEF Slots, Working, PC
<1>7. /\ TypeOK' /\ DirOK' /\ Elsewhere(s) /\ OthersFiles(s) /\ NewNames(s)
      /\ Temporary(s)' /\ pc'[s] = "backUp" /\ dir'[held[s]["new"]] = f
      /\ UNCHANGED <<id, base, held, old>>
    BY <1>2, <1>5, <1>6, FillFacts
<1>8. Mine(s)'
    BY <1>1, <1>2, <1>5, <1>7 DEF Mine, Shape, Contents, Slots
<1> QED
    BY <1>7, <1>8, StepKeeps

LEMMA CreationsKeep ==
    ASSUME Inv, NEW s \in Scanners,
           CreateFirst(s) \/ CreateText(s) \/ CreatePrior(s) \/ CreateNew(s)
    PROVE  Inv'
<1>1. CASE CreateFirst(s)
  <2>1. /\ <<pc[s], "new", "writeFirst">> \in Creations /\ TempFile(s, TRUE, "new", "writeFirst")
      BY <1>1 DEF CreateFirst, Creations
  <2> QED
      BY <2>1, CreateKeeps
<1>2. CASE CreateText(s)
  <2>1. <<pc[s], "text", "encode">> \in Creations /\ TempFile(s, FALSE, "text", "encode")
      BY <1>2 DEF CreateText, Creations
  <2> QED
      BY <2>1, CreateKeeps
<1>3. CASE CreatePrior(s)
  <2>1. /\ <<pc[s], "prior", "extract">> \in Creations /\ TempFile(s, FALSE, "prior", "extract")
      BY <1>3 DEF CreatePrior, Creations
  <2> QED
      BY <2>1, CreateKeeps
<1>4. CASE CreateNew(s)
  <2>1. <<pc[s], "new", "copy">> \in Creations /\ TempFile(s, TRUE, "new", "copy")
      BY <1>4 DEF CreateNew, Creations
  <2> QED
      BY <2>1, CreateKeeps
<1> QED
    BY <1>1, <1>2, <1>3, <1>4

LEMMA OpenKeeps ==
    ASSUME Inv, NEW s \in Scanners, Open(s)
    PROVE  Inv'
<1>1. /\ pc[s] = "open" /\ Exists(Main) /\ old' = [old EXCEPT ![s] = dir[Main].revs]
      /\ pc' = [pc EXCEPT ![s] = "new"]
      /\ UNCHANGED <<dir, id, base, held, try, rpc, header, got, written, committed,
                     crashes, overlap, careless, stopped>>
    BY DEF Open, Goto, reader, history
<1>2. dir[Main].revs \in Seq(Nat) /\ Len(dir[Main].revs) > 0
    BY <1>1 DEF Inv, TypeOK, DirOK, Exists, File, Proper
<1>3. /\ pc' \in [Scanners -> PC] /\ pc'[s] = "new"
      /\ old' \in [Scanners -> Seq(Nat)] /\ old'[s] = dir[Main].revs
      /\ \A t \in Scanners : t # s => pc'[t] = pc[t] /\ old'[t] = old[t]
    BY <1>1, <1>2 DEF Inv, TypeOK, PC
<1>4. TypeOK' /\ DirOK'
    BY <1>1, <1>3 DEF Inv, TypeOK, DirOK, Exists
<1>5. Mine(s)'
  <2>1. Shape(s) /\ Temporary(s) /\ Contents(s)
      BY DEF Inv, Mine
  <2>2. \A k \in Slots : Uses(s, k)' <=> Uses(s, k)
      BY <1>1, <1>3 DEF Uses
  <2>3. Temporary(s)'
      BY <1>1, <2>1, <2>2 DEF Temporary
  <2>4. Shape(s)' /\ Contents(s)'
      BY <1>1, <1>2, <1>3, <2>1 DEF Shape, Contents
  <2> QED
      BY <2>3, <2>4 DEF Mine
<1>6. Elsewhere(s) /\ OthersFiles(s) /\ NewNames(s)
    BY <1>1, <1>3 DEF Elsewhere, OthersFiles, NewNames, Uses
<1> QED
    BY <1>4, <1>5, <1>6, StepKeeps

LEMMA BackUpKeeps ==
    ASSUME Inv, NEW s \in Scanners, BackUp(s)
    PROVE  Inv'
<1>1. /\ pc[s] = "backUp" /\ (dir' = Renamed(Main, Bak) \/ dir' = dir)
      /\ pc' = [pc EXCEPT ![s] = "swap"]
      /\ UNCHANGED <<id, base, held, try, old, rpc, header, got, written, committed,
                     crashes, overlap, careless, stopped>>
    BY DEF BackUp, Goto, scanner, reader, history
<1>2. /\ \A x \in DOMAIN dir : x \notin {Main, Bak} => x \in DOMAIN dir' /\ dir'[x] = dir[x]
      /\ DirOK'
  <2>1. CASE Exists(Main) /\ dir' # dir
    <3>1. /\ DOMAIN dir' = (DOMAIN dir \ {Main}) \cup {Bak} /\ dir'[Bak] = dir[Main]
          /\ \A x \in DOMAIN dir : x # Main /\ x # Bak => dir'[x] = dir[x]
        BY <1>1, <2>1, NameFacts DEF Renamed, Exists
    <3> QED
        BY <1>1, <2>1, <3>1, NameFacts DEF Inv, DirOK, Exists
  <2>2. CASE ~ Exists(Main) \/ dir' = dir
      BY <1>1, <2>2 DEF Renamed, Inv, DirOK, Exists
  <2> QED
      BY <2>1, <2>2
<1>3. /\ pc' \in [Scanners -> PC] /\ pc'[s] = "swap"
      /\ \A t \in Scanners : t # s => pc'[t] = pc[t]
    BY <1>1 DEF Inv, TypeOK, PC
<1>4. TypeOK'
  <2>1. DirTyped'
    <3>1. CASE dir' = Renamed(Main, Bak)
        BY <3>1, NameFacts, RenamedTyped DEF Inv, TypeOK, DirTyped
    <3>2. CASE dir' = dir
        BY <3>2 DEF Inv, TypeOK, DirTyped
    <3> QED
        BY <1>1, <3>1, <3>2
  <2> QED
      BY <1>1, <1>3, <2>1 DEF Inv, TypeOK, DirTyped
<1>5. \A k \in Slots : Uses(s, k)' <=> Uses(s, k)
    BY <1>1, <1>3 DEF Uses
<1>6. Elsewhere(s) /\ OthersFiles(s) /\ NewNames(s)
    BY <1>1, <1>2, <1>3, <1>5 DEF Elsewhere, OthersFiles, NewNames
<1>7. Temporary(s)'
    BY <1>1, <1>2, <1>5, NameFacts DEF Inv, Mine, Temporary
<1>8. Shape(s)' /\ Contents(s)'
  <2>1. Uses(s, "new") /\ Shape(s) /\ Contents(s)
      BY <1>1 DEF Inv, Mine, Shape, Uses
  <2>2. dir'[held[s].new] = dir[held[s].new]
      BY <1>2, <2>1, NameFacts DEF Inv, Mine, Temporary, Slots
  <2> QED
      BY <1>1, <1>3, <2>1, <2>2 DEF Shape, Contents
<1> QED
    BY <1>2, <1>4, <1>6, <1>7, <1>8, StepKeeps DEF Mine

\* The second rename gives the name of the main file to the scanner's file.
LEMMA SwapDir ==
    ASSUME Inv, NEW s \in Scanners, Swap(s)
    PROVE  /\ DOMAIN dir' = (DOMAIN dir \ {held[s].new}) \cup {Main}
           /\ dir'[Main] = dir[held[s].new] /\ held[s].new \in DOMAIN dir
           /\ held[s].new \in Temps /\ Uses(s, "new")
           /\ \A x \in DOMAIN dir : x # held[s].new /\ x # Main => dir'[x] = dir[x]
           /\ DirTyped' /\ DirOK'
<1>1. pc[s] = "swap" /\ dir' = Renamed(held[s].new, Main) /\ UNCHANGED <<rpc, header, got>>
    BY DEF Swap, reader
<1>2. Shape(s) /\ Temporary(s) /\ Contents(s)
    BY DEF Inv, Mine
<1>3. Uses(s, "new") /\ Proper(dir[held[s].new])
    BY <1>1, <1>2 DEF Shape, Contents, Uses
<1>4. held[s].new \in Temps /\ held[s].new \in DOMAIN dir
    BY <1>2, <1>3 DEF Temporary, Slots
<1>5. /\ DOMAIN dir' = (DOMAIN dir \ {held[s].new}) \cup {Main}
      /\ dir'[Main] = dir[held[s].new]
      /\ \A x \in DOMAIN dir : x # held[s].new /\ x # Main => dir'[x] = dir[x]
    BY <1>1, <1>4, NameFacts DEF Renamed, Exists
<1>6. DirTyped'
    BY <1>4, <1>5, NameFacts DEF Inv, TypeOK, DirTyped
<1>7. DirOK'
    BY <1>1, <1>3, <1>4, <1>5, NameFacts DEF Inv, DirOK, Exists
<1> QED
    BY <1>3, <1>4, <1>5, <1>6, <1>7

LEMMA SwapKeeps ==
    ASSUME Inv, NEW s \in Scanners, Swap(s)
    PROVE  Inv'
<1>1. /\ pc[s] = "swap" /\ stopped' = FALSE
      /\ UNCHANGED <<rpc, header, got, written, crashes, overlap, careless>>
    BY DEF Swap, reader
<1>2. OthersFiles(s)
    BY SwapDir DEF OthersFiles, Slots
<1>3. CASE held[s].text = NoName
  <2>1. Goto(s, "idle") /\ Forget(s) /\ committed' = committed \cup {id[s]}
      BY <1>3 DEF Swap
  <2>2. committed' \subseteq 1..MaxWrites
      BY <1>1, <2>1 DEF Inv, TypeOK, Mine, Contents
  <2>3. /\ pc' \in [Scanners -> PC] /\ id' \in [Scanners -> Nat]
        /\ base' \in [Scanners -> Nat] /\ held' \in [Scanners -> Held]
        /\ try' \in [Scanners -> Nat] /\ old' \in [Scanners -> Seq(Nat)]
        /\ Elsewhere(s) /\ NewNames(s) /\ Mine(s)'
      BY <2>1, ForgetTypes
  <2>4. TypeOK'
      BY <1>1, <2>2, <2>3, SwapDir DEF Inv, TypeOK, DirTyped
  <2> QED
      BY <1>2, <2>3, <2>4, SwapDir, StepKeeps
<1>4. CASE held[s].text # NoName
  <2>1. /\ pc' = [pc EXCEPT ![s] = "removePrior"]
        /\ UNCHANGED <<id, base, held, try, old, committed>>
      BY <1>4 DEF Swap, Goto, scanner
  <2>2. /\ pc' \in [Scanners -> PC] /\ pc'[s] = "removePrior"
        /\ \A t \in Scanners : t # s => pc'[t] = pc[t]
      BY <2>1 DEF Inv, TypeOK, PC
  <2>3. TypeOK'
      BY <1>1, <2>1, <2>2, SwapDir DEF Inv, TypeOK, DirTyped
  <2>4. \A k \in Slots : Uses(s, k)' <=> Uses(s, k) /\ k # "new"
      BY <1>1, <2>1, <2>2 DEF Uses
  <2>5. Elsewhere(s) /\ NewNames(s)
      BY <2>1, <2>2, <2>4 DEF Elsewhere, NewNames
  <2>6. Temporary(s)'
    <3>1. Temporary(s)
        BY DEF Inv, Mine
    <3>2. \A k \in Slots : Uses(s, k) /\ k # "new" =>
              held[s][k] \in DOMAIN dir /\ held[s][k] # held[s]["new"]
        BY <3>1, SwapDir DEF Temporary, Slots
    <3>3. \A k \in Slots : Uses(s, k) /\ k # "new" => held[s][k] \in DOMAIN dir'
        BY <3>2, SwapDir
    <3> QED
        BY <2>1, <2>4, <3>1, <3>3 DEF Temporary
  <2>7. Shape(s)' /\ Contents(s)'
      BY <1>1, <1>4, <2>1, <2>2 DEF Inv, Mine, Shape, Contents, Slots
  <2> QED
      BY <1>2, <2>3, <2>5, <2>6, <2>7, SwapDir, StepKeeps DEF Mine
<1> QED
    BY <1>3, <1>4

\* The temporary files of a finished delta are removed, one after the other.
LEMMA RemoveDir ==
    ASSUME Inv, NEW s \in Scanners, NEW k \in Slots, Uses(s, k),
           dir' = Without(held[s][k]) \/ dir' = dir, UNCHANGED <<rpc, header>>
    PROVE  DirTyped' /\ DirOK' /\ OthersFiles(s)
<1>1. held[s][k] \in Temps
    BY DEF Inv, Mine, Temporary, Slots
<1>2. /\ DOMAIN dir' = DOMAIN dir \ {held[s][k]} \/ DOMAIN dir' = DOMAIN dir
      /\ \A x \in DOMAIN dir : x # held[s][k] => dir'[x] = dir[x]
      /\ held[s][k] \in DOMAIN dir' => dir' = dir
    BY DEF Without
<1>3. DirTyped'
    BY <1>2 DEF Inv, TypeOK, DirTyped
<1>4. DirOK'
    BY <1>1, <1>2, NameFacts DEF Inv, DirOK, Exists
<1>5. OthersFiles(s)
    BY <1>2 DEF OthersFiles, Slots
<1> QED
    BY <1>3, <1>4, <1>5

LEMMA RemovePriorKeeps ==
    ASSUME Inv, NEW s \in Scanners, RemovePrior(s)
    PROVE  Inv'
<1>1. /\ pc[s] = "removePrior" /\ (dir' = Without(held[s].prior) \/ dir' = dir)
      /\ pc' = [pc EXCEPT ![s] = "removeText"]
      /\ UNCHANGED <<id, base, held, try, old, rpc, header, got, written, committed,
                     crashes, overlap, careless, stopped>>
    BY DEF RemovePrior, Goto, scanner, reader, history
<1>2. Shape(s) /\ Temporary(s) /\ Contents(s)
    BY DEF Inv, Mine
<1>3. Uses(s, "prior") /\ Uses(s, "text")
    BY <1>1, <1>2 DEF Shape, Uses, Slots
<1>4. DirTyped' /\ DirOK' /\ OthersFiles(s)
    BY <1>1, <1>3, RemoveDir DEF Slots
<1>5. /\ pc' \in [Scanners -> PC] /\ pc'[s] = "removeText"
      /\ \A t \in Scanners : t # s => pc'[t] = pc[t]
    BY <1>1 DEF Inv, TypeOK, PC
<1>6. TypeOK'
    BY <1>1, <1>4, <1>5 DEF Inv, TypeOK, DirTyped
<1>7. \A k \in Slots : Uses(s, k)' <=> k = "text"
    BY <1>1, <1>3, <1>5 DEF Uses
<1>8. Elsewhere(s) /\ NewNames(s)
    BY <1>1, <1>3, <1>5, <1>7 DEF Elsewhere, NewNames
<1>9. Temporary(s)'
  <2>1. /\ held[s]["text"] \in Temps /\ held[s]["text"] \in DOMAIN dir
        /\ held[s]["text"] # held[s]["prior"]
      BY <1>2, <1>3 DEF Temporary, Slots
  <2>2. held[s]["text"] \in DOMAIN dir'
      BY <1>1, <2>1 DEF Without
  <2> QED
      BY <1>1, <1>7, <2>1, <2>2 DEF Temporary
<1>10. Shape(s)' /\ Contents(s)'
    BY <1>1, <1>2, <1>5 DEF Shape, Contents
<1> QED
    BY <1>4, <1>6, <1>8, <1>9, <1>10, StepKeeps DEF Mine

LEMMA RemoveTextKeeps ==
    ASSUME Inv, NEW s \in Scanners, RemoveText(s)
    PROVE  Inv'
<1>1. /\ pc[s] = "removeText" /\ (dir' = Without(held[s].text) \/ dir' = dir)
      /\ Goto(s, "idle") /\ Forget(s) /\ committed' = committed \cup {id[s]}
      /\ UNCHANGED <<rpc, header, got, written, crashes, overlap, careless, stopped>>
    BY DEF RemoveText, reader
<1>2. Uses(s, "text")
    BY <1>1 DEF Inv, Mine, Shape, Uses, Slots
<1>3. DirTyped' /\ DirOK' /\ OthersFiles(s)
    BY <1>1, <1>2, RemoveDir DEF Slots
<1>4. committed' \subseteq 1..MaxWrites
    BY <1>1 DEF Inv, TypeOK, Mine, Contents
<1>5. /\ pc' \in [Scanners -> PC] /\ id' \in [Scanners -> Nat]
      /\ base' \in [Scanners -> Nat] /\ held' \in [Scanners -> Held]
      /\ try' \in [Scanners -> Nat] /\ old' \in [Scanners -> Seq(Nat)]
      /\ Elsewhere(s) /\ NewNames(s) /\ Mine(s)'
    BY <1>1, ForgetTypes
<1>6. TypeOK'
    BY <1>1, <1>3, <1>4, <1>5 DEF Inv, TypeOK, DirTyped
<1> QED
    BY <1>3, <1>5, <1>6, StepKeeps

LEMMA DiscardKeeps ==
    ASSUME Inv, NEW s \in Scanners, Discard(s)
    PROVE  Inv'
<1>1. /\ pc[s] \in {"writeFirst", "copy"} /\ dir' = Without(held[s].new)
      /\ Goto(s, "idle") /\ Forget(s)
      /\ UNCHANGED <<rpc, header, got, written, committed, crashes, overlap, careless,
                     stopped>>
    BY DEF Discard, reader, history
<1>2. Uses(s, "new")
    BY <1>1 DEF Inv, Mine, Shape, Uses, Slots
<1>3. DirTyped' /\ DirOK' /\ OthersFiles(s)
    BY <1>1, <1>2, RemoveDir DEF Slots
<1>4. /\ pc' \in [Scanners -> PC] /\ id' \in [Scanners -> Nat]
      /\ base' \in [Scanners -> Nat] /\ held' \in [Scanners -> Held]
      /\ try' \in [Scanners -> Nat] /\ old' \in [Scanners -> Seq(Nat)]
      /\ Elsewhere(s) /\ NewNames(s) /\ Mine(s)'
    BY <1>1, ForgetTypes
<1>5. TypeOK'
    BY <1>1, <1>3, <1>4 DEF Inv, TypeOK, DirTyped
<1> QED
    BY <1>3, <1>4, <1>5, StepKeeps

-----------------------------------------------------------------------------
(***************************************************************************)
(* The other steps.                                                        *)
(***************************************************************************)

\* A step that leaves the scanners and their files alone.
LEMMA RestKeeps ==
    ASSUME Inv, TypeOK', DirOK', UNCHANGED <<pc, id, base, held, old>>,
           \A x \in DOMAIN dir : x \notin {Main, Bak} => x \in DOMAIN dir' /\ dir'[x] = dir[x]
    PROVE  Inv'
<1>1. ASSUME NEW s \in Scanners
      PROVE  Mine(s)'
  <2>1. Shape(s) /\ Temporary(s) /\ Contents(s)
      BY DEF Inv, Mine
  <2>2. ASSUME NEW k \in Slots, Uses(s, k)
        PROVE  held[s][k] \in DOMAIN dir' /\ dir'[held[s][k]] = dir[held[s][k]]
      BY <2>1, <2>2, NameFacts DEF Temporary
  <2>3. Shape(s)' /\ Temporary(s)'
      BY <2>1, <2>2 DEF Shape, Temporary, Uses
  <2>4. pc[s] \in {"prior", "extract", "open", "new", "copy"} => Uses(s, "text")
      BY <2>1 DEF Shape, Uses, Slots
  <2>5. pc[s] \in {"backUp", "swap"} => Uses(s, "new")
      BY <2>1 DEF Shape, Uses, Slots
  <2>6. Contents(s)'
      BY <2>1, <2>2, <2>4, <2>5 DEF Contents, Slots
  <2> QED
      BY <2>3, <2>6 DEF Mine
<1>2. \A s, t \in Scanners : s # t => Apart(s, t)'
    BY DEF Inv, Apart, Uses
<1> QED
    BY <1>1, <1>2 DEF Inv

LEMMA ReaderKeeps ==
    ASSUME Inv, ReadHeader \/ ReadLines
    PROVE  Inv'
<1>1. /\ UNCHANGED <<dir, pc, id, base, held, try, old, written, committed, crashes,
                     overlap, careless, stopped>>
    BY DEF ReadHeader, ReadLines, scanner, history
<1>2. /\ rpc' \in {"idle", "read"} /\ header' \in Seq(Nat) /\ got' \in Seq(Nat)
      /\ rpc' = "read" => Len(header') > 0
  <2>1. CASE ReadHeader
    <3>1. Exists(Main) /\ header' = dir[Main].revs /\ got' = << >> /\ rpc' = "read"
        BY <2>1 DEF ReadHeader
    <3>2. dir[Main].revs \in Seq(Nat) /\ Len(dir[Main].revs) > 0
        BY <3>1 DEF Inv, TypeOK, DirOK, Exists, File, Proper
    <3> QED
        BY <3>1, <3>2
  <2>2. CASE ReadLines
    <3>1. CASE Exists(Main) /\ dir[Main].whole
      <4>1. Len(header) \in Nat /\ Len(header) > 0
          BY <2>2 DEF ReadLines, Inv, TypeOK, DirOK
      <4>2. dir[Main].revs \in Seq(Nat) /\ Len(dir[Main].revs) > 0
          BY <3>1 DEF Inv, TypeOK, DirOK, Exists, File, Proper
      <4>3. At(dir[Main].revs, Len(header)) \in Nat
          BY <4>1, <4>2, AtTypes
      <4>4. PICK x \in Nat : x = At(dir[Main].revs, Len(header))
          BY <4>3
      <4>5. got' = <<x>> /\ header' = header /\ rpc' = "idle"
          BY <2>2, <3>1, <4>4 DEF ReadLines
      <4> QED
          BY <4>5 DEF Inv, TypeOK
    <3>2. CASE ~ (Exists(Main) /\ dir[Main].whole)
      <4>1. got' = << >> /\ header' = << >> /\ rpc' = "idle"
          BY <2>2, <3>2 DEF ReadLines
      <4> QED
          BY <4>1
    <3> QED
        BY <3>1, <3>2
  <2> QED
      BY <2>1, <2>2
<1>3. TypeOK' /\ DirOK'
    BY <1>1, <1>2 DEF Inv, TypeOK, DirOK, Exists
<1> QED
    BY <1>1, <1>3, RestKeeps

LEMMA RepairKeeps ==
    ASSUME Inv, Repair
    PROVE  Inv'
<1>1. /\ ~ Exists(Main) /\ Exists(Bak) /\ dir' = Renamed(Bak, Main) /\ stopped' = FALSE
      /\ UNCHANGED <<pc, id, base, held, try, old, rpc, header, got, written, committed,
                     crashes, overlap, careless>>
    BY DEF Repair, scanner, reader
<1>2. /\ DOMAIN dir' = (DOMAIN dir \ {Bak}) \cup {Main} /\ dir'[Main] = dir[Bak]
      /\ \A x \in DOMAIN dir : x # Bak /\ x # Main => dir'[x] = dir[x]
    BY <1>1, NameFacts DEF Renamed, Exists
<1>3. DirOK'
    BY <1>1, <1>2, NameFacts DEF Inv, DirOK, Exists
<1>4. TypeOK'
  <2>1. DirTyped'
      BY <1>1, NameFacts, RenamedTyped DEF Inv, TypeOK, DirTyped
  <2> QED
      BY <1>1, <2>1 DEF Inv, TypeOK, DirTyped
<1> QED
    BY <1>1, <1>2, <1>3, <1>4, RestKeeps

LEMMA InitInv == Init => Inv
<1> SUFFICES ASSUME Init PROVE Inv
    OBVIOUS
<1>1. DOMAIN dir = {}
    BY DEF Init
<1>2. [text |-> NoName, prior |-> NoName, new |-> NoName] \in Held
    BY DEF Held
<1>3. TypeOK
  <2>1. /\ pc \in [Scanners -> PC] /\ id \in [Scanners -> Nat] /\ base \in [Scanners -> Nat]
        /\ try \in [Scanners -> Nat] /\ old \in [Scanners -> Seq(Nat)]
      BY DEF Init, PC
  <2>2. held \in [Scanners -> Held]
      BY <1>2 DEF Init
  <2>3. /\ rpc = "idle" /\ header \in Seq(Nat) /\ got \in Seq(Nat)
        /\ written \in 0..MaxWrites /\ committed = {} /\ crashes \in 0..MaxCrashes
        /\ overlap = FALSE /\ careless = FALSE /\ stopped = FALSE
      BY BoundsAssumption DEF Init
  <2> QED
      BY <1>1, <2>1, <2>2, <2>3 DEF TypeOK
<1>4. DirOK
    BY <1>1 DEF Init, DirOK, Exists
<1>5. \A s \in Scanners : pc[s] = "idle" /\ \A k \in Slots : held[s][k] = NoName
  <2>1. \A s \in Scanners : pc[s] = "idle" /\
            held[s] = [text |-> NoName, prior |-> NoName, new |-> NoName]
      BY DEF Init
  <2>2. ASSUME NEW s \in Scanners, NEW k \in Slots
        PROVE  held[s][k] = NoName
    <3>1. held[s].text = NoName /\ held[s].prior = NoName /\ held[s].new = NoName
        BY <2>1
    <3>2. k = "text" \/ k = "prior" \/ k = "new"
        BY DEF Slots
    <3> QED
        BY <3>1, <3>2
  <2> QED
      BY <2>1, <2>2
<1>6. \A s \in Scanners : Mine(s)
    BY <1>5 DEF Mine, Shape, Temporary, Contents, Uses
<1>7. \A s, t \in Scanners : Apart(s, t)
    BY <1>5 DEF Apart, Uses
<1> QED
    BY <1>3, <1>4, <1>6, <1>7 DEF Inv

LEMMA NextInv == Inv /\ [Next]_vars => Inv'
<1> SUFFICES ASSUME Inv, [Next]_vars PROVE Inv'
    OBVIOUS
<1>1. ASSUME NEW s \in Scanners, Write(s)
      PROVE  Inv'
    BY <1>1, BeginKeeps, LookKeeps, CreationsKeep, WriteFirstKeeps, WriteTextKeeps,
       ExtractKeeps, OpenKeeps, CopyKeeps, BackUpKeeps, SwapKeeps, RemovePriorKeeps,
       RemoveTextKeeps DEF Write
<1>2. ASSUME NEW s \in Scanners, Discard(s) \/ Fail(s) \/ Crash(s)
      PROVE  Inv'
    BY <1>2, DiscardKeeps, GiveUpKeeps
<1>3. CASE ReadHeader \/ ReadLines
    BY <1>3, ReaderKeeps
<1>4. CASE Repair
    BY <1>4, RepairKeeps
<1>5. CASE UNCHANGED vars
  <2>1. UNCHANGED <<dir, pc, id, base, held, try, old, rpc, header, got, written, committed,
                    crashes, overlap, careless, stopped>>
      BY <1>5 DEF vars
  <2>2. TypeOK' /\ DirOK'
      BY <2>1 DEF Inv, TypeOK, DirOK, Exists
  <2> QED
      BY <2>1, <2>2, RestKeeps
<1> QED
    BY <1>1, <1>2, <1>3, <1>4, <1>5 DEF Next

LEMMA InvHolds == Spec => []Inv
<1> QED
    BY InitInv, NextInv, PTL DEF Spec

-----------------------------------------------------------------------------
(***************************************************************************)
(* Results.                                                                *)
(***************************************************************************)

\* Every variable keeps its type: no scanner asks for a revision out of an
\* empty weave file, or reads a file that is not there.
THEOREM StoreTyped == Spec => []TypeOK
<1>1. Inv => TypeOK
    BY DEF Inv
<1> QED
    BY <1>1, InvHolds, PTL

LEMMA InUseUses ==
    ASSUME Inv, NEW s \in Scanners, NEW n \in InUse(s)
    PROVE  \E k \in Slots : Uses(s, k) /\ n = held[s][k]
<1>1. Shape(s)
    BY DEF Inv, Mine
<1>2. CASE pc[s] = "removePrior"
    BY <1>1, <1>2 DEF InUse, Shape, Uses, Slots
<1>3. CASE pc[s] = "removeText"
    BY <1>1, <1>3 DEF InUse, Shape, Uses, Slots
<1>4. CASE pc[s] \notin {"removePrior", "removeText"}
    BY <1>4 DEF InUse, Names, Uses, Slots
<1> QED
    BY <1>2, <1>3, <1>4

\* The temporary files of a scanner are its own until it has done with them,
\* for any number of scanners that fail and die at any point (naming.go: "this
\* code will never write to a file that already exists").
THEOREM TempsOwned == Spec => []OwnTemps
<1>1. ASSUME Inv
      PROVE  OwnTemps
  <2>1. ASSUME NEW s \in Scanners, NEW n \in InUse(s)
        PROVE  n \in DOMAIN dir \ {Main, Bak}
    <3>1. PICK k \in Slots : Uses(s, k) /\ n = held[s][k]
        BY <1>1, <2>1, InUseUses
    <3> QED
        BY <1>1, <3>1, NameFacts DEF Inv, Mine, Temporary
  <2>2. ASSUME NEW s \in Scanners, NEW t \in Scanners, s # t,
               NEW n \in InUse(s) \cap InUse(t)
        PROVE  FALSE
    <3>1. PICK k \in Slots : Uses(s, k) /\ n = held[s][k]
        BY <1>1, <2>2, InUseUses
    <3>2. PICK l \in Slots : Uses(t, l) /\ n = held[t][l]
        BY <1>1, <2>2, InUseUses
    <3> QED
        BY <1>1, <2>2, <3>1, <3>2 DEF Inv, Apart
  <2> QED
      BY <2>1, <2>2 DEF OwnTemps
<1> QED
    BY <1>1, InvHolds, PTL

\* If the last flush of a weave file cannot fail, the main file and the backup
\* are whole and have a revision whenever they exist, however scanners race,
\* fail and die between the two renames of Close.
THEOREM MainIsWhole == ~ TailFails => (Spec => []MainWhole)
<1> SUFFICES ASSUME ~ TailFails PROVE Spec => []MainWhole
    OBVIOUS
<1>1. Inv => MainWhole
    BY DEF Inv, DirOK, Proper, MainWhole
<1> QED
    BY <1>1, InvHolds, PTL

-----------------------------------------------------------------------------
(***************************************************************************)
(* The main file is missing only between two renames.                      *)
(***************************************************************************)

\* The main file and the backup stay as they are.
NamedKept == \A n \in {Main, Bak} :
                 /\ n \in DOMAIN dir' <=> n \in DOMAIN dir
                 /\ n \in DOMAIN dir => dir'[n] = dir[n]

LEMMA TempWritten ==
    ASSUME NEW n \in Temps, NEW f, dir' = With(n, f) \/ dir' = Without(n)
    PROVE  NamedKept
BY NameFacts DEF With, Without, NamedKept

LEMMA TempFileFacts ==
    ASSUME Inv, NEW s \in Scanners, NEW gz \in BOOLEAN, NEW slot \in Slots, NEW next,
           TempFile(s, gz, slot, next)
    PROVE  /\ NamedKept
           /\ \A t \in Scanners : t # s => pc'[t] = pc[t]
           /\ \A x \in DOMAIN dir : x \in DOMAIN dir' /\ dir'[x] = dir[x]
           /\ UNCHANGED <<id, base, old, rpc, header, got, written, committed, crashes,
                          overlap, careless, stopped>>
           /\ \/ pc'[s] = pc[s] /\ held' = held
              \/ pc'[s] = next /\ \A k \in Slots : k # slot => held'[s][k] = held[s][k]
<1> DEFINE name == TempName(try[s], gz)
<1>1. UNCHANGED <<id, base, old, rpc, header, got, written, committed, crashes,
                  overlap, careless, stopped>>
    BY DEF TempFile, reader, history
<1>2. name \in Temps /\ name \in Name
    BY TempNames, NameFacts DEF Inv, TypeOK
<1> HIDE DEF name
<1>3. CASE Exists(name)
  <2>1. UNCHANGED <<dir, pc, held>>
      BY <1>3 DEF TempFile, name
  <2> QED
      BY <1>1, <2>1 DEF NamedKept
<1>4. CASE ~ Exists(name)
  <2>1. /\ dir' = With(name, Torn(<< >>)) /\ held' = [held EXCEPT ![s][slot] = name]
        /\ pc' = [pc EXCEPT ![s] = next]
      BY <1>4 DEF TempFile, name, Goto
  <2>2. \A x \in DOMAIN dir : x \in DOMAIN dir' /\ dir'[x] = dir[x]
      BY <1>4, <2>1 DEF With, Exists
  <2>3. NamedKept
      BY <1>2, <2>1, TempWritten
  <2>4. \A k \in Slots : k # slot => held'[s][k] = held[s][k]
    <3>1. held \in [Scanners -> Held] /\ held' = HeldSet(held, s, slot, name)
        BY <2>1 DEF Inv, TypeOK, HeldSet
    <3> QED
        BY <1>2, <3>1, HeldWith
  <2>5. pc'[s] = next /\ \A t \in Scanners : t # s => pc'[t] = pc[t]
      BY <2>1 DEF Inv, TypeOK
  <2> QED
      BY <1>1, <2>2, <2>3, <2>4, <2>5
<1> QED
    BY <1>3, <1>4

\* The steps that rename nothing.
Calm(s) == \/ Begin(s) \/ Look(s)
           \/ CreateFirst(s) \/ WriteFirst(s)
           \/ CreateText(s) \/ WriteText(s)
           \/ CreatePrior(s) \/ Extract(s)
           \/ Open(s) \/ CreateNew(s) \/ Copy(s)
           \/ RemovePrior(s) \/ RemoveText(s)
           \/ Discard(s) \/ Fail(s) \/ Crash(s)

LEMMA CalmKeepsNamed ==
    ASSUME Inv, NEW s \in Scanners, Calm(s)
    PROVE  NamedKept
<1>1. CASE Begin(s) \/ Look(s) \/ Open(s) \/ Fail(s) \/ Crash(s)
  <2>1. UNCHANGED dir
      BY <1>1 DEF Begin, Look, Open, Fail, Crash
  <2> QED
      BY <2>1 DEF NamedKept
<1>2. CASE CreateFirst(s) \/ CreateText(s) \/ CreatePrior(s) \/ CreateNew(s)
  <2>1. PICK gz \in BOOLEAN, slot \in Slots, next \in PC : TempFile(s, gz, slot, next)
      BY <1>2 DEF CreateFirst, CreateText, CreatePrior, CreateNew, Slots, PC
  <2> QED
      BY <2>1, TempFileFacts
<1>3. ASSUME NEW k \in Slots, Uses(s, k), NEW f,
             \/ dir' = With(held[s][k], f)
             \/ dir' = Without(held[s][k])
             \/ dir' = dir
      PROVE  NamedKept
  <2>1. held[s][k] \in Temps
      BY <1>3 DEF Inv, Mine, Temporary
  <2>2. CASE dir' = dir
      BY <2>2 DEF NamedKept
  <2> QED
      BY <1>3, <2>1, <2>2, TempWritten
<1>4. Shape(s)
    BY DEF Inv, Mine
<1>5. CASE WriteFirst(s)
  <2>1. Uses(s, "new") /\ \E f : dir' = With(held[s]["new"], f)
      BY <1>4, <1>5 DEF WriteFirst, Shape, Uses
  <2> QED
      BY <1>3, <2>1 DEF Slots
<1>6. CASE WriteText(s)
  <2>1. Uses(s, "text") /\ \E f : dir' = With(held[s]["text"], f)
      BY <1>4, <1>6 DEF WriteText, Shape, Uses
  <2> QED
      BY <1>3, <2>1 DEF Slots
<1>7. CASE Extract(s)
  <2>1. Uses(s, "prior") /\ \E f : dir' = With(held[s]["prior"], f)
      BY <1>4, <1>7 DEF Extract, Shape, Uses
  <2> QED
      BY <1>3, <2>1 DEF Slots
<1>8. CASE Copy(s)
  <2>1. Uses(s, "new") /\ \E f : dir' = With(held[s]["new"], f)
      BY <1>4, <1>8 DEF Copy, Shape, Uses, Slots
  <2> QED
      BY <1>3, <2>1 DEF Slots
<1>9. CASE RemovePrior(s)
  <2>1. Uses(s, "prior") /\ (dir' = Without(held[s]["prior"]) \/ dir' = dir)
      BY <1>4, <1>9 DEF RemovePrior, Shape, Uses, Slots
  <2> QED
      BY <1>3, <2>1 DEF Slots
<1>10. CASE RemoveText(s)
  <2>1. Uses(s, "text") /\ (dir' = Without(held[s]["text"]) \/ dir' = dir)
      BY <1>4, <1>10 DEF RemoveText, Shape, Uses, Slots
  <2> QED
      BY <1>3, <2>1 DEF Slots
<1>11. CASE Discard(s)
  <2>1. Uses(s, "new") /\ dir' = Without(held[s]["new"])
      BY <1>4, <1>11 DEF Discard, Shape, Uses, Slots
  <2> QED
      BY <1>3, <2>1 DEF Slots
<1> QED
    BY <1>1, <1>2, <1>5, <1>6, <1>7, <1>8, <1>9, <1>10, <1>11 DEF Calm

LEMMA CalmOthers ==
    ASSUME Inv, NEW s \in Scanners, Calm(s)
    PROVE  \A t \in Scanners : t # s => pc'[t] = pc[t]
<1>1. CASE CreateFirst(s) \/ CreateText(s) \/ CreatePrior(s) \/ CreateNew(s)
  <2>1. PICK gz \in BOOLEAN, slot \in Slots, next \in PC : TempFile(s, gz, slot, next)
      BY <1>1 DEF CreateFirst, CreateText, CreatePrior, CreateNew, Slots, PC
  <2> QED
      BY <2>1, TempFileFacts
<1>2. CASE ~ (CreateFirst(s) \/ CreateText(s) \/ CreatePrior(s) \/ CreateNew(s))
  <2>1. \E l : pc' = [pc EXCEPT ![s] = l]
      BY <1>2 DEF Calm, Begin, Look, WriteFirst, WriteText, Extract, Open, Copy,
         RemovePrior, RemoveText, Discard, Fail, Crash, Goto
  <2> QED
      BY <2>1 DEF Inv, TypeOK
<1> QED
    BY <1>1, <1>2

\* A scanner whose revision is in place has still to return.
Placed == committed # {} \/ \E s \in Scanners : pc[s] \in {"removePrior", "removeText"}

Stays == Placed => Exists(Main) \/ stopped \/ \E s \in Scanners : pc[s] = "swap"

LEMMA CalmStays ==
    ASSUME Inv, Stays, NEW s \in Scanners, Calm(s)
    PROVE  Stays'
<1>1. Exists(Main)' <=> Exists(Main)
    BY CalmKeepsNamed DEF NamedKept, Exists
<1>2. \A t \in Scanners : t # s => pc'[t] = pc[t]
    BY CalmOthers
<1>3. Placed' => Placed
  <2>1. pc'[s] \in {"removePrior", "removeText"} => pc[s] = "removePrior"
    <3>1. CASE CreateFirst(s) \/ CreateText(s) \/ CreatePrior(s) \/ CreateNew(s)
      <4>1. PICK gz \in BOOLEAN, slot \in Slots,
                 next \in {"writeFirst", "encode", "extract", "copy"} :
                     TempFile(s, gz, slot, next) /\ pc[s] \in {"first", "text", "prior", "new"}
          BY <3>1 DEF CreateFirst, CreateText, CreatePrior, CreateNew, Slots
      <4> QED
          BY <4>1, TempFileFacts
    <3>2. CASE ~ (CreateFirst(s) \/ CreateText(s) \/ CreatePrior(s) \/ CreateNew(s))
        BY <3>2 DEF Calm, Begin, Look, WriteFirst, WriteText, Extract, Open, Copy,
           RemovePrior, RemoveText, Discard, Fail, Crash, Goto, Inv, TypeOK
    <3> QED
        BY <3>1, <3>2
  <2>2. committed' = committed \/ pc[s] = "removeText"
      BY DEF Calm, Begin, Look, CreateFirst, CreateText, CreatePrior, CreateNew,
         TempFile, WriteFirst, WriteText, Extract, Open, Copy, RemovePrior, RemoveText,
         Discard, Fail, Crash, history
  <2> QED
      BY <1>2, <2>1, <2>2 DEF Placed
\* A scanner that stops at its second rename says whether it left a main file.
<1>4. CASE pc[s] = "swap"
  <2>1. Stop(s)
      BY <1>4 DEF Calm, Begin, Look, CreateFirst, CreateText, CreatePrior, CreateNew,
         WriteFirst, WriteText, Extract, Open, Copy, RemovePrior, RemoveText, Discard,
         Fail, Crash
  <2> QED
      BY <1>1, <1>4, <2>1 DEF Stop, Stays
<1>5. CASE pc[s] # "swap"
  <2>1. stopped' = stopped
      BY <1>5 DEF Calm, Begin, Look, CreateFirst, CreateText, CreatePrior, CreateNew,
         TempFile, WriteFirst, WriteText, Extract, Open, Copy, RemovePrior, RemoveText,
         Discard, Fail, Crash, Stop, history
  <2> QED
      BY <1>1, <1>2, <1>3, <1>5, <2>1 DEF Stays
<1> QED
    BY <1>4, <1>5

LEMMA NextStays ==
    ASSUME Inv, Stays, [Next]_vars
    PROVE  Stays'
<1>1. ASSUME NEW s \in Scanners, Write(s) \/ Discard(s) \/ Fail(s) \/ Crash(s)
      PROVE  Stays'
  <2>1. CASE Calm(s)
      BY <2>1, CalmStays
  <2>2. CASE BackUp(s)
    <3>1. pc'[s] = "swap"
        BY <2>2 DEF BackUp, Goto, Inv, TypeOK
    <3> QED
        BY <3>1 DEF Stays
  <2>3. CASE Swap(s)
    <3>1. Exists(Main)'
        BY <2>3, SwapDir DEF Exists
    <3> QED
        BY <3>1 DEF Stays
  <2> QED
      BY <1>1, <2>1, <2>2, <2>3 DEF Write, Calm
<1>2. CASE ReadHeader \/ ReadLines \/ UNCHANGED vars
  <2>1. UNCHANGED <<dir, pc, committed, stopped>>
      BY <1>2 DEF ReadHeader, ReadLines, vars, history
  <2> QED
      BY <2>1 DEF Stays, Placed, Exists
<1>3. CASE Repair
  <2>1. Exists(Main)'
      BY <1>3, NameFacts DEF Repair, Renamed, Exists
  <2> QED
      BY <2>1 DEF Stays
<1> QED
    BY <1>1, <1>2, <1>3 DEF Next

\* The main file of a store with a revision is missing only while some scanner
\* is between its two renames, or after one died there or could not do the
\* second; so it is for any number of scanners that race, fail and die.
THEOREM MainIsThere == Spec => []MainThere
<1>1. Init => Stays
    BY DEF Init, Stays, Placed
<1>2. Inv /\ Stays /\ [Next]_vars => Stays'
    BY NextStays
<1>3. Stays => MainThere
    BY DEF Stays, Placed, MainThere
<1> QED
    BY <1>1, <1>2, <1>3, InvHolds, PTL DEF Spec

-----------------------------------------------------------------------------
(***************************************************************************)
(* What happens to the revisions while scanners run one at a time.         *)
(***************************************************************************)

\* The revisions of a store: those of the main file, or of the backup.
Latest == IF Exists(Main) THEN dir[Main].revs
          ELSE IF Exists(Bak) THEN dir[Bak].revs ELSE << >>

\* Texts of writes that were begun, in the order in which they were.
Ordered(revs) == \A k \in 1..Len(revs) : /\ revs[k] \in 1..written
                                         /\ \A j \in 1..k - 1 : revs[j] < revs[k]

Below(revs, w) == \A k \in 1..Len(revs) : revs[k] < w
Has(revs, w) == \E k \in 1..Len(revs) : revs[k] = w

\* The scanner begins a weave from nothing.
FromNothing(s) == \/ pc[s] \in {"first", "writeFirst"}
                  \/ pc[s] \in {"backUp", "swap"} /\ held[s].text = NoName

\* What a scanner knows of the weave is still true of it.
Current(s) ==
    /\ pc[s] \in Working =>
           /\ id[s] \in 1..written
           /\ \A n \in {Main, Bak} : Exists(n) => Below(dir[n].revs, id[s])
    /\ pc[s] \in {"text", "encode", "prior", "extract", "open", "new", "copy"} =>
           Exists(Main) /\ base[s] = Len(dir[Main].revs)
    /\ pc[s] \in {"open", "new", "copy"} =>
           dir[held[s].prior].revs = <<At(dir[Main].revs, base[s])>>
    /\ pc[s] \in {"new", "copy"} => old[s] = dir[Main].revs

\* What is in the file that a scanner is about to put in the place of the
\* main file, or has put there.
Successor(s) ==
    /\ FromNothing(s) =>
           /\ ~ Exists(Main) /\ (~ careless => ~ Exists(Bak))
           /\ pc[s] \in {"backUp", "swap"} => dir[held[s].new].revs = <<id[s]>>
    /\ pc[s] \in {"backUp", "swap"} /\ held[s].text # NoName =>
           /\ Exists(Main) \/ (pc[s] = "swap" /\ Exists(Bak))
           /\ dir[held[s].new].revs = Append(Latest, id[s])
    /\ pc[s] \in {"removePrior", "removeText"} =>
           Exists(Main) /\ Has(dir[Main].revs, id[s])

Single == \A s, t \in Scanners : s # t => pc[s] = "idle" \/ pc[t] = "idle"

\* What was committed, and what the reader has seen, is still there.
Kept == /\ \A w \in committed : Has(Latest, w)
        /\ rpc = "read" => /\ Len(header) <= Len(Latest)
                           /\ \A k \in 1..Len(header) : header[k] = Latest[k]
        /\ rpc = "idle" /\ got # << >> => got = <<header[Len(header)]>>

Lineage == /\ Single
           /\ \A n \in {Main, Bak} : Exists(n) => Ordered(dir[n].revs)
           /\ \A s \in Scanners : Current(s) /\ Successor(s)
           /\ ~ careless => Kept

Inv2 == ~ overlap => Lineage

-----------------------------------------------------------------------------
(***************************************************************************)
(* Sequences of revisions.                                                 *)
(***************************************************************************)

LEMMA AppendFacts ==
    ASSUME NEW revs \in Seq(Nat), NEW w \in Nat
    PROVE  /\ Append(revs, w) \in Seq(Nat) /\ Len(Append(revs, w)) = Len(revs) + 1
           /\ Len(revs) \in Nat
           /\ \A k \in 1..Len(revs) : Append(revs, w)[k] = revs[k]
           /\ Append(revs, w)[Len(revs) + 1] = w
OBVIOUS

LEMMA AppendHas ==
    ASSUME NEW revs \in Seq(Nat), NEW w \in Nat
    PROVE  /\ Has(Append(revs, w), w)
           /\ \A v : Has(revs, v) => Has(Append(revs, w), v)
<1>1. Has(Append(revs, w), w)
  <2>1. Len(revs) + 1 \in 1..Len(Append(revs, w))
      BY AppendFacts
  <2> QED
      BY <2>1, AppendFacts DEF Has
<1>2. ASSUME NEW v, Has(revs, v)
      PROVE  Has(Append(revs, w), v)
  <2>1. PICK k \in 1..Len(revs) : revs[k] = v
      BY <1>2 DEF Has
  <2>2. k \in 1..Len(Append(revs, w)) /\ Append(revs, w)[k] = v
      BY <2>1, AppendFacts
  <2> QED
      BY <2>2 DEF Has
<1> QED
    BY <1>1, <1>2

LEMMA AppendOrdered ==
    ASSUME NEW revs \in Seq(Nat), NEW w \in 1..written, written \in Nat,
           Ordered(revs), Below(revs, w)
    PROVE  Ordered(Append(revs, w))
<1> DEFINE all == Append(revs, w)
<1>1. /\ Len(all) = Len(revs) + 1 /\ Len(revs) \in Nat /\ all[Len(revs) + 1] = w
      /\ \A k \in 1..Len(revs) : all[k] = revs[k]
    BY AppendFacts
<1> HIDE DEF all
<1>2. ASSUME NEW k \in 1..Len(all)
      PROVE  all[k] \in 1..written /\ \A j \in 1..k - 1 : all[j] < all[k]
  <2>1. CASE k \in 1..Len(revs)
    <3>1. all[k] = revs[k] /\ \A j \in 1..k - 1 : j \in 1..Len(revs) /\ all[j] = revs[j]
        BY <1>1, <2>1
    <3> QED
        BY <2>1, <3>1 DEF Ordered
  <2>2. CASE k = Len(revs) + 1
    <3>1. all[k] = w /\ \A j \in 1..k - 1 : j \in 1..Len(revs) /\ all[j] = revs[j]
        BY <1>1, <2>2
    <3> QED
        BY <3>1 DEF Below
  <2> QED
      BY <1>1, <1>2, <2>1, <2>2
<1>3. Ordered(all)
    BY <1>2 DEF Ordered
<1> QED
    BY <1>3 DEF all

LEMMA OneOrdered ==
    ASSUME NEW w \in 1..written
    PROVE  Ordered(<<w>>) /\ Has(<<w>>, w)
<1>1. Len(<<w>>) = 1 /\ <<w>>[1] = w
    OBVIOUS
<1> QED
    BY <1>1 DEF Ordered, Has

-----------------------------------------------------------------------------
(***************************************************************************)
(* Steps that rename nothing.                                              *)
(***************************************************************************)

LEMMA LatestKept ==
    ASSUME NamedKept
    PROVE  /\ Latest' = Latest
           /\ Exists(Main)' <=> Exists(Main)
           /\ Exists(Bak)' <=> Exists(Bak)
BY DEF NamedKept, Latest, Exists

\* With one scanner at work, the others know nothing.
LEMMA Alone ==
    ASSUME NEW s \in Scanners, \A t \in Scanners : t # s => pc'[t] = "idle"
    PROVE  /\ Single'
           /\ \A t \in Scanners : t # s => Current(t)' /\ Successor(t)'
BY DEF Single, Current, Successor, FromNothing, Working

LEMMA BusyAlone ==
    ASSUME Lineage, NEW s \in Scanners, pc[s] # "idle",
           \A t \in Scanners : t # s => pc'[t] = pc[t]
    PROVE  \A t \in Scanners : t # s => pc'[t] = "idle"
BY DEF Lineage, Single

LEMMA CalmLineage ==
    ASSUME Inv, Lineage, NEW s \in Scanners, Calm(s), pc[s] # "idle",
           UNCHANGED <<rpc, header, got, written>>, careless => careless',
           \A w \in committed' : w \in committed \/ Has(Latest, w),
           Current(s)', Successor(s)'
    PROVE  Lineage'
<1>1. NamedKept
    BY CalmKeepsNamed
<1>2. \A t \in Scanners : t # s => pc'[t] = "idle"
    BY CalmOthers, BusyAlone
<1>3. Single' /\ \A t \in Scanners : Current(t)' /\ Successor(t)'
    BY <1>2, Alone
<1>4. \A n \in {Main, Bak} : Exists(n)' => Ordered(dir[n].revs)'
    BY <1>1 DEF NamedKept, Exists, Lineage, Ordered
<1>5. ~ careless' => Kept'
    BY <1>1, LatestKept DEF Lineage, Kept, Has
<1> QED
    BY <1>3, <1>4, <1>5 DEF Lineage

LEMMA BeginLineage ==
    ASSUME Inv, Lineage, NEW s \in Scanners, Begin(s), ~ overlap'
    PROVE  Lineage'
<1>1. /\ pc' = [pc EXCEPT ![s] = "look"] /\ id' = [id EXCEPT ![s] = written + 1]
      /\ written' = written + 1 /\ \A t \in Scanners : pc[t] = "idle"
      /\ UNCHANGED <<dir, rpc, header, got, committed, careless>>
    BY DEF Begin, Goto, reader
<1>2. /\ pc'[s] = "look" /\ id'[s] = written + 1 /\ written \in Nat
      /\ \A t \in Scanners : t # s => pc'[t] = "idle"
    BY <1>1, BoundsAssumption DEF Inv, TypeOK
<1>3. \A n \in {Main, Bak} : Exists(n)' =>
          Ordered(dir[n].revs)' /\ Below(dir[n].revs, id[s])'
    BY <1>1, <1>2 DEF Lineage, Exists, Ordered, Below
<1>4. Current(s)' /\ Successor(s)'
    BY <1>1, <1>2, <1>3 DEF Current, Successor, FromNothing
<1>5. Single' /\ \A t \in Scanners : Current(t)' /\ Successor(t)'
    BY <1>2, <1>4, Alone
<1>6. ~ careless' => Kept'
    BY <1>1 DEF Lineage, Kept, Latest, Exists, Has
<1> QED
    BY <1>3, <1>5, <1>6 DEF Lineage

LEMMA LookLineage ==
    ASSUME Inv, Lineage, NEW s \in Scanners, Look(s)
    PROVE  Lineage'
<1>1. /\ pc[s] = "look" /\ pc[s] \in Working
      /\ UNCHANGED <<dir, id, held, old, rpc, header, got, written, committed>>
    BY DEF Look, reader, Working, PC
<1>2. Current(s) /\ Calm(s)
    BY DEF Lineage, Calm
<1>3. (careless => careless') /\ Current(s)' /\ Successor(s)'
  <2>1. CASE Exists(Main)
    <3>1. pc'[s] = "text" /\ base'[s] = IF TRUE THEN Len(dir[Main].revs) ELSE 0
        BY <2>1 DEF Look, Goto, Inv, TypeOK
    <3>2. UNCHANGED careless
        BY <2>1 DEF Look
    <3> QED
        BY <1>1, <1>2, <2>1, <3>1, <3>2 DEF Current, Successor, FromNothing, Exists
  <2>2. CASE ~ Exists(Main)
    <3>1. pc'[s] = "first" /\ careless' = (careless \/ Exists(Bak))
        BY <2>2 DEF Look, Goto, Inv, TypeOK
    <3> QED
        BY <1>1, <1>2, <2>2, <3>1 DEF Current, Successor, FromNothing, Exists
  <2> QED
      BY <2>1, <2>2
<1> QED
    BY <1>1, <1>2, <1>3, CalmLineage

LEMMA GiveUpLineage ==
    ASSUME Inv, Lineage, NEW s \in Scanners, Discard(s) \/ Fail(s) \/ Crash(s)
    PROVE  Lineage'
<1>1. /\ pc[s] # "idle" /\ Goto(s, "idle") /\ Calm(s)
      /\ UNCHANGED <<rpc, header, got, written, committed, careless>>
    BY DEF Discard, Fail, Crash, reader, history, Calm
<1>2. pc'[s] = "idle"
    BY <1>1 DEF Goto, Inv, TypeOK
<1>3. Current(s)' /\ Successor(s)'
    BY <1>2 DEF Current, Successor, FromNothing, Working
<1> QED
    BY <1>1, <1>3, CalmLineage

LEMMA CreateLineage ==
    ASSUME Inv, Lineage, NEW s \in Scanners,
           CreateFirst(s) \/ CreateText(s) \/ CreatePrior(s) \/ CreateNew(s)
    PROVE  Lineage'
<1>1. PICK gz \in BOOLEAN, slot \in Slots, next \in PC :
          /\ TempFile(s, gz, slot, next) /\ <<pc[s], slot, next>> \in Creations
    BY DEF CreateFirst, CreateText, CreatePrior, CreateNew, Slots, PC, Creations
<1>2. /\ NamedKept
      /\ \A t \in Scanners : t # s => pc'[t] = pc[t]
      /\ \A x \in DOMAIN dir : x \in DOMAIN dir' /\ dir'[x] = dir[x]
      /\ UNCHANGED <<id, base, old, rpc, header, got, written, committed, crashes,
                     overlap, careless, stopped>>
      /\ \/ pc'[s] = pc[s] /\ held' = held
         \/ pc'[s] = next /\ \A k \in Slots : k # slot => held'[s][k] = held[s][k]
    BY <1>1, TempFileFacts
<1>3. Current(s) /\ Successor(s) /\ Shape(s) /\ Temporary(s) /\ Calm(s)
    BY DEF Lineage, Inv, Mine, Calm
<1>4. /\ Exists(Main)' <=> Exists(Main)
      /\ Exists(Bak)' <=> Exists(Bak)
      /\ \A n \in {Main, Bak} : Exists(n) => dir'[n] = dir[n]
    BY <1>2, LatestKept DEF NamedKept, Exists
<1>5. pc[s] \in {"first", "text", "prior", "new"} /\ pc[s] \in Working
    BY <1>1 DEF Creations, Working, PC
<1>6. pc[s] = "new" => dir'[held[s].prior] = dir[held[s].prior]
  <2>1. pc[s] = "new" => Uses(s, "prior")
      BY <1>3 DEF Shape, Uses
  <2> QED
      BY <1>2, <1>3, <2>1 DEF Temporary, Slots
<1>7. CASE pc'[s] = pc[s] /\ held' = held
  <2>1. Current(s)'
      BY <1>2, <1>3, <1>4, <1>5, <1>6, <1>7 DEF Current, Below
  <2>2. Successor(s)'
      BY <1>2, <1>3, <1>4, <1>5, <1>7 DEF Successor, FromNothing
  <2> QED
      BY <1>2, <1>3, <1>5, <2>1, <2>2, CalmLineage
<1>8. CASE pc'[s] = next /\ \A k \in Slots : k # slot => held'[s][k] = held[s][k]
  <2>1. pc[s] = "new" => held'[s].prior = held[s].prior
      BY <1>1, <1>8 DEF Creations, Slots
  <2>2. Current(s)'
      BY <1>1, <1>2, <1>3, <1>4, <1>5, <1>6, <1>8, <2>1 DEF Current, Below, Creations
  <2>3. Successor(s)'
      BY <1>1, <1>2, <1>3, <1>4, <1>8 DEF Successor, FromNothing, Creations
  <2> QED
      BY <1>2, <1>3, <1>5, <2>2, <2>3, CalmLineage
<1> QED
    BY <1>2, <1>7, <1>8

LEMMA FillLineage ==
    ASSUME Inv, Lineage, NEW s \in Scanners, NEW k \in Slots, Uses(s, k),
           NEW f \in File, NEW next \in Working, pc[s] \in Working,
           Fill(s, k, f, next), Calm(s)
    PROVE  /\ pc'[s] = next /\ dir'[held[s][k]] = f
           /\ \A l \in Slots : l # k /\ Uses(s, l) => dir'[held[s][l]] = dir[held[s][l]]
           /\ UNCHANGED <<id, base, held, old, rpc, header, got, written, committed,
                          careless>>
           /\ Exists(Main)' <=> Exists(Main)
           /\ Exists(Bak)' <=> Exists(Bak)
           /\ \A n \in {Main, Bak} : Exists(n) => dir'[n] = dir[n]
           /\ Current(s)' /\ Successor(s)' => Lineage'
<1>1. /\ pc'[s] = next /\ dir'[held[s][k]] = f
      /\ \A l \in Slots : l # k /\ Uses(s, l) => dir'[held[s][l]] = dir[held[s][l]]
      /\ UNCHANGED <<id, base, held, old>>
    BY FillFacts
<1>2. UNCHANGED <<rpc, header, got, written, committed, careless>> /\ pc[s] # "idle"
    BY DEF Fill, reader, history, Working
<1>3. NamedKept
    BY CalmKeepsNamed
<1>4. /\ Exists(Main)' <=> Exists(Main)
      /\ Exists(Bak)' <=> Exists(Bak)
      /\ \A n \in {Main, Bak} : Exists(n) => dir'[n] = dir[n]
    BY <1>3, LatestKept DEF NamedKept, Exists
<1>5. Current(s)' /\ Successor(s)' => Lineage'
    BY <1>2, CalmLineage
<1> QED
    BY <1>1, <1>2, <1>4, <1>5

LEMMA WriteFirstLineage ==
    ASSUME Inv, Lineage, NEW s \in Scanners, WriteFirst(s)
    PROVE  Lineage'
<1> DEFINE f == Whole(<<id[s]>>)
<1>1. pc[s] = "writeFirst" /\ Fill(s, "new", f, "backUp") /\ Calm(s)
    BY DEF WriteFirst, Fill, Calm
<1>2. f \in File /\ f.revs = <<id[s]>>
    BY DEF Inv, TypeOK, File, Whole
<1>3. Uses(s, "new") /\ Shape(s) /\ Current(s) /\ Successor(s)
    BY <1>1 DEF Inv, Mine, Shape, Uses, Lineage
<1>4. "new" \in Slots /\ "backUp" \in Working /\ pc[s] \in Working
    BY <1>1 DEF Slots, Working, PC
<1> HIDE DEF f
<1>5. /\ pc'[s] = "backUp" /\ dir'[held[s]["new"]] = f
      /\ UNCHANGED <<id, base, held, old, rpc, header, got, written, committed, careless>>
      /\ Exists(Main)' <=> Exists(Main)
      /\ Exists(Bak)' <=> Exists(Bak)
      /\ \A n \in {Main, Bak} : Exists(n) => dir'[n] = dir[n]
      /\ Current(s)' /\ Successor(s)' => Lineage'
    BY <1>1, <1>2, <1>3, <1>4, FillLineage
<1>6. Current(s)'
    BY <1>3, <1>4, <1>5 DEF Current, Below
<1>7. Successor(s)'
    BY <1>1, <1>2, <1>3, <1>5 DEF Successor, FromNothing, Shape
<1> QED
    BY <1>5, <1>6, <1>7

LEMMA WriteTextLineage ==
    ASSUME Inv, Lineage, NEW s \in Scanners, WriteText(s)
    PROVE  Lineage'
<1> DEFINE f == Whole(<<id[s]>>)
<1>1. pc[s] = "encode" /\ Fill(s, "text", f, "prior") /\ Calm(s)
    BY DEF WriteText, Fill, Calm
<1>2. f \in File
    BY DEF Inv, TypeOK, File, Whole
<1>3. Uses(s, "text") /\ Current(s)
    BY <1>1 DEF Inv, Mine, Shape, Uses, Lineage
<1>4. "text" \in Slots /\ "prior" \in Working /\ pc[s] \in Working
    BY <1>1 DEF Slots, Working, PC
<1> HIDE DEF f
<1>5. /\ pc'[s] = "prior"
      /\ UNCHANGED <<id, base, held, old, rpc, header, got, written, committed, careless>>
      /\ Exists(Main)' <=> Exists(Main)
      /\ Exists(Bak)' <=> Exists(Bak)
      /\ \A n \in {Main, Bak} : Exists(n) => dir'[n] = dir[n]
      /\ Current(s)' /\ Successor(s)' => Lineage'
    BY <1>1, <1>2, <1>3, <1>4, FillLineage
<1>6. Current(s)'
    BY <1>1, <1>3, <1>4, <1>5 DEF Current, Below
<1>7. Successor(s)'
    BY <1>5 DEF Successor, FromNothing
<1> QED
    BY <1>5, <1>6, <1>7

LEMMA ExtractLineage ==
    ASSUME Inv, Lineage, NEW s \in Scanners, Extract(s)
    PROVE  Lineage'
<1> DEFINE x == At(dir[Main].revs, base[s])
           f == Whole(<<x>>)
<1>1. pc[s] = "extract" /\ Exists(Main) /\ Fill(s, "prior", f, "open") /\ Calm(s)
    BY DEF Extract, Fill, Calm
<1>2. Uses(s, "prior") /\ Current(s) /\ Contents(s)
    BY <1>1 DEF Inv, Mine, Shape, Uses, Slots, Lineage
<1>3. x \in Nat
  <2>1. dir[Main].revs \in Seq(Nat) /\ Len(dir[Main].revs) > 0
      BY <1>1 DEF Inv, TypeOK, DirOK, Exists, File, Proper
  <2>2. base[s] \in Nat /\ base[s] > 0
      BY <1>1, <1>2 DEF Inv, TypeOK, Contents
  <2> QED
      BY <2>1, <2>2, AtTypes
<1>4. f.revs = <<At(dir[Main].revs, base[s])>>
    BY DEF Whole
<1> HIDE DEF x
<1>5. f \in File
    BY <1>3 DEF File, Whole
<1> HIDE DEF f
<1>6. "prior" \in Slots /\ "open" \in Working /\ pc[s] \in Working
    BY <1>1 DEF Slots, Working, PC
<1>7. /\ pc'[s] = "open" /\ dir'[held[s]["prior"]] = f
      /\ UNCHANGED <<id, base, held, old, rpc, header, got, written, committed, careless>>
      /\ Exists(Main)' <=> Exists(Main)
      /\ Exists(Bak)' <=> Exists(Bak)
      /\ \A n \in {Main, Bak} : Exists(n) => dir'[n] = dir[n]
      /\ Current(s)' /\ Successor(s)' => Lineage'
    BY <1>1, <1>2, <1>5, <1>6, FillLineage
<1>8. dir'[Main] = dir[Main] /\ dir'[held'[s].prior].revs = <<At(dir'[Main].revs, base'[s])>>
    BY <1>1, <1>4, <1>7
<1>9. Current(s)'
    BY <1>1, <1>2, <1>6, <1>7, <1>8 DEF Current, Below
<1>10. Successor(s)'
    BY <1>7 DEF Successor, FromNothing
<1> QED
    BY <1>7, <1>9, <1>10

LEMMA OpenLineage ==
    ASSUME Inv, Lineage, NEW s \in Scanners, Open(s)
    PROVE  Lineage'
<1>1. /\ pc[s] = "open" /\ Exists(Main) /\ Calm(s)
      /\ UNCHANGED <<dir, id, base, held, rpc, header, got, written, committed, careless>>
    BY DEF Open, reader, history, Calm
<1>2. pc'[s] = "new" /\ old'[s] = dir[Main].revs
  <2>1. s \in DOMAIN old /\ s \in DOMAIN pc
      BY DEF Inv, TypeOK
  <2> QED
      BY <2>1 DEF Open, Goto
<1>3. Current(s) /\ pc[s] \in Working
    BY <1>1 DEF Lineage, Working, PC
<1>4. Current(s)'
    BY <1>1, <1>2, <1>3 DEF Current, Exists
<1>5. Successor(s)'
    BY <1>2 DEF Successor, FromNothing
<1> QED
    BY <1>1, <1>4, <1>5, CalmLineage

LEMMA CopyLineage ==
    ASSUME Inv, Lineage, NEW s \in Scanners, Copy(s)
    PROVE  Lineage'
<1>1. pc[s] = "copy" /\ Calm(s)
    BY DEF Copy, Calm
<1>2. Uses(s, "new") /\ Shape(s) /\ Contents(s) /\ Current(s)
    BY <1>1 DEF Inv, Mine, Shape, Uses, Slots, Lineage
<1>3. NewText(s) = {id[s]}
  <2>1. /\ dir[held[s].text].revs = <<id[s]>> /\ Exists(Main)
        /\ old[s] = dir[Main].revs /\ base[s] = Len(dir[Main].revs)
        /\ dir[held[s].prior].revs = <<At(dir[Main].revs, base[s])>>
      BY <1>1, <1>2 DEF Contents, Current
  <2>2. base[s] >= Len(old[s]) /\ dir[held[s].text].revs[1] = id[s]
    <3>1. Len(dir[Main].revs) \in Nat
        BY <2>1 DEF Inv, TypeOK, Exists, File
    <3> QED
        BY <2>1, <3>1
  <2> QED
      BY <2>1, <2>2 DEF NewText
<1>4. PICK f : /\ f \in {Whole(Append(old[s], id[s])), Torn(Append(old[s], id[s]))}
               /\ Fill(s, "new", f, "backUp")
    BY <1>3 DEF Copy, Fill
<1>5. f \in File /\ f.revs = Append(dir[Main].revs, id[s])
  <2>1. old[s] \in Seq(Nat) /\ id[s] \in Nat /\ old[s] = dir[Main].revs
      BY <1>1, <1>2 DEF Inv, TypeOK, Current
  <2>2. Append(old[s], id[s]) \in Seq(Nat)
      BY <2>1, AppendFacts
  <2>3. PICK revs \in Seq(Nat) : revs = Append(old[s], id[s])
      BY <2>2
  <2>4. f = Whole(revs) \/ f = Torn(revs)
      BY <1>4, <2>3
  <2>5. /\ Whole(revs) \in File /\ Whole(revs).revs = revs
        /\ Torn(revs) \in File /\ Torn(revs).revs = revs
      BY <2>3 DEF Whole, Torn, File
  <2>6. f \in File /\ f.revs = revs
      BY <2>4, <2>5
  <2> QED
      BY <2>1, <2>3, <2>6
<1>6. "new" \in Slots /\ "backUp" \in Working /\ pc[s] \in Working
    BY <1>1 DEF Slots, Working, PC
<1>7. /\ pc'[s] = "backUp" /\ dir'[held[s]["new"]] = f
      /\ UNCHANGED <<id, base, held, old, rpc, header, got, written, committed, careless>>
      /\ Exists(Main)' <=> Exists(Main)
      /\ Exists(Bak)' <=> Exists(Bak)
      /\ \A n \in {Main, Bak} : Exists(n) => dir'[n] = dir[n]
      /\ Current(s)' /\ Successor(s)' => Lineage'
    BY <1>1, <1>2, <1>4, <1>5, <1>6, FillLineage
<1>8. Current(s)'
    BY <1>2, <1>6, <1>7 DEF Current, Below
<1>9. Successor(s)'
  <2>1. held'[s].text # NoName /\ Exists(Main) /\ dir'[Main] = dir[Main]
      BY <1>1, <1>2, <1>7 DEF Shape, Slots, Current
  <2>2. dir'[held'[s].new].revs = Append(Latest', id'[s])
      BY <1>5, <1>7, <2>1 DEF Latest
  <2> QED
      BY <1>7, <2>1, <2>2 DEF Successor, FromNothing
<1> QED
    BY <1>7, <1>8, <1>9

LEMMA RemoveLineage ==
    ASSUME Inv, Lineage, NEW s \in Scanners, RemovePrior(s) \/ RemoveText(s)
    PROVE  Lineage'
<1>1. /\ pc[s] \in {"removePrior", "removeText"} /\ Calm(s)
      /\ UNCHANGED <<rpc, header, got, written, careless>>
    BY DEF RemovePrior, RemoveText, reader, history, Calm
<1>2. Exists(Main) /\ Has(dir[Main].revs, id[s])
    BY <1>1 DEF Lineage, Successor
<1>3. Exists(Main)' /\ dir'[Main] = dir[Main] /\ Has(Latest, id[s])
    BY <1>1, <1>2, CalmKeepsNamed DEF NamedKept, Exists, Latest
<1>4. CASE RemovePrior(s)
  <2>1. pc'[s] = "removeText" /\ id' = id /\ committed' = committed
      BY <1>4 DEF RemovePrior, Goto, scanner, history, Inv, TypeOK
  <2>2. Current(s)' /\ Successor(s)'
      BY <1>2, <1>3, <2>1 DEF Current, Successor, FromNothing, Working
  <2> QED
      BY <1>1, <2>1, <2>2, CalmLineage
<1>5. CASE RemoveText(s)
  <2>1. pc'[s] = "idle" /\ committed' = committed \cup {id[s]}
      BY <1>5 DEF RemoveText, Goto, Inv, TypeOK
  <2>2. Current(s)' /\ Successor(s)'
      BY <2>1 DEF Current, Successor, FromNothing, Working
  <2>3. \A w \in committed' : w \in committed \/ Has(Latest, w)
      BY <1>3, <2>1
  <2> QED
      BY <1>1, <2>2, <2>3, CalmLineage
<1> QED
    BY <1>4, <1>5

-----------------------------------------------------------------------------
(***************************************************************************)
(* The renames.                                                            *)
(***************************************************************************)

LEMMA BackUpLineage ==
    ASSUME Inv, Lineage, NEW s \in Scanners, BackUp(s)
    PROVE  Lineage' /\ Latest' = Latest
<1>1. /\ pc[s] = "backUp" /\ (dir' = Renamed(Main, Bak) \/ dir' = dir)
      /\ pc' = [pc EXCEPT ![s] = "swap"]
      /\ UNCHANGED <<id, base, held, old, rpc, header, got, written, committed, careless>>
    BY DEF BackUp, Goto, scanner, reader, history
<1>2. /\ Single /\ Current(s) /\ Successor(s) /\ Shape(s) /\ pc[s] \in Working
    BY <1>1 DEF Lineage, Inv, Mine, Working, PC
<1>3. pc'[s] = "swap" /\ \A t \in Scanners : t # s => pc'[t] = "idle"
    BY <1>1, <1>2 DEF Inv, TypeOK, Single
<1>4. Uses(s, "new") /\ held[s].new \in DOMAIN dir /\ held[s].new \notin {Main, Bak}
  <2>1. Uses(s, "new")
      BY <1>1, <1>2 DEF Shape, Uses
  <2> QED
      BY <2>1, NameFacts DEF Inv, Mine, Temporary, Slots
\* The main file was not renamed: there is none, or it could not be.
<1>5. CASE dir' = dir
  <2>1. Latest' = Latest
      BY <1>5 DEF Latest, Exists
  <2>2. Current(s)' /\ Successor(s)'
      BY <1>1, <1>2, <1>3, <1>5, <2>1 DEF Current, Successor, FromNothing, Exists, Below
  <2>3. Single' /\ \A t \in Scanners : Current(t)' /\ Successor(t)'
      BY <1>3, <2>2, Alone
  <2>4. \A n \in {Main, Bak} : Exists(n)' => Ordered(dir[n].revs)'
      BY <1>1, <1>5 DEF Lineage, Ordered, Exists
  <2>5. ~ careless' => Kept'
      BY <1>1, <2>1 DEF Lineage, Kept, Has
  <2> QED
      BY <2>1, <2>3, <2>4, <2>5 DEF Lineage
<1>6. CASE dir' # dir
  <2>1. Exists(Main) /\ dir' = Renamed(Main, Bak)
      BY <1>1, <1>6 DEF Renamed
  <2>2. /\ Main \notin DOMAIN dir' /\ Bak \in DOMAIN dir' /\ dir'[Bak] = dir[Main]
        /\ dir'[held[s].new] = dir[held[s].new]
      BY <1>4, <2>1, NameFacts DEF Renamed, Exists
  <2>3. Latest' = Latest
      BY <2>1, <2>2 DEF Latest, Exists
  <2>4. held[s].text # NoName
      BY <1>1, <1>2, <2>1 DEF Successor, FromNothing
  <2>5. Current(s)'
      BY <1>1, <1>2, <1>3, <2>1, <2>2 DEF Current, Exists, Below, Working
  <2>6. Successor(s)'
      BY <1>1, <1>2, <1>3, <2>2, <2>3, <2>4 DEF Successor, FromNothing, Exists
  <2>7. Single' /\ \A t \in Scanners : Current(t)' /\ Successor(t)'
      BY <1>3, <2>5, <2>6, Alone
  <2>8. \A n \in {Main, Bak} : Exists(n)' => Ordered(dir[n].revs)'
      BY <1>1, <2>1, <2>2 DEF Lineage, Ordered, Exists
  <2>9. ~ careless' => Kept'
      BY <1>1, <2>3 DEF Lineage, Kept, Has
  <2> QED
      BY <2>3, <2>7, <2>8, <2>9 DEF Lineage
<1> QED
    BY <1>5, <1>6

\* What the second rename puts in the place of the main file.
LEMMA SwapRevs ==
    ASSUME Inv, Lineage, NEW s \in Scanners, Swap(s)
    PROVE  /\ Exists(Main)' /\ (Exists(Bak)' <=> Exists(Bak))
           /\ Exists(Bak) => dir'[Bak] = dir[Bak]
           /\ id[s] \in 1..written
           /\ held[s].text = NoName => /\ ~ Exists(Main) /\ dir'[Main].revs = <<id[s]>>
                                       /\ ~ careless => ~ Exists(Bak)
           /\ held[s].text # NoName =>
                  /\ Exists(Main) \/ Exists(Bak)
                  /\ dir'[Main].revs = Append(Latest, id[s])
                  /\ Latest \in Seq(Nat) /\ Ordered(Latest) /\ Below(Latest, id[s])
<1>1. pc[s] = "swap" /\ pc[s] \in Working
    BY DEF Swap, Working, PC
<1>2. Current(s) /\ Successor(s)
    BY DEF Lineage
<1>3. /\ DOMAIN dir' = (DOMAIN dir \ {held[s].new}) \cup {Main}
      /\ dir'[Main] = dir[held[s].new] /\ held[s].new \notin {Main, Bak}
      /\ \A x \in DOMAIN dir : x # held[s].new /\ x # Main => dir'[x] = dir[x]
    BY SwapDir, NameFacts
<1>4. /\ Exists(Main)' /\ (Exists(Bak)' <=> Exists(Bak))
      /\ Exists(Bak) => dir'[Bak] = dir[Bak]
    BY <1>3, NameFacts DEF Exists
<1>5. \A n \in {Main, Bak} : Exists(n) =>
          dir[n].revs \in Seq(Nat) /\ Ordered(dir[n].revs) /\ Below(dir[n].revs, id[s])
    BY <1>1, <1>2 DEF Current, Lineage, Inv, TypeOK, Exists, File
<1>6. id[s] \in 1..written
    BY <1>1, <1>2 DEF Current
<1>7. held[s].text = NoName => /\ ~ Exists(Main) /\ dir'[Main].revs = <<id[s]>>
                               /\ ~ careless => ~ Exists(Bak)
    BY <1>1, <1>2, <1>3 DEF Successor, FromNothing
<1>8. held[s].text # NoName => /\ Exists(Main) \/ Exists(Bak)
                               /\ dir'[Main].revs = Append(Latest, id[s])
    BY <1>1, <1>2, <1>3 DEF Successor
<1>9. Exists(Main) \/ Exists(Bak) =>
          Latest \in Seq(Nat) /\ Ordered(Latest) /\ Below(Latest, id[s])
    BY <1>5 DEF Latest
<1> QED
    BY <1>4, <1>6, <1>7, <1>8, <1>9

LEMMA SwapLineage ==
    ASSUME Inv, Lineage, NEW s \in Scanners, Swap(s)
    PROVE  Lineage'
<1>1. /\ pc[s] = "swap" /\ UNCHANGED <<rpc, header, got, written, careless>>
      /\ \E l : pc' = [pc EXCEPT ![s] = l]
    BY DEF Swap, reader, Goto
<1>2. \A t \in Scanners : t # s => pc'[t] = "idle"
    BY <1>1 DEF Inv, TypeOK, Lineage, Single
<1>3. /\ written \in Nat /\ id[s] \in Nat /\ Len(header) \in Nat
      /\ rpc = "read" => Len(header) > 0
    BY DEF Inv, TypeOK, DirOK
<1>4. CASE held[s].text = NoName
  <2>1. pc'[s] = "idle" /\ committed' = committed \cup {id[s]}
      BY <1>4 DEF Swap, Goto, Inv, TypeOK
  <2>2. Current(s)' /\ Successor(s)'
      BY <2>1 DEF Current, Successor, FromNothing, Working
  <2>3. Single' /\ \A t \in Scanners : Current(t)' /\ Successor(t)'
      BY <1>2, <2>2, Alone
  <2>4. dir'[Main].revs = <<id[s]>> /\ id[s] \in 1..written
      BY <1>4, SwapRevs
  <2>5. \A n \in {Main, Bak} : Exists(n)' => Ordered(dir[n].revs)'
    <3>1. Ordered(<<id[s]>>)
        BY <2>4, OneOrdered
    <3> QED
        BY <1>1, <2>4, <3>1, SwapRevs DEF Lineage, Ordered
  <2>6. ASSUME ~ careless
        PROVE  Kept'
    <3>1. Latest = << >> /\ Kept
        BY <1>4, <2>6, SwapRevs DEF Latest, Lineage
    <3>2. Len(Latest) = 0
        BY <3>1
    <3>3. committed = {} /\ rpc # "read"
        BY <1>3, <3>1, <3>2 DEF Kept, Has
    <3>4. Latest' = <<id[s]>>
        BY <2>4, SwapRevs DEF Latest
    <3>5. Has(<<id[s]>>, id[s])
        BY <2>4, OneOrdered
    <3>6. \A w \in committed' : Has(Latest', w)
        BY <2>1, <3>3, <3>4, <3>5
    <3> QED
        BY <1>1, <3>1, <3>3, <3>6 DEF Kept, Has
  <2> QED
      BY <1>1, <2>3, <2>5, <2>6 DEF Lineage
<1>5. CASE held[s].text # NoName
  <2>1. pc'[s] = "removePrior" /\ UNCHANGED <<id, committed>>
      BY <1>5 DEF Swap, Goto, scanner, Inv, TypeOK
  <2>2. PICK revs \in Seq(Nat) :
            /\ revs = Latest /\ Ordered(revs) /\ Below(revs, id[s])
            /\ Exists(Main)' /\ dir'[Main].revs = Append(revs, id[s])
            /\ id[s] \in 1..written
      BY <1>5, SwapRevs
  <2>3. Has(dir'[Main].revs, id[s]) /\ \A v : Has(revs, v) => Has(dir'[Main].revs, v)
      BY <1>3, <2>2, AppendHas
  <2>4. Current(s)' /\ Successor(s)'
      BY <2>1, <2>2, <2>3 DEF Current, Successor, FromNothing, Working
  <2>5. Single' /\ \A t \in Scanners : Current(t)' /\ Successor(t)'
      BY <1>2, <2>4, Alone
  <2>6. \A n \in {Main, Bak} : Exists(n)' => Ordered(dir[n].revs)'
    <3>1. Ordered(dir'[Main].revs)
        BY <1>3, <2>2, AppendOrdered
    <3>2. Exists(Bak)' => Ordered(dir'[Bak].revs)
        BY SwapRevs DEF Lineage
    <3> QED
        BY <1>1, <3>1, <3>2 DEF Ordered
  <2>7. ASSUME ~ careless
        PROVE  Kept'
    <3>1. Latest = revs /\ Kept /\ Latest' = Append(revs, id[s])
        BY <2>2, <2>7 DEF Latest, Lineage
    <3>2. \A w \in committed' : Has(Latest', w)
        BY <2>1, <2>2, <2>3, <3>1 DEF Kept
    <3>3. rpc = "read" => /\ Len(header) <= Len(Latest')
                          /\ \A k \in 1..Len(header) : header[k] = Latest'[k]
        BY <1>3, <3>1, AppendFacts DEF Kept
    <3> QED
        BY <1>1, <3>1, <3>2, <3>3 DEF Kept, Has
  <2> QED
      BY <1>1, <2>5, <2>6, <2>7 DEF Lineage
<1> QED
    BY <1>4, <1>5

-----------------------------------------------------------------------------
(***************************************************************************)
(* The reader, the user, and all steps.                                    *)
(***************************************************************************)

LEMMA ReaderLineage ==
    ASSUME Inv, Lineage, ReadHeader \/ ReadLines
    PROVE  Lineage' /\ Latest' = Latest
<1>1. UNCHANGED <<dir, pc, id, base, held, old, written, committed, careless>>
    BY DEF ReadHeader, ReadLines, scanner, history
<1>2. Latest' = Latest
    BY <1>1 DEF Latest, Exists
<1>3. /\ Single' /\ \A s \in Scanners : Current(s)' /\ Successor(s)'
      /\ \A n \in {Main, Bak} : Exists(n)' => Ordered(dir[n].revs)'
    BY <1>1, <1>2 DEF Lineage, Single, Current, Successor, FromNothing, Ordered, Exists, Below,
       Has
<1>4. ASSUME ~ careless
      PROVE  Kept'
  <2>1. Kept
      BY <1>4 DEF Lineage
  <2>2. \A w \in committed' : Has(Latest, w)'
      BY <1>1, <1>2, <2>1 DEF Kept, Has
  <2>3. CASE ReadHeader
    <3>1. Exists(Main) /\ header' = Latest /\ got' = << >> /\ rpc' = "read"
        BY <2>3 DEF ReadHeader, Latest
    <3>2. Len(Latest) \in Nat
        BY <3>1 DEF Inv, TypeOK, Latest, Exists, File
    <3> QED
        BY <1>2, <2>2, <3>1, <3>2 DEF Kept
  <2>4. CASE ReadLines /\ Exists(Main) /\ dir[Main].whole
    <3>1. /\ rpc = "read" /\ rpc' = "idle" /\ header' = header
          /\ got' = <<At(dir[Main].revs, Len(header))>>
        BY <2>4 DEF ReadLines
    <3>2. Latest = dir[Main].revs /\ Len(header) \in Nat /\ Len(header) > 0
        BY <2>4, <3>1 DEF Latest, Inv, TypeOK, DirOK
    <3>3. At(dir[Main].revs, Len(header)) = header[Len(header)]
        BY <2>1, <3>1, <3>2 DEF Kept, At
    <3> QED
        BY <2>2, <3>1, <3>3 DEF Kept
  <2>5. CASE ReadLines /\ ~ (Exists(Main) /\ dir[Main].whole)
    <3>1. got' = << >> /\ rpc' = "idle"
        BY <2>5 DEF ReadLines
    <3> QED
        BY <2>2, <3>1 DEF Kept
  <2> QED
      BY <2>3, <2>4, <2>5
<1> QED
    BY <1>1, <1>2, <1>3, <1>4 DEF Lineage

LEMMA RepairLineage ==
    ASSUME Inv, Lineage, Repair
    PROVE  Lineage' /\ Latest' = Latest
<1>1. /\ ~ Exists(Main) /\ Exists(Bak) /\ dir' = Renamed(Bak, Main)
      /\ \A s \in Scanners : pc'[s] = "idle"
      /\ UNCHANGED <<pc, rpc, header, got, written, committed, careless>>
    BY DEF Repair, scanner, reader, history
<1>2. DOMAIN dir' = (DOMAIN dir \ {Bak}) \cup {Main} /\ dir'[Main] = dir[Bak]
    BY <1>1, NameFacts DEF Renamed, Exists
<1>3. Latest' = Latest
    BY <1>1, <1>2 DEF Latest, Exists
<1>4. Single' /\ \A s \in Scanners : Current(s)' /\ Successor(s)'
    BY <1>1 DEF Single, Current, Successor, FromNothing, Working
<1>5. \A n \in {Main, Bak} : Exists(n)' => Ordered(dir[n].revs)'
    BY <1>1, <1>2, NameFacts DEF Lineage, Ordered, Exists
<1>6. ~ careless' => Kept'
    BY <1>1, <1>3 DEF Lineage, Kept, Has
<1> QED
    BY <1>3, <1>4, <1>5, <1>6 DEF Lineage

LEMMA OverlapStays ==
    ASSUME Inv, [Next]_vars, ~ overlap'
    PROVE  ~ overlap
<1>1. ASSUME NEW s \in Scanners, Write(s) \/ Discard(s) \/ Fail(s) \/ Crash(s)
      PROVE  ~ overlap
    BY <1>1 DEF Write, Begin, Look, CreateFirst, CreateText, CreatePrior, CreateNew,
       TempFile, WriteFirst, WriteText, Extract, Open, Copy, BackUp, Swap, RemovePrior,
       RemoveText, Discard, Fail, Crash, history
<1> QED
    BY <1>1 DEF Next, ReadHeader, ReadLines, Repair, vars, history

LEMMA NextInv2 ==
    ASSUME Inv, Inv2, [Next]_vars
    PROVE  Inv2'
<1> SUFFICES ASSUME ~ overlap' PROVE Lineage'
    BY DEF Inv2
<1>1. Lineage
    BY OverlapStays DEF Inv2
<1>2. ASSUME NEW s \in Scanners, Write(s) \/ Discard(s) \/ Fail(s) \/ Crash(s)
      PROVE  Lineage'
    BY <1>1, <1>2, BeginLineage, LookLineage, CreateLineage, WriteFirstLineage,
       WriteTextLineage, ExtractLineage, OpenLineage, CopyLineage, BackUpLineage,
       SwapLineage, RemoveLineage, GiveUpLineage DEF Write
<1>3. CASE ReadHeader \/ ReadLines
    BY <1>1, <1>3, ReaderLineage
<1>4. CASE Repair
    BY <1>1, <1>4, RepairLineage
<1>5. CASE UNCHANGED vars
    BY ZenonT(40), <1>1, <1>5 DEF vars, Lineage, Single, Current, Successor, FromNothing, Ordered, Exists,
       Below, Has, Kept, Latest
<1> QED
    BY <1>2, <1>3, <1>4, <1>5 DEF Next

LEMMA Inv2Holds == Spec => [](Inv /\ Inv2)
<1>1. Init => Inv /\ Inv2
  <2> SUFFICES ASSUME Init PROVE Inv2
      BY InitInv
  <2>1. /\ DOMAIN dir = {} /\ committed = {} /\ rpc = "idle" /\ got = << >>
        /\ \A s \in Scanners : pc[s] = "idle"
      BY DEF Init
  <2> QED
      BY <2>1 DEF Inv2, Lineage, Single, Current, Successor, FromNothing, Working, Kept, Exists
<1>2. Inv /\ Inv2 /\ [Next]_vars => Inv' /\ Inv2'
    BY NextInv, NextInv2
<1> QED
    BY <1>1, <1>2, PTL DEF Spec

-----------------------------------------------------------------------------
(***************************************************************************)
(* Results.                                                                *)
(***************************************************************************)

\* While scanners run one at a time, every diff is applied to the weave file
\* that it was made for, and a file has the texts of the writes in the order in
\* which they were begun, none of them twice, wherever scanners die or fail.
THEOREM RevisionsInOrder == Spec => []NoMixUp
<1>1. Inv /\ Inv2 => NoMixUp
  <2> SUFFICES ASSUME Inv, Lineage, NEW n \in {Main, Bak} \cap DOMAIN dir,
                      NEW k \in 1..Len(dir[n].revs)
               PROVE  /\ dir[n].revs[k] # Garbled
                      /\ \A j \in 1..k - 1 : dir[n].revs[j] < dir[n].revs[k]
      BY DEF NoMixUp, Inv2
  <2>1. Ordered(dir[n].revs)
      BY DEF Lineage, Exists
  <2> QED
      BY <2>1 DEF Ordered, Garbled
<1> QED
    BY <1>1, Inv2Holds, PTL

\* A write that returned nil is not lost, wherever later scanners die or fail,
\* while they run one at a time and a missing main file is repaired before the
\* next scan.
THEOREM CommittedIsKept == Spec => []NothingLost
<1>1. Inv /\ Inv2 => NothingLost
  <2> SUFFICES ASSUME Lineage, ~ careless, NEW v \in committed
               PROVE  \E n \in {Main, Bak} :
                         Exists(n) /\ \A w \in committed :
                             \E k \in 1..Len(dir[n].revs) : dir[n].revs[k] = w
      BY DEF Inv2, NothingLost
  <2>1. \A w \in committed : Has(Latest, w)
      BY DEF Lineage, Kept
  <2>2. CASE Exists(Main)
      BY <2>1, <2>2 DEF Latest, Has
  <2>3. CASE ~ Exists(Main) /\ Exists(Bak)
      BY <2>1, <2>3 DEF Latest, Has
  <2>4. CASE ~ Exists(Main) /\ ~ Exists(Bak)
    <3>1. Latest = << >>
        BY <2>4 DEF Latest
    <3> QED
        BY <2>1, <3>1 DEF Has
  <2> QED
      BY <2>2, <2>3, <2>4
<1> QED
    BY <1>1, Inv2Holds, PTL

\* The reader gets the revision that was the latest when it read the header,
\* whatever scanner replaced the main file before it opened it again.
THEOREM ReaderGetsLatest == Spec => []ReadsLatest
<1>1. Inv /\ Inv2 => ReadsLatest
    BY DEF Inv2, Lineage, Kept, ReadsLatest
<1> QED
    BY <1>1, Inv2Holds, PTL

LEMMA StepGrows ==
    ASSUME Inv, Inv2, [Next]_vars, ~ overlap', ~ careless'
    PROVE  /\ Exists(Main) /\ Exists(Main)' =>
                  dir'[Main] = dir[Main] \/ Extends(dir'[Main].revs, dir[Main].revs)
           /\ ~ Exists(Main) /\ Exists(Main)' /\ Exists(Bak)' =>
                  Extends(dir'[Main].revs, dir'[Bak].revs)
           /\ Exists(Bak)' =>
                  \/ Exists(Bak) /\ dir'[Bak] = dir[Bak]
                  \/ Exists(Main) /\ dir'[Bak] = dir[Main]
<1> DEFINE Goal == /\ Exists(Main) /\ Exists(Main)' =>
                          \/ dir'[Main] = dir[Main]
                          \/ Extends(dir'[Main].revs, dir[Main].revs)
                   /\ ~ Exists(Main) /\ Exists(Main)' /\ Exists(Bak)' =>
                          Extends(dir'[Main].revs, dir'[Bak].revs)
                   /\ Exists(Bak)' =>
                          \/ Exists(Bak) /\ dir'[Bak] = dir[Bak]
                          \/ Exists(Main) /\ dir'[Bak] = dir[Main]
<1>1. Lineage
    BY OverlapStays DEF Inv2
<1>2. ASSUME NamedKept
      PROVE  Goal
    BY <1>2 DEF NamedKept, Exists
<1>3. ASSUME NEW s \in Scanners, BackUp(s)
      PROVE  Goal
  <2>1. CASE dir' = dir
      BY <1>2, <2>1 DEF NamedKept
  <2>2. CASE dir' # dir
    <3>1. Exists(Main) /\ dir' = Renamed(Main, Bak)
        BY <1>3, <2>2 DEF BackUp, Renamed
    <3>2. ~ Exists(Main)' /\ dir'[Bak] = dir[Main]
        BY <3>1, NameFacts DEF Renamed, Exists
    <3> QED
        BY <3>1, <3>2
  <2> QED
      BY <2>1, <2>2
<1>4. ASSUME NEW s \in Scanners, Swap(s)
      PROVE  Goal
  <2>1. ~ careless /\ id[s] \in Nat
      BY <1>4 DEF Swap, Inv, TypeOK
  <2>2. /\ Exists(Bak)' <=> Exists(Bak)
        /\ Exists(Bak) => dir'[Bak] = dir[Bak]
      BY <1>1, <1>4, SwapRevs
  <2>3. CASE held[s].text = NoName
      BY <1>1, <1>4, <2>1, <2>2, <2>3, SwapRevs
  <2>4. CASE held[s].text # NoName
    <3>1. PICK revs \in Seq(Nat) : /\ Latest = revs
                                   /\ dir'[Main].revs = Append(revs, id[s])
        BY <1>1, <1>4, <2>4, SwapRevs
    <3>2. Extends(dir'[Main].revs, revs)
        BY <2>1, <3>1, AppendFacts DEF Extends
    <3>3. /\ Exists(Main) => dir[Main].revs = revs
          /\ ~ Exists(Main) /\ Exists(Bak) => dir[Bak].revs = revs
        BY <3>1 DEF Latest
    <3> QED
        BY <2>2, <3>2, <3>3
  <2> QED
      BY <2>3, <2>4
<1>5. CASE Repair
  <2>1. ~ Exists(Main) /\ ~ Exists(Bak)'
      BY <1>5, NameFacts DEF Repair, Renamed, Exists
  <2> QED
      BY <2>1
<1>6. CASE ReadHeader \/ ReadLines \/ UNCHANGED vars
    BY <1>2, <1>6 DEF ReadHeader, ReadLines, vars, NamedKept
<1>7. ASSUME NEW s \in Scanners, Write(s) \/ Discard(s) \/ Fail(s) \/ Crash(s)
      PROVE  Goal
  <2>1. Calm(s) \/ BackUp(s) \/ Swap(s)
      BY <1>7 DEF Write, Calm
  <2> QED
      BY <1>2, <1>3, <1>4, <2>1, CalmKeepsNamed
<1> QED
    BY <1>5, <1>6, <1>7 DEF Next

\* While scanners run one at a time and a missing main file is repaired, a main
\* file is only ever replaced by one that has all its revisions and one more,
\* whether it could be backed up or not, and only a main file becomes the
\* backup, as it was.
THEOREM MainGrows == Spec => Grows
<1> DEFINE Step == ~ overlap' /\ ~ careless' =>
           /\ Exists(Main) /\ Exists(Main)' =>
                  dir'[Main] = dir[Main] \/ Extends(dir'[Main].revs, dir[Main].revs)
           /\ ~ Exists(Main) /\ Exists(Main)' /\ Exists(Bak)' =>
                  Extends(dir'[Main].revs, dir'[Bak].revs)
           /\ Exists(Bak)' =>
                  \/ Exists(Bak) /\ dir'[Bak] = dir[Bak]
                  \/ Exists(Main) /\ dir'[Bak] = dir[Main]
<1>1. Inv /\ Inv2 /\ [Next]_vars => Step
    BY StepGrows
<1>2. Spec => [][Step]_vars
    BY <1>1, Inv2Holds, PTL DEF Spec
<1> QED
    BY <1>2 DEF Grows
=============================================================================
