-------------------------- MODULE HashPool_proofs --------------------------
(***************************************************************************)
(* Proofs about HashPool, for any number of workers and files and any      *)
(* capacity of the buffer pool.  Each invariant below is inductive         *)
(* relative to those before it.                                            *)
(*                                                                         *)
(*   Typed            Spec => []TypeOK                                     *)
(*   RoomInPool       Spec => []PoolHasRoom                                *)
(*   RaceFree         Spec => []NoRace                                     *)
(*   CompleteReturn   Spec => []ReturnsComplete                            *)
(*   EstimateHolds    Spec => []WithinEstimate                             *)
(***************************************************************************)
EXTENDS HashPool, FiniteSetTheorems, TLAPS

-----------------------------------------------------------------------------
(***************************************************************************)
(* Types                                                                   *)
(***************************************************************************)

LEMMA ReqCapNat == ReqCap \in Nat
  BY PoolAssumption, FS_CardinalityType DEF ReqCap

LEMMA FilesFinite == IsFiniteSet(Files) /\ Cardinality(Files) = MaxFiles
  BY PoolAssumption, FS_Interval DEF Files

\* A busy worker has a file.
HasJob == \A w \in Busy : job[w] \in Files

TInv == TypeOK /\ HasJob

LEMMA InitTyped == Init => TInv
  <1> SUFFICES ASSUME Init PROVE TInv
    OBVIOUS
  <1>1. total \in Nat
    <2>1. {f \in Files : ~ sha[f]} \in SUBSET Files
      OBVIOUS
    <2> QED  BY <2>1, FilesFinite, FS_Subset, FS_CardinalityType DEF Init
  <1>2. running \in Int
    BY PoolAssumption, FS_CardinalityType DEF Init
  <1>3. pool \in 0..PoolCap /\ next \in 1..MaxFiles + 1
    BY PoolAssumption DEF Init
  <1>4. req \in Seq(Files) /\ job \in [Workers -> Files \cup {0}]
    BY DEF Init
  <1>5. pc \in [Workers -> PC] /\ HasJob
    BY DEF Init, PC, HasJob, Busy
  <1> QED  BY <1>1, <1>2, <1>3, <1>4, <1>5 DEF Init, TInv, TypeOK

\* The step of a worker from label l to label m, other than its taking a
\* file, is of a busy worker or leaves it idle.
LEMMA MoveKeepsJob ==
    ASSUME TInv, NEW w \in Workers, NEW m \in PC, Goto(w, m), job' = job,
           m \in {"receive", "done"} \/ w \in Busy
    PROVE  pc' \in [Workers -> PC] /\ HasJob'
  BY DEF TInv, TypeOK, HasJob, Busy, Goto

LEMMA StepTyped == TInv /\ [Next]_vars => TInv'
  <1> SUFFICES ASSUME TInv, [Next]_vars PROVE TInv'
    OBVIOUS
  <1> USE PoolAssumption
  <1>1. CASE Walk
    <2>1. next \in Files
      BY <1>1 DEF TInv, TypeOK, Walk, Files
    <2>2. next' \in 1..MaxFiles + 1
      BY <1>1 DEF TInv, TypeOK, Walk
    <2>3. req' \in Seq(Files)
      BY <1>1, <2>1 DEF TInv, TypeOK, Walk
    <2>4. HasJob'
      BY <1>1 DEF TInv, HasJob, Busy, Walk
    <2> QED  BY <1>1, <2>2, <2>3, <2>4 DEF TInv, TypeOK, Walk, progress
  <1>2. CASE Close
    BY <1>2 DEF TInv, TypeOK, HasJob, Busy, Close, progress
  <1>3. CASE Return
    BY <1>3 DEF TInv, TypeOK, HasJob, Busy, Return, progress
  <1>4. ASSUME NEW w \in Workers, Receive(w) PROVE TInv'
    <2>1. Head(req) \in Files /\ Tail(req) \in Seq(Files)
      BY <1>4 DEF TInv, TypeOK, Receive
    <2> QED  BY <1>4, <2>1 DEF TInv, TypeOK, HasJob, Busy, Receive, Goto, PC,
                               progress, main
  <1>5. ASSUME NEW w \in Workers, Done(w) PROVE TInv'
    <2>1. pc' \in [Workers -> PC] /\ HasJob'
      BY <1>5, MoveKeepsJob DEF Done, PC
    <2> QED  BY <1>5, <2>1 DEF TInv, TypeOK, Done, progress, main
  <1>6. ASSUME NEW w \in Workers, OpenFile(w) PROVE TInv'
    <2>1. w \in Busy
      BY <1>6 DEF OpenFile, Busy
    <2>2. pc' \in [Workers -> PC] /\ HasJob'
      BY <1>6, <2>1, MoveKeepsJob DEF OpenFile, LogError, PC
    <2>3. failed' \subseteq Files
      BY <1>6, <2>1 DEF TInv, TypeOK, HasJob, OpenFile, LogError
    <2> QED  BY <1>6, <2>2, <2>3 DEF TInv, TypeOK, OpenFile, progress, main
  <1>7. ASSUME NEW w \in Workers, GetBuffer(w) PROVE TInv'
    <2>1. pc' \in [Workers -> PC] /\ HasJob'
      BY <1>7, MoveKeepsJob DEF GetBuffer, Busy, PC
    <2> QED  BY <1>7, <2>1 DEF TInv, TypeOK, GetBuffer, progress, main
  <1>8. ASSUME NEW w \in Workers, ReadFile(w) PROVE TInv'
    <2>1. w \in Busy
      BY <1>8 DEF ReadFile, Busy
    <2>2. pc' \in [Workers -> PC] /\ HasJob'
      BY <1>8, <2>1, MoveKeepsJob DEF ReadFile, LogError, PC
    <2>3. failed' \subseteq Files
      BY <1>8, <2>1 DEF TInv, TypeOK, HasJob, ReadFile, LogError
    <2> QED  BY <1>8, <2>2, <2>3 DEF TInv, TypeOK, ReadFile, progress, main
  <1>9. ASSUME NEW w \in Workers, PutBuffer(w) PROVE TInv'
    <2>1. pc' \in [Workers -> PC] /\ HasJob'
      BY <1>9, MoveKeepsJob DEF PutBuffer, Busy, PC
    <2> QED  BY <1>9, <2>1 DEF TInv, TypeOK, PutBuffer, progress, main
  <1>10. ASSUME NEW w \in Workers, StoreHash(w) PROVE TInv'
    <2>1. pc' \in [Workers -> PC] /\ HasJob'
      BY <1>10, MoveKeepsJob DEF StoreHash, Busy, PC
    <2> QED  BY <1>10, <2>1 DEF TInv, TypeOK, StoreHash, progress, main
  <1>11. ASSUME NEW w \in Workers, Update(w) PROVE TInv'
    <2>1. pc' \in [Workers -> PC] /\ HasJob'
      BY <1>11, MoveKeepsJob DEF Update, PC
    <2> QED  BY <1>11, <2>1 DEF TInv, TypeOK, Update, progress, main
  <1>12. CASE UNCHANGED vars
    BY <1>12 DEF TInv, TypeOK, HasJob, Busy, vars, progress, main
  <1> QED  BY <1>1, <1>2, <1>3, <1>4, <1>5, <1>6, <1>7, <1>8, <1>9, <1>10,
              <1>11, <1>12 DEF Next, Main, Worker

LEMMA TInvHolds == Spec => []TInv
  BY InitTyped, StepTyped, PTL DEF Spec

\* Every variable of the hashing has its type.
THEOREM Typed == Spec => []TypeOK
  <1>1. TInv => TypeOK
    BY DEF TInv
  <1> QED  BY <1>1, TInvHolds, PTL

-----------------------------------------------------------------------------
(***************************************************************************)
(* Buffers: those in the pool and those that workers hold are together no  *)
(* more than the workers.                                                  *)
(***************************************************************************)

Supply == pool + Cardinality(Holders) <= Cardinality(Workers)

LEMMA HoldersFinite == IsFiniteSet(Holders) /\ Cardinality(Holders) \in Nat
                       /\ Cardinality(Holders) <= Cardinality(Workers)
                       /\ Cardinality(Workers) \in Nat
  <1>1. Holders \in SUBSET Workers
    BY DEF Holders
  <1> QED  BY <1>1, PoolAssumption, FS_Subset, FS_CardinalityType

\* A worker that takes no buffer leaves Holders as it is, or leaves it.
LEMMA HoldersKept ==
    ASSUME TInv, NEW w \in Workers, NEW m, Goto(w, m),
           m \notin {"read", "put"}
    PROVE  Holders' = Holders \ {w}
  BY DEF Goto, Holders, TInv, TypeOK

LEMMA FewerHolders ==
    ASSUME Supply, TInv, NEW w \in Workers, pool' = pool, Holders' = Holders \ {w}
    PROVE  Supply'
  <1>1. Cardinality(Holders') <= Cardinality(Holders) /\ Cardinality(Holders') \in Nat
    <2>1. Holders \ {w} \in SUBSET Holders
      OBVIOUS
    <2>2. Cardinality(Holders \ {w}) <= Cardinality(Holders)
      BY <2>1, HoldersFinite, FS_Subset
    <2>3. Cardinality(Holders \ {w}) \in Nat
      BY HoldersFinite, FS_RemoveElement, FS_CardinalityType
    <2> QED  BY <2>2, <2>3
  <1> QED  BY <1>1, HoldersFinite DEF Supply, TInv, TypeOK

LEMMA SupplyStep == TInv /\ Supply /\ [Next]_vars => Supply'
  <1> SUFFICES ASSUME TInv, Supply, [Next]_vars PROVE Supply'
    OBVIOUS
  <1>1. CASE Main \/ UNCHANGED vars
    BY <1>1 DEF Main, Walk, Close, Return, vars, Supply, Holders
  <1>2. ASSUME NEW w \in Workers, Receive(w) \/ Done(w) \/ OpenFile(w)
                                  \/ StoreHash(w) \/ Update(w)
        PROVE  Supply'
    <2>1. pool' = pool
      BY <1>2 DEF Receive, Done, OpenFile, StoreHash, Update
    <2>2. PICK m \in {"open", "done", "get", "receive", "update"} : Goto(w, m)
      BY <1>2 DEF Receive, Done, OpenFile, LogError, StoreHash, Update
    <2> QED  BY <2>1, <2>2, HoldersKept, FewerHolders
  <1>3. ASSUME NEW w \in Workers, GetBuffer(w) PROVE Supply'
    <2>1. w \notin Holders /\ Holders' = Holders \cup {w}
      BY <1>3 DEF GetBuffer, Goto, Holders, TInv, TypeOK
    <2>2. Cardinality(Holders') = Cardinality(Holders) + 1
      BY <2>1, HoldersFinite, FS_AddElement
    <2>3. Cardinality(Holders') <= Cardinality(Workers)
      <3>1. Holders' \in SUBSET Workers
        BY DEF Holders
      <3> QED  BY <3>1, PoolAssumption, FS_Subset
    <2> QED  BY <1>3, <2>2, <2>3, HoldersFinite, PoolAssumption
             DEF GetBuffer, Supply, TInv, TypeOK
  <1>4. ASSUME NEW w \in Workers, ReadFile(w) PROVE Supply'
    <2>1. pool' = pool
      BY <1>4 DEF ReadFile
    <2>2. Holders' = Holders \/ Holders' = Holders \ {w}
      BY <1>4 DEF ReadFile, LogError, Goto, Holders, TInv, TypeOK
    <2>3. CASE Holders' = Holders
      BY <2>1, <2>3 DEF Supply
    <2>4. CASE Holders' = Holders \ {w}
      BY <2>1, <2>4, FewerHolders
    <2> QED  BY <2>2, <2>3, <2>4
  <1>5. ASSUME NEW w \in Workers, PutBuffer(w) PROVE Supply'
    <2>1. w \in Holders /\ Holders' = Holders \ {w}
      BY <1>5 DEF PutBuffer, Goto, Holders, TInv, TypeOK
    <2>2. Cardinality(Holders') = Cardinality(Holders) - 1
      BY <2>1, HoldersFinite, FS_RemoveElement
    <2> QED  BY <1>5, <2>2, HoldersFinite, PoolAssumption
             DEF PutBuffer, Supply, TInv, TypeOK
  <1> QED  BY <1>1, <1>2, <1>3, <1>4, <1>5 DEF Next, Worker

LEMMA SupplyHolds == Spec => []Supply
  <1>1. Init => Supply
    <2> SUFFICES ASSUME Init PROVE Supply
      OBVIOUS
    <2>1. Holders = {}
      BY DEF Init, Holders
    <2> QED  BY <2>1, FS_EmptySet, HoldersFinite, PoolAssumption DEF Init, Supply
  <1> QED  BY <1>1, SupplyStep, TInvHolds, PTL DEF Spec

\* With no more workers than the pool has room for, no worker finds the pool
\* full when it gives its buffer back.
THEOREM RoomInPool == Spec => []PoolHasRoom
  <1>1. TInv /\ Supply => PoolHasRoom
    <2> SUFFICES ASSUME TInv, Supply, Cardinality(Workers) <= PoolCap,
                        NEW w \in Workers, pc[w] = "put"
                 PROVE  pool < PoolCap
      BY DEF PoolHasRoom
    <2>1. Cardinality(Holders) # 0
      <3>1. w \in Holders
        BY DEF Holders
      <3> QED  BY <3>1, HoldersFinite, FS_EmptySet
    <2> QED  BY <2>1, HoldersFinite, PoolAssumption DEF Supply, TInv, TypeOK
  <1> QED  BY <1>1, TInvHolds, SupplyHolds, PTL

-----------------------------------------------------------------------------
(***************************************************************************)
(* Files: each is in one place at most, in the channel, with a worker, or  *)
(* still ahead of the walk.                                                *)
(***************************************************************************)

InChannel(f) == \E i \in 1..Len(req) : req[i] = f

Apart ==
    /\ \A i \in 1..Len(req) : req[i] \in 1..next - 1
    /\ \A i, j \in 1..Len(req) : i # j => req[i] # req[j]
    /\ NoRace

\* What stays true when a worker does not take a file.
LEMMA ApartKept ==
    ASSUME TInv, Apart, req' = req, job' = job, next' = next, Busy' \subseteq Busy
    PROVE  Apart'
  BY DEF Apart, NoRace

\* A worker's step that takes no file.
Onward(w) == \/ Done(w) \/ OpenFile(w) \/ GetBuffer(w) \/ ReadFile(w)
             \/ PutBuffer(w) \/ StoreHash(w) \/ Update(w)

LEMMA OnwardKeeps ==
    ASSUME TInv, NEW w \in Workers, Onward(w)
    PROVE  req' = req /\ job' = job /\ main' = main /\ Busy' \subseteq Busy
  <1>1. req' = req /\ job' = job /\ main' = main
    BY DEF Onward, Done, OpenFile, GetBuffer, ReadFile, PutBuffer, StoreHash,
           Update, main
  <1>2. Busy' \subseteq Busy
    <2>1. PICK m : Goto(w, m) /\ (m \in {"receive", "done"} \/ w \in Busy)
      BY DEF Onward, Done, OpenFile, LogError, GetBuffer, ReadFile, PutBuffer,
             StoreHash, Update, Busy
    <2> QED  BY <2>1 DEF Goto, Busy, TInv, TypeOK
  <1> QED  BY <1>1, <1>2

\* The files of the channel after one was taken, and after one was added.
LEMMA TailItems ==
    ASSUME NEW s \in Seq(Files), s # << >>
    PROVE  /\ 1 \in 1..Len(s) /\ Head(s) = s[1] /\ Head(s) \in Files
           /\ Tail(s) \in Seq(Files)
           /\ Len(Tail(s)) = Len(s) - 1
           /\ \A i \in 1..Len(Tail(s)) : i + 1 \in 1..Len(s) /\ Tail(s)[i] = s[i + 1]
           /\ \A i \in 1..Len(s) : i # 1 => /\ i - 1 \in 1..Len(Tail(s))
                                            /\ Tail(s)[i - 1] = s[i]
  OBVIOUS

LEMMA AppendItems ==
    ASSUME NEW s \in Seq(Files), NEW f \in Files
    PROVE  /\ Len(Append(s, f)) = Len(s) + 1
           /\ Append(s, f)[Len(s) + 1] = f
           /\ \A i \in 1..Len(s) : Append(s, f)[i] = s[i]
           /\ \A i \in 1..Len(s) + 1 : i \in 1..Len(s) \/ i = Len(s) + 1
           /\ Len(s) + 1 \in 1..Len(s) + 1
           /\ \A i \in 1..Len(s) : i \in 1..Len(s) + 1
           /\ Len(s) \in Nat
  OBVIOUS

LEMMA ApartStep == TInv /\ Apart /\ [Next]_vars => Apart'
  <1> SUFFICES ASSUME TInv, Apart, [Next]_vars PROVE Apart'
    OBVIOUS
  <1>1. CASE Walk
    <2>1. next \in Files /\ next' = next + 1 /\ job' = job /\ Busy' = Busy
      BY <1>1, PoolAssumption DEF Walk, TInv, TypeOK, Files, Busy
    <2>2. \A w \in Busy : job[w] \in 1..next - 1
      BY DEF Apart, NoRace
    <2>3. CASE sha[next]
      <3>1. req' = req
        BY <1>1, <2>3 DEF Walk
      <3> QED  BY <2>1, <3>1, PoolAssumption DEF Apart, NoRace, TInv, TypeOK, Files
    <2>4. CASE ~ sha[next]
      <3>1. req' = Append(req, next) /\ req \in Seq(Files)
        BY <1>1, <2>4 DEF Walk, TInv, TypeOK
      <3>2. /\ Len(req') = Len(req) + 1
            /\ req'[Len(req) + 1] = next
            /\ \A i \in 1..Len(req) : req'[i] = req[i]
            /\ \A i \in 1..Len(req) + 1 : i \in 1..Len(req) \/ i = Len(req) + 1
        BY <2>1, <3>1, AppendItems
      <3>3. \A i \in 1..Len(req') : req'[i] \in 1..next' - 1
        BY <2>1, <3>2, PoolAssumption DEF Apart, Files
      <3>4. \A i, j \in 1..Len(req') : i # j => req'[i] # req'[j]
        BY <2>1, <3>2, PoolAssumption DEF Apart, Files
      <3>5. NoRace'
        <4>1. \A w \in Busy : job[w] \in 1..next' - 1 /\ job[w] # next
          BY <2>1, <2>2, PoolAssumption DEF Files
        <4> QED  BY <2>1, <3>2, <4>1 DEF Apart, NoRace
      <3> QED  BY <3>3, <3>4, <3>5 DEF Apart
    <2> QED  BY <2>3, <2>4
  <1>2. CASE Close \/ Return \/ UNCHANGED vars
    BY <1>2, ApartKept DEF Close, Return, vars, progress, main, Busy
  <1>3. ASSUME NEW w \in Workers, Receive(w) PROVE Apart'
    <2>1. req # << >> /\ req \in Seq(Files) /\ req' = Tail(req) /\ next' = next
      BY <1>3 DEF Receive, TInv, TypeOK, main
    <2>2. w \notin Busy /\ Busy' = Busy \cup {w}
      BY <1>3 DEF Receive, Goto, Busy, TInv, TypeOK
    <2>3. job'[w] = req[1] /\ \A v \in Busy : job'[v] = job[v]
      BY <1>3, <2>1, <2>2, TailItems DEF Receive, Busy, TInv, TypeOK
    <2>4. 1 \in 1..Len(req) /\ Len(req') = Len(req) - 1
          /\ \A i \in 1..Len(req') : i + 1 \in 1..Len(req) /\ i + 1 # 1 /\ req'[i] = req[i + 1]
      BY <2>1, TailItems
    <2>5. \A i \in 1..Len(req') : req'[i] \in 1..next' - 1 /\ req'[i] # req[1]
      BY <2>1, <2>4 DEF Apart
    <2>6. \A i, j \in 1..Len(req') : i # j => req'[i] # req'[j]
      BY <2>4 DEF Apart
    <2>7. \A u, v \in Busy' : u # v => job'[u] # job'[v]
      BY <2>2, <2>3, <2>4 DEF Apart, NoRace
    <2>8. \A v \in Busy' : /\ job'[v] \in 1..next' - 1
                           /\ \A i \in 1..Len(req') : req'[i] # job'[v]
      BY <2>1, <2>2, <2>3, <2>4, <2>5 DEF Apart, NoRace
    <2> QED  BY <2>5, <2>6, <2>7, <2>8 DEF Apart, NoRace
  <1>4. ASSUME NEW w \in Workers, Onward(w) PROVE Apart'
    BY <1>4, OnwardKeeps, ApartKept DEF main
  <1> QED  BY <1>1, <1>2, <1>3, <1>4 DEF Next, Main, Worker, Onward

LEMMA ApartHolds == Spec => []Apart
  <1>1. Init => Apart
    BY DEF Init, Apart, NoRace, Busy
  <1> QED  BY <1>1, ApartStep, TInvHolds, PTL DEF Spec

\* No two goroutines are at the same file.
THEOREM RaceFree == Spec => []NoRace
  <1>1. Apart => NoRace
    BY DEF Apart
  <1> QED  BY <1>1, ApartHolds, PTL

-----------------------------------------------------------------------------
(***************************************************************************)
(* The end of the channel and of the workers.                              *)
(***************************************************************************)

Working == {w \in Workers : pc[w] # "done"}

Closing ==
    /\ closed = TRUE <=> walker # "walk"
    /\ walker # "walk" => next = MaxFiles + 1
    /\ \A w \in Workers : pc[w] = "done" => closed = TRUE /\ req = << >>
    /\ running = Cardinality(Working)
    /\ walker = "returned" => Working = {}

LEMMA WorkingFinite == IsFiniteSet(Working)
  <1>1. Working \in SUBSET Workers
    BY DEF Working
  <1> QED  BY <1>1, PoolAssumption, FS_Subset

LEMMA ClosingStep == TInv /\ Closing /\ [Next]_vars => Closing'
  <1> SUFFICES ASSUME TInv, Closing, [Next]_vars PROVE Closing'
    OBVIOUS
  <1> USE PoolAssumption
  <1>1. CASE Walk
    <2>1. /\ walker = "walk" /\ walker' = walker /\ closed' = closed
          /\ pc' = pc /\ running' = running /\ Working' = Working
      BY <1>1 DEF Walk, Working
    <2> QED  BY <2>1 DEF Closing
  <1>2. CASE Close
    <2>1. next = MaxFiles + 1
      BY <1>2 DEF Close, TInv, TypeOK
    <2>2. Working' = Working
      BY <1>2 DEF Close, Working
    <2> QED  BY <1>2, <2>1, <2>2 DEF Close, Closing
  <1>3. CASE Return
    <2>1. Working' = Working
      BY <1>3 DEF Return, Working
    <2>2. Working = {}
      BY <1>3, WorkingFinite, FS_EmptySet DEF Return, Closing
    <2> QED  BY <1>3, <2>1, <2>2 DEF Return, Closing
  <1>4. CASE UNCHANGED vars
    BY <1>4 DEF vars, progress, main, Closing, Working
  <1>5. ASSUME NEW w \in Workers, Done(w) PROVE Closing'
    <2>1. w \in Working /\ Working' = Working \ {w}
      BY <1>5 DEF Done, Goto, Working, TInv, TypeOK
    <2>2. Cardinality(Working') = Cardinality(Working) - 1
      BY <2>1, WorkingFinite, FS_RemoveElement
    <2>3. running' = Cardinality(Working')
      BY <1>5, <2>2 DEF Done, Closing
    <2>4. walker' = walker /\ closed' = closed /\ next' = next /\ req' = req
          /\ closed = TRUE /\ req = << >>
      BY <1>5 DEF Done, main, TInv, TypeOK
    <2> QED  BY <2>1, <2>3, <2>4 DEF Closing
  <1>6. ASSUME NEW w \in Workers,
               \/ Receive(w) \/ OpenFile(w) \/ GetBuffer(w) \/ ReadFile(w)
               \/ PutBuffer(w) \/ StoreHash(w) \/ Update(w)
        PROVE  Closing'
    <2>1. pc[w] # "done"
      BY <1>6 DEF Receive, OpenFile, GetBuffer, ReadFile, PutBuffer, StoreHash,
                  Update
    <2>2. PICK m : Goto(w, m) /\ m # "done"
      BY <1>6 DEF Receive, OpenFile, LogError, GetBuffer, ReadFile, PutBuffer,
                  StoreHash, Update
    <2>3. Working' = Working /\ \A v \in Workers : pc'[v] = "done" => pc[v] = "done"
      BY <2>1, <2>2 DEF Goto, Working, TInv, TypeOK
    <2>4. walker' = walker /\ closed' = closed /\ next' = next /\ running' = running
      BY <1>6 DEF Receive, OpenFile, GetBuffer, ReadFile, PutBuffer, StoreHash,
                  Update, main
    <2>5. req' = req \/ req # << >>
      BY <1>6 DEF Receive, OpenFile, GetBuffer, ReadFile, PutBuffer, StoreHash,
                  Update
    <2> QED  BY <2>3, <2>4, <2>5 DEF Closing
  <1> QED  BY <1>1, <1>2, <1>3, <1>4, <1>5, <1>6 DEF Next, Main, Worker

LEMMA ClosingHolds == Spec => []Closing
  <1>1. Init => Closing
    <2> SUFFICES ASSUME Init PROVE Closing
      OBVIOUS
    <2>1. Working = Workers
      BY DEF Init, Working
    <2> QED  BY <2>1 DEF Init, Closing
  <1> QED  BY <1>1, ClosingStep, TInvHolds, PTL DEF Spec

-----------------------------------------------------------------------------
(***************************************************************************)
(* What has become of each file that the walk has passed.                  *)
(***************************************************************************)

Outcome ==
    /\ \A i \in 1..Len(req) : ~ sha[req[i]] /\ req[i] \notin failed
    /\ \A w \in Busy : /\ sha[job[w]] <=> pc[w] = "update"
                       /\ job[w] \notin failed
    /\ \A f \in failed : ~ sha[f] /\ f \in 1..next - 1
    /\ \A f \in 1..next - 1 : \/ sha[f] \/ f \in failed \/ InChannel(f)
                              \/ \E w \in Busy : job[w] = f

\* A worker gives up on its file.
LEMMA OutcomeLogged ==
    ASSUME TInv, Apart, Outcome, NEW w \in Workers, w \in Busy, LogError(w),
           pc[w] # "update", sha' = sha, req' = req, job' = job, next' = next
    PROVE  Outcome'
  <1>1. Busy' = Busy \ {w} /\ failed' = failed \cup {job[w]}
        /\ \A v \in Busy' : pc'[v] = pc[v]
    BY DEF LogError, Goto, Busy, TInv, TypeOK
  <1>2. ~ sha[job[w]] /\ job[w] \in 1..next - 1
    BY DEF Outcome, Apart, NoRace
  <1>3. \A i \in 1..Len(req') : ~ sha'[req'[i]] /\ req'[i] \notin failed'
    BY <1>1 DEF Outcome, Apart, NoRace
  <1>4. \A v \in Busy' : (sha'[job'[v]] <=> pc'[v] = "update") /\ job'[v] \notin failed'
    BY <1>1 DEF Outcome, Apart, NoRace
  <1>5. \A f \in failed' : ~ sha'[f] /\ f \in 1..next' - 1
    BY <1>1, <1>2 DEF Outcome
  <1>6. \A f \in 1..next' - 1 : \/ sha'[f] \/ f \in failed' \/ InChannel(f)'
                                \/ \E v \in Busy' : job'[v] = f
    BY <1>1 DEF Outcome, InChannel
  <1> QED  BY <1>3, <1>4, <1>5, <1>6 DEF Outcome

\* A worker goes on with its file.
LEMMA OutcomeMoved ==
    ASSUME TInv, Outcome, NEW w \in Workers, w \in Busy, pc[w] # "update",
           NEW m \in {"get", "read", "put", "store"}, Goto(w, m),
           sha' = sha, req' = req, job' = job, next' = next, failed' = failed
    PROVE  Outcome'
  <1>1. Busy' = Busy /\ \A v \in Busy : pc'[v] = "update" <=> pc[v] = "update"
    BY DEF Goto, Busy, TInv, TypeOK
  <1> QED  BY <1>1 DEF Outcome, InChannel

LEMMA OutcomeWalk == ASSUME TInv, Apart, Outcome, Walk PROVE Outcome'
  <1>1. /\ next \in Files /\ next' = next + 1 /\ job' = job /\ Busy' = Busy
        /\ pc' = pc /\ sha' = sha /\ failed' = failed
    BY PoolAssumption DEF Walk, TInv, TypeOK, Files, Busy
  <1>2. \A f \in 1..next' - 1 : f \in 1..next - 1 \/ f = next
    BY <1>1, PoolAssumption DEF Files
  <1>3. \A f \in 1..next - 1 : f \in 1..next' - 1
    BY <1>1, PoolAssumption DEF Files
  <1>4. next \notin failed
    BY <1>1, PoolAssumption DEF Files, Outcome
  <1>5. CASE sha[next]
    <2>1. req' = req
      BY <1>5 DEF Walk
    <2> QED  BY <1>1, <1>2, <1>3, <1>5, <2>1 DEF Outcome, InChannel
  <1>6. CASE ~ sha[next]
    <2>1. req' = Append(req, next) /\ req \in Seq(Files)
      BY <1>6 DEF Walk, TInv, TypeOK
    <2>2. /\ Len(req') = Len(req) + 1
          /\ req'[Len(req) + 1] = next
          /\ \A i \in 1..Len(req) : req'[i] = req[i]
          /\ \A i \in 1..Len(req) + 1 : i \in 1..Len(req) \/ i = Len(req) + 1
          /\ Len(req) + 1 \in 1..Len(req) + 1
          /\ \A i \in 1..Len(req) : i \in 1..Len(req) + 1
      BY <1>1, <2>1, AppendItems
    <2>3. \A i \in 1..Len(req') : ~ sha'[req'[i]] /\ req'[i] \notin failed'
      BY <1>1, <1>4, <1>6, <2>2 DEF Outcome
    <2>4. \A f \in 1..next' - 1 : \/ sha'[f] \/ f \in failed' \/ InChannel(f)'
                                  \/ \E v \in Busy' : job'[v] = f
      <3>1. \E i \in 1..Len(req') : req'[i] = next
        BY <2>2
      <3>2. \A f : f = next \/ InChannel(f) => InChannel(f)'
        BY <2>2, <3>1 DEF InChannel
      <3> QED  BY <1>1, <1>2, <3>2 DEF Outcome
    <2> QED  BY <1>1, <1>3, <2>3, <2>4 DEF Outcome
  <1> QED  BY <1>5, <1>6

LEMMA OutcomeReceive ==
    ASSUME TInv, Apart, Outcome, NEW w \in Workers, Receive(w)
    PROVE  Outcome'
  <1>1. /\ req # << >> /\ req \in Seq(Files) /\ req' = Tail(req)
        /\ next' = next /\ sha' = sha /\ failed' = failed
    BY DEF Receive, TInv, TypeOK, main
  <1>2. /\ w \notin Busy /\ Busy' = Busy \cup {w}
        /\ pc'[w] = "open" /\ \A v \in Busy : pc'[v] = pc[v]
    BY DEF Receive, Goto, Busy, TInv, TypeOK
  <1>3. job'[w] = req[1] /\ \A v \in Busy : job'[v] = job[v]
    BY <1>1, <1>2, TailItems DEF Receive, Busy, TInv, TypeOK
  <1>4. /\ 1 \in 1..Len(req)
        /\ \A i \in 1..Len(req') : i + 1 \in 1..Len(req) /\ req'[i] = req[i + 1]
        /\ \A i \in 1..Len(req) : i # 1 => i - 1 \in 1..Len(req') /\ req'[i - 1] = req[i]
    BY <1>1, TailItems
  <1>5. \A i \in 1..Len(req') : ~ sha'[req'[i]] /\ req'[i] \notin failed'
    BY <1>1, <1>4 DEF Outcome
  <1>6. \A v \in Busy' : (sha'[job'[v]] <=> pc'[v] = "update") /\ job'[v] \notin failed'
    BY <1>1, <1>2, <1>3, <1>4 DEF Outcome
  <1>7. \A f : InChannel(f) => InChannel(f)' \/ job'[w] = f
    BY <1>3, <1>4 DEF InChannel
  <1>8. \A f \in 1..next' - 1 : \/ sha'[f] \/ f \in failed' \/ InChannel(f)'
                                \/ \E v \in Busy' : job'[v] = f
    BY <1>1, <1>2, <1>3, <1>7 DEF Outcome
  <1> QED  BY <1>1, <1>5, <1>6, <1>8 DEF Outcome

LEMMA OutcomeStore ==
    ASSUME TInv, Apart, Outcome, NEW w \in Workers, StoreHash(w)
    PROVE  Outcome'
  <1>1. /\ w \in Busy /\ Busy' = Busy /\ pc'[w] = "update"
        /\ \A v \in Busy : v # w => pc'[v] = pc[v]
    BY DEF StoreHash, Goto, Busy, TInv, TypeOK
  <1>2. job[w] \in Files /\ job' = job /\ req' = req /\ next' = next /\ failed' = failed
    BY <1>1 DEF TInv, HasJob, StoreHash, main
  <1>3. sha'[job[w]] = TRUE /\ \A f \in Files : f # job[w] => sha'[f] = sha[f]
    BY <1>2 DEF StoreHash, TInv, TypeOK
  <1>4. \A i \in 1..Len(req) : req[i] \in Files /\ req[i] # job[w]
    BY <1>1 DEF Apart, NoRace, TInv, TypeOK
  <1>5. \A v \in Busy : job[v] \in Files /\ (v # w => job[v] # job[w])
    BY <1>1 DEF Apart, NoRace, TInv, HasJob
  <1>6. failed \subseteq Files /\ job[w] \notin failed
    BY <1>1 DEF Outcome, TInv, TypeOK
  <1>7. \A f \in 1..next - 1 : f \in Files
    BY PoolAssumption DEF TInv, TypeOK, Files
  <1>8. \A i \in 1..Len(req') : ~ sha'[req'[i]] /\ req'[i] \notin failed'
    BY <1>2, <1>3, <1>4 DEF Outcome
  <1>9. \A v \in Busy' : (sha'[job'[v]] <=> pc'[v] = "update") /\ job'[v] \notin failed'
    BY <1>1, <1>2, <1>3, <1>5 DEF Outcome
  <1>10. \A f \in failed' : ~ sha'[f] /\ f \in 1..next' - 1
    BY <1>2, <1>3, <1>6 DEF Outcome
  <1>11. \A f \in 1..next' - 1 : \/ sha'[f] \/ f \in failed' \/ InChannel(f)'
                                 \/ \E v \in Busy' : job'[v] = f
    BY <1>1, <1>2, <1>3, <1>7 DEF Outcome, InChannel
  <1> QED  BY <1>8, <1>9, <1>10, <1>11 DEF Outcome

LEMMA OutcomeUpdate ==
    ASSUME TInv, Apart, Outcome, NEW w \in Workers, Update(w)
    PROVE  Outcome'
  <1>1. /\ w \in Busy /\ Busy' = Busy \ {w} /\ pc[w] = "update"
        /\ \A v \in Busy' : pc'[v] = pc[v]
    BY DEF Update, Goto, Busy, TInv, TypeOK
  <1>2. job' = job /\ req' = req /\ next' = next /\ failed' = failed /\ sha' = sha
    BY DEF Update, main
  <1>3. sha[job[w]]
    BY <1>1 DEF Outcome
  <1> QED  BY <1>1, <1>2, <1>3 DEF Outcome, InChannel

LEMMA OutcomeStep == TInv /\ Apart /\ Outcome /\ [Next]_vars => Outcome'
  <1> SUFFICES ASSUME TInv, Apart, Outcome, [Next]_vars PROVE Outcome'
    OBVIOUS
  <1>1. CASE Walk
    BY <1>1, OutcomeWalk
  <1>2. CASE Close \/ Return \/ UNCHANGED vars
    BY <1>2 DEF Close, Return, vars, progress, main, Outcome, InChannel, Busy
  <1>3. ASSUME NEW w \in Workers, Receive(w) PROVE Outcome'
    BY <1>3, OutcomeReceive
  <1>4. ASSUME NEW w \in Workers, Done(w) PROVE Outcome'
    <2>1. w \notin Busy /\ Busy' = Busy /\ \A v \in Busy : pc'[v] = pc[v]
      BY <1>4 DEF Done, Goto, Busy, TInv, TypeOK
    <2> QED  BY <1>4, <2>1 DEF Done, main, Outcome, InChannel
  <1>5. ASSUME NEW w \in Workers, OpenFile(w) \/ ReadFile(w) PROVE Outcome'
    <2>1. w \in Busy /\ pc[w] # "update" /\ sha' = sha /\ req' = req
          /\ job' = job /\ next' = next
      BY <1>5 DEF OpenFile, ReadFile, Busy, main
    <2>2. CASE LogError(w)
      BY <2>1, <2>2, OutcomeLogged
    <2>3. CASE (Goto(w, "get") \/ Goto(w, "put")) /\ failed' = failed
      BY <2>1, <2>3, OutcomeMoved
    <2> QED  BY <1>5, <2>2, <2>3 DEF OpenFile, ReadFile
  <1>6. ASSUME NEW w \in Workers, GetBuffer(w) \/ PutBuffer(w) PROVE Outcome'
    <2>1. w \in Busy /\ pc[w] # "update" /\ sha' = sha /\ req' = req
          /\ job' = job /\ next' = next /\ failed' = failed
      BY <1>6 DEF GetBuffer, PutBuffer, Busy, main
    <2>2. Goto(w, "read") \/ Goto(w, "store")
      BY <1>6 DEF GetBuffer, PutBuffer
    <2> QED  BY <2>1, <2>2, OutcomeMoved
  <1>7. ASSUME NEW w \in Workers, StoreHash(w) PROVE Outcome'
    BY <1>7, OutcomeStore
  <1>8. ASSUME NEW w \in Workers, Update(w) PROVE Outcome'
    BY <1>8, OutcomeUpdate
  <1> QED  BY <1>1, <1>2, <1>3, <1>4, <1>5, <1>6, <1>7, <1>8
           DEF Next, Main, Worker

LEMMA OutcomeHolds == Spec => []Outcome
  <1>1. Init => Outcome
    BY DEF Init, Outcome, Busy
  <1> QED  BY <1>1, OutcomeStep, TInvHolds, ApartHolds, PTL DEF Spec

-----------------------------------------------------------------------------
(***************************************************************************)
(* The meter.                                                              *)
(***************************************************************************)

\* Files without a hash whose error was not logged, and workers that have
\* stored a hash and not counted it.
Waiting   == {f \in Files : ~ sha[f] /\ f \notin failed}
Uncounted == {w \in Workers : pc[w] = "update"}

Tally == total = cur + Cardinality(failed) + Cardinality(Waiting)
                     + Cardinality(Uncounted)

LEMMA TallyFinite ==
    ASSUME TInv
    PROVE  /\ IsFiniteSet(failed) /\ IsFiniteSet(Waiting) /\ IsFiniteSet(Uncounted)
           /\ Cardinality(failed) \in Nat /\ Cardinality(Waiting) \in Nat
           /\ Cardinality(Uncounted) \in Nat
           /\ cur \in Nat /\ total \in Nat
  <1>1. failed \in SUBSET Files /\ Waiting \in SUBSET Files
        /\ Uncounted \in SUBSET Workers
    BY DEF TInv, TypeOK, Waiting, Uncounted
  <1>2. IsFiniteSet(failed) /\ IsFiniteSet(Waiting) /\ IsFiniteSet(Uncounted)
    BY <1>1, FilesFinite, PoolAssumption, FS_Subset
  <1> QED  BY <1>2, FS_CardinalityType DEF TInv, TypeOK

LEMMA TallyLogged ==
    ASSUME TInv, Apart, Outcome, Tally, NEW w \in Workers, w \in Busy,
           pc[w] # "update", LogError(w), sha' = sha, total' = total, cur' = cur
    PROVE  Tally'
  <1>1. job[w] \in Waiting /\ job[w] \notin failed
    BY DEF Outcome, TInv, HasJob, Waiting
  <1>2. failed' = failed \cup {job[w]} /\ Waiting' = Waiting \ {job[w]}
    BY DEF LogError, Waiting
  <1>3. Uncounted' = Uncounted
    BY DEF LogError, Goto, Uncounted, TInv, TypeOK
  <1>4. Cardinality(failed') = Cardinality(failed) + 1
    BY <1>1, <1>2, TallyFinite, FS_AddElement
  <1>5. Cardinality(Waiting') = Cardinality(Waiting) - 1
    BY <1>1, <1>2, TallyFinite, FS_RemoveElement
  <1> QED  BY <1>3, <1>4, <1>5, TallyFinite DEF Tally

LEMMA TallyStep == TInv /\ Apart /\ Outcome /\ Tally /\ [Next]_vars => Tally'
  <1> SUFFICES ASSUME TInv, Apart, Outcome, Tally, [Next]_vars PROVE Tally'
    OBVIOUS
  <1>1. CASE Main \/ UNCHANGED vars
    BY <1>1 DEF Main, Walk, Close, Return, vars, progress, Tally, Waiting, Uncounted
  <1>2. ASSUME NEW w \in Workers, LogError(w), OpenFile(w) \/ ReadFile(w)
        PROVE  Tally'
    BY <1>2, TallyLogged DEF OpenFile, ReadFile, Busy, progress
  <1>3. ASSUME NEW w \in Workers,
               \/ Receive(w) \/ Done(w) \/ GetBuffer(w) \/ PutBuffer(w)
               \/ (OpenFile(w) \/ ReadFile(w)) /\ ~ LogError(w)
        PROVE  Tally'
    <2>1. /\ sha' = sha /\ failed' = failed /\ total' = total /\ cur' = cur
          /\ pc[w] # "update"
      BY <1>3 DEF Receive, Done, GetBuffer, PutBuffer, OpenFile, ReadFile, progress
    <2>2. PICK m : Goto(w, m) /\ m # "update"
      BY <1>3 DEF Receive, Done, GetBuffer, PutBuffer, OpenFile, ReadFile
    <2>3. Uncounted' = Uncounted
      BY <2>1, <2>2 DEF Goto, Uncounted, TInv, TypeOK
    <2> QED  BY <2>1, <2>3 DEF Tally, Waiting
  <1>4. ASSUME NEW w \in Workers, StoreHash(w) PROVE Tally'
    <2>1. w \in Busy /\ job[w] \in Waiting
      BY <1>4 DEF StoreHash, Busy, Outcome, TInv, HasJob, Waiting
    <2>2. Waiting' = Waiting \ {job[w]}
      BY <1>4, <2>1 DEF StoreHash, Waiting, TInv, TypeOK
    <2>3. w \notin Uncounted /\ Uncounted' = Uncounted \cup {w}
      BY <1>4 DEF StoreHash, Goto, Uncounted, TInv, TypeOK
    <2>4. Cardinality(Waiting') = Cardinality(Waiting) - 1
      BY <2>1, <2>2, TallyFinite, FS_RemoveElement
    <2>5. Cardinality(Uncounted') = Cardinality(Uncounted) + 1
      BY <2>3, TallyFinite, FS_AddElement
    <2> QED  BY <1>4, <2>4, <2>5, TallyFinite DEF StoreHash, progress, Tally
  <1>5. ASSUME NEW w \in Workers, Update(w) PROVE Tally'
    <2>1. w \in Uncounted /\ Uncounted' = Uncounted \ {w}
      BY <1>5 DEF Update, Goto, Uncounted, TInv, TypeOK
    <2>2. Cardinality(Uncounted') = Cardinality(Uncounted) - 1
      BY <2>1, TallyFinite, FS_RemoveElement
    <2>3. Waiting' = Waiting
      BY <1>5 DEF Update, Waiting
    <2> QED  BY <1>5, <2>2, <2>3, TallyFinite DEF Update, Tally
  <1> QED  BY <1>1, <1>2, <1>3, <1>4, <1>5 DEF Next, Worker

LEMMA TallyHolds == Spec => []Tally
  <1>1. Init => Tally
    <2> SUFFICES ASSUME Init PROVE Tally
      OBVIOUS
    <2>1. Waiting = {f \in Files : ~ sha[f]} /\ Uncounted = {} /\ failed = {}
      BY DEF Init, Waiting, Uncounted
    <2>2. TInv
      BY InitTyped
    <2> QED  BY <2>1, <2>2, TallyFinite, FS_EmptySet DEF Init, Tally
  <1> QED  BY <1>1, TallyStep, TInvHolds, ApartHolds, OutcomeHolds, PTL DEF Spec

\* The meter never shows more files than were estimated.
THEOREM EstimateHolds == Spec => []WithinEstimate
  <1>1. TInv /\ Tally => WithinEstimate
    BY TallyFinite DEF Tally, WithinEstimate
  <1> QED  BY <1>1, TInvHolds, TallyHolds, PTL

\* When ComputeHashes returns, the workers are gone, every file has its hash
\* or its error was logged, and the meter has counted those that have.
THEOREM CompleteReturn == Spec => []ReturnsComplete
  <1>1. TInv /\ Closing /\ Outcome /\ Tally => ReturnsComplete
    <2> SUFFICES ASSUME TInv, Closing, Outcome, Tally, walker = "returned"
                 PROVE  /\ \A w \in Workers : pc[w] = "done"
                        /\ \A f \in Files : sha[f] <=> f \notin failed
                        /\ cur + Cardinality(failed) = total
      BY DEF ReturnsComplete
    <2>1. \A w \in Workers : pc[w] = "done"
      BY DEF Closing, Working
    <2>2. req = << >> /\ next = MaxFiles + 1 /\ Busy = {}
      BY <2>1, PoolAssumption DEF Closing, Busy
    <2>3. Files = 1..next - 1 /\ \A f : ~ InChannel(f)
      BY <2>2, PoolAssumption DEF Files, InChannel
    <2>4. \A f \in Files : sha[f] <=> f \notin failed
      BY <2>2, <2>3 DEF Outcome, TInv, TypeOK
    <2>5. Waiting = {} /\ Uncounted = {}
      BY <2>1, <2>4 DEF Waiting, Uncounted
    <2>6. cur + Cardinality(failed) = total
      BY <2>5, FS_EmptySet, TallyFinite DEF Tally
    <2> QED  BY <2>1, <2>4, <2>6
  <1> QED  BY <1>1, TInvHolds, ClosingHolds, OutcomeHolds, TallyHolds, PTL
=============================================================================
