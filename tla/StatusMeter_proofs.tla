------------------------- MODULE StatusMeter_proofs -------------------------
(***************************************************************************)
(* Proofs about StatusMeter, for any number of workers, directories and    *)
(* files.                                                                  *)
(*                                                                         *)
(*   Typed              Spec => []TypeOK                                   *)
(*   ClosesUndisturbed  Spec => []CloseUndisturbed                         *)
(*   NeverBack          Spec => Forward                                    *)
(*                                                                         *)
(* and, if all texts of the meters have the same number of lines,          *)
(*                                                                         *)
(*   LogIsKept          Spec => []LogKept                                  *)
(*   OneMeterShown      Spec => []OneMeter                                 *)
(*   LastTextIsShown    Spec => []LastTextShown                            *)
(***************************************************************************)
EXTENDS StatusMeter, SequenceTheorems, FiniteSetTheorems, TLAPS

-----------------------------------------------------------------------------
(***************************************************************************)
(* Types.  No more files are counted than there are, because a file that   *)
(* is left, or that a worker is about to count, is one not counted yet.    *)
(***************************************************************************)

Updating == {w \in Workers : wpc[w] = "update"}

Counts ==
    /\ pc = "start" => dirs = 0
    /\ pc = "scan" => dirs + left <= MaxDirs
    /\ pc \in {"start", "scan", "scanned"} => files = 0 /\ \A w \in Workers : wpc[w] = "next"
    /\ pc = "hash" => files + left + Cardinality(Updating) <= MaxFiles
    /\ pc # "hash" => \A w \in Workers : wpc[w] \in {"next", "done"}

TInv == TypeOK /\ Counts

LEMMA UpdatingFinite == IsFiniteSet(Updating) /\ Cardinality(Updating) \in Nat
<1>1. Updating \subseteq Workers
  BY DEF Updating
<1> QED
  BY <1>1, StatusAssumption, FS_Subset, FS_CardinalityType

\* Lines of the terminal.
LEMMA LinesTyped ==
    ASSUME NEW n \in Nat
    PROVE  /\ LogLine(n) \in Line
           /\ \A k \in {1, 2}, h \in Heights : Text(k, n, h) \in Seq(Line)
<1>1. LogLine(n) \in Line
  BY DEF LogLine, Line
<1>2. ASSUME NEW k \in {1, 2}, NEW h \in Heights PROVE Text(k, n, h) \in Seq(Line)
  <2>1. h \in Nat /\ [of |-> k, n |-> n, height |-> h] \in Line
    BY StatusAssumption DEF Line
  <2> QED
    BY <2>1 DEF Text
<1> QED
  BY <1>1, <1>2

LEMMA ClearedTyped ==
    ASSUME TypeOK
    PROVE  Cleared \in Seq(Line)
<1> DEFINE c == Len(screen) - Len(meter)
<1>1. screen \in Seq(Line) /\ c \in Int /\ Len(screen) \in Nat /\ c <= Len(screen)
  BY DEF TypeOK
<1> HIDE DEF c
<1>2. SubSeq(screen, 1, c) \in Seq(Line)
  BY <1>1
<1> QED
  BY <1>2 DEF Cleared, c

LEMMA MeterTyped ==
    ASSUME TypeOK, NEW k \in {1, 2}, NEW n \in Nat, MeterWrite(k, n)
    PROVE  screen' \in Seq(Line) /\ meter' \in Seq(Line) /\ due' \in BOOLEAN /\ logged' \in Nat
<1>1. PICK h \in Heights :
          /\ meter' = Text(k, n, h)
          /\ \/ screen' = Cleared \o Text(k, n, h) /\ due' = FALSE
             \/ ~ due /\ UNCHANGED <<screen, due>>
          /\ UNCHANGED logged
  BY DEF MeterWrite
<1>2. Text(k, n, h) \in Seq(Line) /\ Cleared \in Seq(Line)
  BY LinesTyped, ClearedTyped
<1>3. screen' \in Seq(Line) /\ due' \in BOOLEAN
  <2>1. CASE screen' = Cleared \o Text(k, n, h) /\ due' = FALSE
    BY <1>2, <2>1, ConcatProperties
  <2>2. CASE UNCHANGED <<screen, due>>
    BY <2>2 DEF TypeOK
  <2> QED
    BY <1>1, <2>1, <2>2
<1>4. meter' \in Seq(Line) /\ logged' \in Nat
  BY <1>1, <1>2 DEF TypeOK
<1> QED
  BY <1>3, <1>4

LEMMA CloseTyped ==
    ASSUME TypeOK, MeterClose
    PROVE  screen' \in Seq(Line) /\ meter' \in Seq(Line) /\ due' \in BOOLEAN /\ logged' \in Nat
  BY ClearedTyped DEF MeterClose, TypeOK

LEMMA LogTyped ==
    ASSUME TypeOK, NEW g, PrintLog(g)
    PROVE  /\ screen' \in Seq(Line) /\ meter' \in Seq(Line) /\ due' \in BOOLEAN
           /\ logged' \in Nat /\ logLock' = Free /\ UNCHANGED <<mgrLock, progLock>>
<1>1. /\ logged' = logged + 1 /\ screen' = Append(Cleared, LogLine(logged + 1)) \o meter
      /\ UNCHANGED <<meter, due>> /\ logLock' = Free /\ UNCHANGED <<mgrLock, progLock>>
  BY DEF PrintLog, Write
<1>2. logged + 1 \in Nat /\ LogLine(logged + 1) \in Line
  BY LinesTyped DEF TypeOK
<1> QED
  BY <1>1, <1>2, ClearedTyped DEF TypeOK

LEMMA MainTyped == TInv /\ MainStep => TInv'
<1> SUFFICES ASSUME TInv, MainStep PROVE TInv'
  OBVIOUS
<1> USE StatusAssumption
<1> TypeOK
  BY DEF TInv
<1>1. CASE Start
  BY <1>1 DEF Start, LockLogger, terminal, locks, TInv, TypeOK, Counts
<1>2. CASE ScanDir
  <2>1. dirs \in Nat /\ left \in Nat /\ left > 0 /\ dirs + left <= MaxDirs /\ pc = "scan"
    BY <1>2 DEF ScanDir, TInv, TypeOK, Counts
  <2> DEFINE Terminal == /\ screen' \in Seq(Line) /\ meter' \in Seq(Line)
                         /\ due' \in BOOLEAN /\ logged' \in Nat
  <2>3. left' = left - 1 /\ UNCHANGED <<mgrLock, progLock, pc, files, wpc, text>>
    BY <1>2 DEF ScanDir, LockLogger, locks
  <2>2. /\ Terminal
        /\ dirs' \in {dirs, dirs + 1} /\ left' = left - 1
        /\ logLock' \in {logLock, Main} /\ UNCHANGED <<mgrLock, progLock>>
        /\ UNCHANGED <<pc, files, wpc, text>>
    <3>1. CASE dirs' = dirs + 1 /\ MeterWrite(1, dirs + 1) /\ UNCHANGED locks
      <4>1. dirs + 1 \in Nat
        BY <2>1
      <4>2. Terminal
        BY <3>1, <4>1, MeterTyped
      <4> QED
        BY <2>3, <3>1, <4>2 DEF locks
    <3>2. CASE LockLogger(Main) /\ UNCHANGED <<terminal, dirs>>
      BY <2>3, <3>2 DEF LockLogger, terminal, TypeOK
    <3> QED
      BY <1>2, <3>1, <3>2 DEF ScanDir
  <2>4. TypeOK'
    <3>1. left' \in Nat /\ dirs' \in 0..MaxDirs
      BY <2>1, <2>2
    <3> QED
      BY <2>2, <3>1 DEF TypeOK
  <2>5. dirs' + left' <= MaxDirs
    <3>1. MaxDirs \in Int /\ (dirs' = dirs \/ dirs' = dirs + 1) /\ left' = left - 1
      BY <2>2
    <3> QED
      BY <2>1, <3>1
  <2>6. Counts'
    BY <2>1, <2>2, <2>5 DEF TInv, Counts
  <2> QED
    BY <2>4, <2>6 DEF TInv
<1>3. CASE MainLog
  <2>1. /\ screen' \in Seq(Line) /\ meter' \in Seq(Line) /\ due' \in BOOLEAN
        /\ logged' \in Nat /\ logLock' = Free /\ UNCHANGED <<mgrLock, progLock>>
    BY <1>3, LogTyped DEF MainLog
  <2>2. /\ pc' = IF pc = "fatal" THEN "exited" ELSE pc
        /\ UNCHANGED <<left, dirs, files, wpc, text>>
    BY <1>3 DEF MainLog
  <2>3. Updating' = Updating
    BY <2>2 DEF Updating
  <2>4. TypeOK'
    BY <2>1, <2>2 DEF TypeOK
  <2>5. CASE pc = "fatal"
    BY <2>2, <2>4, <2>5 DEF TInv, Counts
  <2>6. CASE pc # "fatal"
    BY <2>2, <2>3, <2>4, <2>6 DEF TInv, Counts
  <2> QED
    BY <2>5, <2>6
<1>4. CASE CloseScanMeter \/ CloseHashMeter
  <2>1. /\ MeterClose /\ UNCHANGED <<mgrLock, logLock, progLock, left, dirs, files, wpc, text>>
        /\ \/ pc = "scan" /\ pc' = "scanned"
           \/ pc' = "write" /\ \A w \in Workers : wpc[w] = "done"
    BY <1>4 DEF CloseScanMeter, CloseHashMeter, locks
  <2> QED
    BY <2>1, CloseTyped DEF TInv, TypeOK, Counts
<1>5. CASE Fatal
  BY <1>5 DEF Fatal, LockLogger, terminal, TInv, TypeOK, Counts
<1>6. CASE FlushProgress
  <2>1. /\ pc = "scanned" /\ pc' = "hash" /\ left' = MaxFiles /\ MeterWrite(2, 0)
        /\ UNCHANGED <<mgrLock, logLock, progLock, dirs, files, wpc, text>>
    BY <1>6 DEF FlushProgress, locks
  <2>2. Updating' = {} /\ files = 0
    BY <2>1 DEF Updating, TInv, Counts
  <2>3. Cardinality(Updating') = 0
    BY <2>2, FS_EmptySet
  <2> QED
    BY <2>1, <2>2, <2>3, MeterTyped DEF TInv, TypeOK, Counts
<1>7. CASE CloseManager \/ RestoreLogger
  <2>1. screen' \in Seq(Line) /\ meter' \in Seq(Line)
    <3>1. CASE screen' = Cleared \o meter /\ meter' = meter
      BY <3>1, ClearedTyped, ConcatProperties DEF TypeOK
    <3>2. CASE screen' = screen /\ meter' = << >>
      BY <3>2 DEF TypeOK
    <3> QED
      BY <1>7, <3>1, <3>2 DEF CloseManager, RestoreLogger
  <2> QED
    BY <1>7, <2>1 DEF CloseManager, RestoreLogger, TInv, TypeOK, Counts
<1> QED
  BY <1>1, <1>2, <1>3, <1>4, <1>5, <1>6, <1>7 DEF MainStep

LEMMA WorkerTyped == ASSUME TInv, NEW w \in Workers, Worker(w) PROVE TInv'
<1> USE StatusAssumption
<1> TypeOK
  BY DEF TInv
<1> DEFINE U == Updating
<1>1. pc = "hash" \/ wpc[w] # "next"
  BY DEF Worker, HashFile, StartLog, WorkerLog, Update, Flush
<1>2. pc \notin {"start", "scan", "scanned"} /\ pc' = pc /\ dirs' = dirs
  BY <1>1 DEF TInv, Counts, Worker, HashFile, StartLog, WorkerLog, Update, Flush
<1>3. IsFiniteSet(U) /\ Cardinality(U) \in Nat
  BY UpdatingFinite
<1>4. CASE HashFile(w)
  <2>1. /\ pc = "hash" /\ wpc[w] = "next"
        /\ UNCHANGED <<terminal, locks, pc, dirs, files, text>>
        /\ w \notin U
    BY <1>4 DEF HashFile, Updating
  <2>2. CASE left > 0 /\ left' = left - 1 /\ Goto(w, "update")
    <3>1. Updating' = U \cup {w}
      BY <2>2 DEF Goto, Updating, TypeOK
    <3>2. Cardinality(Updating') = Cardinality(U) + 1
      BY <1>3, <2>1, <3>1, FS_AddElement
    <3> QED
      BY <1>3, <2>1, <2>2, <3>2 DEF TInv, TypeOK, Counts, Goto, terminal, locks
  <2>3. CASE left > 0 /\ left' = left - 1 /\ Goto(w, "fail")
    <3>1. Updating' = U
      BY <2>1, <2>3 DEF Goto, Updating, TypeOK
    <3> QED
      BY <1>3, <2>1, <2>3, <3>1 DEF TInv, TypeOK, Counts, Goto, terminal, locks
  <2>4. CASE left = 0 /\ left' = left /\ Goto(w, "done")
    <3>1. Updating' = U
      BY <2>1, <2>4 DEF Goto, Updating, TypeOK
    <3> QED
      BY <1>3, <2>1, <2>4, <3>1 DEF TInv, TypeOK, Counts, Goto, terminal, locks
  <2> QED
    BY <1>4, <2>2, <2>3, <2>4 DEF HashFile
<1>5. CASE StartLog(w)
  <2>1. Updating' = U
    BY <1>5 DEF StartLog, Goto, Updating, TypeOK
  <2> QED
    BY <1>2, <1>3, <1>5, <2>1
       DEF StartLog, LockLogger, TInv, TypeOK, Counts, Goto, terminal
<1>6. CASE WorkerLog(w)
  <2>1. Updating' = U
    BY <1>6 DEF WorkerLog, Goto, Updating, TypeOK
  <2>2. /\ screen' \in Seq(Line) /\ meter' \in Seq(Line) /\ due' \in BOOLEAN
        /\ logged' \in Nat /\ logLock' = Free /\ UNCHANGED <<mgrLock, progLock>>
    BY <1>6, LogTyped DEF WorkerLog
  <2> QED
    BY <1>2, <1>3, <1>6, <2>1, <2>2 DEF WorkerLog, TInv, TypeOK, Counts, Goto
<1>7. CASE Update(w)
  <2>1. /\ wpc[w] = "update" /\ w \in U /\ files' = files + 1
        /\ text' = [text EXCEPT ![w] = files + 1] /\ Goto(w, "flush")
        /\ UNCHANGED <<terminal, mgrLock, logLock, left>> /\ progLock' = w
    BY <1>7 DEF Update, Updating
  <2>2. Updating' = U \ {w}
    BY <2>1 DEF Goto, Updating, TypeOK
  <2>3. Cardinality(Updating') = Cardinality(U) - 1
    BY <1>3, <2>1, <2>2, FS_RemoveElement
  <2>5. pc = "hash" /\ Cardinality(U) > 0
    <3>1. U # {} /\ pc = "hash"
      BY <2>1 DEF TInv, Counts
    <3> QED
      BY <1>3, <3>1, FS_EmptySet
  <2>6. files + 1 <= MaxFiles
    BY <1>3, <2>1, <2>5 DEF TInv, TypeOK, Counts
  <2> QED
    BY <1>2, <1>3, <2>1, <2>3, <2>5, <2>6 DEF TInv, TypeOK, Counts, Goto, terminal
<1>8. CASE Flush(w)
  <2>1. Updating' = U
    BY <1>8 DEF Flush, Goto, Updating, TypeOK
  <2>2. screen' \in Seq(Line) /\ meter' \in Seq(Line) /\ due' \in BOOLEAN /\ logged' \in Nat
    BY <1>8, MeterTyped DEF Flush, TypeOK
  <2> QED
    BY <1>2, <1>3, <1>8, <2>1, <2>2 DEF Flush, TInv, TypeOK, Counts, Goto
<1> QED
  BY <1>4, <1>5, <1>6, <1>7, <1>8 DEF Worker

LEMMA InitTyped == Init => TInv
<1> SUFFICES ASSUME Init PROVE TInv
  OBVIOUS
<1>1. TypeOK
  BY StatusAssumption DEF Init, TypeOK
<1>2. Counts
  BY <1>1 DEF Init, Counts
<1> QED
  BY <1>1, <1>2 DEF TInv

LEMMA NextTyped == TInv /\ [Next]_vars => TInv'
<1> SUFFICES ASSUME TInv, [Next]_vars PROVE TInv'
  OBVIOUS
<1>1. CASE MainStep
  BY <1>1, MainTyped
<1>2. CASE \E w \in Workers : Worker(w)
  BY <1>2, WorkerTyped
<1>3. CASE UNCHANGED vars
  <2>1. Updating' = Updating
    BY <1>3 DEF vars, Updating
  <2> QED
    BY <1>3, <2>1 DEF TInv, TypeOK, Counts, vars, terminal, locks
<1> QED
  BY <1>1, <1>2, <1>3 DEF Next

\* The terminal, the locks and the counters have the types they should have;
\* no more directories and files are counted than there are.
THEOREM Typed == Spec => []TypeOK
<1>1. Init => TInv
  BY InitTyped
<1>2. TInv /\ [Next]_vars => TInv'
  BY NextTyped
<1>3. TInv => TypeOK
  BY DEF TInv
<1> QED
  BY <1>1, <1>2, <1>3, PTL DEF Spec

-----------------------------------------------------------------------------
(***************************************************************************)
(* The locks.  Who has the logger's is in the middle of a message, and     *)
(* the workers are gone when the main goroutine has the manager's.         *)
(***************************************************************************)

Held ==
    /\ logLock \in Workers => wpc[logLock] = "log"
    /\ logLock = Main => pc \in {"scan", "fatal"}
    /\ mgrLock = Main => pc = "close"

LEMMA MainHolds == ASSUME TInv, Held, MainStep PROVE Held'
<1> USE StatusAssumption
<1> TypeOK
  BY DEF TInv
<1>1. CASE Start
  BY <1>1 DEF Start, LockLogger, locks, Held, TypeOK
<1>2. CASE ScanDir
  BY <1>2 DEF ScanDir, LockLogger, locks, Held, TypeOK
<1>3. CASE MainLog
  <2>1. logLock' = Free /\ mgrLock = Free /\ mgrLock' = Free
    BY <1>3 DEF MainLog, PrintLog
  <2> QED
    BY <2>1 DEF Held
<1>4. CASE CloseScanMeter \/ FlushProgress \/ CloseHashMeter
  BY <1>4 DEF CloseScanMeter, FlushProgress, CloseHashMeter, locks, Held, TypeOK
<1>5. CASE Fatal
  BY <1>5 DEF Fatal, LockLogger, Held, TypeOK
<1>6. CASE CloseManager \/ RestoreLogger
  BY <1>6 DEF CloseManager, RestoreLogger, Held, TypeOK
<1> QED
  BY <1>1, <1>2, <1>3, <1>4, <1>5, <1>6 DEF MainStep

LEMMA WorkerHolds == ASSUME TInv, Held, NEW w \in Workers, Worker(w) PROVE Held'
<1> USE StatusAssumption
<1> TypeOK
  BY DEF TInv
<1>1. pc' = pc
  BY DEF Worker, HashFile, StartLog, WorkerLog, Update, Flush
<1>2. CASE HashFile(w) \/ Update(w) \/ Flush(w)
  <2>1. wpc[w] # "log" /\ UNCHANGED <<mgrLock, logLock>> /\ \E l : Goto(w, l)
    BY <1>2 DEF HashFile, Update, Flush, locks
  <2>2. \A v \in Workers : wpc[v] = "log" => wpc'[v] = "log"
    BY <2>1 DEF Goto, TypeOK
  <2> QED
    BY <1>1, <2>1, <2>2 DEF Held
<1>3. CASE StartLog(w)
  <2>1. logLock' = w /\ mgrLock' = mgrLock /\ wpc'[w] = "log"
    BY <1>3 DEF StartLog, LockLogger, Goto, TypeOK
  <2> QED
    BY <1>1, <2>1 DEF Held
<1>4. CASE WorkerLog(w)
  <2>1. logLock' = Free /\ mgrLock' = mgrLock
    BY <1>4 DEF WorkerLog, PrintLog
  <2> QED
    BY <1>1, <2>1 DEF Held
<1> QED
  BY <1>2, <1>3, <1>4 DEF Worker

\* Manager.Close waits for the lock of the logger with its own lock held, and a
\* message does the reverse; that never is at the same time.
THEOREM ClosesUndisturbed == Spec => []CloseUndisturbed
<1>1. Init => TInv /\ Held
  <2>1. Init => Held
    BY StatusAssumption DEF Init, Held
  <2> QED
    BY <2>1, InitTyped
<1>2. TInv /\ Held /\ [Next]_vars => (TInv /\ Held)'
  <2> SUFFICES ASSUME TInv, Held, [Next]_vars PROVE TInv' /\ Held'
    OBVIOUS
  <2>1. CASE MainStep
    BY <2>1, NextTyped, MainHolds
  <2>2. CASE \E w \in Workers : Worker(w)
    BY <2>2, NextTyped, WorkerHolds
  <2>3. CASE UNCHANGED vars
    <3>1. Held'
      BY <2>3 DEF Held, vars, locks
    <3> QED
      BY <3>1, NextTyped
  <2> QED
    BY <2>1, <2>2, <2>3 DEF Next
<1>3. TInv /\ Held => CloseUndisturbed
  BY StatusAssumption DEF TInv, TypeOK, Counts, Held, CloseUndisturbed
<1> QED
  BY <1>1, <1>2, <1>3, PTL DEF Spec

-----------------------------------------------------------------------------
(***************************************************************************)
(* A meter does not go back.  The text that the next Flush shows counts    *)
(* the files as they are, and the text that is shown counts as many, or    *)
(* one less while a worker has Progress.lock.                              *)
(***************************************************************************)

Formatted ==
    /\ \A w \in Workers : wpc[w] = "flush" <=> progLock = w
    /\ \A w \in Workers : wpc[w] = "flush" => text[w] = files

ScanShown ==
    /\ dirs > 0 => meter # << >>
    /\ meter # << >> => meter[1].of = 1 /\ meter[1].n = dirs

Behind == IF progLock = Free THEN 0 ELSE 1

HashShown == meter # << >> /\ meter[1].of = 2 /\ files = meter[1].n + Behind

ShownInv ==
    /\ Formatted
    /\ pc \notin {"scan", "hash"} => meter = << >>
    /\ pc = "scan" => ScanShown
    /\ pc = "hash" => HashShown

\* The first line of a text.
LEMMA TextStarts ==
    ASSUME NEW k, NEW n, NEW h \in Heights
    PROVE  Text(k, n, h) # << >> /\ Text(k, n, h)[1].of = k /\ Text(k, n, h)[1].n = n
<1>1. h \in Nat /\ h >= 1
  BY StatusAssumption
<1>2. DOMAIN Text(k, n, h) = 1..h /\ 1 \in 1..h
  BY <1>1 DEF Text
<1>3. Text(k, n, h)[1] = [of |-> k, n |-> n, height |-> h]
  BY <1>2 DEF Text
<1>4. DOMAIN << >> = {}
  OBVIOUS
<1>5. Text(k, n, h) # << >>
  BY <1>2, <1>4
<1> QED
  BY <1>3, <1>5

LEMMA MeterNumber == TypeOK /\ meter # << >> => meter[1].n \in Nat
<1>1. \A x \in Line : x.n \in Nat
  BY DEF Line
<1> QED
  BY <1>1 DEF TypeOK

LEMMA WriteShows ==
    ASSUME NEW k, NEW n, MeterWrite(k, n)
    PROVE  meter' # << >> /\ meter'[1].of = k /\ meter'[1].n = n
<1>1. PICK h \in Heights : meter' = Text(k, n, h)
  BY DEF MeterWrite
<1> QED
  BY <1>1, TextStarts

LEMMA LogShows == ASSUME NEW g, PrintLog(g) PROVE UNCHANGED <<meter, due, mgrLock, progLock>>
  BY DEF PrintLog, Write

\* What the main goroutine does to the meter.
LEMMA MainShows ==
    ASSUME TInv, ShownInv, MainStep
    PROVE  ShownInv' /\ (meter # << >> /\ meter' # << >> => meter' = meter \/ pc = "scan")
<1> USE StatusAssumption
<1> TypeOK /\ Counts
  BY DEF TInv
<1>1. CASE Start
  BY <1>1 DEF Start, LockLogger, terminal, locks, ShownInv, Formatted, ScanShown, Counts
<1>2. CASE ScanDir
  <2>1. pc = "scan" /\ UNCHANGED <<pc, files, wpc, text, progLock>>
    BY <1>2 DEF ScanDir, LockLogger, locks
  <2>2. ScanShown'
    <3>1. CASE dirs' = dirs + 1 /\ MeterWrite(1, dirs + 1)
      BY <3>1, WriteShows DEF ScanShown
    <3>2. CASE UNCHANGED <<terminal, dirs>>
      BY <2>1, <3>2 DEF ScanShown, ShownInv, terminal
    <3> QED
      BY <1>2, <3>1, <3>2 DEF ScanDir
  <2> QED
    BY <2>1, <2>2 DEF ShownInv, Formatted
<1>3. CASE MainLog
  <2>1. /\ UNCHANGED <<meter, progLock, dirs, files, wpc, text>>
        /\ (pc' = pc \/ (pc' = "exited" /\ pc = "fatal"))
    BY <1>3, LogShows DEF MainLog
  <2> QED
    BY <2>1 DEF ShownInv, Formatted, ScanShown, HashShown, Behind
<1>4. CASE CloseScanMeter \/ CloseHashMeter
  <2>1. /\ meter' = << >> /\ UNCHANGED <<progLock, dirs, files, wpc, text>>
        /\ pc' \in {"scanned", "write"}
    BY <1>4 DEF CloseScanMeter, CloseHashMeter, MeterClose, locks
  <2> QED
    BY <2>1 DEF ShownInv, Formatted
<1>5. CASE Fatal
  BY <1>5 DEF Fatal, LockLogger, terminal, ShownInv, Formatted
<1>6. CASE FlushProgress
  <2>1. /\ pc = "scanned" /\ pc' = "hash" /\ MeterWrite(2, 0)
        /\ UNCHANGED <<progLock, files, wpc, text>>
    BY <1>6 DEF FlushProgress, locks
  <2>2. meter = << >> /\ files = 0 /\ progLock = Free
    BY <2>1 DEF ShownInv, Formatted, Counts, TypeOK
  <2>3. HashShown'
    BY <2>1, <2>2, WriteShows DEF HashShown, Behind
  <2> QED
    BY <2>1, <2>2, <2>3 DEF ShownInv, Formatted
<1>7. CASE CloseManager \/ RestoreLogger
  BY <1>7 DEF CloseManager, RestoreLogger, ShownInv, Formatted
<1> QED
  BY <1>1, <1>2, <1>3, <1>4, <1>5, <1>6, <1>7 DEF MainStep

\* What a worker does to it.
LEMMA WorkerShows ==
    ASSUME TInv, ShownInv, NEW w \in Workers, Worker(w)
    PROVE  /\ ShownInv'
           /\ meter' = meter \/ (HashShown /\ HashShown' /\ files' = files /\ Behind = 1)
<1> USE StatusAssumption
<1> TypeOK /\ Counts
  BY DEF TInv
<1> DEFINE S == {"next", "fail", "log", "update", "flush", "done"}
<1>1. wpc \in [Workers -> S] /\ text \in [Workers -> 0..MaxFiles] /\ files \in Nat
  BY DEF TypeOK
<1>2. pc = "hash" /\ pc' = pc /\ dirs' = dirs
  BY DEF Counts, Worker, HashFile, StartLog, WorkerLog, Update, Flush
<1>3. HashShown /\ Formatted
  BY <1>2 DEF ShownInv
<1>4. ASSUME Formatted', HashShown' PROVE ShownInv'
  BY <1>2, <1>4 DEF ShownInv
<1>5. ASSUME wpc[w] # "flush", NEW l \in S \ {"flush"}, Goto(w, l),
             UNCHANGED <<meter, progLock, files, text>>
      PROVE  ShownInv'
  <2>1. \A v \in Workers : wpc'[v] = "flush" <=> wpc[v] = "flush"
    BY <1>1, <1>5 DEF Goto
  <2>2. Formatted'
    BY <1>3, <1>5, <2>1 DEF Formatted
  <2>3. HashShown'
    BY <1>3, <1>5 DEF HashShown, Behind
  <2> QED
    BY <1>4, <2>2, <2>3
<1>6. CASE HashFile(w) \/ StartLog(w)
  <2>1. /\ UNCHANGED <<meter, progLock, files, text>> /\ wpc[w] # "flush"
        /\ Goto(w, "update") \/ Goto(w, "fail") \/ Goto(w, "done") \/ Goto(w, "log")
    BY <1>6 DEF HashFile, StartLog, LockLogger, locks, terminal
  <2> QED
    BY <1>5, <2>1
<1>7. CASE WorkerLog(w)
  <2>1. /\ UNCHANGED <<meter, progLock, files, text>> /\ wpc[w] # "flush"
        /\ Goto(w, "next")
    BY <1>7, LogShows DEF WorkerLog
  <2> QED
    BY <1>5, <2>1
<1>8. CASE Update(w)
  <2>1. /\ progLock = Free /\ progLock' = w /\ files' = files + 1 /\ meter' = meter
        /\ text' = [text EXCEPT ![w] = files + 1] /\ wpc' = [wpc EXCEPT ![w] = "flush"]
    BY <1>8 DEF Update, Goto, terminal
  <2>2. \A v \in Workers : wpc[v] # "flush"
    BY <1>3, <2>1 DEF Formatted
  <2>3. \A v \in Workers : wpc'[v] = "flush" <=> v = w
    BY <1>1, <2>1, <2>2
  <2>4. text'[w] = files'
    BY <1>1, <2>1
  <2>5. Formatted'
    BY <2>1, <2>3, <2>4 DEF Formatted
  <2>6. Behind = 0 /\ Behind' = 1
    BY <2>1 DEF Behind
  <2>7. HashShown'
    <3>1. meter # << >> /\ meter[1].of = 2 /\ files = meter[1].n + 0 /\ meter[1].n \in Nat
      BY <1>3, <2>6, MeterNumber DEF HashShown
    <3> QED
      BY <2>1, <2>6, <3>1 DEF HashShown
  <2> QED
    BY <1>4, <2>1, <2>5, <2>7
<1>9. CASE Flush(w)
  <2>1. /\ wpc[w] = "flush" /\ MeterWrite(2, text[w]) /\ progLock' = Free
        /\ wpc' = [wpc EXCEPT ![w] = "next"] /\ UNCHANGED <<files, text>>
    BY <1>9 DEF Flush, Goto
  <2>2. text[w] = files /\ progLock = w
    BY <1>3, <2>1 DEF Formatted
  <2>3. \A v \in Workers : wpc'[v] # "flush"
    BY <1>1, <1>3, <2>1, <2>2 DEF Formatted
  <2>4. Formatted'
    BY <2>1, <2>3 DEF Formatted
  <2>5. Behind = 1 /\ Behind' = 0
    BY <2>1, <2>2 DEF Behind
  <2>6. HashShown'
    BY <1>1, <2>1, <2>2, <2>5, WriteShows DEF HashShown
  <2> QED
    BY <1>3, <1>4, <2>1, <2>4, <2>5, <2>6
<1> QED
  BY <1>6, <1>7, <1>8, <1>9, LogShows
     DEF Worker, HashFile, StartLog, WorkerLog, Update, terminal

Shown == TInv /\ ShownInv

LEMMA InitShown == Init => Shown
<1> SUFFICES ASSUME Init PROVE Shown
  OBVIOUS
<1>1. ShownInv
  BY StatusAssumption DEF Init, ShownInv, Formatted
<1> QED
  BY <1>1, InitTyped DEF Shown

LEMMA NextShown == Shown /\ [Next]_vars => Shown'
<1> SUFFICES ASSUME Shown, [Next]_vars PROVE Shown'
  OBVIOUS
<1> TInv /\ ShownInv
  BY DEF Shown
<1>1. TInv'
  BY NextTyped
<1>2. CASE MainStep
  BY <1>1, <1>2, MainShows DEF Shown
<1>3. CASE \E w \in Workers : Worker(w)
  BY <1>1, <1>3, WorkerShows DEF Shown
<1>4. CASE UNCHANGED vars
  <2>1. ShownInv'
    BY <1>4 DEF ShownInv, Formatted, ScanShown, HashShown, Behind, vars, terminal, locks
  <2> QED
    BY <1>1, <2>1 DEF Shown
<1> QED
  BY <1>2, <1>3, <1>4 DEF Next

\* The numbers of a meter never decrease, whatever the order is in which the
\* workers come to Progress.lock and to Manager.lock.
THEOREM NeverBack == Spec => Forward
<1> DEFINE Grows == (meter # << >> /\ meter' # << >> /\ meter'[1].of = meter[1].of) =>
                        meter'[1].n >= meter[1].n
<1>1. ASSUME Shown, [Next]_vars PROVE [Grows]_vars
  <2> TInv /\ TypeOK /\ ShownInv /\ TInv'
    BY <1>1, NextTyped DEF Shown, TInv
  <2> SUFFICES ASSUME Next, meter # << >>, meter' # << >> PROVE meter'[1].n >= meter[1].n
    BY <1>1
  <2>1. meter[1].n \in Nat
    BY MeterNumber
  <2>2. CASE meter' = meter
    BY <2>1, <2>2
  <2>3. CASE MainStep /\ meter' # meter
    <3>1. pc = "scan" /\ ShownInv'
      BY <1>1, <2>3, MainShows
    <3>2. pc' = "scan" /\ dirs' >= dirs
      <4>1. CASE ScanDir
        BY <3>1, <4>1 DEF ScanDir, TypeOK
      <4>2. CASE MainLog
        BY <2>3, <4>2, LogShows DEF MainLog
      <4> QED
        BY <2>3, <3>1, <4>1, <4>2
           DEF MainStep, Start, CloseScanMeter, MeterClose, Fatal, FlushProgress,
               CloseHashMeter, CloseManager, RestoreLogger
    <3> QED
      BY <3>1, <3>2 DEF ShownInv, ScanShown
  <2>4. CASE (\E w \in Workers : Worker(w)) /\ meter' # meter
    <3>1. HashShown /\ HashShown' /\ files' = files /\ Behind = 1
      BY <1>1, <2>4, WorkerShows
    <3>2. meter'[1].n \in Nat /\ Behind' \in {0, 1}
      <4>1. meter' \in Seq(Line) /\ \A x \in Line : x.n \in Nat
        BY DEF TInv, TypeOK, Line
      <4> QED
        BY <4>1 DEF Behind
    <3> QED
      BY <2>1, <3>1, <3>2 DEF HashShown
  <2> QED
    BY <2>2, <2>3, <2>4 DEF Next
<1>2. Shown /\ [Next]_vars => [Grows]_vars
  BY <1>1
<1> QED
  BY <1>2, InitShown, NextShown, PTL DEF Spec, Forward

-----------------------------------------------------------------------------
(***************************************************************************)
(* The terminal.  Every text has Rows lines, so what clear leaves are the  *)
(* lines that have scrolled by for good: Cleared only ever grows, by a     *)
(* message, or by the text of a meter that is closed.  A meter that is     *)
(* open is newer than all of them.                                         *)
(***************************************************************************)

\* All texts have the same number of lines, as those of Progress and of
\* scanMeter, which are one line each.
OneHeight == \A g, h \in Heights : g = h

Rows == CHOOSE h \in Heights : TRUE

\* The meter that is open, or the next one.
Open == IF pc \in {"start", "scan"} THEN 1
        ELSE IF pc \in {"scanned", "hash"} THEN 2 ELSE 3

\* The parts of LogKept, OneMeter and LastTextShown, for any lines.
Messages(s) == {i \in 1..Len(s) : s[i].of = 0}

Kept(s, l) ==
    /\ {s[i].n : i \in Messages(s)} = 1..l
    /\ \A i, j \in Messages(s) : i < j => s[i].n < s[j].n

Together(s) ==
    \A i, j \in 1..Len(s) :
        (s[i].of = s[j].of /\ s[i].of # 0) => s[i].n = s[j].n /\ i - j < s[i].height

Before(s, k) == \A i \in 1..Len(s) : s[i].of < k

Shows(s, k, n) == \E i \in 1..Len(s) : s[i].of = k /\ s[i].n = n

\* A meter that is open is on the terminal, below everything else, with this
\* text or with an earlier one.
Drawn ==
    \E n, m \in Nat : /\ meter = Text(Open, n, Rows)
                      /\ screen = Cleared \o Text(Open, m, Rows)

Layout ==
    /\ due <=> meter = << >>
    /\ meter # << >> => Rows \in Heights /\ Drawn
    /\ Kept(Cleared, logged)
    /\ Together(Cleared)
    /\ Before(Cleared, Open)
    /\ pc \notin {"start", "scan"} /\ dirs > 0 => Shows(Cleared, 1, dirs)
    /\ pc \in {"write", "close", "closed"} => Shows(Cleared, 2, files)

-----------------------------------------------------------------------------
(***************************************************************************)
(* Lines put below others.                                                 *)
(***************************************************************************)

LEMMA Below ==
    ASSUME NEW s \in Seq(Line), NEW t \in Seq(Line)
    PROVE  /\ s \o t \in Seq(Line)
           /\ Len(s \o t) = Len(s) + Len(t)
           /\ \A i \in 1..Len(s) : (s \o t)[i] = s[i]
           /\ \A i \in Len(s) + 1..Len(s \o t) : (s \o t)[i] = t[i - Len(s)]
           /\ SubSeq(s \o t, 1, Len(s \o t) - Len(t)) = s
<1>1. /\ s \o t \in Seq(Line) /\ Len(s \o t) = Len(s) + Len(t)
      /\ Len(s) \in Nat /\ Len(t) \in Nat
  BY ConcatProperties, LenProperties
<1>2. /\ \A i \in 1..Len(s) : (s \o t)[i] = s[i]
      /\ \A i \in Len(s) + 1..Len(s \o t) : (s \o t)[i] = t[i - Len(s)]
  BY <1>1, ConcatProperties
<1>3. SubSeq(s \o t, 1, Len(s)) = s
  <2> DEFINE c == SubSeq(s \o t, 1, Len(s))
  <2>1. c \in Seq(Line) /\ Len(c) = Len(s) /\ \A i \in 1..Len(s) : c[i] = (s \o t)[i]
    BY <1>1, SubSeqProperties
  <2>2. \A i \in 1..Len(s) : c[i] = s[i]
    BY <1>2, <2>1
  <2> HIDE DEF c
  <2>3. c = s
    BY <2>1, <2>2, SeqEqual
  <2> QED
    BY <2>3 DEF c
<1>4. Len(s \o t) - Len(t) = Len(s)
  BY <1>1
<1> QED
  BY <1>1, <1>2, <1>3, <1>4

LEMMA LinesOfText ==
    ASSUME NEW k \in {1, 2}, NEW n \in Nat, NEW h \in Heights
    PROVE  /\ Text(k, n, h) \in Seq(Line) /\ Len(Text(k, n, h)) = h /\ h \in Nat /\ h >= 1
           /\ \A i \in 1..h : /\ Text(k, n, h)[i].of = k /\ Text(k, n, h)[i].n = n
                              /\ Text(k, n, h)[i].height = h
<1>1. h \in Nat /\ h >= 1
  BY StatusAssumption
<1>2. Text(k, n, h) \in Seq(Line)
  BY LinesTyped
<1>3. \A i \in 1..h : Text(k, n, h)[i] = [of |-> k, n |-> n, height |-> h]
  BY DEF Text
<1>4. Len(Text(k, n, h)) = h
  BY <1>1, <1>2 DEF Text
<1>5. \A i \in 1..h : /\ Text(k, n, h)[i].of = k /\ Text(k, n, h)[i].n = n
                      /\ Text(k, n, h)[i].height = h
  BY <1>3
<1> QED
  BY <1>1, <1>2, <1>4, <1>5

\* A line of the terminal.
LEMMA LineFields ==
    ASSUME NEW x \in Line
    PROVE  x.of \in {0, 1, 2} /\ x.n \in Nat
  BY DEF Line

\* With a text below them, lines have the same messages ...
LEMMA KeptText ==
    ASSUME NEW s \in Seq(Line), NEW l \in Nat, Kept(s, l),
           NEW k \in {1, 2}, NEW n \in Nat, NEW h \in Heights
    PROVE  Kept(s \o Text(k, n, h), l)
<1> DEFINE t == Text(k, n, h)
           u == s \o t
<1>1. /\ Len(u) = Len(s) + Len(t) /\ Len(s) \in Nat /\ Len(t) = h /\ h \in Nat
      /\ \A i \in 1..Len(s) : u[i] = s[i]
      /\ \A i \in Len(s) + 1..Len(u) : u[i] = t[i - Len(s)]
      /\ \A i \in 1..h : t[i].of = k
  <2>1. /\ t \in Seq(Line) /\ Len(t) = h /\ h \in Nat
        /\ \A i \in 1..h : t[i].of = k
    BY LinesOfText
  <2> HIDE DEF t
  <2>2. /\ Len(u) = Len(s) + Len(t)
        /\ \A i \in 1..Len(s) : u[i] = s[i]
        /\ \A i \in Len(s) + 1..Len(u) : u[i] = t[i - Len(s)]
    BY <2>1, Below
  <2> QED
    BY <2>1, <2>2, LenProperties
<1> HIDE DEF u, t
<1>2. \A i \in Len(s) + 1..Len(u) : u[i].of = k
  <2> SUFFICES ASSUME NEW i \in Len(s) + 1..Len(u) PROVE u[i].of = k
    OBVIOUS
  <2>1. i - Len(s) \in 1..h
    BY <1>1
  <2> QED
    BY <1>1, <2>1
<1>3. Messages(u) = Messages(s)
  <2>1. ASSUME NEW i \in 1..Len(u) PROVE u[i].of = 0 <=> i \in 1..Len(s) /\ s[i].of = 0
    <3>1. i \in 1..Len(s) \/ (i \in Len(s) + 1..Len(u) /\ i \notin 1..Len(s))
      BY <1>1
    <3> QED
      BY <1>1, <1>2, <3>1
  <2>2. 1..Len(s) \subseteq 1..Len(u)
    BY <1>1
  <2> QED
    BY <2>1, <2>2 DEF Messages
<1>4. \A i \in Messages(s) : u[i] = s[i]
  BY <1>1 DEF Messages
<1>5. {u[i].n : i \in Messages(u)} = {s[i].n : i \in Messages(s)}
  BY <1>3, <1>4
<1>6. \A i, j \in Messages(u) : i < j => u[i].n < u[j].n
  BY <1>3, <1>4 DEF Kept
<1>7. Kept(u, l)
  BY <1>5, <1>6 DEF Kept
<1> QED
  BY <1>7 DEF u, t

\* ... and with a message below them, one more.
LEMMA KeptLog ==
    ASSUME NEW s \in Seq(Line), NEW l \in Nat, Kept(s, l)
    PROVE  Kept(Append(s, LogLine(l + 1)), l + 1)
<1> DEFINE u == Append(s, LogLine(l + 1))
           e == Len(s) + 1
<1>1. /\ Len(s) \in Nat /\ Len(u) = e /\ u[e].of = 0 /\ u[e].n = l + 1
      /\ \A i \in 1..Len(s) : u[i] = s[i]
  <2>1. /\ Len(s) \in Nat /\ Len(u) = e /\ u[e] = LogLine(l + 1)
        /\ \A i \in 1..Len(s) : u[i] = s[i]
    BY LinesTyped, AppendProperties, LenProperties
  <2>2. LogLine(l + 1).of = 0 /\ LogLine(l + 1).n = l + 1
    BY DEF LogLine
  <2> QED
    BY <2>1, <2>2
<1> HIDE DEF u
<1>2. Messages(u) = Messages(s) \cup {e} /\ e \notin Messages(s)
  <2>1. 1..Len(u) = 1..Len(s) \cup {e} /\ e \notin 1..Len(s)
    BY <1>1
  <2> QED
    BY <1>1, <2>1 DEF Messages
<1>3. \A i \in Messages(s) : u[i].n = s[i].n /\ i < e /\ s[i].n \in 1..l
  BY <1>1 DEF Messages, Kept
<1>4. {u[i].n : i \in Messages(u)} = {s[i].n : i \in Messages(s)} \cup {l + 1}
  BY <1>1, <1>2, <1>3
<1>5. {u[i].n : i \in Messages(u)} = 1..l + 1
  <2>1. {s[i].n : i \in Messages(s)} = 1..l
    BY DEF Kept
  <2>2. 1..l + 1 = 1..l \cup {l + 1}
    OBVIOUS
  <2> QED
    BY <1>4, <2>1, <2>2
<1>6. ASSUME NEW i \in Messages(u), NEW j \in Messages(u), i < j PROVE u[i].n < u[j].n
  <2>1. i \in Messages(s)
    BY <1>2, <1>3, <1>6, <1>1 DEF Messages
  <2>2. CASE j \in Messages(s)
    BY <1>3, <1>6, <2>1, <2>2 DEF Kept
  <2>3. CASE j = e
    <3>1. u[i].n \in 1..l /\ u[j].n = l + 1
      BY <1>1, <1>3, <2>1, <2>3
    <3> QED
      BY <3>1
  <2> QED
    BY <1>2, <2>2, <2>3
<1>7. Kept(u, l + 1)
  BY <1>5, <1>6 DEF Kept
<1> QED
  BY <1>7 DEF u

\* The text of a newer meter makes one block below the others.
LEMMA TextBelow ==
    ASSUME NEW s \in Seq(Line), NEW k \in {1, 2}, NEW n \in Nat, NEW h \in Heights,
           Together(s), Before(s, k)
    PROVE  Together(s \o Text(k, n, h)) /\ Before(s \o Text(k, n, h), k + 1)
<1> DEFINE t == Text(k, n, h)
           u == s \o t
           top == 1..Len(s)
           low == Len(s) + 1..Len(s) + h
<1>1. /\ Len(u) = Len(s) + Len(t) /\ Len(s) \in Nat /\ Len(t) = h /\ h \in Nat
      /\ \A i \in 1..Len(s) : u[i] = s[i]
      /\ \A i \in Len(s) + 1..Len(u) : u[i] = t[i - Len(s)]
      /\ \A i \in 1..h : t[i].of = k /\ t[i].n = n /\ t[i].height = h
  <2>1. /\ t \in Seq(Line) /\ Len(t) = h /\ h \in Nat
        /\ \A i \in 1..h : t[i].of = k /\ t[i].n = n /\ t[i].height = h
    BY LinesOfText
  <2> HIDE DEF t
  <2>2. /\ Len(u) = Len(s) + Len(t)
        /\ \A i \in 1..Len(s) : u[i] = s[i]
        /\ \A i \in Len(s) + 1..Len(u) : u[i] = t[i - Len(s)]
    BY <2>1, Below
  <2> QED
    BY <2>1, <2>2, LenProperties
<1> HIDE DEF u, t
<1>2. ASSUME NEW i \in low PROVE u[i].of = k /\ u[i].n = n /\ u[i].height = h
  <2>1. i - Len(s) \in 1..h /\ i \in Len(s) + 1..Len(u)
    BY <1>1
  <2> QED
    BY <1>1, <2>1
<1>3. 1..Len(u) = top \cup low
  BY <1>1
<1>4. ASSUME NEW i \in top PROVE u[i] = s[i] /\ s[i].of < k /\ s[i].of \in Nat
  <2>1. s[i] \in Line
    BY <1>1
  <2>2. s[i].of \in Nat
    BY <2>1, LineFields
  <2>3. s[i].of < k /\ u[i] = s[i]
    BY <1>1 DEF Before
  <2> QED
    BY <2>2, <2>3
<1>5. Before(u, k + 1)
  <2> SUFFICES ASSUME NEW i \in 1..Len(u) PROVE u[i].of < k + 1
    BY DEF Before
  <2>1. CASE i \in top
    BY <1>4, <2>1
  <2>2. CASE i \in low
    BY <1>2, <2>2
  <2> QED
    BY <1>3, <2>1, <2>2
<1>6. Together(u)
  <2> SUFFICES ASSUME NEW i \in 1..Len(u), NEW j \in 1..Len(u), u[i].of = u[j].of,
                      u[i].of # 0
               PROVE  u[i].n = u[j].n /\ i - j < u[i].height
    BY DEF Together
  <2>1. (i \in top /\ j \in top) \/ (i \in low /\ j \in low)
    <3>1. CASE i \in top /\ j \in low
      BY <1>2, <1>4, <3>1
    <3>2. CASE i \in low /\ j \in top
      BY <1>2, <1>4, <3>2
    <3> QED
      BY <1>3, <3>1, <3>2
  <2>2. CASE i \in top /\ j \in top
    <3>1. u[i] = s[i] /\ u[j] = s[j]
      BY <1>4, <2>2
    <3> QED
      BY <2>2, <3>1 DEF Together
  <2>3. CASE i \in low /\ j \in low
    <3>1. i - j < h
      BY <1>1, <2>3
    <3> QED
      BY <1>2, <2>3, <3>1
  <2> QED
    BY <2>1, <2>2, <2>3
<1> QED
  BY <1>5, <1>6 DEF u, t

\* A message does not part the lines of a text that is above it.
LEMMA LogBelow ==
    ASSUME NEW s \in Seq(Line), NEW l \in Nat, NEW k \in 1..3, Together(s), Before(s, k)
    PROVE  Together(Append(s, LogLine(l))) /\ Before(Append(s, LogLine(l)), k)
<1> DEFINE u == Append(s, LogLine(l))
           e == Len(s) + 1
<1>1. /\ Len(s) \in Nat /\ Len(u) = e /\ u[e].of = 0
      /\ \A i \in 1..Len(s) : u[i] = s[i]
  <2>1. /\ Len(s) \in Nat /\ Len(u) = e /\ u[e] = LogLine(l)
        /\ \A i \in 1..Len(s) : u[i] = s[i]
    BY LinesTyped, AppendProperties, LenProperties
  <2>2. LogLine(l).of = 0
    BY DEF LogLine
  <2> QED
    BY <2>1, <2>2
<1> HIDE DEF u
<1>2. 1..Len(u) = 1..Len(s) \cup {e}
  BY <1>1
<1>3. Before(u, k)
  BY <1>1, <1>2 DEF Before
<1>4. Together(u)
  <2> SUFFICES ASSUME NEW i \in 1..Len(u), NEW j \in 1..Len(u), u[i].of = u[j].of,
                      u[i].of # 0
               PROVE  u[i].n = u[j].n /\ i - j < u[i].height
    BY DEF Together
  <2>1. i \in 1..Len(s) /\ j \in 1..Len(s)
    BY <1>1, <1>2
  <2>2. u[i] = s[i] /\ u[j] = s[j]
    BY <1>1, <2>1
  <2> QED
    BY <2>1, <2>2 DEF Together
<1> QED
  BY <1>3, <1>4 DEF u

\* What is shown stays when more lines come below.
LEMMA ShowsMore ==
    ASSUME NEW s \in Seq(Line), NEW t \in Seq(Line), NEW k, NEW n, Shows(s, k, n)
    PROVE  Shows(s \o t, k, n)
<1>1. PICK i \in 1..Len(s) : s[i].of = k /\ s[i].n = n
  BY DEF Shows
<1>2. i \in 1..Len(s \o t) /\ (s \o t)[i] = s[i]
  BY Below, LenProperties
<1> QED
  BY <1>1, <1>2 DEF Shows

LEMMA TextShown ==
    ASSUME NEW s \in Seq(Line), NEW k \in {1, 2}, NEW n \in Nat, NEW h \in Heights
    PROVE  Shows(s \o Text(k, n, h), k, n)
<1> DEFINE t == Text(k, n, h)
           u == s \o t
<1>1. /\ Len(u) = Len(s) + Len(t) /\ Len(s) \in Nat /\ Len(t) = h /\ h \in Nat /\ h >= 1
      /\ \A i \in Len(s) + 1..Len(u) : u[i] = t[i - Len(s)]
      /\ t[1].of = k /\ t[1].n = n
  <2>1. /\ t \in Seq(Line) /\ Len(t) = h /\ h \in Nat /\ h >= 1
        /\ \A i \in 1..h : t[i].of = k /\ t[i].n = n
    BY LinesOfText
  <2>2. 1 \in 1..h
    BY <2>1
  <2> HIDE DEF t
  <2>3. /\ Len(u) = Len(s) + Len(t)
        /\ \A i \in Len(s) + 1..Len(u) : u[i] = t[i - Len(s)]
    BY <2>1, Below
  <2> QED
    BY <2>1, <2>2, <2>3, LenProperties
<1> HIDE DEF u, t
<1>2. Len(s) + 1 \in Len(s) + 1..Len(u) /\ Len(s) + 1 \in 1..Len(u) /\ (Len(s) + 1) - Len(s) = 1
  BY <1>1
<1>3. u[Len(s) + 1] = t[1]
  BY <1>1, <1>2
<1>4. Shows(u, k, n)
  BY <1>1, <1>2, <1>3 DEF Shows
<1> QED
  BY <1>4 DEF u, t

LEMMA ShowsLog ==
    ASSUME NEW s \in Seq(Line), NEW l \in Nat, NEW k, NEW n, Shows(s, k, n)
    PROVE  Shows(Append(s, LogLine(l)), k, n)
<1>1. PICK i \in 1..Len(s) : s[i].of = k /\ s[i].n = n
  BY DEF Shows
<1> DEFINE u == Append(s, LogLine(l))
<1>2. Len(s) \in Nat /\ Len(u) = Len(s) + 1 /\ u[i] = s[i]
  BY LinesTyped, AppendProperties, LenProperties
<1> HIDE DEF u
<1>3. i \in 1..Len(u)
  BY <1>2
<1>4. Shows(u, k, n)
  BY <1>1, <1>2, <1>3 DEF Shows
<1> QED
  BY <1>4 DEF u

LEMMA AllOfIt == ASSUME NEW s \in Seq(Line) PROVE SubSeq(s, 1, Len(s) - Len(<< >>)) = s
<1>1. << >> \in Seq(Line) /\ Len(<< >>) = 0 /\ Len(s) \in Nat
  BY LenProperties
<1>2. Len(s) - Len(<< >>) = Len(s)
  BY <1>1
<1> DEFINE c == SubSeq(s, 1, Len(s))
<1>3. c \in Seq(Line) /\ Len(c) = Len(s) /\ \A i \in 1..Len(s) : c[i] = s[i]
  BY <1>1, SubSeqProperties
<1> HIDE DEF c
<1>4. c = s
  BY <1>3, SeqEqual
<1> QED
  BY <1>2, <1>4 DEF c

-----------------------------------------------------------------------------
(***************************************************************************)
(* What the calls of Manager and Meter do to the lines that stay.          *)
(***************************************************************************)

\* Of two sequences put together, clear takes the second one away again.
ClearedOf(s, m) == SubSeq(s, 1, Len(s) - Len(m))

LEMMA ClearsBelow ==
    ASSUME NEW s \in Seq(Line), NEW t \in Seq(Line), NEW m \in Seq(Line), Len(m) = Len(t)
    PROVE  ClearedOf(s \o t, m) = s
  BY Below DEF ClearedOf

LEMMA ClearedMeans == Cleared = ClearedOf(screen, meter)
  BY DEF Cleared, ClearedOf

LEMMA ClosedMeans == TypeOK /\ meter = << >> => screen = Cleared
  BY AllOfIt DEF Cleared, TypeOK

LEMMA OpenNumber == Open \in 1..3 /\ (pc \in {"scan", "hash"} => Open \in {1, 2})
  BY DEF Open

LEMMA ClearedLog ==
    ASSUME TypeOK, NEW g, PrintLog(g)
    PROVE  /\ Cleared' = Append(Cleared, LogLine(logged + 1))
           /\ screen' = Cleared' \o meter /\ logged' = logged + 1
           /\ meter' = meter /\ due' = due
<1> DEFINE u == Append(Cleared, LogLine(logged + 1))
<1>1. logged' = logged + 1 /\ screen' = u \o meter /\ meter' = meter /\ due' = due
  BY DEF PrintLog, Write
<1>2. u \in Seq(Line) /\ meter \in Seq(Line)
  <2>1. logged + 1 \in Nat
    BY DEF TypeOK
  <2>2. LogLine(logged + 1) \in Line
    BY <2>1, LinesTyped
  <2> QED
    BY <2>2, ClearedTyped, AppendProperties DEF TypeOK
<1> HIDE DEF u
<1>3. ClearedOf(u \o meter, meter) = u
  BY <1>2, ClearsBelow
<1>4. Cleared' = ClearedOf(screen', meter')
  BY DEF Cleared, ClearedOf
<1>5. Cleared' = u
  BY <1>1, <1>3, <1>4
<1> QED
  BY <1>1, <1>5 DEF u

LEMMA ClearedClose ==
    ASSUME TypeOK, MeterClose
    PROVE  /\ Cleared' = Cleared \o meter /\ screen' = Cleared' /\ meter' = << >>
           /\ due' = TRUE /\ logged' = logged
<1>1. screen' = Cleared \o meter /\ meter' = << >> /\ due' = TRUE /\ logged' = logged
  BY DEF MeterClose
<1>2. screen' \in Seq(Line)
  BY CloseTyped
<1>3. Cleared' = SubSeq(screen', 1, Len(screen') - Len(<< >>))
  BY <1>1 DEF Cleared
<1> QED
  BY <1>1, <1>2, <1>3, AllOfIt

LEMMA ClearedWrite ==
    ASSUME OneHeight, TypeOK, Layout, Open \in {1, 2}, NEW n \in Nat, MeterWrite(Open, n)
    PROVE  /\ Cleared' = Cleared /\ logged' = logged /\ due' = FALSE
           /\ Rows \in Heights /\ meter' = Text(Open, n, Rows) /\ meter' # << >>
           /\ \E m \in Nat : screen' = Cleared \o Text(Open, m, Rows)
<1>1. PICK h \in Heights :
          /\ meter' = Text(Open, n, h)
          /\ \/ screen' = Cleared \o Text(Open, n, h) /\ due' = FALSE
             \/ ~ due /\ UNCHANGED <<screen, due>>
          /\ UNCHANGED logged
  BY DEF MeterWrite
<1>2. h = Rows /\ Rows \in Heights
  BY DEF OneHeight, Rows
<1>3. \A m \in Nat : Text(Open, m, Rows) \in Seq(Line) /\ Len(Text(Open, m, Rows)) = Rows
  BY <1>2, LinesOfText
<1>4. \E m \in Nat : screen' = Cleared \o Text(Open, m, Rows)
  <2>1. CASE screen' = Cleared \o Text(Open, n, h)
    BY <1>2, <2>1
  <2>2. CASE ~ due /\ UNCHANGED screen
    BY <2>2 DEF Layout, Drawn
  <2> QED
    BY <1>1, <2>1, <2>2
<1>5. PICK m \in Nat : screen' = Cleared \o Text(Open, m, Rows)
  BY <1>4
<1>6. Cleared' = Cleared
  <2> DEFINE t == Text(Open, m, Rows)
             u == Text(Open, n, Rows)
             c == Cleared
  <2>1. c \in Seq(Line) /\ t \in Seq(Line) /\ u \in Seq(Line) /\ Len(u) = Len(t)
    BY <1>3, ClearedTyped
  <2>2. screen' = c \o t /\ meter' = u
    BY <1>1, <1>2, <1>5
  <2> HIDE DEF t, u, c
  <2>3. ClearedOf(c \o t, u) = c
    BY <2>1, ClearsBelow
  <2>4. Cleared' = ClearedOf(screen', meter')
    BY DEF Cleared, ClearedOf
  <2> QED
    BY <2>2, <2>3, <2>4 DEF c
<1>7. due' = FALSE
  BY <1>1 DEF Layout, TypeOK
<1>8. meter' # << >>
  BY <1>1, TextStarts
<1> QED
  BY <1>1, <1>2, <1>4, <1>6, <1>7, <1>8

-----------------------------------------------------------------------------
(***************************************************************************)
(* Layout is preserved: by what leaves the terminal alone, by a message,   *)
(* by a text, and by the end of a meter.                                   *)
(***************************************************************************)

\* A step does not change what the texts that were shown last have to say.
Passed ==
    /\ pc' \notin {"start", "scan"} /\ dirs' > 0 =>
           pc \notin {"start", "scan"} /\ dirs' = dirs
    /\ pc' \in {"write", "close", "closed"} =>
           pc \in {"write", "close", "closed"} /\ files' = files

LEMMA StaysLaid ==
    ASSUME TypeOK, Layout, UNCHANGED terminal, Passed,
           Open' = Open \/ (meter = << >> /\ Open <= Open')
    PROVE  Layout'
<1>1. UNCHANGED <<screen, logged, meter, due>> /\ Cleared' = Cleared
  BY DEF terminal, Cleared
<1>2. Before(Cleared, Open')
  <2>1. \A i \in 1..Len(Cleared) : Cleared[i].of \in Nat
    <3>1. \A x \in Line : x.of \in Nat
      BY LineFields
    <3> QED
      BY <3>1, ClearedTyped
  <2>2. Open \in Nat /\ Open' \in Nat /\ Open <= Open'
    BY DEF Open
  <2> QED
    BY <2>1, <2>2 DEF Before, Layout
<1>3. meter # << >> => Rows \in Heights /\ Drawn'
  BY <1>1 DEF Layout, Drawn
<1> QED
  BY <1>1, <1>2, <1>3 DEF Layout, Passed

LEMMA LogLaid ==
    ASSUME TypeOK, Layout, NEW g, PrintLog(g), Passed,
           Open' = Open \/ (meter = << >> /\ Open <= Open')
    PROVE  Layout'
<1> DEFINE c == Cleared
           u == Append(c, LogLine(logged + 1))
<1>1. /\ Cleared' = u /\ screen' = u \o meter /\ logged' = logged + 1
      /\ meter' = meter /\ due' = due
  BY ClearedLog
<1>2. c \in Seq(Line) /\ logged \in Nat /\ logged + 1 \in Nat /\ Open \in 1..3 /\ Open' \in 1..3
  BY ClearedTyped DEF TypeOK, Open
<1>3. Kept(c, logged) /\ Together(c) /\ Before(c, Open)
  BY DEF Layout
<1> HIDE DEF c
<1>4. Before(c, Open')
  <2>1. \A i \in 1..Len(c) : c[i].of \in Nat
    <3>1. \A x \in Line : x.of \in Nat
      BY LineFields
    <3> QED
      BY <1>2, <3>1
  <2> QED
    BY <1>2, <1>3, <2>1 DEF Before
<1>5. Kept(u, logged + 1)
  BY <1>2, <1>3, KeptLog
<1>6. Together(u) /\ Before(u, Open')
  BY <1>2, <1>3, <1>4, LogBelow
<1>7. \A k, n : Shows(c, k, n) => Shows(u, k, n)
  BY <1>2, ShowsLog
<1> HIDE DEF u
<1>8. meter' # << >> => Rows \in Heights /\ Drawn'
  BY <1>1 DEF Layout, Drawn
<1>9. /\ pc' \notin {"start", "scan"} /\ dirs' > 0 => Shows(u, 1, dirs')
      /\ pc' \in {"write", "close", "closed"} => Shows(u, 2, files')
  BY <1>7 DEF Layout, Passed, c
<1>10. due' <=> meter' = << >>
  BY <1>1 DEF Layout
<1> QED
  BY <1>1, <1>5, <1>6, <1>8, <1>9, <1>10 DEF Layout

LEMMA WriteLaid ==
    ASSUME OneHeight, TypeOK, Layout, Open \in {1, 2}, NEW n \in Nat, MeterWrite(Open, n),
           Open' = Open, Passed
    PROVE  Layout'
<1>1. /\ Cleared' = Cleared /\ logged' = logged /\ due' = FALSE
      /\ Rows \in Heights /\ meter' = Text(Open, n, Rows) /\ meter' # << >>
  BY ClearedWrite
<1>2. PICK m \in Nat : screen' = Cleared \o Text(Open, m, Rows)
  BY ClearedWrite
<1>3. Drawn'
  BY <1>1, <1>2 DEF Drawn
<1> QED
  BY <1>1, <1>3 DEF Layout, Passed

\* The text of a meter that is closed joins the lines that stay.
LEMMA CloseLaid ==
    ASSUME TypeOK, Layout, MeterClose, Open \in {1, 2}, Open' = Open + 1,
           (pc' \notin {"start", "scan"} /\ dirs' > 0) => Shows(Cleared \o meter, 1, dirs'),
           pc' \in {"write", "close", "closed"} => Shows(Cleared \o meter, 2, files')
    PROVE  Layout'
<1> DEFINE c == Cleared
           u == c \o meter
<1>1. Cleared' = u /\ meter' = << >> /\ due' = TRUE /\ logged' = logged
  BY ClearedClose
<1>2. c \in Seq(Line) /\ logged \in Nat
  BY ClearedTyped DEF TypeOK
<1>3. Kept(c, logged) /\ Together(c) /\ Before(c, Open)
  BY DEF Layout
<1>4. Kept(u, logged) /\ Together(u) /\ Before(u, Open + 1)
  <2>1. CASE meter # << >>
    <3>1. PICK n \in Nat : meter = Text(Open, n, Rows) /\ Rows \in Heights
      BY <2>1 DEF Layout, Drawn
    <3> HIDE DEF c
    <3> QED
      BY <1>2, <1>3, <3>1, KeptText, TextBelow
  <2>2. CASE meter = << >>
    <3>1. u = c
      BY <1>2, <2>2, ConcatEmptySeq
    <3>2. \A i \in 1..Len(c) : c[i].of \in Nat
      <4>1. \A x \in Line : x.of \in Nat
        BY LineFields
      <4> QED
        BY <1>2, <4>1
    <3> HIDE DEF c, u
    <3>3. Before(c, Open + 1)
      BY <1>3, <3>2 DEF Before
    <3> QED
      BY <1>3, <3>1, <3>3
  <2> QED
    BY <2>1, <2>2
<1> HIDE DEF u
<1>5. (pc' \notin {"start", "scan"} /\ dirs' > 0) => Shows(u, 1, dirs')
  BY DEF u
<1>6. pc' \in {"write", "close", "closed"} => Shows(u, 2, files')
  BY DEF u
<1> QED
  BY <1>1, <1>4, <1>5, <1>6 DEF Layout

-----------------------------------------------------------------------------
(***************************************************************************)
(* Every step preserves Layout.                                            *)
(***************************************************************************)

Lined == Shown /\ Layout

LEMMA MainLaid == ASSUME OneHeight, Lined, MainStep PROVE Layout'
<1> TypeOK /\ Counts /\ ShownInv /\ Layout
  BY DEF Lined, Shown, TInv
<1> USE StatusAssumption
<1>1. CASE Start
  <2>1. pc = "start" /\ pc' = "scan" /\ UNCHANGED terminal
    BY <1>1 DEF Start
  <2>2. Open' = Open /\ Passed
    BY <2>1 DEF Open, Passed
  <2> QED
    BY <2>1, <2>2, StaysLaid
<1>2. CASE ScanDir
  <2>1. pc = "scan" /\ pc' = pc
    BY <1>2 DEF ScanDir
  <2>2. Open = 1 /\ Open' = 1 /\ Passed
    BY <2>1 DEF Open, Passed
  <2>3. CASE dirs' = dirs + 1 /\ MeterWrite(1, dirs + 1)
    <3>1. dirs + 1 \in Nat
      BY DEF TypeOK
    <3> QED
      BY <2>2, <2>3, <3>1, WriteLaid
  <2>4. CASE UNCHANGED terminal
    BY <2>2, <2>4, StaysLaid
  <2> QED
    BY <1>2, <2>3, <2>4 DEF ScanDir
<1>3. CASE MainLog
  <2>1. /\ PrintLog(Main) /\ UNCHANGED <<dirs, files>>
        /\ (pc' = pc \/ (pc = "fatal" /\ pc' = "exited"))
    BY <1>3 DEF MainLog
  <2>2. Open' = Open /\ Passed
    BY <2>1 DEF Open, Passed
  <2> QED
    BY <2>1, <2>2, LogLaid
<1>4. CASE CloseScanMeter
  <2>1. pc = "scan" /\ pc' = "scanned" /\ MeterClose /\ UNCHANGED <<dirs, files>>
    BY <1>4 DEF CloseScanMeter
  <2>2. Open = 1 /\ Open' = 2
    BY <2>1 DEF Open
  <2>3. dirs' > 0 => Shows(Cleared \o meter, 1, dirs')
    <3> SUFFICES ASSUME dirs > 0 PROVE Shows(Cleared \o meter, 1, dirs)
      BY <2>1
    <3>1. meter # << >> /\ meter[1].n = dirs
      BY <2>1 DEF ShownInv, ScanShown
    <3>2. PICK n \in Nat : meter = Text(1, n, Rows) /\ Rows \in Heights
      BY <2>2, <3>1 DEF Layout, Drawn
    <3>3. n = dirs
      BY <3>1, <3>2, TextStarts
    <3> QED
      BY <3>2, <3>3, TextShown, ClearedTyped
  <2>4. pc' \notin {"write", "close", "closed"}
    BY <2>1
  <2> QED
    BY <2>1, <2>2, <2>3, <2>4, CloseLaid
<1>5. CASE Fatal
  <2>1. /\ pc \in {"scanned", "write"} /\ pc' = "fatal" /\ UNCHANGED <<terminal, dirs, files>>
    BY <1>5 DEF Fatal
  <2>2. meter = << >> /\ Open <= Open' /\ Passed
    BY <2>1 DEF Open, Passed, ShownInv
  <2> QED
    BY <2>1, <2>2, StaysLaid
<1>6. CASE FlushProgress
  <2>1. pc = "scanned" /\ pc' = "hash" /\ MeterWrite(2, 0) /\ UNCHANGED <<dirs, files>>
    BY <1>6 DEF FlushProgress
  <2>2. Open = 2 /\ Open' = 2 /\ Passed
    BY <2>1 DEF Open, Passed
  <2> QED
    BY <2>1, <2>2, WriteLaid
<1>7. CASE CloseHashMeter
  <2>1. /\ pc = "hash" /\ pc' = "write" /\ MeterClose /\ UNCHANGED <<dirs, files>>
        /\ \A w \in Workers : wpc[w] = "done"
    BY <1>7 DEF CloseHashMeter
  <2>2. Open = 2 /\ Open' = 3
    BY <2>1 DEF Open
  <2>3. dirs' > 0 => Shows(Cleared \o meter, 1, dirs')
    <3>1. dirs > 0 => Shows(Cleared, 1, dirs)
      BY <2>1 DEF Layout
    <3>2. meter \in Seq(Line)
      BY DEF TypeOK
    <3> QED
      BY <2>1, <3>1, <3>2, ShowsMore, ClearedTyped
  <2>4. Shows(Cleared \o meter, 2, files')
    <3>1. progLock = Free
      BY <2>1 DEF ShownInv, Formatted, TypeOK
    <3>2. meter # << >> /\ meter[1].n \in Nat /\ files = meter[1].n
      BY <2>1, <3>1, MeterNumber DEF ShownInv, HashShown, Behind
    <3>3. PICK n \in Nat : meter = Text(2, n, Rows) /\ Rows \in Heights
      BY <2>2, <3>2 DEF Layout, Drawn
    <3>4. n = files
      BY <3>2, <3>3, TextStarts
    <3> QED
      BY <2>1, <3>3, <3>4, TextShown, ClearedTyped
  <2> QED
    BY <2>1, <2>2, <2>3, <2>4, CloseLaid
<1>8. CASE CloseManager \/ RestoreLogger
  <2>1. /\ pc \in {"write", "close"} /\ pc' \in {"close", "closed"}
        /\ UNCHANGED <<logged, due, dirs, files>>
        /\ (screen' = Cleared \o meter /\ meter' = meter) \/ (screen' = screen /\ meter' = << >>)
    BY <1>8 DEF CloseManager, RestoreLogger
  <2>2. meter = << >> /\ screen = Cleared /\ Cleared \in Seq(Line)
    <3>1. meter = << >>
      BY <2>1 DEF ShownInv
    <3> QED
      BY <3>1, ClosedMeans, ClearedTyped
  <2>3. Cleared \o << >> = Cleared
    BY <2>2, ConcatEmptySeq
  <2>4. UNCHANGED terminal
    BY <2>1, <2>2, <2>3 DEF terminal
  <2>5. Open' = Open /\ Passed
    BY <2>1 DEF Open, Passed
  <2> QED
    BY <2>4, <2>5, StaysLaid
<1> QED
  BY <1>1, <1>2, <1>3, <1>4, <1>5, <1>6, <1>7, <1>8 DEF MainStep

LEMMA WorkerLaid ==
    ASSUME OneHeight, Lined, NEW w \in Workers, Worker(w)
    PROVE  Layout'
<1> TypeOK /\ Counts /\ ShownInv /\ Layout
  BY DEF Lined, Shown, TInv
<1>1. pc = "hash" /\ pc' = pc /\ dirs' = dirs
  BY DEF Counts, Worker, HashFile, StartLog, WorkerLog, Update, Flush
<1>2. Open = 2 /\ Open' = 2 /\ Passed
  BY <1>1 DEF Open, Passed
<1>3. CASE HashFile(w) \/ StartLog(w) \/ Update(w)
  <2>1. UNCHANGED terminal
    BY <1>3 DEF HashFile, StartLog, Update
  <2> QED
    BY <1>2, <2>1, StaysLaid
<1>4. CASE WorkerLog(w)
  <2>1. PrintLog(w)
    BY <1>4 DEF WorkerLog
  <2> QED
    BY <1>2, <2>1, LogLaid
<1>5. CASE Flush(w)
  <2>1. MeterWrite(2, text[w])
    BY <1>5 DEF Flush
  <2>2. text[w] \in Nat
    BY StatusAssumption DEF TypeOK
  <2> QED
    BY <1>2, <2>1, <2>2, WriteLaid
<1> QED
  BY <1>3, <1>4, <1>5 DEF Worker

LEMMA InitLaid == Init => Lined
<1> SUFFICES ASSUME Init PROVE Lined
  OBVIOUS
<1>1. Shown /\ TypeOK
  BY InitShown DEF Shown, TInv
<1>2. screen = << >> /\ meter = << >> /\ logged = 0 /\ due = TRUE /\ pc = "start" /\ dirs = 0
  BY DEF Init
<1>3. Cleared = << >>
  BY <1>1, <1>2, ClosedMeans
<1>4. Len(<< >>) = 0 /\ Messages(<< >>) = {} /\ 1..0 = {}
  BY DEF Messages
<1>5. Kept(<< >>, 0) /\ Together(<< >>) /\ Before(<< >>, Open)
  BY <1>4 DEF Kept, Together, Before
<1>6. Layout
  BY <1>2, <1>3, <1>5 DEF Layout
<1> QED
  BY <1>1, <1>6 DEF Lined

LEMMA NextLaid == OneHeight /\ Lined /\ [Next]_vars => Lined'
<1> SUFFICES ASSUME OneHeight, Lined, [Next]_vars PROVE Lined'
  OBVIOUS
<1>1. Shown'
  BY NextShown DEF Lined
<1>2. Layout'
  <2>1. CASE MainStep
    BY <2>1, MainLaid
  <2>2. CASE \E w \in Workers : Worker(w)
    BY <2>2, WorkerLaid
  <2>3. CASE UNCHANGED vars
    <3>1. UNCHANGED <<terminal, pc, dirs, files>>
      BY <2>3 DEF vars
    <3>2. Open' = Open /\ Passed
      BY <3>1 DEF Open, Passed
    <3> QED
      BY <3>1, <3>2, StaysLaid DEF Lined, Shown, TInv
  <2> QED
    BY <2>1, <2>2, <2>3 DEF Next
<1> QED
  BY <1>1, <1>2 DEF Lined

\* What Layout says of the terminal.
LEMMA LinedShows == Lined => LogKept /\ OneMeter /\ LastTextShown
<1> SUFFICES ASSUME Lined PROVE LogKept /\ OneMeter /\ LastTextShown
  OBVIOUS
<1> TypeOK /\ ShownInv /\ Layout
  BY DEF Lined, Shown, TInv
<1> DEFINE c == Cleared
<1>1. c \in Seq(Line) /\ logged \in Nat
  BY ClearedTyped DEF TypeOK
<1>2. Kept(c, logged) /\ Together(c) /\ Before(c, Open)
  BY DEF Layout
<1>3. CASE meter = << >>
  <2>1. screen = c
    BY <1>3, ClosedMeans
  <2>2. LogKept
    BY <1>2, <2>1 DEF LogKept, Kept, Messages
  <2>3. OneMeter
    BY <1>2, <1>3, <2>1 DEF OneMeter, Together
  <2>4. LastTextShown
    BY <2>1 DEF LastTextShown, Layout, Shows
  <2> QED
    BY <2>2, <2>3, <2>4
<1>4. CASE meter # << >>
  <2>1. Rows \in Heights /\ Drawn /\ Open \in {1, 2}
    <3>1. pc \in {"scan", "hash"}
      BY <1>4 DEF ShownInv
    <3> QED
      BY <1>4, <3>1, OpenNumber DEF Layout
  <2>2. PICK n \in Nat : \E m \in Nat : /\ meter = Text(Open, n, Rows)
                                        /\ screen = Cleared \o Text(Open, m, Rows)
    BY <2>1 DEF Drawn
  <2>3. PICK m \in Nat : meter = Text(Open, n, Rows) /\ screen = c \o Text(Open, m, Rows)
    BY <2>2
  <2> DEFINE t == Text(Open, m, Rows)
  <2>4. t \in Seq(Line) /\ screen = c \o t
    BY <2>1, <2>3, LinesOfText
  <2> HIDE DEF c
  <2>5. Kept(screen, logged) /\ Together(screen)
    BY <1>1, <1>2, <2>1, <2>3, KeptText, TextBelow
  <2>6. LogKept
    BY <2>5 DEF LogKept, Kept, Messages
  <2>7. screen # << >> /\ screen[Len(screen)].of = meter[1].of
    <3>1. /\ Len(t) = Rows /\ Rows \in Nat /\ Rows >= 1 /\ Len(c) \in Nat
          /\ \A i \in 1..Rows : t[i].of = Open
      BY <1>1, <2>1, LinesOfText, LenProperties
    <3> HIDE DEF t
    <3>2. /\ Len(screen) = Len(c) + Rows
          /\ \A i \in Len(c) + 1..Len(screen) : screen[i] = t[i - Len(c)]
      BY <1>1, <2>4, <3>1, Below
    <3>3. /\ Len(screen) \in Len(c) + 1..Len(screen) /\ Len(screen) - Len(c) = Rows
          /\ Rows \in 1..Rows /\ Len(screen) > 0
      BY <3>1, <3>2
    <3>4. screen[Len(screen)].of = Open
      BY <3>1, <3>2, <3>3
    <3>5. meter[1].of = Open
      BY <2>1, <2>3, TextStarts
    <3>6. screen # << >>
      BY <3>3
    <3> QED
      BY <3>4, <3>5, <3>6
  <2>8. OneMeter
    BY <2>5, <2>7 DEF OneMeter, Together
  <2>9. \A k, n1 : Shows(c, k, n1) => Shows(screen, k, n1)
    BY <1>1, <2>4, ShowsMore
  <2>10. LastTextShown
    <3>1. /\ pc \notin {"start", "scan"} /\ dirs > 0 => Shows(c, 1, dirs)
          /\ pc \in {"write", "close", "closed"} => Shows(c, 2, files)
      BY DEF Layout, c
    <3>2. /\ pc \notin {"start", "scan"} /\ dirs > 0 => Shows(screen, 1, dirs)
          /\ pc \in {"write", "close", "closed"} => Shows(screen, 2, files)
      BY Zenon, <2>9, <3>1
    <3> QED
      BY Zenon, <3>2 DEF LastTextShown, Shows
  <2> QED
    BY <2>6, <2>8, <2>10
<1> QED
  BY <1>3, <1>4

\* The messages of the logger stay on the terminal, all of them, in their order.
THEOREM LogIsKept == ASSUME OneHeight PROVE Spec => []LogKept
<1>1. OneHeight
  OBVIOUS
<1>2. Lined /\ [Next]_vars => Lined'
  BY <1>1, NextLaid
<1>3. Lined => LogKept
  BY LinedShows
<1> QED
  BY <1>2, <1>3, InitLaid, PTL DEF Spec

\* Of each meter there is one text at most, and the open one is the last.
THEOREM OneMeterShown == ASSUME OneHeight PROVE Spec => []OneMeter
<1>1. OneHeight
  OBVIOUS
<1>2. Lined /\ [Next]_vars => Lined'
  BY <1>1, NextLaid
<1>3. Lined => OneMeter
  BY LinedShows
<1> QED
  BY <1>2, <1>3, InitLaid, PTL DEF Spec

\* What a meter said last can be read after it was closed.
THEOREM LastTextIsShown == ASSUME OneHeight PROVE Spec => []LastTextShown
<1>1. OneHeight
  OBVIOUS
<1>2. Lined /\ [Next]_vars => Lined'
  BY <1>1, NextLaid
<1>3. Lined => LastTextShown
  BY LinedShows
<1> QED
  BY <1>2, <1>3, InitLaid, PTL DEF Spec

=============================================================================
